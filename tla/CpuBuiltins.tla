----------------------------- MODULE CpuBuiltins -----------------------------
(***************************************************************************)
(* The integer builtins that src/include/cpu.h defines inline for kernels *)
(* compiled for the CPU device: clz, abs and upsample, one overload per C *)
(* type. A value is an integer in its type's range, and a conversion to a *)
(* w-bit type keeps it modulo 2^w (two's complement for a signed type).   *)
(* Each overload gives the SET of results a build can produce: a clang    *)
(* builtin whose result is undefined, __builtin_clzs(0), gives 16 where   *)
(* it becomes lzcnt and whatever the destination register held where it  *)
(* becomes bsr; every other result is a single value.                     *)
(*                                                                         *)
(* The references are the OpenCL C definitions: the number of leading     *)
(* zero bits of the operand's w-bit pattern, |x| as the unsigned type of  *)
(* the same width, and hi * 2^w + lo.                                     *)
(***************************************************************************)
EXTENDS Integers, Bitwise

(* The types whose every value TLC can represent: the overloads for int, *)
(* uint, long and ulong are the same expressions at 32 and 64 bits.       *)
Types == {"char", "uchar", "short", "ushort"}

Width == [t \in Types |-> IF t \in {"char", "uchar"} THEN 8 ELSE 16]

IsSigned(t) == t \in {"char", "short"}

(* Conversion of an integer to the unsigned or signed w-bit type.         *)
ToUnsigned(v, w) == v % (2^w)
ToSigned(v, w) == LET u == v % (2^w) IN IF u >= 2^(w - 1) THEN u - 2^w ELSE u

ToType(t, v) == IF IsSigned(t) THEN ToSigned(v, Width[t]) ELSE ToUnsigned(v, Width[t])

(* Every value of type t.                                                  *)
Inputs(t) == {ToType(t, u) : u \in 0..(2^Width[t] - 1)}

-----------------------------------------------------------------------------
RECURSIVE LeadingZeros(_, _)
(* The zero bits above the highest set bit of u in a w-bit word.          *)
LeadingZeros(u, w) ==
    IF w = 0 \/ u >= 2^(w - 1) THEN 0 ELSE 1 + LeadingZeros(u, w - 1)

(* __builtin_clzs on its unsigned short operand: undefined for 0, where  *)
(* any 16-bit value can come back.                                         *)
BuiltinClzs(u) == IF u = 0 THEN 0..65535 ELSE {LeadingZeros(u, 16)}

(* clz(char v): (v<0 ? 0 : (__builtin_clzs(v)-8)), the result a char.     *)
ClzChar(v) ==
    IF v < 0 THEN {0} ELSE {ToSigned(r - 8, 8) : r \in BuiltinClzs(v)}

(* A mutant: clz(uchar v) without its test for 0, as the char overload. *)
ClzUCharNoZeroTest(v) == {ToUnsigned(r - 8, 8) : r \in BuiltinClzs(v)}

(* clz(uchar v): (v==0 ? 8 : __builtin_clzs(v)- 8).                        *)
ClzUChar(v) ==
    IF v = 0 THEN {8} ELSE {ToUnsigned(r - 8, 8) : r \in BuiltinClzs(v)}

(* clz(short v), clz(ushort v): (v==0 ? 16 : __builtin_clzs(v)), the     *)
(* operand converted to unsigned short.                                    *)
ClzShort(v) == IF v = 0 THEN {16} ELSE BuiltinClzs(ToUnsigned(v, 16))

Clz(t, v) ==
    CASE t = "char"  -> ClzChar(v)
      [] t = "uchar" -> ClzUChar(v)
      [] OTHER       -> ClzShort(v)

(* The number of leading zero bits of v's w-bit pattern.                  *)
RefClz(v, w) ==
    LET u == ToUnsigned(v, w) IN
    CHOOSE n \in 0..w : IF n = w THEN u = 0
                        ELSE 2^(w - n - 1) <= u /\ u < 2^(w - n)

-----------------------------------------------------------------------------
(* A mutant: abs of a signed type returned in the signed type itself.     *)
AbsSignedResult(t, x) ==
    IF IsSigned(t) THEN ToSigned(IF x < 0 THEN -x ELSE x, Width[t]) ELSE x

(* abs(char x), abs(short x): __builtin_abs on the promoted int, which    *)
(* cannot overflow for these, converted to uchar / ushort; abs of an      *)
(* unsigned type returns x.                                                *)
Abs(t, x) ==
    IF IsSigned(t) THEN ToUnsigned(IF x < 0 THEN -x ELSE x, Width[t]) ELSE x

RefAbs(x) == IF x < 0 THEN -x ELSE x

-----------------------------------------------------------------------------
(* The overloads of upsample checked: hi a char or uchar, lo a uchar,    *)
(* the result a short or ushort.                                           *)
UpsampleTypes == {"char", "uchar"}

Wider == [t \in UpsampleTypes |-> IF t = "char" THEN "short" ELSE "ushort"]

(* A mutant: lo taken as the signed type before it is or-ed in.          *)
UpsampleSignedLo(t, x, y) ==
    LET w == Width[t] IN
    ToType(Wider[t], ToUnsigned(x * 2^w, 2 * w) | ToUnsigned(ToSigned(y, w), 2 * w))

(* upsample(char x, uchar y): (short)x << 8 | y, and the ushort one: the  *)
(* shift is done in the promoted int, lo is zero-extended, and the or of *)
(* the 16-bit patterns is converted to the result type.                   *)
Upsample(t, x, y) ==
    LET w == Width[t] IN
    ToType(Wider[t], ToUnsigned(x * 2^w, 2 * w) | y)

RefUpsample(t, x, y) == x * 2^Width[t] + y

-----------------------------------------------------------------------------
(* clz counts the leading zero bits of every overload's operand, on every *)
(* input but one: clz((char)0) reaches __builtin_clzs(0) (cpu.h:115),     *)
(* whose result the build decides, while the uchar overload tests for 0  *)
(* first. The property pins the undefined case to exactly that input.     *)
ClzAgrees ==
    \A t \in Types : \A v \in Inputs(t) :
        Clz(t, v) = {RefClz(v, Width[t])} <=> <<t, v>> # <<"char", 0>>

(* abs returns |x| as the unsigned type of x's width for every overload, *)
(* the minimum of each signed type included, whose |x| the signed type    *)
(* cannot hold.                                                            *)
AbsAgrees ==
    \A t \in Types : \A x \in Inputs(t) : Abs(t, x) = RefAbs(x)

(* upsample(hi, lo) is hi * 2^8 + lo for every pair of values, negative *)
(* hi and lo with its top bit set included.                               *)
UpsampleAgrees ==
    \A t \in UpsampleTypes : \A x \in Inputs(t), y \in Inputs("uchar") :
        Upsample(t, x, y) = RefUpsample(t, x, y)
=============================================================================
