------------------------- MODULE MC_CPUDeviceQueue -------------------------
(* Three workers, kernel launches of three and two slots and a map event. *)
EXTENDS CPUDeviceQueue, CpuBuiltins, TLC

CONSTANTS w1, w2, w3, k1, k2, m1

MCWorkers == {w1, w2, w3}
MCCmds == {k1, k2, m1}
MCKernels == {k1, k2}
MCSlots == [k \in MCKernels |-> IF k = k1 THEN 3 ELSE 2]

WorkerSymmetry == Permutations(MCWorkers)

(* The inline builtins of cpu.h share no state with the device: each of  *)
(* the following is constant, so it holds in every state exactly when it *)
(* holds in the initial one, where it is evaluated once.                 *)

(* clz counts the leading zero bits of its operand for every 8- and      *)
(* 16-bit overload and input except clz((char)0), which reaches          *)
(* __builtin_clzs(0) and gives whatever the build leaves (cpu.h:115).    *)
ClzMatchesReference == Init => ClzAgrees

(* abs returns |x| as the unsigned type of x's width, the minimum of     *)
(* char and short included.                                               *)
AbsMatchesReference == Init => AbsAgrees

(* upsample(hi, lo) is hi * 2^8 + lo for every char or uchar hi and      *)
(* uchar lo.                                                               *)
UpsampleMatchesReference == Init => UpsampleAgrees
=============================================================================
