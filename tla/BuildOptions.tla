---------------------------- MODULE BuildOptions ----------------------------
(***************************************************************************)
(* Build-option strings as the compilers see them: a sequence of           *)
(* whitespace-separated tokens (what `options_stream >> token` yields).    *)
(* A token is a model string; the only string operations the parsers use   *)
(* are comparison, the two-character prefix token.compare(0, 2, p) and the *)
(* remainder token.substr(2), given for every token by Prefix2 and Rest.  *)
(*                                                                         *)
(* RefParse is the reading of an options string that the OpenCL build     *)
(* options and spec section 5 describe: "-D name", "-Dname", "-I dir",     *)
(* "-Idir" and recognised flags; anything else, an unknown token or an     *)
(* option missing its argument, makes the string invalid. It is the        *)
(* reference the parsers of the two compilers are checked against.        *)
(***************************************************************************)
EXTENDS Naturals, Sequences, SequencesExt

CONSTANTS
    Tokens,     \* the tokens an options string is made of
    Prefix2,    \* Prefix2[t]: the first two characters of t
    Rest        \* Rest[t]: t without its first two characters

ASSUME /\ "-I" \in Tokens /\ "-D" \in Tokens
       /\ Prefix2 \in [Tokens -> STRING] /\ Rest \in [Tokens -> STRING]

(* Options strings of at most n tokens.                                   *)
OptionStrings(n) == BoundedSeq(Tokens, n)

(* A separate -I or -D with no token after it.                            *)
Dangling(s) == s # <<>> /\ Last(s) \in {"-I", "-D"}

(* The reference reading, given the flags the compiler recognises:        *)
(* include paths and macro definitions in order, the flags named, and      *)
(* whether the string is invalid.                                          *)
RECURSIVE RefParse(_, _)
RefParse(s, Flags) ==
    LET none == [paths |-> <<>>, macros |-> <<>>, flags |-> {},
                 invalid |-> FALSE]
        bad  == [none EXCEPT !.invalid = TRUE]
    IN
    IF s = <<>> THEN none
    ELSE LET t == Head(s) IN
    IF t \in {"-I", "-D"}
    THEN IF Len(s) = 1 THEN bad
         ELSE LET r == RefParse(Tail(Tail(s)), Flags) IN
              IF t = "-I" THEN [r EXCEPT !.paths = <<s[2]>> \o @]
                          ELSE [r EXCEPT !.macros = <<s[2]>> \o @]
    ELSE LET r == RefParse(Tail(s), Flags) IN
         CASE Prefix2[t] = "-I" -> [r EXCEPT !.paths = <<Rest[t]>> \o @]
           [] Prefix2[t] = "-D" -> [r EXCEPT !.macros = <<Rest[t]>> \o @]
           [] t \in Flags       -> [r EXCEPT !.flags = @ \cup {t}]
           [] OTHER             -> bad
=============================================================================
