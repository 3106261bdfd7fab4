--------------------------- MODULE MC_CoreCompiler ---------------------------
(* Options strings of up to three tokens over the separate and joined     *)
(* -I / -D forms, a word that can only be an argument, two flags handled  *)
(* on their own, one sticky flag and an unknown token; two builds on one  *)
(* Compiler, so that what one build leaves behind meets the next.         *)
EXTENDS CoreCompiler

MCTokens == {"-I", "-D", "-Ia", "-Db", "a", "-cl-opt-disable", "-Werror",
             "-w", "-x"}
MCPrefix2 == [t \in MCTokens |->
                CASE t = "-Ia" -> "-I" [] t = "-Db" -> "-D"
                  [] t = "a" -> "a"
                  [] t \in {"-cl-opt-disable"} -> "-c"
                  [] t = "-Werror" -> "-W"
                  [] OTHER -> t]
MCRest == [t \in MCTokens |->
             CASE t = "-Ia" -> "a" [] t = "-Db" -> "b"
               [] t = "-cl-opt-disable" -> "cl-opt-disable"
               [] t = "-Werror" -> "error"
               [] OTHER -> ""]
MCExtensionNames == <<"cl_khr_fp64">>
=============================================================================
