------------------------------ MODULE MC_Clocl ------------------------------
(* Command lines of up to three arguments: a kernel file whose stem has a *)
(* dot, a C file and a file without extension in a directory whose name   *)
(* has one; -D and -I with an argument; -w, -Werror, -cl-opt-disable *)
(* and -cl-std=CL1.2; the flag options -v and -h; and an unknown option.  *)
EXTENDS Clocl

Arg(c, name, optarg, text) ==
    [c |-> c, name |-> name, optarg |-> optarg, text |-> text]

MCArgs ==
    { Arg("1", "", "", <<"k", ".", "x", ".", "c", "l">>),
      Arg("1", "", "", <<"h", ".", "c">>),
      Arg("1", "", "", <<"d", ".", "c", "l", "/", "k">>),
      Arg("D", "", "X", "-DX"), Arg("I", "", "inc", "-Iinc"),
      Arg("w", "", "", "-w"),
      Arg("0", "Werror", "", "-Werror"),
      Arg("0", "cl-opt-disable", "", "-cl-opt-disable"),
      Arg("0", "cl-std", "CL1.2", "-cl-std=CL1.2"),
      Arg("0", "verbose", "", "-v"), Arg("0", "help", "", "-h"),
      Arg("?", "", "", "-q") }

MCTokens == {"-DX", "-Iinc", "-w", "-Werror", "-cl-opt-disable",
             "-cl-std=CL1.2", "-I", "-D"}
MCPrefix2 == [t \in MCTokens |->
                CASE t = "-DX" -> "-D" [] t = "-Iinc" -> "-I"
                  [] t = "-Werror" -> "-W" [] t = "-w" -> "-w"
                  [] t \in {"-I", "-D"} -> t
                  [] OTHER -> "-c"]
MCRest == [t \in MCTokens |->
             CASE t = "-DX" -> "X" [] t = "-Iinc" -> "inc" [] OTHER -> ""]
=============================================================================
