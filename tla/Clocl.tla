-------------------------------- MODULE Clocl --------------------------------
(***************************************************************************)
(* The offline compiler clocl: process_options (src/clocl/options.cpp)     *)
(* turns the command line into the global cl_options string and the file  *)
(* lists, and Compiler::compile (src/clocl/compiler.cpp) parses that       *)
(* string into clang's option objects. main() is not among the sources; as *)
(* its globals say, it compiles files_clc[0] with cl_options.             *)
(*                                                                         *)
(* An argument is abstracted to what getopt_long_only("-gwI:D:", ...)      *)
(* returns for it: c ("0" for a long option, "1" for a non-option, a short *)
(* option letter or "?"), the long option's name, optarg, the argument's  *)
(* text argv[this_option_optind]; a file's text is its path, a sequence  *)
(* of characters, which fs_ext (src/clocl/file_manip.cpp) takes apart.   *)
(* A string built with += " " is kept as its sequence of tokens.          *)
(***************************************************************************)
EXTENDS BuildOptions

CONSTANTS
    Args,      \* the arguments a command line is made of
    MaxArgs    \* bound on the arguments of one command line

ASSUME \A a \in Args : DOMAIN a = {"c", "name", "optarg", "text"}

(* The long options stored straight into a flag variable (opt_help ...).  *)
FlagOptions == {"help", "verbose", "keep", "debug", "lib", "txt", "builtin"}

(* The flags clocl's compile() acts on, with the option fields they set.  *)
FlagEffect ==
    [t \in {"-cl-single-precision-constant", "-cl-mad-enable",
            "-cl-unsafe-math-optimizations", "-cl-finite-math-only",
            "-cl-fast-relaxed-math", "-w"} |->
       CASE t = "-cl-single-precision-constant" -> {"SinglePrecisionConstants"}
         [] t = "-cl-mad-enable"                -> {"LessPreciseFPMAD"}
         [] t = "-cl-unsafe-math-optimizations" -> {"UnsafeFPMath"}
         [] t = "-cl-finite-math-only"          -> {"NoInfsFPMath", "NoNaNsFPMath"}
         [] t = "-cl-fast-relaxed-math"         ->
                {"UnsafeFPMath", "NoInfsFPMath", "NoNaNsFPMath", "FastRelaxedMath"}
         [] OTHER                               -> {"IgnoreWarnings"}]

VARIABLES
    stage,        \* "start", "parsed", "compiled", "exited", "undefined"
    argv,         \* the command line
    opts,         \* the opt_* globals that are set
    cl_options,   \* cl_options
    cl_incdef,    \* cl_incdef
    opts_other,   \* opts_other
    files_clc,    \* files_clc
    files_c,      \* files_c
    files_other,  \* files_other
    compiled      \* what compile() put into clang's option objects

vars == <<stage, argv, opts, cl_options, cl_incdef, opts_other, files_clc,
          files_c, files_other, compiled>>

(* Compiler::Compiler(): p_module(0), p_optimize(true); nothing parsed.   *)
NewCompiler == [paths |-> <<>>, macros |-> <<>>, fields |-> {},
                werror |-> FALSE, optimize |-> TRUE, ok |-> FALSE]

Init ==
    /\ stage = "start"
    /\ argv = <<>>
    /\ opts = {}
    /\ cl_options = <<>> /\ cl_incdef = <<>> /\ opts_other = <<>>
    /\ files_clc = <<>> /\ files_c = <<>> /\ files_other = <<>>
    /\ compiled = NewCompiler

-----------------------------------------------------------------------------
(* The extensions process_options compares fs_ext's result with.         *)
EXT_CLC == <<".", "c", "l", "c">>
EXT_CL == <<".", "c", "l">>
EXT_C == <<".", "c">>

IsDot(ch) == ch = "."
IsSlash(ch) == ch = "/"

FsExtFirstDot(path) ==
    LET ext_begin == SelectInSeq(path, IsDot) IN
    IF ext_begin = 0 THEN <<>> ELSE SubSeq(path, ext_begin, Len(path))

(* fs_ext: from the last '.' of the whole path to its end, or "" when     *)
(* rfind finds none (npos, stored in an int, still compares equal).       *)
FsExt(path) ==
    LET ext_begin == SelectLastInSeq(path, IsDot) IN
    IF ext_begin = 0 THEN <<>> ELSE SubSeq(path, ext_begin, Len(path))

IsKernelSourceClcOnly(ext) == ext = EXT_CLC

(* The extensions whose files go to files_clc (options.cpp lines 188-189). *)
IsKernelSource(ext) == ext \in {EXT_CLC, EXT_CL}

IncDefTokenNoDash(c, optarg) == c \o optarg

(* The token cl_incdef gets for -D or -I: " -" then the letter then optarg. *)
IncDefToken(c, optarg) == "-" \o c \o optarg

(* One iteration of the getopt loop (options.cpp lines 153-215) on the     *)
(* globals it builds.                                                      *)
OptionStep(g, a) ==
    CASE a.c = "0" /\ a.name \in FlagOptions ->
              [g EXCEPT !.opts = @ \cup {a.name}]
      [] a.c = "0" /\ a.name = "cl-std" ->
              [g EXCEPT !.cl_options = Append(@, "-cl-std=" \o a.optarg)]
      [] a.c = "0" ->
              [g EXCEPT !.opts = @ \cup (IF a.name = "Werror" THEN {"Werror"}
                                         ELSE IF a.name = "cl-opt-disable"
                                              THEN {"debug"} ELSE {}),
                        !.cl_options = Append(@, a.text)]
      [] a.c = "1" /\ IsKernelSource(FsExt(a.text)) ->
              [g EXCEPT !.files_clc = Append(@, a.text)]
      [] a.c = "1" /\ FsExt(a.text) = EXT_C ->
              [g EXCEPT !.files_c = Append(@, a.text)]
      [] a.c = "1" -> [g EXCEPT !.files_other = Append(@, a.text)]
      [] a.c = "g" -> [g EXCEPT !.opts = @ \cup {"debug"}]
      [] a.c = "w" -> [g EXCEPT !.opts = @ \cup {"w"},
                                !.cl_options = Append(@, "-w")]
      [] a.c \in {"D", "I"} ->
              [g EXCEPT !.cl_incdef = Append(@, IncDefToken(a.c, a.optarg))]
      [] OTHER -> [g EXCEPT !.opts_other = Append(@, a.text)]

NoGlobals == [opts |-> {}, cl_options |-> <<>>, cl_incdef |-> <<>>,
              opts_other |-> <<>>, files_clc |-> <<>>, files_c |-> <<>>,
              files_other |-> <<>>]

(* print_options: the flags, the option strings and files_clc[0], which  *)
(* std::vector::operator[] reads whether or not the list is empty.       *)
PrintOptions(g) == IF g.files_clc = <<>> THEN "undefined" ELSE "parsed"

(* print_help: the usage screen, then exit(-1).                           *)
PrintHelp == "exited"

(* process_options(argc, argv): the loop, then print_options when         *)
(* verbose, print_help when help, then cl_incdef is appended.             *)
ProcessOptions(args) ==
    LET g == FoldLeft(OptionStep, NoGlobals, args) IN
    /\ stage = "start"
    /\ argv' = args
    /\ opts' = g.opts
    /\ files_clc' = g.files_clc /\ files_c' = g.files_c
    /\ files_other' = g.files_other /\ opts_other' = g.opts_other
    /\ cl_incdef' = g.cl_incdef
    /\ stage' = LET s == IF "verbose" \in g.opts THEN PrintOptions(g)
                                                ELSE "parsed"
                IN IF s = "parsed" /\ "help" \in g.opts THEN PrintHelp ELSE s
    /\ cl_options' = g.cl_options \o g.cl_incdef
    /\ UNCHANGED compiled

(* One iteration of compile()'s option loop (compiler.cpp lines 140-200): *)
(* after "-D" every later token is also added as a macro, since inD is    *)
(* never cleared; tokens it does not know are skipped.                     *)
CompileStep(st, t) ==
    IF st.inI THEN [st EXCEPT !.paths = Append(@, t), !.inI = FALSE]
    ELSE LET s == IF st.inD THEN [st EXCEPT !.macros = Append(@, t)] ELSE st
         IN IF t = "-I" THEN [s EXCEPT !.inI = TRUE]
            ELSE IF t = "-D" THEN [s EXCEPT !.inD = TRUE]
            ELSE IF t = "-cl-opt-disable" THEN [s EXCEPT !.optimize = FALSE]
            ELSE IF t = "-Werror" THEN [s EXCEPT !.werror = TRUE]
            ELSE IF t \in DOMAIN FlagEffect
                 THEN [s EXCEPT !.fields = @ \cup FlagEffect[t]]
            ELSE s

NewParse == [inI |-> FALSE, inD |-> FALSE, paths |-> <<>>, macros |-> <<>>,
             fields |-> {}, werror |-> FALSE, optimize |-> TRUE]

(* A mutant: setWarningsAsErrors applied with Werror's value before the  *)
(* option loop has read the tokens.                                        *)
RunClangWerrorBeforeParse(st, outcome) ==
    [paths |-> st.paths, macros |-> st.macros, fields |-> st.fields,
     optimize |-> st.optimize,
     werror |-> NewParse.werror,
     ok |-> outcome = "ok"]

(* The rest of compile(): createDiagnostics, which always installs an    *)
(* engine, so the hasDiagnostics() return is never taken;                 *)
(* setWarningsAsErrors(Werror); feed the source and run                   *)
(* EmitLLVMOnlyAction; on failure return false with p_module still 0,    *)
(* else p_module = act->takeModule() and return true. What clang makes of *)
(* the source is its outcome: "failed" or "ok".                          *)
RunClang(st, outcome) ==
    [paths |-> st.paths, macros |-> st.macros, fields |-> st.fields,
     optimize |-> st.optimize, werror |-> st.werror, ok |-> outcome = "ok"]

ClangOutcomes == {"failed", "ok"}

(* compile(cl_options, source, files_clc[0]): p_options = options, the   *)
(* option loop, then clang.                                                *)
Compile ==
    LET st == FoldLeft(CompileStep, NewParse, cl_options) IN
    /\ stage = "parsed" /\ files_clc # <<>>
    /\ stage' = "compiled"
    /\ \E outcome \in ClangOutcomes : compiled' = RunClang(st, outcome)
    /\ UNCHANGED <<argv, opts, cl_options, cl_incdef, opts_other, files_clc,
                   files_c, files_other>>

(* Nothing is left to do once clocl has compiled, exited or failed.       *)
Done ==
    /\ \/ stage \in {"compiled", "exited", "undefined"}
       \/ stage = "parsed" /\ files_clc = <<>>
    /\ UNCHANGED vars

Next ==
    \/ \E args \in BoundedSeq(Args, MaxArgs) : ProcessOptions(args)
    \/ Compile
    \/ Done

Spec == Init /\ [][Next]_vars

-----------------------------------------------------------------------------
(* Types of the globals.                                                   *)
TypeOK ==
    /\ stage \in {"start", "parsed", "compiled", "exited", "undefined"}
    /\ opts \subseteq FlagOptions \cup {"Werror", "w"}
    /\ cl_options \in Seq(Tokens) /\ cl_incdef \in Seq(Tokens)
    /\ compiled.werror \in BOOLEAN /\ compiled.optimize \in BOOLEAN
    /\ compiled.ok \in BOOLEAN

Texts(s) == [i \in DOMAIN s |-> s[i].text]
(* The extension of a path's file name: what follows the last '.' after   *)
(* the last '/', or none.                                                  *)
NameExt(path) ==
    LET name == SubSeq(path, SelectLastInSeq(path, IsSlash) + 1, Len(path))
        dot == SelectLastInSeq(name, IsDot)
    IN IF dot = 0 THEN <<>> ELSE SubSeq(name, dot, Len(name))

FilesWith(exts) == SelectSeq(argv, LAMBDA a : a.c = "1" /\ NameExt(a.text) \in exts)
OtherFiles == SelectSeq(argv, LAMBDA a : a.c = "1" /\
                                 NameExt(a.text) \notin {EXT_CLC, EXT_CL, EXT_C})

(* Every file named on the command line lands, in order, in the list the  *)
(* extension of its file name selects, whatever dots its directories or   *)
(* its stem contain, and every unrecognised option in opts_other.         *)
FilesPartitioned ==
    stage # "start" =>
      /\ files_clc = Texts(FilesWith({EXT_CLC, EXT_CL}))
      /\ files_c = Texts(FilesWith({EXT_C}))
      /\ files_other = Texts(OtherFiles)
      /\ opts_other = Texts(SelectSeq(argv, LAMBDA a : a.c = "?"))

Given(t) == \E i \in DOMAIN argv : argv[i].text = t

(* The clocl options that are also build options take effect in a        *)
(* compile that succeeded, exactly when given: -Werror makes warnings     *)
(* errors, -cl-opt-disable turns the optimizer off and -w silences        *)
(* warnings. Each travels from getopt through cl_options to the token    *)
(* loop of Compiler::compile and on to clang's diagnostics.              *)
FlagsReachCompiler ==
    stage = "compiled" /\ compiled.ok =>
        /\ compiled.werror <=> Given("-Werror")
        /\ ~compiled.optimize <=> Given("-cl-opt-disable")
        /\ "IgnoreWarnings" \in compiled.fields <=> Given("-w")

(* Every -D name and -I dir given to clocl reaches the compiler as a macro *)
(* and an include directory (the help screen lists -D<name> and -I<dir>   *)
(* among the build options clocl passes on).                              *)
CommandLineReachesCompiler ==
    stage = "compiled" =>
        \A a \in ToSet(argv) :
            /\ a.c = "D" => a.optarg \in ToSet(compiled.macros)
            /\ a.c = "I" => a.optarg \in ToSet(compiled.paths)

=============================================================================
