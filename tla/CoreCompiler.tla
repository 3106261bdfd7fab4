---------------------------- MODULE CoreCompiler ----------------------------
(***************************************************************************)
(* The runtime's compiler wrapper, class Compiler of                       *)
(* src/src/core/compiler.cpp: one Compiler object and the clang            *)
(* CompilerInstance it owns, across successive compile() calls.           *)
(*                                                                         *)
(* compile() sets fixed code-generation, diagnostic, frontend, header and  *)
(* language options (abstracted away except the optimisation level),      *)
(* appends "clc.h" and the builtins header to the forced includes and the  *)
(* OpenCL header directory to the search path, parses the options string   *)
(* token by token into the CompilerInstance's option objects, adds the     *)
(* version macro and one macro per device extension, and runs clang.       *)
(* Option objects belong to the CompilerInstance, so what a call adds     *)
(* stays for the next call. The outcome of clang itself is an input.       *)
(* createDiagnostics always installs an engine, so the hasDiagnostics()   *)
(* early return (line 275) is never taken and is not an action.           *)
(***************************************************************************)
EXTENDS BuildOptions

CONSTANTS
    HeaderPath,       \* get_ocl_dsp() / "/usr/include/CL"
    BuiltinsHeader,   \* p_device->builtinsHeader()
    ExtensionNames,   \* the tokens of the device's CL_DEVICE_EXTENSIONS string
    MaxTokens,        \* bound on the tokens of one options string
    MaxBuilds         \* bound on compile() calls

CL_INVALID_BUILD_OPTIONS == -43

(* The sticky option fields each recognised flag sets to true (lines      *)
(* 197-256); -cl-opt-disable and -Werror are handled on their own.        *)
FlagEffect ==
    [t \in {"-cl-single-precision-constant", "-cl-mad-enable",
            "-cl-unsafe-math-optimizations", "-cl-finite-math-only",
            "-cl-fast-relaxed-math", "-cl-denorms-are-zero",
            "-cl-strict-aliasing", "-cl-no-signed-zeros", "-w",
            "-cl-std=CL1.1", "-cl-std=CL1.2", "-cl-kernel-arg-info"} |->
       CASE t = "-cl-single-precision-constant" -> {"SinglePrecisionConstants"}
         [] t = "-cl-mad-enable"                -> {"LessPreciseFPMAD"}
         [] t = "-cl-unsafe-math-optimizations" -> {"UnsafeFPMath"}
         [] t = "-cl-finite-math-only"          -> {"NoInfsFPMath", "NoNaNsFPMath"}
         [] t = "-cl-fast-relaxed-math"         ->
                {"UnsafeFPMath", "NoInfsFPMath", "NoNaNsFPMath", "FastRelaxedMath"}
         [] t = "-cl-strict-aliasing"           -> {"NoStructPathTBAA"}
         [] t = "-cl-no-signed-zeros"           -> {"NoSignedZeros"}
         [] t = "-w"                            -> {"IgnoreWarnings"}
         [] t = "-cl-kernel-arg-info"           -> {"EmitOpenCLArgMetadata"}
         [] OTHER                               -> {}]

RecognisedFlags == DOMAIN FlagEffect \cup {"-cl-opt-disable", "-Werror"}

VARIABLES
    p_options,      \* p_options: the options of the last call
    p_optimize,     \* p_optimize
    p_module,       \* p_module: 0, or the number of the call that made it
    header_paths,   \* HeaderSearchOptions user entries, in order
    includes,       \* PreprocessorOptions::Includes
    macro_defs,     \* PreprocessorOptions macros, in order
    fields,         \* codegen / lang / diag option fields set to true
    opt_level,      \* CodeGenOptions::OptimizationLevel
    werror,         \* warnings-as-errors of the diagnostics engine
    builds,         \* compile() calls so far
    ret             \* the value compile() returned last

vars == <<p_options, p_optimize, p_module, header_paths, includes,
          macro_defs, fields, opt_level, werror, builds, ret>>

Init ==
    /\ p_options = <<>>
    /\ p_optimize = TRUE
    /\ p_module = 0
    /\ header_paths = <<>>
    /\ includes = <<>>
    /\ macro_defs = <<>>
    /\ fields = {}
    /\ opt_level = 0
    /\ werror = FALSE
    /\ builds = 0
    /\ ret = 0

-----------------------------------------------------------------------------
(* One iteration of the option loop (lines 161-260) on the state of the    *)
(* parse: the pending -I / -D, Werror, and what the tokens so far have     *)
(* added. After an unknown token the loop has returned and the rest of     *)
(* the string is not looked at.                                            *)
NewParse == [inI |-> FALSE, inD |-> FALSE, werror |-> FALSE,
             optDisable |-> FALSE, paths |-> <<>>, macros |-> <<>>,
             fields |-> {}, invalid |-> FALSE]

ParseTokenKeepPending(st, t) ==
    IF st.invalid THEN st
    ELSE IF st.inI THEN [st EXCEPT !.paths = Append(@, t)]
    ELSE IF st.inD THEN [st EXCEPT !.macros = Append(@, t)]
    ELSE IF t = "-I" THEN [st EXCEPT !.inI = TRUE]
    ELSE IF Prefix2[t] = "-I" THEN [st EXCEPT !.paths = Append(@, Rest[t])]
    ELSE IF t = "-D" THEN [st EXCEPT !.inD = TRUE]
    ELSE IF Prefix2[t] = "-D" THEN [st EXCEPT !.macros = Append(@, Rest[t])]
    ELSE IF t = "-cl-opt-disable" THEN [st EXCEPT !.optDisable = TRUE]
    ELSE IF t = "-Werror" THEN [st EXCEPT !.werror = TRUE]
    ELSE IF t \in DOMAIN FlagEffect THEN [st EXCEPT !.fields = @ \cup FlagEffect[t]]
    ELSE [st EXCEPT !.invalid = TRUE]

ParseToken(st, t) ==
    IF st.invalid THEN st
    ELSE IF st.inI THEN [st EXCEPT !.paths = Append(@, t), !.inI = FALSE]
    ELSE IF st.inD THEN [st EXCEPT !.macros = Append(@, t), !.inD = FALSE]
    ELSE IF t = "-I" THEN [st EXCEPT !.inI = TRUE]
    ELSE IF Prefix2[t] = "-I" THEN [st EXCEPT !.paths = Append(@, Rest[t])]
    ELSE IF t = "-D" THEN [st EXCEPT !.inD = TRUE]
    ELSE IF Prefix2[t] = "-D" THEN [st EXCEPT !.macros = Append(@, Rest[t])]
    ELSE IF t = "-cl-opt-disable" THEN [st EXCEPT !.optDisable = TRUE]
    ELSE IF t = "-Werror" THEN [st EXCEPT !.werror = TRUE]
    ELSE IF t \in DOMAIN FlagEffect THEN [st EXCEPT !.fields = @ \cup FlagEffect[t]]
    ELSE [st EXCEPT !.invalid = TRUE]

ParseOptions(opts) == FoldLeft(ParseToken, NewParse, opts)

(* add_macrodefs_for_supported_opencl_extensions: one macro per token of  *)
(* the extensions string.                                                  *)
AddMacrodefs(m) == m \o ExtensionNames

BuildResultCLStatus(clang_ok) == IF clang_ok THEN 0 ELSE -11

(* The value compile() returns once the options are accepted: true (1)    *)
(* when ExecuteAction fails, false (0) when it succeeds.                   *)
BuildResult(clang_ok) == IF clang_ok THEN 0 ELSE 1

(* The rest of compile() once the loop accepts every token: the version    *)
(* and extension macros, -Werror handed to the diagnostics engine, and    *)
(* clang run on the source; the module is taken only when it succeeds.    *)
Build(st, clang_ok) ==
    /\ macro_defs' = AddMacrodefs(Append(macro_defs \o st.macros,
                                         "__OPENCL_C_VERSION__=120"))
    /\ werror' = st.werror
    /\ p_module' = IF clang_ok THEN builds + 1 ELSE p_module
    /\ ret' = BuildResult(clang_ok)

(* compile(options, source); clang_ok is whether ExecuteAction succeeds.   *)
(* Returns CL_INVALID_BUILD_OPTIONS from inside the loop, 1 (true) when    *)
(* clang fails and 0 (false) on success.                                   *)
Compile(opts, clang_ok) ==
    LET st == ParseOptions(opts) IN
    /\ builds < MaxBuilds
    /\ builds' = builds + 1
    /\ p_options' = opts
    /\ includes' = includes \o <<"clc.h", BuiltinsHeader>>
    /\ header_paths' = Append(header_paths, HeaderPath) \o st.paths
    /\ fields' = fields \cup st.fields
    /\ p_optimize' = (p_optimize /\ ~st.optDisable)
    /\ opt_level' = IF st.optDisable THEN 0 ELSE 2
    /\ IF st.invalid
       THEN /\ macro_defs' = macro_defs \o st.macros
            /\ ret' = CL_INVALID_BUILD_OPTIONS
            /\ UNCHANGED <<p_module, werror>>
       ELSE Build(st, clang_ok)

Next == \E opts \in OptionStrings(MaxTokens), clang_ok \in BOOLEAN :
            Compile(opts, clang_ok)

Spec == Init /\ [][Next]_vars

-----------------------------------------------------------------------------
(* Types; compile() returns one of its three results.                    *)
TypeOK ==
    /\ p_optimize \in BOOLEAN /\ werror \in BOOLEAN
    /\ p_module \in 0..builds /\ builds \in 0..MaxBuilds
    /\ opt_level \in {0, 2}
    /\ ret \in {0, 1, CL_INVALID_BUILD_OPTIONS}
    /\ includes \in Seq({"clc.h", BuiltinsHeader})

(* The reference reading of the last options string.                      *)
Ref == RefParse(p_options, RecognisedFlags)

(* compile() reads an options string with every argument in place the way *)
(* the OpenCL build options define it: it is rejected exactly when the    *)
(* reference finds it invalid, and otherwise the include directories and  *)
(* macros the call appended, the flag fields it set, its optimisation      *)
(* level and -Werror are those of the reference reading.                  *)
ParsedAsSpecified ==
    builds > 0 /\ ~Dangling(p_options) =>
        /\ (ret = CL_INVALID_BUILD_OPTIONS) <=> Ref.invalid
        /\ ret # CL_INVALID_BUILD_OPTIONS =>
             /\ IsSuffix(<<HeaderPath>> \o Ref.paths, header_paths)
             /\ IsSuffix(Ref.macros \o <<"__OPENCL_C_VERSION__=120">>
                             \o ExtensionNames, macro_defs)
             /\ UNION {FlagEffect[t] : t \in Ref.flags \cap DOMAIN FlagEffect}
                    \subseteq fields
             /\ werror = ("-Werror" \in Ref.flags)
             /\ opt_level = IF "-cl-opt-disable" \in Ref.flags THEN 0 ELSE 2

(* The options in force after a compile() are those of its own options    *)
(* string, and none of a string it rejected: optimize(), the flag fields  *)
(* and the user macros follow the last call, not an earlier or a failed   *)
(* one (spec section 7 lets a caller retry a build with other options).   *)
UserMacros == {m \in ToSet(macro_defs) :
                  m \notin ToSet(ExtensionNames) \cup {"__OPENCL_C_VERSION__=120"}}

Requested == IF ret = CL_INVALID_BUILD_OPTIONS
             THEN [flags |-> {}, macros |-> <<>>] ELSE Ref

=============================================================================
