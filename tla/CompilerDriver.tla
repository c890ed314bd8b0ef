--------------------------- MODULE CompilerDriver ---------------------------
(***************************************************************************)
(* From the IR module of a kernel to its binary: Compiler of               *)
(* python/asc/runtime/compiler.py.                                         *)
(*                                                                         *)
(* The options are checked, the passes run and fill in what the options    *)
(* left open, the translated source gets dump code if the kernel prints,   *)
(* and a list of external commands turns it into one binary: the source is *)
(* compiled for the vector core, the cube core or both, and linked.  A     *)
(* failed compile command is tried once more with another flag.  What the  *)
(* launcher later believes of the binary is derived apart from how it was  *)
(* made.                                                                   *)
(***************************************************************************)
EXTENDS Integers, FiniteSets, Sequences

CONSTANTS
  Types,      \* the kernel types a caller may ask for, with None for "derive"
  OptLevels,  \* the optimisation levels a caller may ask for
  None

VARIABLES
  options,   \* CompileOptions
  asked,     \* history: the kernel type in them at first
  kernel,    \* what the passes find out of the kernel: is it mixed, does it print
  pc,
  debug,     \* Compiler.enable_debug
  source,    \* the dump code in the source, or None: mixed or not
  commands,  \* the external commands still to run
  retried,   \* the command at work has been tried a second time
  files,     \* files in the temporary directory, or a set without any
  result,    \* the CompiledKernel
  retries    \* history: the last second attempt succeeded

vars == <<options, asked, kernel, pc, debug, source, commands, retried, files, result, retries>>

Mix == {"MIX_AIC_1_1", "MIX_AIC_1_2"}
OneSided == {"MIX_AIC_1_0", "MIX_AIC_HARD_SYNC", "MIX_AIV_1_0", "MIX_AIV_HARD_SYNC"}
Vector == {"MIX_AIV_1_0", "MIX_AIV_HARD_SYNC", "AIV_ONLY"}
Cube == {"AIC_ONLY", "MIX_AIC_HARD_SYNC", "MIX_AIC_1_0"}
KernelTypes == Mix \cup Vector \cup Cube

Objects == {"output_cube.o", "output_vec.o", "output_mix_aiv.o", "output_mix_aic.o", "output.o"}

\* A compile command is for a core and has an output; a link command has
\* inputs, too.
CommandLines ==
  [cmd : {"compile", "link"}, arch : {"vec", "cube", None}, src : SUBSET (Objects \cup {"input.cce"}), dst : Objects,
   opt : OptLevels \cup {None}, sync : BOOLEAN, dump : BOOLEAN, mix : BOOLEAN]

\* A caller asks for one of the kernel types, and nothing is none of them, no
\* command and no dump code.
ASSUME TypesAssumption == Types \subseteq KernelTypes \cup {None}
ASSUME NoneAssumption ==
  /\ None \notin KernelTypes
  /\ \A mixed \in BOOLEAN : [mix |-> mixed] # None
  /\ \A c \in CommandLines : c # None

Options ==
  [kernel_type : Types, opt_level : OptLevels, run_passes : BOOLEAN, cube_only : BOOLEAN, auto_sync : BOOLEAN]

Init ==
  /\ options \in Options
  /\ asked = options.kernel_type
  /\ kernel \in [mix : BOOLEAN, prints : BOOLEAN]
  /\ pc = "check"
  /\ debug = FALSE /\ source = None /\ commands = <<>> /\ retried = FALSE
  /\ files = {} /\ result = None /\ retries = FALSE

\* _check_compile_options
Check ==
  /\ pc = "check"
  /\ pc' = IF options.opt_level \in {1, 2, 3} THEN "passes" ELSE "refused"
  /\ UNCHANGED <<options, asked, kernel, debug, source, commands, retried, files, result, retries>>

-----------------------------------------------------------------------------
(* The passes, and what is derived from the module after them.             *)

\* Slip: a mixed kernel becomes a vector kernel.
DerivedTypeVector == "AIV_ONLY"

\* Slip: the name of a family of types.
DerivedTypeFamily == IF kernel.mix THEN "MIX" ELSE "AIV_ONLY"

DerivedType ==
  IF ~kernel.mix THEN "AIV_ONLY" ELSE IF options.cube_only THEN "AIC_ONLY" ELSE "MIX_AIC_1_2"

RunPasses ==
  /\ pc = "passes"
  /\ IF options.run_passes
     THEN /\ options' = [options EXCEPT !.kernel_type = IF @ = None THEN DerivedType ELSE @]
          /\ debug' = kernel.prints
     ELSE UNCHANGED <<options, debug>>
  /\ pc' = "translate"
  /\ UNCHANGED <<asked, kernel, source, commands, retried, files, result, retries>>

\* A pass, the verifier after it, or the translation raises.
Raises ==
  /\ pc \in {"passes", "translate"}
  /\ pc' = "raised"
  /\ UNCHANGED <<options, asked, kernel, debug, source, commands, retried, files, result, retries>>

-----------------------------------------------------------------------------
(* The commands.                                                           *)

\* Slip: the hard-sync vector kernel is compiled for the cube core.
ArchForgetful(t) == IF t \in {"AIV_ONLY", "MIX_AIV_1_0"} THEN "vec" ELSE "cube"

\* CompilationTarget.get, for the kernel types with one architecture; a type
\* that was never derived is one of them.
Arch(t) == IF t \in {"MIX_AIV_1_0", "MIX_AIV_HARD_SYNC", "AIV_ONLY"} THEN "vec" ELSE "cube"

\* _get_compiler_cmd
CompileFor(arch, dst) ==
  [cmd |-> "compile", arch |-> arch, src |-> {"input.cce"}, dst |-> dst, opt |-> options.opt_level,
   sync |-> options.auto_sync, dump |-> debug, mix |-> options.kernel_type \in Mix]
LinkOf(srcs) == [cmd |-> "link", arch |-> None, src |-> srcs, dst |-> "output.o", opt |-> None,
                 sync |-> FALSE, dump |-> FALSE, mix |-> FALSE]

\* _gen_dst_kernel
Commands ==
  LET t == options.kernel_type
      one == IF t \notin OneSided THEN "output.o"
             ELSE IF t \in Vector THEN "output_mix_aiv.o" ELSE "output_mix_aic.o"
  IN  IF t \in Mix
      THEN <<CompileFor("cube", "output_cube.o"), CompileFor("vec", "output_vec.o"),
             LinkOf({"output_cube.o", "output_vec.o"})>>
      ELSE <<CompileFor(Arch(t), one), LinkOf({one})>>

\* Slip: the dump code is there whether the kernel prints or not.
DumpCodeAlways == [mix |-> options.kernel_type \in Mix \cup {"MIX_AIC_1_0", "MIX_AIV_1_0"}]

DumpCode == IF debug THEN [mix |-> options.kernel_type \in Mix \cup {"MIX_AIC_1_0", "MIX_AIV_1_0"}] ELSE None

Translate ==
  /\ pc = "translate"
  /\ source' = DumpCode
  /\ files' = {[name |-> "input.cce", from |-> {}, made |-> None]}
  /\ commands' = Commands
  /\ pc' = "run"
  /\ UNCHANGED <<options, asked, kernel, debug, retried, result, retries>>

\* The command's output: what it was made of, and how.
Written(c) ==
  {f \in files : f.name # c.dst} \cup
    {[name |-> c.dst, made |-> c,
      from |-> UNION {IF f.made = None THEN {} ELSE IF f.made.cmd = "link" THEN f.from ELSE {f.made} : f \in {g \in files : g.name \in c.src}}]}

CommandSucceeds ==
  /\ pc = "run" /\ commands # <<>>
  /\ ~retried
  /\ files' = Written(Head(commands))
  /\ commands' = Tail(commands)
  /\ UNCHANGED <<options, asked, kernel, pc, debug, source, retried, result, retries>>

\* A compile command gets -disable-machine-licm and a second chance.
CommandFails ==
  /\ pc = "run" /\ commands # <<>>
  /\ ~retried
  /\ IF Head(commands).cmd = "compile" THEN retried' = TRUE /\ UNCHANGED <<files, pc>>
     ELSE pc' = "raised" /\ files' = {} /\ UNCHANGED retried
  /\ UNCHANGED <<options, asked, kernel, debug, source, commands, result, retries>>

\* communicate() returns the output and None, for stderr goes where stdout
\* goes; None is taken for a return code, which is not 0.
ReturnCode == None

Retry ==
  /\ pc = "run" /\ retried
  /\ \E success \in BOOLEAN :
       /\ retries' = success
       /\ IF ReturnCode = 0
          THEN files' = Written(Head(commands)) /\ commands' = Tail(commands) /\ UNCHANGED pc
          ELSE pc' = "raised" /\ files' = {} /\ UNCHANGED commands
  /\ retried' = FALSE
  /\ UNCHANGED <<options, asked, kernel, debug, source, result>>

-----------------------------------------------------------------------------
(* The result.                                                             *)

CoreType(t) == IF t \in Mix THEN "AiCore" ELSE IF t \in Vector THEN "VectorCore" ELSE "CubeCore"

Finish ==
  /\ pc = "run" /\ commands = <<>>
  /\ \E f \in {g \in files : g.name = "output.o"} :
       result' = [binary |-> f.from, core_type |-> CoreType(options.kernel_type), enable_debug |-> debug]
  /\ files' = {}
  /\ pc' = "done"
  /\ UNCHANGED <<options, asked, kernel, debug, source, commands, retried, retries>>

Next == Check \/ RunPasses \/ Raises \/ Translate \/ CommandSucceeds \/ CommandFails \/ Retry \/ Finish

Spec == Init /\ [][Next]_vars

-----------------------------------------------------------------------------
(* What is checked.                                                        *)

\* The variables have their types.
TypeOK ==
  /\ [options EXCEPT !.kernel_type = asked] \in Options /\ options.kernel_type \in KernelTypes \cup {None}
  /\ source \in [mix : BOOLEAN] \cup {None}
  /\ pc \in {"check", "refused", "passes", "translate", "run", "raised", "done"}
  /\ \A f \in files : f.made = None => f.from = {}
  /\ result # None => result.core_type \in {"AiCore", "VectorCore", "CubeCore"}

Arches == {c.arch : c \in result.binary}

\* The launcher registers the binary for the core type that is derived last,
\* from a list of its own; the code in it is for exactly those cores.
CoresMatch ==
  pc = "done" => Arches = CASE result.core_type = "AiCore" -> {"vec", "cube"}
                            [] result.core_type = "VectorCore" -> {"vec"}
                            [] result.core_type = "CubeCore" -> {"cube"}

\* A kernel that prints gets one more parameter in its source; its objects are
\* compiled to use it, and the launcher passes it.  All three or none.
DumpAgrees ==
  pc = "done" => /\ result.enable_debug <=> source # None
                 /\ \A c \in result.binary : c.dump <=> result.enable_debug

\* The launcher is told what is in the binary.
BinaryAsTold == TypeOK /\ CoresMatch /\ DumpAgrees

\* A kernel whose type is left open is compiled for the cores it uses: for the
\* vector core, unless the caller excludes it, and if mixed for the cube core.
DerivedFits ==
  pc = "done" /\ asked = None /\ options.run_passes =>
    /\ "cube" \in Arches <=> kernel.mix
    /\ "vec" \in Arches <=> ~(kernel.mix /\ options.cube_only)

\* A second attempt that succeeds is as good as a first one.
RetryCounts == retries => pc # "raised"

\* The levels the documentation lists are accepted.
DocumentedLevels == pc = "refused" => options.opt_level \notin 0 .. 3
=============================================================================
