------------------------ MODULE CompilerDriver_proofs ------------------------
(***************************************************************************)
(* Proofs about CompilerDriver, for any kernel types and levels a caller   *)
(* may ask for.                                                            *)
(*                                                                         *)
(* The inductive invariant follows the commands: which of them are still   *)
(* to run and which objects are there, so that what is linked at the end   *)
(* is what the compile commands of the kernel's type have made.            *)
(***************************************************************************)
EXTENDS CompilerDriver, TLAPS

ObjectOf(t) ==
  IF t \notin OneSided THEN "output.o" ELSE IF t \in Vector THEN "output_mix_aiv.o" ELSE "output_mix_aic.o"

ForCube == CompileFor("cube", "output_cube.o")
ForVector == CompileFor("vec", "output_vec.o")
ForBoth == LinkOf({"output_cube.o", "output_vec.o"})
ForOne == CompileFor(Arch(options.kernel_type), ObjectOf(options.kernel_type))
LinkOne == LinkOf({ObjectOf(options.kernel_type)})

\* The compile commands of the kernel's type.
Compiles == IF options.kernel_type \in Mix THEN {ForCube, ForVector} ELSE {ForOne}

Source == [name |-> "input.cce", from |-> {}, made |-> None]
Object(c) == [name |-> c.dst, from |-> {}, made |-> c]

Linked == commands = <<>> /\ \A f \in files : f.name = "output.o" => f.from = Compiles

StagesOfBoth ==
  \/ commands = <<ForCube, ForVector, ForBoth>> /\ files = {Source}
  \/ commands = <<ForVector, ForBoth>> /\ files = {Source, Object(ForCube)}
  \/ commands = <<ForBoth>> /\ files = {Source, Object(ForCube), Object(ForVector)}
  \/ Linked

StagesOfOne ==
  \/ commands = <<ForOne, LinkOne>> /\ files = {Source}
  \/ commands = <<LinkOne>> /\ files = {Source, Object(ForOne)}
  \/ Linked

Typing ==
  /\ TypeOK
  /\ options \in [kernel_type : KernelTypes \cup {None}, opt_level : OptLevels, run_passes : BOOLEAN,
                  cube_only : BOOLEAN, auto_sync : BOOLEAN]
  /\ kernel \in [mix : BOOLEAN, prints : BOOLEAN]
  /\ debug \in BOOLEAN
  /\ retried => commands # <<>>

\* What the passes filled in (run_passes).
Derived ==
  /\ pc \in {"check", "passes"} => options.kernel_type = asked
  /\ pc \in {"translate", "run", "done"} /\ asked = None /\ options.run_passes => options.kernel_type = DerivedType

\* The source and the objects are those of the options (run_compilation).
Running == pc = "run" => source = DumpCode /\ IF options.kernel_type \in Mix THEN StagesOfBoth ELSE StagesOfOne

Finished ==
  pc = "done" =>
    /\ source = DumpCode
    /\ result = [binary |-> Compiles, core_type |-> CoreType(options.kernel_type), enable_debug |-> debug]

IInv == Typing /\ Derived /\ Running /\ Finished

-----------------------------------------------------------------------------

\* The commands of _gen_dst_kernel by their names.
LEMMA CommandsOfType ==
  Commands = IF options.kernel_type \in Mix THEN <<ForCube, ForVector, ForBoth>> ELSE <<ForOne, LinkOne>>
BY DEF Commands, ForCube, ForVector, ForBoth, ForOne, LinkOne, ObjectOf

\* The fields of the commands that their effect depends on.
LEMMA CompileFields ==
  ASSUME Typing, NEW arch \in {"vec", "cube"}, NEW dst \in Objects
  PROVE  /\ CompileFor(arch, dst) \in CommandLines /\ CompileFor(arch, dst) # None
         /\ CompileFor(arch, dst).cmd = "compile" /\ CompileFor(arch, dst).src = {"input.cce"}
         /\ CompileFor(arch, dst).dst = dst /\ CompileFor(arch, dst).arch = arch /\ CompileFor(arch, dst).dump = debug
<1>1. CompileFor(arch, dst) \in CommandLines
  BY DEF Typing, CompileFor, CommandLines
<1>2. CompileFor(arch, dst) # None
  BY <1>1, NoneAssumption
<1> QED BY <1>1, <1>2 DEF CompileFor

LEMMA LinkFields ==
  ASSUME NEW srcs \in SUBSET Objects
  PROVE  /\ LinkOf(srcs) # None
         /\ LinkOf(srcs).cmd = "link" /\ LinkOf(srcs).src = srcs /\ LinkOf(srcs).dst = "output.o"
<1>1. LinkOf(srcs) \in CommandLines
  BY DEF LinkOf, CommandLines, Objects
<1>2. LinkOf(srcs) # None
  BY <1>1, NoneAssumption
<1> QED BY <1>1, <1>2 DEF LinkOf

LEMMA CommandFields ==
  ASSUME Typing
  PROVE  /\ ObjectOf(options.kernel_type) \in Objects /\ ObjectOf(options.kernel_type) # "input.cce"
         /\ ForCube # None /\ ForCube.cmd = "compile" /\ ForCube.src = {"input.cce"} /\ ForCube.dst = "output_cube.o"
         /\ ForVector # None /\ ForVector.cmd = "compile" /\ ForVector.src = {"input.cce"} /\ ForVector.dst = "output_vec.o"
         /\ ForOne # None /\ ForOne.cmd = "compile" /\ ForOne.src = {"input.cce"} /\ ForOne.dst = ObjectOf(options.kernel_type)
         /\ ForBoth # None /\ ForBoth.cmd = "link" /\ ForBoth.dst = "output.o" /\ ForBoth.src = {"output_cube.o", "output_vec.o"}
         /\ LinkOne # None /\ LinkOne.cmd = "link" /\ LinkOne.dst = "output.o" /\ LinkOne.src = {ObjectOf(options.kernel_type)}
         /\ ForCube.arch = "cube" /\ ForVector.arch = "vec" /\ ForOne.arch = Arch(options.kernel_type)
         /\ ForCube.dump = debug /\ ForVector.dump = debug /\ ForOne.dump = debug
<1>1. ObjectOf(options.kernel_type) \in Objects /\ ObjectOf(options.kernel_type) # "input.cce"
  BY DEF ObjectOf, Objects
<1>2. Arch(options.kernel_type) \in {"vec", "cube"}
  BY DEF Arch
<1>3. "output_cube.o" \in Objects /\ "output_vec.o" \in Objects
  BY DEF Objects
<1> QED BY <1>1, <1>2, <1>3, CompileFields, LinkFields DEF ForCube, ForVector, ForOne, ForBoth, LinkOne

\* A compile command adds its object, which no command made before.
LEMMA CompileWrites ==
  ASSUME NEW c, c.src = {"input.cce"}, \A f \in files : f.name = "input.cce" => f.made = None
  PROVE  Written(c) = {f \in files : f.name # c.dst} \cup {Object(c)}
BY DEF Written, Object

\* The linker's output consists of what the commands that made its inputs made.
LEMMA LinkWrites ==
  ASSUME NEW c, NEW F,
         \A f \in files : f.name \in c.src => f.made \in F,
         \A d \in F : d # None /\ d.cmd = "compile" /\ \E f \in files : f.name \in c.src /\ f.made = d
  PROVE  \A f \in Written(c) : f.name = c.dst => f.from = F
<1> SUFFICES ASSUME NEW f \in Written(c), f.name = c.dst PROVE f.from = F
  OBVIOUS
<1> DEFINE inputs == {g \in files : g.name \in c.src}
           Part(g) == IF g.made = None THEN {} ELSE IF g.made.cmd = "link" THEN g.from ELSE {g.made}
<1>1. f.from = UNION {Part(g) : g \in inputs}
  BY DEF Written
<1>2. \A g \in inputs : Part(g) = {g.made} /\ g.made \in F
  OBVIOUS
<1>3. \A d \in F : \E g \in inputs : g.made = d
  OBVIOUS
<1> HIDE DEF inputs, Part
<1> QED BY <1>1, <1>2, <1>3

-----------------------------------------------------------------------------

LEMMA InitInv == Init => IInv
<1> SUFFICES ASSUME Init PROVE IInv
  OBVIOUS
<1>1. options \in Options /\ [options EXCEPT !.kernel_type = asked] = options
  BY DEF Init, Options
<1>2. Typing
  BY <1>1, TypesAssumption DEF Init, Typing, TypeOK, Options
<1> QED BY <1>2 DEF Init, IInv, Derived, Running, Finished

\* The steps before the commands.
LEMMA PreparePreserves == ASSUME IInv, Check \/ RunPasses \/ Raises PROVE IInv'
<1>1. CASE Check
  BY <1>1 DEF Check, IInv, Typing, TypeOK, Derived, Running, Finished
<1>2. CASE RunPasses
  <2>1. /\ options' \in [kernel_type : KernelTypes \cup {None}, opt_level : OptLevels, run_passes : BOOLEAN,
                         cube_only : BOOLEAN, auto_sync : BOOLEAN]
        /\ [options' EXCEPT !.kernel_type = asked] = [options EXCEPT !.kernel_type = asked]
        /\ options'.run_passes = options.run_passes /\ options'.cube_only = options.cube_only
    BY <1>2 DEF RunPasses, DerivedType, IInv, Typing, KernelTypes, Mix, Vector, Cube
  <2>2. Typing'
    BY <1>2, <2>1 DEF RunPasses, IInv, Typing, TypeOK
  <2>3. Derived'
    <3> SUFFICES ASSUME asked = None, options.run_passes PROVE options'.kernel_type = DerivedType'
      BY <1>2, <2>1 DEF RunPasses, Derived
    <3>1. pc = "passes" /\ options.kernel_type = None
      BY <1>2 DEF RunPasses, IInv, Derived
    <3> QED BY <1>2, <2>1, <3>1 DEF RunPasses, DerivedType, IInv, Typing
  <2> QED BY <1>2, <2>2, <2>3 DEF RunPasses, IInv, Running, Finished
<1>3. CASE Raises
  BY <1>3 DEF Raises, IInv, Typing, TypeOK, Derived, Running, Finished
<1> QED BY <1>1, <1>2, <1>3

\* The translation writes the source and lists the commands.
LEMMA TranslatePreserves == ASSUME IInv, Translate PROVE IInv'
<1>1. /\ UNCHANGED <<options, asked, kernel, debug, retried, result, retries>>
      /\ pc = "translate" /\ pc' = "run"
      /\ source' = DumpCode /\ files' = {Source} /\ commands' = Commands /\ commands' # <<>>
  BY CommandsOfType DEF Translate, Source
<1>2. Typing'
  BY <1>1 DEF IInv, Typing, TypeOK, DumpCode, Source
<1>3. Derived'
  BY <1>1 DEF IInv, Derived, DerivedType
<1>4. Running'
  <2>1. source' = DumpCode'
    BY <1>1 DEF DumpCode
  <2>2. IF options.kernel_type \in Mix THEN StagesOfBoth' ELSE StagesOfOne'
    BY <1>1, CommandsOfType DEF StagesOfBoth, StagesOfOne, ForCube, ForVector, ForBoth, ForOne, LinkOne, CompileFor, LinkOf, Source
  <2> QED BY <1>1, <2>1, <2>2 DEF Running
<1>5. Finished'
  BY <1>1 DEF Finished
<1> QED BY <1>2, <1>3, <1>4, <1>5 DEF IInv

\* What the commands are made of stays while they run.
LEMMA CommandsStay ==
  ASSUME UNCHANGED <<options, debug>>
  PROVE  /\ ForCube' = ForCube /\ ForVector' = ForVector /\ ForBoth' = ForBoth /\ ForOne' = ForOne /\ LinkOne' = LinkOne
         /\ Compiles' = Compiles /\ DumpCode' = DumpCode
         /\ Object(ForCube)' = Object(ForCube) /\ Object(ForVector)' = Object(ForVector) /\ Object(ForOne)' = Object(ForOne)
BY DEF ForCube, ForVector, ForBoth, ForOne, LinkOne, Compiles, DumpCode, CompileFor, LinkOf, Object

\* A command that succeeds leads to the next stage.
LEMMA NextStage ==
  ASSUME IInv, pc = "run", commands # <<>>, UNCHANGED <<options, debug>>,
         files' = Written(Head(commands)), commands' = Tail(commands)
  PROVE  /\ IF options.kernel_type \in Mix THEN StagesOfBoth' ELSE StagesOfOne'
         /\ \A f \in files' : f.made = None => f.from = {}
<1> USE CommandFields DEF IInv
<1>1. Source.name = "input.cce" /\ Source.made = None /\ Source.from = {}
      /\ \A c : Object(c).name = c.dst /\ Object(c).made = c /\ Object(c).from = {}
  BY DEF Source, Object
<1>2. CASE options.kernel_type \in Mix
  <2>1. CASE commands = <<ForCube, ForVector, ForBoth>> /\ files = {Source}
    <3>1. files' = {Source, Object(ForCube)}
      BY <1>1, <2>1, CompileWrites
    <3> QED BY <1>1, <1>2, <2>1, <3>1, CommandsStay DEF StagesOfBoth
  <2>2. CASE commands = <<ForVector, ForBoth>> /\ files = {Source, Object(ForCube)}
    <3>1. files' = {Source, Object(ForCube), Object(ForVector)}
      BY <1>1, <2>2, CompileWrites
    <3> QED BY <1>1, <1>2, <2>2, <3>1, CommandsStay DEF StagesOfBoth
  <2>3. CASE commands = <<ForBoth>> /\ files = {Source, Object(ForCube), Object(ForVector)}
    <3>1. \A f \in files' : f.name = "output.o" => f.from = Compiles
      <4>1. files' = Written(ForBoth)
        BY <2>3
      <4>2. \A f \in files : f.name \in ForBoth.src => f.made \in Compiles
        BY <1>1, <1>2, <2>3 DEF Compiles
      <4>3. \A d \in Compiles : d # None /\ d.cmd = "compile" /\ \E f \in files : f.name \in ForBoth.src /\ f.made = d
        BY <1>1, <1>2, <2>3 DEF Compiles
      <4>4. \A f \in Written(ForBoth) : f.name = ForBoth.dst => f.from = Compiles
        <5> HIDE CommandFields DEF IInv
        <5> QED BY <4>2, <4>3, LinkWrites, Zenon
      <4>5. ForBoth.dst = "output.o"
        OBVIOUS
      <4> QED BY <4>1, <4>4, <4>5
    <3>2. \A f \in files' : f \in files \/ f.made = ForBoth
      BY <2>3 DEF Written
    <3> QED BY <1>1, <1>2, <2>3, <3>1, <3>2, CommandsStay DEF StagesOfBoth, Linked
  <2> QED BY <1>2, <2>1, <2>2, <2>3 DEF Running, StagesOfBoth, Linked
<1>3. CASE options.kernel_type \notin Mix
  <2>1. CASE commands = <<ForOne, LinkOne>> /\ files = {Source}
    <3>1. files' = {Source, Object(ForOne)}
      BY <1>1, <2>1, CompileWrites
    <3> QED BY <1>1, <1>3, <2>1, <3>1, CommandsStay DEF StagesOfOne
  <2>2. CASE commands = <<LinkOne>> /\ files = {Source, Object(ForOne)}
    <3>1. \A f \in files' : f.name = "output.o" => f.from = Compiles
      <4>1. files' = Written(LinkOne)
        BY <2>2
      <4>2. \A f \in files : f.name \in LinkOne.src => f.made \in Compiles
        BY <1>1, <1>3, <2>2 DEF Compiles
      <4>3. \A d \in Compiles : d # None /\ d.cmd = "compile" /\ \E f \in files : f.name \in LinkOne.src /\ f.made = d
        BY <1>1, <1>3, <2>2 DEF Compiles
      <4>4. \A f \in Written(LinkOne) : f.name = LinkOne.dst => f.from = Compiles
        <5> HIDE CommandFields DEF IInv
        <5> QED BY <4>2, <4>3, LinkWrites, Zenon
      <4>5. LinkOne.dst = "output.o"
        OBVIOUS
      <4> QED BY <4>1, <4>4, <4>5
    <3>2. \A f \in files' : f \in files \/ f.made = LinkOne
      BY <2>2 DEF Written
    <3> QED BY <1>1, <1>3, <2>2, <3>1, <3>2, CommandsStay DEF StagesOfOne, Linked
  <2> QED BY <1>3, <2>1, <2>2 DEF Running, StagesOfOne, Linked
<1> QED BY <1>2, <1>3

\* A command, its failure and its second attempt.
LEMMA CommandPreserves == ASSUME IInv, CommandSucceeds \/ CommandFails \/ Retry PROVE IInv'
<1>1. /\ UNCHANGED <<options, asked, kernel, debug, source, result>> /\ pc = "run" /\ pc' \in {"run", "raised"}
      /\ \/ pc' = pc /\ commands # <<>> /\ files' = Written(Head(commands)) /\ commands' = Tail(commands)
         \/ pc' = pc /\ UNCHANGED <<files, commands>>
         \/ pc' = "raised" /\ files' = {}
      /\ retried' => commands' # <<>>
  BY DEF CommandSucceeds, CommandFails, Retry, IInv, Typing
<1>2. CASE pc' = pc /\ commands # <<>> /\ files' = Written(Head(commands)) /\ commands' = Tail(commands)
  <2>1. /\ IF options.kernel_type \in Mix THEN StagesOfBoth' ELSE StagesOfOne'
        /\ \A f \in files' : f.made = None => f.from = {}
    BY <1>1, <1>2, NextStage
  <2>2. Running' /\ Finished'
    BY <1>1, <1>2, <2>1, CommandsStay DEF IInv, Running, Finished
  <2>3. Typing' /\ Derived'
    BY <1>1, <1>2, <2>1 DEF IInv, Typing, TypeOK, Derived, DerivedType
  <2> QED BY <2>2, <2>3 DEF IInv
<1>3. CASE pc' = pc /\ UNCHANGED <<files, commands>>
  <2>1. Running' /\ Finished'
    BY <1>1, <1>3, CommandsStay DEF IInv, Running, Finished, StagesOfBoth, StagesOfOne, Linked
  <2>2. Typing' /\ Derived'
    BY <1>1, <1>3 DEF IInv, Typing, TypeOK, Derived, DerivedType
  <2> QED BY <2>1, <2>2 DEF IInv
<1>4. CASE pc' = "raised" /\ files' = {}
  BY <1>1, <1>4 DEF IInv, Typing, TypeOK, Derived, Running, Finished
<1> QED BY <1>1, <1>2, <1>3, <1>4

\* The launcher is told what the last stage holds.
LEMMA FinishPreserves == ASSUME IInv, Finish PROVE IInv'
<1>1. /\ UNCHANGED <<options, asked, kernel, debug, source>> /\ pc = "run" /\ pc' = "done" /\ files' = {}
      /\ commands = <<>> /\ UNCHANGED <<commands, retried>>
  BY DEF Finish
<1>2. result' = [binary |-> Compiles, core_type |-> CoreType(options.kernel_type), enable_debug |-> debug]
  <2>1. Linked
    BY <1>1 DEF IInv, Running, StagesOfBoth, StagesOfOne
  <2> QED BY <2>1 DEF Finish, Linked
<1>3. CoreType(options.kernel_type) \in {"AiCore", "VectorCore", "CubeCore"}
  BY DEF CoreType
<1>4. Typing' /\ Derived'
  BY <1>1, <1>2, <1>3 DEF IInv, Typing, TypeOK, Derived, DerivedType
<1>5. Running' /\ Finished'
  BY <1>1, <1>2, CommandsStay DEF IInv, Running, Finished, CoreType
<1> QED BY <1>4, <1>5 DEF IInv

THEOREM Invariance == Spec => []IInv
<1>1. IInv /\ [Next]_vars => IInv'
  <2> SUFFICES ASSUME IInv, [Next]_vars PROVE IInv'
    OBVIOUS
  <2>1. CASE UNCHANGED vars
    <3>1. Running' /\ Finished'
      BY <2>1, CommandsStay DEF vars, IInv, Running, Finished, StagesOfBoth, StagesOfOne, Linked
    <3>2. Typing' /\ Derived'
      BY <2>1 DEF vars, IInv, Typing, TypeOK, Derived, DerivedType
    <3> QED BY <3>1, <3>2 DEF IInv
  <2>2. CASE Next
    BY <2>2, PreparePreserves, TranslatePreserves, CommandPreserves, FinishPreserves DEF Next
  <2> QED BY <2>1, <2>2
<1> QED BY <1>1, InitInv, PTL DEF Spec

-----------------------------------------------------------------------------

\* The cores the binary is for are those of its kernel's type.
LEMMA ArchesOfType ==
  ASSUME IInv, pc = "done"
  PROVE  Arches = IF options.kernel_type \in Mix THEN {"vec", "cube"} ELSE {Arch(options.kernel_type)}
<1>1. Arches = {c.arch : c \in Compiles}
  BY DEF IInv, Finished, Arches
<1> QED BY <1>1, CommandFields DEF IInv, Compiles

\* The launcher registers the binary for the cores it was compiled for, and
\* passes the parameter of the dump exactly when source and objects have it
\* (run_passes, run_compilation, _gen_dst_kernel).
THEOREM BinaryIsAsTold == Spec => []BinaryAsTold
<1>1. IInv => BinaryAsTold
  <2> SUFFICES ASSUME IInv PROVE BinaryAsTold
    OBVIOUS
  <2>1. TypeOK
    BY DEF IInv, Typing
  <2>2. CoresMatch
    <3> SUFFICES ASSUME pc = "done"
                 PROVE  Arches = CASE result.core_type = "AiCore" -> {"vec", "cube"}
                                   [] result.core_type = "VectorCore" -> {"vec"}
                                   [] result.core_type = "CubeCore" -> {"cube"}
      BY DEF CoresMatch
    <3>1. result.core_type = CoreType(options.kernel_type)
      BY DEF IInv, Finished
    <3>2. Arches = IF options.kernel_type \in Mix THEN {"vec", "cube"} ELSE {Arch(options.kernel_type)}
      BY ArchesOfType
    <3> QED BY <3>1, <3>2 DEF CoreType, Arch, Vector
  <2>3. DumpAgrees
    <3> SUFFICES ASSUME pc = "done"
                 PROVE  /\ result.enable_debug <=> source # None
                        /\ \A c \in result.binary : c.dump <=> result.enable_debug
      BY DEF DumpAgrees
    <3>1. source = DumpCode /\ result.enable_debug = debug /\ result.binary = Compiles /\ debug \in BOOLEAN
      BY DEF IInv, Finished, Typing
    <3>2. DumpCode # None <=> debug
      <4>1. (options.kernel_type \in Mix \cup {"MIX_AIC_1_0", "MIX_AIV_1_0"}) \in BOOLEAN
        OBVIOUS
      <4>2. \A mixed \in BOOLEAN : [mix |-> mixed] # None
        BY NoneAssumption
      <4>3. [mix |-> options.kernel_type \in Mix \cup {"MIX_AIC_1_0", "MIX_AIV_1_0"}] # None
        BY <4>1, <4>2, Zenon
      <4> QED BY <3>1, <4>3, Zenon DEF DumpCode
    <3>3. \A c \in Compiles : c.dump = debug
      BY CommandFields DEF IInv, Compiles
    <3> QED BY <3>1, <3>2, <3>3
  <2> QED BY <2>1, <2>2, <2>3 DEF BinaryAsTold
<1> QED BY <1>1, Invariance, PTL

\* A kernel whose type is left open is compiled for the cores it uses
\* (run_passes).
THEOREM DerivedTypeFits == Spec => []DerivedFits
<1>1. IInv => DerivedFits
  <2> SUFFICES ASSUME IInv, pc = "done", asked = None, options.run_passes
               PROVE  /\ "cube" \in Arches <=> kernel.mix
                      /\ "vec" \in Arches <=> ~(kernel.mix /\ options.cube_only)
    BY DEF DerivedFits
  <2>1. options.kernel_type = DerivedType
    BY DEF IInv, Derived
  <2>2. Arches = IF options.kernel_type \in Mix THEN {"vec", "cube"} ELSE {Arch(options.kernel_type)}
    BY ArchesOfType
  <2>3. kernel.mix \in BOOLEAN /\ options.cube_only \in BOOLEAN
    BY DEF IInv, Typing
  <2> QED BY <2>1, <2>2, <2>3 DEF DerivedType, Arch, Mix
<1> QED BY <1>1, Invariance, PTL

=============================================================================
