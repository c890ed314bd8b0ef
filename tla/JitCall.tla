------------------------------- MODULE JitCall -------------------------------
(***************************************************************************)
(* What happens around one call of a kernel: JITFunction.__getitem__, _run *)
(* and _run_codegen of python/asc/runtime/jit.py, the GlobalBuilder of     *)
(* language/core/utils.py and the TPipeManager of language/fwk/tpipe.py.   *)
(*                                                                         *)
(* Three things outlive a call and are shared by all calls of the process: *)
(* the launch options, which kernel[...] stores in the JIT function; the   *)
(* builder with its module and teardown callbacks; and the one TPipe.  A   *)
(* call may raise in any step and must leave nothing for the next one.     *)
(* KernelCache models what is between: here a kernel is found or compiled. *)
(***************************************************************************)
EXTENDS Naturals, FiniteSets, Sequences

CONSTANTS
  Threads,
  Fns,         \* JIT functions used as kernels
  Options,     \* launch options: core number and stream
  NoOptions,   \* LaunchOptions() of a function nobody subscripted
  None,
  MaxHandles,  \* bound on the handles kernel[...] a thread keeps
  MaxCalls     \* bound on the calls of the process

VARIABLES
  given,      \* given[f]: the decorator got one of the fields of LaunchOptions
  launch,     \* launch[f]: JITFunction.launch_options
  compiled,   \* compiled[f]: the kernel found in the cache, or None
  builder,    \* global_builder.builder: the module it builds, or None
  module,     \* global_builder.ir_module
  modules,    \* what every module made so far contains
  callbacks,  \* global_builder.teardown_callbacks
  pipe,       \* TPipeManager.instance: the module its TPipe is in, or None
  handles,    \* handles[t]: results of kernel[...] that t has not called yet
  call,       \* call[t]: the handle t is calling
  pc,         \* pc[t]: the next step of that call
  mod,        \* mod[t]: the module code generation returned
  launches    \* history: what was launched

vars == <<given, launch, compiled, builder, module, modules, callbacks, pipe, handles, call, pc, mod, launches>>
builderVars == <<builder, module, modules, callbacks, pipe>>

Handles == [fn : Fns, asked : Options]
Ops == [fn : Fns, op : {"op", "pipe"}]

\* Nothing is no module and no kernel.
ASSUME NoneAssumption == None \notin Nat /\ \A code \in SUBSET Ops : None # code

Codegen == {"begin", "visit", "failed", "built"}

Init ==
  /\ given \in [Fns -> BOOLEAN]
  /\ launch = [f \in Fns |-> NoOptions]
  /\ compiled = [f \in Fns |-> None]
  /\ builder = None /\ module = None /\ modules = <<>> /\ callbacks = <<>> /\ pipe = None
  /\ handles = [t \in Threads |-> {}]
  /\ call = [t \in Threads |-> None]
  /\ pc = [t \in Threads |-> "idle"]
  /\ mod = [t \in Threads |-> None]
  /\ launches = {}

Goto(t, step) == pc' = [pc EXCEPT ![t] = step]

-----------------------------------------------------------------------------
(* kernel[...] and the call of what it returns.                            *)

\* Slip: only the first subscript stores its options.
SubscriptOnce(t, f, o) ==
  /\ pc[t] = "idle" /\ Cardinality(handles[t]) < MaxHandles
  /\ launch' = [launch EXCEPT ![f] = IF @ = NoOptions THEN o ELSE @]
  /\ handles' = [handles EXCEPT ![t] = @ \cup {[fn |-> f, asked |-> o]}]
  /\ UNCHANGED <<given, compiled, builderVars, call, pc, mod, launches>>

Subscript(t, f, o) ==
  /\ pc[t] = "idle" /\ Cardinality(handles[t]) < MaxHandles
  /\ launch' = [launch EXCEPT ![f] = o]
  /\ handles' = [handles EXCEPT ![t] = @ \cup {[fn |-> f, asked |-> o]}]
  /\ UNCHANGED <<given, compiled, builderVars, call, pc, mod, launches>>

\* _run takes the compile and code generation options out of the keywords.
\* What the decorator got of LaunchOptions stays, and the kernel's signature
\* has no such parameter.
Call(t, h) ==
  /\ pc[t] = "idle" /\ h \in handles[t]
  /\ Cardinality(launches) < MaxCalls /\ Len(modules) < MaxCalls
  /\ handles' = [handles EXCEPT ![t] = @ \ {h}]
  /\ call' = [call EXCEPT ![t] = h]
  /\ Goto(t, IF given[h.fn] THEN "refused" ELSE "lookup")
  /\ UNCHANGED <<given, launch, compiled, builderVars, mod, launches>>

Refuse(t) ==
  /\ pc[t] = "refused"
  /\ Goto(t, "idle")
  /\ UNCHANGED <<given, launch, compiled, builderVars, handles, call, mod, launches>>

Lookup(t) ==
  /\ pc[t] = "lookup"
  /\ Goto(t, IF compiled[call[t].fn] = None THEN "begin" ELSE "launch")
  /\ UNCHANGED <<given, launch, compiled, builderVars, handles, call, mod, launches>>

-----------------------------------------------------------------------------
(* _run_codegen.                                                           *)

\* Slip: the module is made once and kept.
NewModuleOnce == IF module = None THEN Append(modules, {}) ELSE modules

NewModule == Append(modules, {})

\* Slip: a module that is there is kept, the builder is new.
SetBuilderKeepsModule(t) ==
  /\ pc[t] = "begin"
  /\ modules' = NewModule
  /\ builder' = Len(NewModule) /\ module' = IF module = None THEN Len(NewModule) ELSE module
  /\ callbacks' = Append(callbacks, "builder")
  /\ Goto(t, "visit")
  /\ UNCHANGED <<given, launch, compiled, pipe, handles, call, mod, launches>>

SetBuilder(t) ==
  /\ pc[t] = "begin"
  /\ modules' = NewModule
  /\ builder' = Len(NewModule) /\ module' = Len(NewModule)
  /\ callbacks' = Append(callbacks, "builder")
  /\ Goto(t, "visit")
  /\ UNCHANGED <<given, launch, compiled, pipe, handles, call, mod, launches>>

\* create_context, before the try.
NoContext(t) ==
  /\ pc[t] = "begin"
  /\ Goto(t, "idle")
  /\ UNCHANGED <<given, launch, compiled, builderVars, handles, call, mod, launches>>

Contains(m, what, f) == modules' = [modules EXCEPT ![m] = @ \cup {[fn |-> f, op |-> what]}]

\* The body calls the API; require_jit looks whether there is a builder.
Emit(t) ==
  /\ pc[t] = "visit"
  /\ IF builder = None THEN Goto(t, "failed") /\ UNCHANGED modules
     ELSE /\ Contains(builder, "op", call[t].fn)
          /\ UNCHANGED pc
  /\ UNCHANGED <<given, launch, compiled, builder, module, callbacks, pipe, handles, call, mod, launches>>

\* TPipe() creates its operation first, then TPipeManager.set looks whether
\* there is one already.
MakePipe(t) ==
  /\ pc[t] = "visit"
  /\ IF builder = None THEN Goto(t, "failed") /\ UNCHANGED <<modules, pipe, callbacks>>
     ELSE /\ Contains(builder, "pipe", call[t].fn)
          /\ IF pipe # None THEN Goto(t, "failed") /\ UNCHANGED <<pipe, callbacks>>
             ELSE pipe' = builder /\ callbacks' = Append(callbacks, "pipe") /\ UNCHANGED pc
  /\ UNCHANGED <<given, launch, compiled, builder, module, handles, call, mod, launches>>

VisitFails(t) ==
  /\ pc[t] = "visit"
  /\ Goto(t, "failed")
  /\ UNCHANGED <<given, launch, compiled, builderVars, handles, call, mod, launches>>

Visited(t) ==
  /\ pc[t] = "visit"
  /\ mod' = [mod EXCEPT ![t] = module]
  /\ Goto(t, "built")
  /\ UNCHANGED <<given, launch, compiled, builderVars, handles, call, launches>>

\* Slip: no finally, an exception leaves out the teardown.
TeardownOfSuccess(t) ==
  /\ pc[t] \in {"failed", "built"}
  /\ IF pc[t] = "failed" THEN UNCHANGED builderVars
     ELSE builder' = None /\ pipe' = None /\ callbacks' = <<>> /\ UNCHANGED <<module, modules>>
  /\ Goto(t, IF pc[t] = "built" THEN "compile" ELSE "idle")
  /\ UNCHANGED <<given, launch, compiled, handles, call, mod, launches>>

\* Slip: the callbacks are called as long as there are any.
TeardownForever(t) ==
  /\ pc[t] \in {"failed", "built"}
  /\ builder' = None /\ pipe' = None
  /\ UNCHANGED <<given, launch, compiled, module, modules, callbacks, handles, call, pc, mod, launches>>

Teardown(t) ==
  /\ pc[t] \in {"failed", "built"}
  /\ LET has(what) == \E i \in DOMAIN callbacks : callbacks[i] = what
     IN  /\ builder' = IF has("builder") THEN None ELSE builder
         /\ pipe' = IF has("pipe") THEN None ELSE pipe
  /\ callbacks' = <<>>
  /\ Goto(t, IF pc[t] = "built" THEN "compile" ELSE "idle")
  /\ UNCHANGED <<given, launch, compiled, module, modules, handles, call, mod, launches>>

-----------------------------------------------------------------------------
(* The rest of _run.                                                       *)

Compile(t) ==
  /\ pc[t] = "compile"
  /\ \/ compiled' = [compiled EXCEPT ![call[t].fn] = modules[mod[t]]] /\ Goto(t, "launch")
     \/ UNCHANGED compiled /\ Goto(t, "idle")
  /\ UNCHANGED <<given, launch, builderVars, handles, call, mod, launches>>

\* self.launch_options is read here.
Launch(t) ==
  /\ pc[t] = "launch"
  /\ LET f == call[t].fn
     IN  launches' = launches \cup {[fn |-> f, asked |-> call[t].asked, options |-> launch[f], code |-> compiled[f]]}
  /\ Goto(t, "idle")
  /\ UNCHANGED <<given, launch, compiled, builderVars, handles, call, mod>>

Step(t) ==
  \/ Refuse(t) \/ Lookup(t) \/ SetBuilder(t) \/ NoContext(t) \/ VisitFails(t) \/ Visited(t)
  \/ Teardown(t) \/ Compile(t) \/ Launch(t)

Next ==
  \E t \in Threads :
    \/ Step(t) \/ Emit(t) \/ MakePipe(t)
    \/ \E f \in Fns, o \in Options : Subscript(t, f, o)
    \/ \E h \in Handles : Call(t, h)

\* A thread inside a call goes on, and a kernel's body ends.
Fairness == \A t \in Threads : WF_vars(Step(t))

Spec == Init /\ [][Next]_vars /\ Fairness

-----------------------------------------------------------------------------
(* What is checked.                                                        *)

\* The variables have their types.
TypeOK ==
  /\ launch \in [Fns -> Options \cup {NoOptions}]
  /\ module = None \/ module \in DOMAIN modules
  /\ builder = None \/ builder = module
  /\ handles \in [Threads -> SUBSET Handles]
  /\ pc \in [Threads -> Codegen \cup {"idle", "refused", "lookup", "compile", "launch"}]

\* A kernel that is launched consists of what its own function's body created
\* and of nothing else: not of another function's, and with the TPipe, the
\* module and the builder of a call that failed before long gone.
OwnCode == \A l \in launches : \A op \in l.code : op.fn = l.fn

\* Between calls no builder, no TPipe and no callback is left, whatever way
\* the calls before ended.  With a builder left, the API would accept calls
\* outside of kernels; with a TPipe left, the next kernel could not make one.
NothingLeft ==
  (\A t \in Threads : pc[t] \notin Codegen \ {"begin"}) => builder = None /\ pipe = None /\ callbacks = <<>>

\* A kernel runs with the options that its own subscript gave.
LaunchedAsAsked == \A l \in launches : l.options = l.asked

\* What is launched is the kernel that was called, the way it was asked for.
LaunchesAreRight == TypeOK /\ OwnCode /\ LaunchedAsAsked

\* Options the decorator accepts do not make every call fail.
AcceptedOptionsWork == \A t \in Threads : pc[t] # "refused"

\* Every call returns or raises.
CallEnds == \A t \in Threads : pc[t] # "idle" ~> pc[t] = "idle"
=============================================================================
