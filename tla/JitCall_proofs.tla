--------------------------- MODULE JitCall_proofs ---------------------------
(***************************************************************************)
(* Proofs about JitCall, for any functions, options and number of calls,   *)
(* in a process with one thread that calls each handle before it asks for  *)
(* the next one.  Neither can be left out: with two threads, or with a     *)
(* handle kept, the properties do not hold.                                *)
(*                                                                         *)
(* The inductive invariant says what a step of the call relies on: the     *)
(* module being built holds operations of the called function alone, what  *)
(* is there will be torn down, and the options are still those asked for.  *)
(***************************************************************************)
EXTENDS JitCall, FiniteSetTheorems, TLAPS

OneThread == \A s, t \in Threads : s = t
CallsAtOnce == MaxHandles = 1

Own(code, f) == \A op \in code : op.fn = f

Types ==
  /\ TypeOK
  /\ modules \in Seq(SUBSET Ops)
  /\ callbacks \in Seq({"builder", "pipe"})
  /\ compiled \in [Fns -> (SUBSET Ops) \cup {None}]
  /\ call \in [Threads -> Handles \cup {None}]
  /\ mod \in [Threads -> Nat \cup {None}]
  /\ module # None => module \in Nat

\* The teardown finds what it has to undo (on_teardown, TPipeManager.set).
TornDown ==
  /\ builder # None => \E i \in DOMAIN callbacks : callbacks[i] = "builder"
  /\ pipe # None => \E i \in DOMAIN callbacks : callbacks[i] = "pipe"

\* What the steps of t's call rely on.
Prepared(t) ==
  /\ pc[t] \notin {"idle", "refused"} => call[t] \in Handles /\ launch[call[t].fn] = call[t].asked
  /\ pc[t] # "idle" => handles[t] = {}
  /\ \A h \in handles[t] : handles[t] = {h} /\ launch[h.fn] = h.asked
  /\ pc[t] = "visit" => builder \in DOMAIN modules /\ Own(modules[builder], call[t].fn)
  /\ pc[t] \in {"built", "compile"} => mod[t] \in DOMAIN modules /\ Own(modules[mod[t]], call[t].fn)
  /\ pc[t] = "launch" => compiled[call[t].fn] # None

KernelsOwn == \A f \in Fns : compiled[f] # None => Own(compiled[f], f)

IInv ==
  /\ Types
  /\ TornDown
  /\ \A t \in Threads : Prepared(t)
  /\ KernelsOwn
  /\ NothingLeft
  /\ OwnCode
  /\ LaunchedAsAsked

-----------------------------------------------------------------------------

LEMMA InitInv == Init => IInv
<1> SUFFICES ASSUME Init PROVE IInv
  OBVIOUS
<1>1. Types
  BY DEF Init, Types, TypeOK, Codegen
<1>2. TornDown /\ KernelsOwn /\ NothingLeft /\ OwnCode /\ LaunchedAsAsked
  BY DEF Init, TornDown, KernelsOwn, NothingLeft, OwnCode, LaunchedAsAsked
<1>3. \A t \in Threads : Prepared(t)
  BY DEF Init, Prepared
<1> QED BY <1>1, <1>2, <1>3 DEF IInv

\* kernel[...] of a thread without handles: the stored options are those of
\* the one handle there is.
LEMMA SubscriptPreserves ==
  ASSUME OneThread, CallsAtOnce, IInv, NEW t \in Threads, NEW f \in Fns, NEW o \in Options, Subscript(t, f, o)
  PROVE  IInv'
<1>1. handles[t] = {}
  <2>1. ASSUME NEW h \in handles[t] PROVE FALSE
    <3>1. handles[t] = {h}
      BY <2>1 DEF IInv, Prepared
    <3>2. Cardinality(handles[t]) = 1
      BY <3>1, FS_Singleton
    <3> QED BY <3>2 DEF Subscript, CallsAtOnce
  <2> QED BY <2>1
<1>2. handles' = [handles EXCEPT ![t] = {[fn |-> f, asked |-> o]}]
  BY <1>1 DEF Subscript, IInv, Types, TypeOK
<1>3. Types'
  BY <1>2 DEF IInv, Types, TypeOK, Subscript, Handles, builderVars
<1>4. ASSUME NEW s \in Threads PROVE Prepared(s)'
  <2>1. s = t
    BY DEF OneThread
  <2>2. handles'[s] = {[fn |-> f, asked |-> o]} /\ launch'[f] = o /\ pc'[s] = "idle"
    BY <1>2, <2>1 DEF Subscript, IInv, Types, TypeOK
  <2> QED BY <2>2 DEF Prepared
<1>5. (TornDown /\ KernelsOwn /\ NothingLeft /\ OwnCode /\ LaunchedAsAsked)'
  BY DEF IInv, TornDown, KernelsOwn, NothingLeft, OwnCode, LaunchedAsAsked, Subscript, builderVars
<1> QED BY <1>3, <1>4, <1>5 DEF IInv

\* The call, and the steps before code generation.
LEMMA CallPreserves ==
  ASSUME OneThread, IInv, NEW t \in Threads, NEW h \in Handles, Call(t, h)
  PROVE  IInv'
<1>1. Types'
  BY DEF IInv, Types, TypeOK, Call, Goto, Codegen, builderVars
<1>2. ASSUME NEW s \in Threads PROVE Prepared(s)'
  <2>1. s = t
    BY DEF OneThread
  <2>2. /\ handles'[s] = {} /\ call'[s] = h /\ launch' = launch /\ launch[h.fn] = h.asked
        /\ pc'[s] \in {"refused", "lookup"}
    BY <2>1 DEF Call, Goto, IInv, Types, TypeOK, Prepared
  <2> QED BY <2>2 DEF Prepared
<1>3. (TornDown /\ KernelsOwn /\ NothingLeft /\ OwnCode /\ LaunchedAsAsked)'
  BY DEF IInv, TornDown, KernelsOwn, NothingLeft, OwnCode, LaunchedAsAsked, Call, Goto, Codegen, builderVars, Types, TypeOK
<1> QED BY <1>1, <1>2, <1>3 DEF IInv

LEMMA LookupPreserves ==
  ASSUME OneThread, IInv, NEW t \in Threads, Refuse(t) \/ Lookup(t) \/ NoContext(t)
  PROVE  IInv'
<1>1. /\ UNCHANGED <<given, launch, compiled, builderVars, handles, call, mod, launches>>
      /\ pc[t] \in {"refused", "lookup", "begin"}
      /\ \E step \in {"idle", "begin", "launch"} :
           /\ pc' = [pc EXCEPT ![t] = step]
           /\ step = "begin" => pc[t] = "lookup"
           /\ step = "launch" => pc[t] = "lookup" /\ compiled[call[t].fn] # None
  BY DEF Refuse, Lookup, NoContext, Goto
<1>2. Types'
  BY <1>1 DEF IInv, Types, TypeOK, Codegen, builderVars
<1>3. ASSUME NEW s \in Threads PROVE Prepared(s)'
  <2>1. s = t
    BY DEF OneThread
  <2> QED BY <1>1, <2>1 DEF IInv, Types, TypeOK, Prepared, builderVars
<1>4. (TornDown /\ KernelsOwn /\ NothingLeft /\ OwnCode /\ LaunchedAsAsked)'
  BY <1>1 DEF IInv, TornDown, KernelsOwn, NothingLeft, OwnCode, LaunchedAsAsked, Codegen, builderVars, Types, TypeOK
<1> QED BY <1>2, <1>3, <1>4 DEF IInv

\* A new module is empty, and its builder will be torn down.
LEMMA SetBuilderPreserves ==
  ASSUME OneThread, IInv, NEW t \in Threads, SetBuilder(t)
  PROVE  IInv'
<1> DEFINE n == Len(modules) + 1
<1>1. /\ modules' = Append(modules, {}) /\ builder' = n /\ module' = n
      /\ callbacks' = Append(callbacks, "builder")
      /\ pc' = [pc EXCEPT ![t] = "visit"]
      /\ UNCHANGED <<given, launch, compiled, pipe, handles, call, mod, launches>>
  BY DEF SetBuilder, NewModule, Goto, IInv, Types
<1>2. n \in DOMAIN modules' /\ modules'[n] = {} /\ modules' \in Seq(SUBSET Ops) /\ n \in Nat
  BY <1>1 DEF IInv, Types
<1>3. /\ callbacks' \in Seq({"builder", "pipe"})
      /\ callbacks'[Len(callbacks) + 1] = "builder" /\ Len(callbacks) + 1 \in DOMAIN callbacks'
      /\ \A i \in DOMAIN callbacks : i \in DOMAIN callbacks' /\ callbacks'[i] = callbacks[i]
  BY <1>1 DEF IInv, Types
<1> HIDE DEF n
<1>4. Types'
  BY <1>1, <1>2, <1>3 DEF IInv, Types, TypeOK, Codegen
<1>5. ASSUME NEW s \in Threads PROVE Prepared(s)'
  <2>1. s = t
    BY DEF OneThread
  <2>2. /\ pc[s] = "begin" /\ pc'[s] = "visit"
        /\ call[s] \in Handles /\ launch[call[s].fn] = call[s].asked /\ handles[s] = {}
    BY <1>1, <2>1 DEF SetBuilder, IInv, Types, TypeOK, Prepared
  <2> QED BY <1>1, <1>2, <2>2 DEF Prepared, Own
<1>6. TornDown'
  BY <1>1, <1>3 DEF IInv, TornDown
<1>7. NothingLeft'
  BY <1>1 DEF NothingLeft, Codegen, IInv, Types, TypeOK
<1>8. (KernelsOwn /\ OwnCode /\ LaunchedAsAsked)'
  BY <1>1 DEF IInv, KernelsOwn, OwnCode, LaunchedAsAsked
<1> QED BY <1>4, <1>5, <1>6, <1>7, <1>8 DEF IInv

\* The body puts operations of its own function into the module.
LEMMA EmitPreserves ==
  ASSUME OneThread, IInv, NEW t \in Threads, Emit(t) \/ MakePipe(t)
  PROVE  IInv'
<1>1. /\ pc[t] = "visit" /\ call[t] \in Handles /\ call[t].fn \in Fns
      /\ builder \in DOMAIN modules /\ Own(modules[builder], call[t].fn)
      /\ builder \in Nat /\ builder # None
      /\ launch[call[t].fn] = call[t].asked /\ handles[t] = {}
  BY NoneAssumption DEF Emit, MakePipe, IInv, Types, TypeOK, Prepared, Handles
<1>2. PICK what \in {"op", "pipe"} :
        modules' = [modules EXCEPT ![builder] = @ \cup {[fn |-> call[t].fn, op |-> what]}]
  BY <1>1 DEF Emit, MakePipe, Contains
<1>3. /\ UNCHANGED <<given, launch, compiled, builder, module, handles, call, mod, launches>>
      /\ pc' \in {pc, [pc EXCEPT ![t] = "failed"]}
      /\ \/ UNCHANGED <<pipe, callbacks>>
         \/ callbacks' = Append(callbacks, "pipe")
  BY <1>1 DEF Emit, MakePipe, Goto
<1>4. /\ DOMAIN modules' = DOMAIN modules /\ modules' \in Seq(SUBSET Ops)
      /\ Own(modules'[builder], call[t].fn)
  BY <1>1, <1>2 DEF IInv, Types, Ops, Own
<1>5. /\ callbacks' \in Seq({"builder", "pipe"})
      /\ \A i \in DOMAIN callbacks : i \in DOMAIN callbacks' /\ callbacks'[i] = callbacks[i]
      /\ \/ UNCHANGED <<pipe, callbacks>>
         \/ Len(callbacks) + 1 \in DOMAIN callbacks' /\ callbacks'[Len(callbacks) + 1] = "pipe"
  <2>1. callbacks \in Seq({"builder", "pipe"})
    BY DEF IInv, Types
  <2>2. CASE UNCHANGED <<pipe, callbacks>>
    BY <2>1, <2>2
  <2>3. CASE callbacks' = Append(callbacks, "pipe")
    BY <2>1, <2>3
  <2> QED BY <1>3, <2>2, <2>3
<1>6. Types'
  BY <1>3, <1>4, <1>5 DEF IInv, Types, TypeOK, Codegen
<1>7. ASSUME NEW s \in Threads PROVE Prepared(s)'
  <2>1. s = t /\ pc'[s] \in {"visit", "failed"}
    BY <1>1, <1>3 DEF OneThread, IInv, Types, TypeOK
  <2> QED BY <1>1, <1>3, <1>4, <2>1 DEF Prepared
<1>8. TornDown'
  BY <1>3, <1>5 DEF IInv, TornDown
<1>9. NothingLeft'
  BY <1>1, <1>3 DEF NothingLeft, Codegen, IInv, Types, TypeOK
<1>10. (KernelsOwn /\ OwnCode /\ LaunchedAsAsked)'
  BY <1>3 DEF IInv, KernelsOwn, OwnCode, LaunchedAsAsked
<1> QED BY <1>6, <1>7, <1>8, <1>9, <1>10 DEF IInv

\* The body is done, or raises.
LEMMA VisitPreserves ==
  ASSUME OneThread, IInv, NEW t \in Threads, VisitFails(t) \/ Visited(t)
  PROVE  IInv'
<1>1. /\ pc[t] = "visit" /\ builder \in DOMAIN modules /\ builder = module /\ module \in Nat
      /\ Own(modules[builder], call[t].fn)
  BY NoneAssumption DEF VisitFails, Visited, IInv, Types, TypeOK, Prepared
<1>2. /\ UNCHANGED <<given, launch, compiled, builderVars, handles, call, launches>>
      /\ \/ pc' = [pc EXCEPT ![t] = "failed"] /\ mod' = mod
         \/ pc' = [pc EXCEPT ![t] = "built"] /\ mod' = [mod EXCEPT ![t] = module]
  BY DEF VisitFails, Visited, Goto
<1>3. Types'
  BY <1>1, <1>2 DEF IInv, Types, TypeOK, Codegen, builderVars
<1>4. ASSUME NEW s \in Threads PROVE Prepared(s)'
  <2>1. s = t
    BY DEF OneThread
  <2> QED BY <1>1, <1>2, <2>1 DEF IInv, Types, TypeOK, Prepared, builderVars
<1>5. NothingLeft'
  BY <1>1, <1>2 DEF NothingLeft, Codegen, IInv, Types, TypeOK
<1>6. (TornDown /\ KernelsOwn /\ OwnCode /\ LaunchedAsAsked)'
  BY <1>2 DEF IInv, TornDown, KernelsOwn, OwnCode, LaunchedAsAsked, builderVars
<1> QED BY <1>3, <1>4, <1>5, <1>6 DEF IInv

\* The teardown leaves nothing.
LEMMA TeardownPreserves ==
  ASSUME OneThread, IInv, NEW t \in Threads, Teardown(t)
  PROVE  IInv'
<1>1. /\ builder' = None /\ pipe' = None /\ callbacks' = <<>>
  BY DEF Teardown, IInv, TornDown
<1>2. /\ UNCHANGED <<given, launch, compiled, module, modules, handles, call, mod, launches>>
      /\ pc' = [pc EXCEPT ![t] = IF pc[t] = "built" THEN "compile" ELSE "idle"]
      /\ pc[t] \in {"failed", "built"}
  BY DEF Teardown, Goto
<1>3. Types'
  BY <1>1, <1>2 DEF IInv, Types, TypeOK, Codegen
<1>4. ASSUME NEW s \in Threads PROVE Prepared(s)'
  <2>1. s = t
    BY DEF OneThread
  <2> QED BY <1>2, <2>1 DEF IInv, Types, TypeOK, Prepared
<1>5. TornDown' /\ NothingLeft'
  BY <1>1 DEF TornDown, NothingLeft
<1>6. (KernelsOwn /\ OwnCode /\ LaunchedAsAsked)'
  BY <1>2 DEF IInv, KernelsOwn, OwnCode, LaunchedAsAsked
<1> QED BY <1>3, <1>4, <1>5, <1>6 DEF IInv

\* The compiler makes a kernel of the module, or raises.
LEMMA CompilePreserves ==
  ASSUME OneThread, IInv, NEW t \in Threads, Compile(t)
  PROVE  IInv'
<1> DEFINE f == call[t].fn
           code == modules[mod[t]]
<1>1. /\ pc[t] = "compile" /\ call[t] \in Handles /\ f \in Fns
      /\ code \in SUBSET Ops /\ code # None /\ Own(code, f)
  BY NoneAssumption DEF Compile, IInv, Types, TypeOK, Prepared, Handles
<1>2. /\ UNCHANGED <<given, launch, builderVars, handles, call, mod, launches>>
      /\ \/ compiled' = [compiled EXCEPT ![f] = code] /\ pc' = [pc EXCEPT ![t] = "launch"]
         \/ compiled' = compiled /\ pc' = [pc EXCEPT ![t] = "idle"]
  BY DEF Compile, Goto
<1> HIDE DEF code
<1>3. Types'
  BY <1>1, <1>2 DEF IInv, Types, TypeOK, Codegen, builderVars
<1>4. ASSUME NEW s \in Threads PROVE Prepared(s)'
  <2>1. s = t
    BY DEF OneThread
  <2> QED BY <1>1, <1>2, <2>1 DEF IInv, Types, TypeOK, Prepared, builderVars
<1>5. KernelsOwn'
  BY <1>1, <1>2 DEF IInv, Types, KernelsOwn
<1>6. NothingLeft'
  BY <1>1, <1>2 DEF NothingLeft, Codegen, IInv, Types, TypeOK, builderVars
<1>7. (TornDown /\ OwnCode /\ LaunchedAsAsked)'
  BY <1>2 DEF IInv, TornDown, OwnCode, LaunchedAsAsked, builderVars
<1> QED BY <1>3, <1>4, <1>5, <1>6, <1>7 DEF IInv

\* The launch reads the options; nobody has subscripted the function since.
LEMMA LaunchPreserves ==
  ASSUME OneThread, IInv, NEW t \in Threads, Launch(t)
  PROVE  IInv'
<1> DEFINE f == call[t].fn
           new == [fn |-> f, asked |-> call[t].asked, options |-> launch[f], code |-> compiled[f]]
<1>1. /\ pc[t] = "launch" /\ f \in Fns /\ launch[f] = call[t].asked
      /\ Own(compiled[f], f)
  BY DEF Launch, IInv, Types, Prepared, KernelsOwn, Handles
<1>2. /\ launches' = launches \cup {new} /\ pc' = [pc EXCEPT ![t] = "idle"]
      /\ UNCHANGED <<given, launch, compiled, builderVars, handles, call, mod>>
  BY DEF Launch, Goto
<1>3. Types'
  BY <1>2 DEF IInv, Types, TypeOK, builderVars
<1>4. ASSUME NEW s \in Threads PROVE Prepared(s)'
  <2>1. s = t
    BY DEF OneThread
  <2> QED BY <1>1, <1>2, <2>1 DEF IInv, Types, TypeOK, Prepared
<1>5. (OwnCode /\ LaunchedAsAsked)'
  BY <1>1, <1>2 DEF IInv, OwnCode, LaunchedAsAsked, Own
<1>6. NothingLeft'
  BY <1>1, <1>2 DEF NothingLeft, Codegen, IInv, Types, TypeOK, builderVars
<1>7. (TornDown /\ KernelsOwn)'
  BY <1>2 DEF IInv, TornDown, KernelsOwn, builderVars
<1> QED BY <1>3, <1>4, <1>5, <1>6, <1>7 DEF IInv

LEMMA NextPreserves ==
  ASSUME OneThread, CallsAtOnce
  PROVE  IInv /\ [Next]_vars => IInv'
<1> SUFFICES ASSUME IInv, [Next]_vars PROVE IInv'
  OBVIOUS
<1>1. CASE UNCHANGED vars
  BY <1>1 DEF vars, IInv, Types, TypeOK, TornDown, Prepared, KernelsOwn, NothingLeft, OwnCode, LaunchedAsAsked
<1>2. CASE Next
  BY <1>2, SubscriptPreserves, CallPreserves, LookupPreserves, SetBuilderPreserves, EmitPreserves,
     VisitPreserves, TeardownPreserves, CompilePreserves, LaunchPreserves DEF Next, Step
<1> QED BY <1>1, <1>2

THEOREM Invariance == OneThread /\ CallsAtOnce /\ Spec => []IInv
<1> SUFFICES ASSUME OneThread, CallsAtOnce PROVE Spec => []IInv
  OBVIOUS
<1>1. IInv /\ [Next]_vars => IInv'
  BY NextPreserves
<1> QED BY <1>1, InitInv, PTL DEF Spec

\* A kernel consists of its own function's operations and runs with the options
\* of its own subscript, whichever calls failed before (_run, _run_codegen).
THEOREM LaunchesStayRight == OneThread /\ CallsAtOnce /\ Spec => []LaunchesAreRight
<1>1. IInv => LaunchesAreRight
  BY DEF IInv, Types, LaunchesAreRight
<1> QED BY <1>1, Invariance, PTL

\* No builder, TPipe or callback is left between calls (GlobalBuilder.teardown).
THEOREM CallsLeaveNothing == OneThread /\ CallsAtOnce /\ Spec => []NothingLeft
<1>1. IInv => NothingLeft
  BY DEF IInv
<1> QED BY <1>1, Invariance, PTL

=============================================================================
