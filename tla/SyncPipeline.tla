---------------------------- MODULE SyncPipeline ----------------------------
(***************************************************************************)
(* The synchronisation passes in a row: with insert_sync the compiler      *)
(* (_schedule_optimizing and _schedule_postprocessing of                   *)
(* python/asc/runtime/compiler.py) inserts the synchronisation, and with   *)
(* verify_sync VerifySync walks over what came of it.  Without insert_sync *)
(* it walks over the queue operations the author wrote.                    *)
(*                                                                         *)
(* VerifySync knows an operation by its place and looks at queues only:    *)
(* Script is what it sees of a kernel, one entry for each tensor that an   *)
(* operation uses.  A queue is known by its tensor: Queues are the tensors *)
(* of all plans.                                                           *)
(***************************************************************************)
EXTENDS SyncPasses, VerifySync

\* What an operation does to queues, with the values themselves for tensors.
Seen(op) ==
  LET Of(kind, v) == [kind |-> kind, queue |-> v[1], value |-> v]
      used == SetToSeq({v \in Uses(op) : Queued(v[1])})
  IN CASE op.kind \in {"alloc", "deque"} -> <<Of(op.kind, op.def)>>
       [] op.kind \in {"enque", "free"} -> <<Of(op.kind, used[1])>>
       [] op.kind \in Accesses -> [i \in DOMAIN used |-> Of("use", used[i])]
       [] OTHER -> <<>>

Script ==
  LET s == FlattenSeq([i \in DOMAIN code |-> Seen(code[i])])
      Defines(i) == s[i].kind \in {"alloc", "deque"}
      Place(v) == CHOOSE i \in DOMAIN s : Defines(i) /\ s[i].value = v
  IN [i \in DOMAIN s |->
        [kind |-> s[i].kind,
         queue |-> IF s[i].kind = "use" THEN CHOOSE q \in Queues : TRUE ELSE s[i].queue,
         tensor |-> IF Defines(i) THEN 0 ELSE Place(s[i].value)]]

PipelineInit == Init /\ VerifyInit

Author ==
  /\ ~plan.insert
  /\ VerifyNext /\ Len(ops') <= plan.ops /\ (ops' # ops => Last(ops').queue \in Own)
  /\ UNCHANGED vars

\* VerifySync is one of the last passes.
VerifyWalk ==
  /\ plan.insert /\ phase \in {"done", "verify"} /\ phase' = "verify"
  /\ IF Len(ops) < Len(Script) THEN ops' = Append(ops, Script[Len(ops) + 1]) /\ VerifyNext ELSE Finish
  /\ UNCHANGED <<plan, code, inner, at>>

PipelineNext ==
  \/ plan.insert /\ Next /\ UNCHANGED verifyVars
  \/ Author
  \/ VerifyWalk

PipelineSpec == PipelineInit /\ [][PipelineNext]_<<vars, verifyVars>>

-----------------------------------------------------------------------------
(* Properties *)

\* The variables have their types.
PipelineTypeOK == TypeOK /\ VerifyTypeOK

\* The module is valid: what is put into queues comes from queues, and a value
\* is used where it is defined.
ModuleIsValid == PipelineTypeOK /\ UsesDominated

\* The compiler does not warn of its own synchronisation, and does not die of
\* it, but for the kernels the passes do not cope with.
InsertedIsAccepted ==
  plan.insert /\ (warnings # {} \/ walk = "crashed") =>
    \E t \in Tensors : Abandoned(t) \/ Split(t) \/ Carried(t)
=============================================================================
