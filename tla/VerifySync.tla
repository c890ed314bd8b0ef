----------------------------- MODULE VerifySync -----------------------------
(***************************************************************************)
(* The pass that checks the queue operations of a kernel:                  *)
(* lib/Dialect/Asc/Transforms/VerifySync.cpp.                              *)
(*                                                                         *)
(* It walks over the function once, keeps for every queue the allocations  *)
(* and enques that are still open, and pairs a deque with the first open   *)
(* enque and a release with its allocation.  What finds no partner is      *)
(* warned of.  The walk looks back only, so here the kernel grows by one   *)
(* operation and the pass handles it in the same step.  Branches are left  *)
(* out: the kernel is what the walk comes across, in that order.           *)
(*                                                                         *)
(* An operation is known by its place, and so is the tensor it returns;    *)
(* tensor 0 is an argument of the function.                                *)
(***************************************************************************)
EXTENDS Integers, SequencesExt

CONSTANTS
  Queues,
  MaxOps  \* bound: operations of a kernel

VARIABLES
  ops,       \* the function
  queBinds,  \* per queue, the open allocations and enques (a list in the code,
             \* in the order of the walk, which is the order of their places)
  deqToEnq,  \* deques that found an enque, and which
  warnings,  \* <<what, at which operation>>
  walk       \* on, done or crashed

verifyVars == <<ops, queBinds, deqToEnq, warnings, walk>>

Handles == {0} \cup {i \in DOMAIN ops : ops[i].kind \in {"alloc", "deque"}}
Here == Len(ops) + 1
Places == 1 .. Len(ops)
Kind(i) == ops[i].kind
Open(q) == queBinds[q]

VerifyInit ==
  /\ ops = <<>> /\ warnings = {} /\ walk = "on"
  /\ queBinds = [q \in Queues |-> {}]
  /\ deqToEnq = <<>>

Walk(kind, q, tensor) ==
  /\ walk = "on" /\ Len(ops) < MaxOps
  /\ ops' = Append(ops, [kind |-> kind, queue |-> q, tensor |-> tensor])

Warn(what, places) == warnings' = warnings \cup ({what} \X places)

Use ==
  /\ \E t \in Handles : Walk("use", CHOOSE q \in Queues : TRUE, t)
  /\ UNCHANGED <<queBinds, deqToEnq, warnings, walk>>

Alloc ==
  /\ \E q \in Queues : Walk("alloc", q, 0) /\ queBinds' = [queBinds EXCEPT ![q] = @ \cup {Here}]
  /\ UNCHANGED <<deqToEnq, warnings, walk>>

Enque ==
  /\ \E q \in Queues, t \in Handles :
       Walk("enque", q, t) /\ queBinds' = [queBinds EXCEPT ![q] = @ \cup {Here}]
  /\ UNCHANGED <<deqToEnq, warnings, walk>>

OpenEnques(q) == {i \in Open(q) : Kind(i) = "enque"}

\* Slip: the last open enque.
LatestEnque(q) == Max(OpenEnques(q))

\* Slip: whatever is open for longest.
FirstOpen(q) == Min(Open(q))

\* The first open enque of a queue.
FirstEnque(q) == Min(OpenEnques(q))

Deque ==
  \E q \in Queues :
    /\ Walk("deque", q, 0)
    /\ IF OpenEnques(q) # {}
       THEN LET e == FirstEnque(q)
                users == {i \in e + 1 .. Len(ops) : Kind(i) \in {"use", "enque", "free"} /\ ops[i].tensor = ops[e].tensor}
            IN /\ queBinds' = [queBinds EXCEPT ![q] = @ \ {e}]
               /\ deqToEnq' = [d \in DOMAIN deqToEnq \cup {Here} |-> IF d = Here THEN e ELSE deqToEnq[d]]
               /\ Warn("between", users)
       ELSE Warn("deque", {Here}) /\ UNCHANGED <<queBinds, deqToEnq>>
    /\ UNCHANGED walk

\* findDef: the allocation a tensor comes from, through the deques; 0 if it is
\* none; -1 where it asks a deque without an enque for the enque's tensor, and
\* dereferences a null operation.
FindDef(t) ==
  LET def[i \in 0 .. Len(ops)] ==
        IF i = 0 THEN 0
        ELSE IF Kind(i) = "alloc" THEN i
        ELSE IF i \in DOMAIN deqToEnq THEN def[ops[deqToEnq[i]].tensor]
        ELSE -1
  IN def[t]

\* The search for an allocation casts each open operation to one, and
\* dereferences the null of the first enque it meets.
NullCast(q, a) == \E e \in OpenEnques(q) : a \notin Open(q) \/ e < a

\* A null operation is dereferenced: the process dies, or what is read there
\* matches nothing and the pass goes on.
Free ==
  \E q \in Queues, t \in Handles :
    LET def == FindDef(t) IN
    /\ Walk("free", q, t)
    /\ \/ /\ def = -1 \/ (def > 0 /\ NullCast(q, def))
          /\ walk' = "crashed"
          /\ UNCHANGED <<queBinds, warnings>>
       \/ /\ IF def <= 0 THEN Warn("unallocated", {Here}) /\ UNCHANGED queBinds
             ELSE IF def \in Open(q) THEN queBinds' = [queBinds EXCEPT ![q] = @ \ {def}] /\ UNCHANGED warnings
             ELSE Warn("freed", {Here}) /\ UNCHANGED queBinds
          /\ UNCHANGED walk
    /\ UNCHANGED deqToEnq

Left(kind) == {i \in DOMAIN ops : Kind(i) = kind /\ i \in Open(ops[i].queue)}

Finish ==
  /\ walk = "on" /\ walk' = "done"
  /\ warnings' = warnings \cup ({"alloc"} \X Left("alloc")) \cup ({"enque"} \X Left("enque"))
  /\ UNCHANGED <<ops, queBinds, deqToEnq>>

VerifyNext == Use \/ Alloc \/ Enque \/ Deque \/ Free \/ Finish
VerifySpec == VerifyInit /\ [][VerifyNext]_verifyVars

-----------------------------------------------------------------------------
(* What a kernel deserves to be warned of.                                 *)

VerifyTypeOK ==
  /\ DOMAIN queBinds = Queues
  /\ \A q \in Queues : \A i \in Open(q) : i \in DOMAIN ops /\ Kind(i) \in {"alloc", "enque"}
  /\ \A d \in DOMAIN deqToEnq : Kind(d) = "deque" /\ Kind(deqToEnq[d]) = "enque" /\ deqToEnq[d] < d
  /\ warnings \subseteq {"between", "deque", "unallocated", "freed", "alloc", "enque"} \X Places
  /\ walk \in {"on", "done", "crashed"}

\* A queue is first in, first out: place i of kind has number Rank(i) among its
\* kind, deques of an empty queue not counted.
Earlier(kind, q, i) == {j \in 1 .. i - 1 : Kind(j) = kind /\ ops[j].queue = q}
InQueueAt(q) ==
  LET inside[i \in 1 .. Len(ops) + 1] ==
        IF i = 1 THEN 0
        ELSE CASE Kind(i - 1) = "enque" /\ ops[i - 1].queue = q -> inside[i - 1] + 1
               [] Kind(i - 1) = "deque" /\ ops[i - 1].queue = q /\ inside[i - 1] > 0 -> inside[i - 1] - 1
               [] OTHER -> inside[i - 1]
  IN inside
Empty(d) == InQueueAt(ops[d].queue)[d] = 0
Rank(i) == Cardinality({j \in Earlier(Kind(i), ops[i].queue, i) : Kind(i) = "deque" => ~Empty(j)})
Pairs ==
  {p \in Places \X Places :
     /\ Kind(p[1]) = "enque" /\ Kind(p[2]) = "deque" /\ ops[p[1]].queue = ops[p[2]].queue
     /\ ~Empty(p[2]) /\ Rank(p[1]) = Rank(p[2])}

\* The buffer a tensor stands for: the place of its allocation, or 0.
Buffer(t) ==
  LET buffer[i \in 0 .. Len(ops)] ==
        IF i = 0 \/ Kind(i) = "alloc" THEN i
        ELSE IF \E p \in Pairs : p[2] = i THEN buffer[ops[(CHOOSE p \in Pairs : p[2] = i)[1]].tensor]
        ELSE 0
  IN buffer[t]

Releases(i, a) == Kind(i) = "free" /\ Buffer(ops[i].tensor) = a /\ ops[i].queue = ops[a].queue

Deserved ==
  LET i == Places IN
     {<<"deque", d>> : d \in {j \in i : Kind(j) = "deque" /\ Empty(j)}}
  \cup {<<"enque", e>> : e \in {j \in i : Kind(j) = "enque" /\ \A p \in Pairs : p[1] # j}}
  \cup {<<"alloc", a>> : a \in {j \in i : Kind(j) = "alloc" /\ \A k \in i : ~Releases(k, j)}}
  \cup {<<"unallocated", f>> : f \in {j \in i : Kind(j) = "free" /\ Buffer(ops[j].tensor) = 0}}
  \cup {<<"freed", f>> : f \in {j \in i : /\ Kind(j) = "free"
                                           /\ LET a == Buffer(ops[j].tensor)
                                              IN a # 0 /\ (~Releases(j, a) \/ \E k \in 1 .. j - 1 : Releases(k, a))}}
  \cup {<<"between", u>> : u \in {j \in i : /\ Kind(j) \in {"use", "enque", "free"}
                                             /\ \E p \in Pairs : p[1] < j /\ j < p[2] /\ ops[p[1]].tensor = ops[j].tensor}}

\* If the pass gets to its end it has warned of every operation without its
\* partner, with queues first in, first out, and of no other.
WarningsAreRight == walk = "done" => warnings = Deserved
=============================================================================
