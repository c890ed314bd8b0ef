----------------------------- MODULE SyncPasses -----------------------------
(***************************************************************************)
(* The passes that synchronise a kernel for its author: MaterializeTensor, *)
(* EraseSync and InsertSync of lib/Dialect/Asc/Transforms.                 *)
(*                                                                         *)
(* A kernel is a sequence of operations on local tensors, some of them in  *)
(* one loop.  Copies run on other pipes of the core than vector            *)
(* operations, and scalar accesses on a third: what one writes, the other  *)
(* may read only after a hand-over.  A tensor that takes part in a copy    *)
(* becomes the one buffer of a queue of its own, every other one a plain   *)
(* buffer.  The passes throw away the synchronisation they find and insert *)
(* enque and deque behind copies and vector operations that write to a     *)
(* queue's tensor, barriers behind those that write to a plain buffer, and *)
(* flags between scalar accesses and vector operations.  That is not every *)
(* dependence there is: Missing lists those that get nothing.              *)
(*                                                                         *)
(* The IR is flat: "for" and "end" mark the loop, and an operation knows   *)
(* whether it is inside.  A value is <<t, n>>, the n-th handle of tensor   *)
(* t: 0 is what the allocation returns, the others come out of deques.     *)
(* Plain buffers stay where they are declared; HoistUBAllocation moves     *)
(* them out of the loop, which orders nothing.                             *)
(***************************************************************************)
EXTENDS Integers, SequencesExt

CONSTANT
  Plans  \* bound: the tensors of a kernel, and how many operations its author writes

VARIABLES
  plan,   \* the one of this kernel
  code,   \* the function's body
  inner,  \* the tensors declared in the loop
  at,     \* the operation dequeueTensors looks at
  phase

vars == <<plan, code, inner, at, phase>>

Own == plan.own                   \* tensors of queues the kernel handles itself
Tensors == plan.auto \cup plan.own  \* the others are declared as LocalTensorAuto
None == <<>>
Global == <<"global">>
Accesses == {"copyin", "vector", "copyout", "get", "set"}
Op(kind, def, dst, src, loop) == [kind |-> kind, def |-> def, dst |-> dst, src |-> src, loop |-> loop]
Uses(op) == op.src \cup ({op.dst} \ {None, Global})
Touches(op, t) == \E v \in Uses(op) : v[1] = t
Sync(kind, loop) == Op(kind, None, None, {}, loop)
EnqueOp(v, loop) == Op("enque", None, None, {v}, loop)

\* The places of the operations of a kind.
At(kind) == {i \in DOMAIN code : code[i].kind = kind}
ForAt == CHOOSE i \in At("for") : TRUE
EndAt == CHOOSE i \in At("end") : TRUE
Looping == At("for") # {} /\ At("end") = {}
Count(s, kind, t) == Cardinality({i \in DOMAIN s : s[i].kind = kind /\ (Touches(s[i], t) \/ s[i].def \in {t} \X (0 .. Len(s)))})

Init == plan \in Plans /\ code = <<>> /\ inner = {} /\ at = 1 /\ phase = "program"

-----------------------------------------------------------------------------
(* The kernel as its author writes it.                                     *)

Written == Cardinality({i \in DOMAIN code : code[i].kind \in Accesses \cup {"enque", "deque"}})
Write(op) == phase = "program" /\ Written < plan.ops /\ code' = Append(code, op) /\ UNCHANGED <<plan, inner, at, phase>>

\* A tensor is in scope outside the loop, or where it was declared.
InScope(t) == t \in inner => Looping
Handle(t) == <<t, Cardinality({i \in DOMAIN code : code[i].kind = "deque" /\ code[i].def[1] = t})>>
InQueue(t) == Count(code, "enque", t) > Count(code, "deque", t)

\* The author of a queue touches its tensor only while it is not in the queue,
\* and in the block that declares it.
Usable(t) == InScope(t) /\ (t \in Own => ~InQueue(t) /\ (Looping => t \in inner))

Access ==
  \E t \in Tensors :
    /\ Usable(t)
    /\ \/ Write(Op("copyin", None, Handle(t), {}, Looping))
       \/ Write(Op("copyout", None, Global, {Handle(t)}, Looping))
       \/ \E u \in Tensors : Usable(u) /\ Write(Op("vector", None, Handle(t), {Handle(u)}, Looping))
       \/ \E kind \in {"get", "set"} : Write(Op(kind, None, None, {Handle(t)}, Looping))

OpenLoop ==
  /\ phase = "program" /\ At("for") = {}
  /\ inner' \in SUBSET {t \in Tensors : \A i \in DOMAIN code : ~Touches(code[i], t)}
  /\ code' = Append(code, Sync("for", FALSE))
  /\ UNCHANGED <<plan, at, phase>>

CloseLoop ==
  /\ phase = "program" /\ Looping /\ Last(code).kind # "for"
  /\ \A t \in Own \cap inner : ~InQueue(t)
  /\ code' = Append(code, Sync("end", FALSE))
  /\ UNCHANGED <<plan, inner, at, phase>>

OwnEnque == \E t \in Own : Usable(t) /\ Write(EnqueOp(Handle(t), Looping))

OwnDeque ==
  \E t \in Own : InScope(t) /\ InQueue(t) /\ Write(Op("deque", <<t, Handle(t)[2] + 1>>, None, {}, Looping))

-----------------------------------------------------------------------------
(* InputOutputTensor and MaterializeTensor.                                *)

\* A tensor that is copied to or from takes a queue; any other one a buffer.
Queued(t) == t \in Own \/ \E i \in DOMAIN code : code[i].kind \in {"copyin", "copyout"} /\ Touches(code[i], t)

Allocs(ts, loop) ==
  [i \in 1 .. Cardinality(ts) |->
     LET t == SetToSeq(ts)[i] IN Op(IF Queued(t) THEN "alloc" ELSE "buffer", <<t, 0>>, None, {}, loop)]

Frees(ts, loop) ==
  LET q == SetToSeq({t \in ts : Queued(t)}) IN [i \in DOMAIN q |-> Op("free", None, None, {<<q[i], 0>>}, loop)]

Materialize ==
  /\ phase = "program" /\ ~Looping
  /\ \A t \in Own : ~InQueue(t)
  /\ LET used == {t \in Tensors : \E i \in DOMAIN code : Touches(code[i], t)}
         Around(op) == CASE op.kind = "for" -> <<op>> \o Allocs(used \cap inner, TRUE)
                         [] op.kind = "end" -> Frees(used \cap inner, TRUE) \o <<op>>
                         [] OTHER -> <<op>>
     IN code' = Allocs(used \ inner, FALSE) \o FlattenSeq([i \in DOMAIN code |-> Around(code[i])]) \o Frees(used \ inner, FALSE)
  /\ phase' = "erase"
  /\ UNCHANGED <<plan, inner, at>>

-----------------------------------------------------------------------------
(* EraseSync.                                                              *)

\* A value that came out of a queue is replaced by the one its queue allocates.
Original(v) == IF v \in {None, Global} THEN v ELSE <<v[1], 0>>

Erase ==
  /\ phase = "erase"
  /\ code' = LET kept == SelectSeq(code, LAMBDA op : op.kind \notin {"enque", "deque"})
             IN [i \in DOMAIN kept |-> [kept[i] EXCEPT !.dst = Original(@), !.src = {Original(v) : v \in @}]]
  /\ phase' = "enque"
  /\ UNCHANGED <<plan, inner, at>>

-----------------------------------------------------------------------------
(* InsertSync.                                                             *)

\* Slip: a tensor of a plain buffer is taken for one of a queue.
HasAllocation(v) == \E i \in At("alloc") \cup At("buffer") \cup At("deque") : code[i].def = v

\* findQueue
HasQueue(v) == \E i \in At("alloc") \cup At("deque") : code[i].def = v

\* Slip: a tensor without a queue needs nothing.
AfterWriteQueues(op) ==
  IF op.dst = None \/ ~HasQueue(op.dst) THEN <<op>> ELSE <<op, EnqueOp(op.dst, op.loop)>>

AfterWrite(op) ==
  IF op.dst = None THEN <<op>>
  ELSE <<op, IF HasQueue(op.dst) THEN EnqueOp(op.dst, op.loop) ELSE Sync("V", op.loop)>>

EnqueueTensors ==
  /\ phase = "enque"
  /\ code' = FlattenSeq([i \in DOMAIN code |-> AfterWrite(code[i])])
  /\ phase' = "deque" /\ at' = 1
  /\ UNCHANGED <<plan, inner>>

\* Slip: the operation right behind the enque is overlooked.
UsersLater(i, v) == {j \in i + 2 .. Len(code) : v \in Uses(code[j]) /\ code[j].kind # "free"}

\* The operations after place i that use v, but for its release.
Users(i, v) == {j \in i + 1 .. Len(code) : v \in Uses(code[j]) /\ code[j].kind # "free"}

\* Slip: before the first user, wherever that is.
BeforeUser(i, users) == Min(users)

\* Slip: before the last user.
BeforeLast(i, users) == Max(users)

\* Where the deque goes: before the first user, or before the loop that holds it.
Before(i, users) ==
  LET first == Min(users) IN IF code[first].loop /\ ~code[i].loop THEN ForAt ELSE first

Renamed(op, v, d) ==
  [op EXCEPT !.dst = IF @ = v THEN d ELSE @, !.src = {IF u = v THEN d ELSE u : u \in @}]

\* Slip: it stays where it is.
MovesNever(i, pos) == FALSE

\* reEnque: an enque in the loop does not dominate a deque after it, and moves
\* behind the loop.
Moves(i, pos) == code[i].loop /\ ~code[pos].loop

Dequeue(i, v, users) ==
  LET pos == Before(i, users)
      d == <<v[1], Count(code, "deque", v[1]) + 1>>
      One(j) == (IF j = pos THEN <<Op("deque", d, None, {}, code[pos].loop)>> ELSE <<>>)
             \o (IF j = i /\ Moves(i, pos) THEN <<>>
                 ELSE <<IF j \in users THEN Renamed(code[j], v, d) ELSE code[j]>>)
             \o (IF Moves(i, pos) /\ j = EndAt THEN <<EnqueOp(v, FALSE)>> ELSE <<>>)
  IN FlattenSeq([j \in DOMAIN code |-> One(j)])

DequeueTensors ==
  /\ phase = "deque" /\ at <= Len(code)
  /\ LET v == CHOOSE u \in code[at].src : TRUE
         users == IF code[at].kind = "enque" THEN Users(at, v) ELSE {}
     IN IF users = {} THEN at' = at + 1 /\ code' = code
        ELSE /\ code' = Dequeue(at, v, users)
             /\ at' = IF Moves(at, Before(at, users)) THEN at ELSE at + 1
  /\ UNCHANGED <<plan, inner, phase>>

\* Slip: the flags go around any loop that holds a set.
LonelyAny(i) == code[i].kind = "set" /\ code[i].loop

\* syncGetValueOp, syncSetValueOp: a loop around nothing but a set is left
\* without flags inside.
Lonely(i) == code[i].kind = "set" /\ code[i].loop /\ EndAt = ForAt + 2

AroundScalar(i) ==
  CASE code[i].kind \in {"get", "set"} /\ ~Lonely(i) ->
         <<Sync("V_S", code[i].loop), code[i], Sync("S_V", code[i].loop)>>
    [] code[i].kind = "for" /\ \E j \in DOMAIN code : Lonely(j) -> <<Sync("V_S", FALSE), code[i]>>
    [] code[i].kind = "end" /\ \E j \in DOMAIN code : Lonely(j) -> <<code[i], Sync("S_V", FALSE)>>
    [] OTHER -> <<code[i]>>

SyncScalars ==
  /\ phase = "deque" /\ at > Len(code)
  /\ code' = FlattenSeq([i \in DOMAIN code |-> AroundScalar(i)])
  /\ phase' = "barrier" /\ at' = 1
  /\ UNCHANGED <<plan, inner>>

\* Slip: a barrier is redundant if another one follows anywhere.
RedundantLater(s, i) == s[i].kind = "V" /\ \E j \in i + 1 .. Len(s) : s[j].kind \in {"V", "ALL"}

\* PipeBarrierOp::canonicalize: of barriers in a row the last one is kept.  The
\* barrier for all pipes comes last.
Redundant(s, i) == i < Len(s) /\ s[i].kind = "V" /\ s[i + 1].kind \in {"V", "ALL"}

CanonicalizeBarriers ==
  /\ phase = "barrier"
  /\ code' = LET s == Append(code, Sync("ALL", FALSE))
             IN FlattenSeq([i \in DOMAIN s |-> IF Redundant(s, i) THEN <<>> ELSE <<s[i]>>])
  /\ phase' = "done"
  /\ UNCHANGED <<plan, inner, at>>

Passes == Materialize \/ Erase \/ EnqueueTensors \/ DequeueTensors \/ SyncScalars \/ CanonicalizeBarriers
Next == Access \/ OpenLoop \/ CloseLoop \/ OwnEnque \/ OwnDeque \/ Passes
Spec == Init /\ [][Next]_vars

-----------------------------------------------------------------------------
(* What the passes owe the author.                                         *)

Kinds == Accesses \cup {"alloc", "buffer", "free", "enque", "deque", "for", "end", "V", "ALL", "V_S", "S_V"}

\* Values are defined once; only tensors of queues are put into queues.
TypeOK ==
  /\ inner \subseteq Tensors /\ at \in 1 .. Len(code) + 1
  /\ phase \in {"program", "erase", "enque", "deque", "barrier", "done", "verify"}
  /\ \A i \in DOMAIN code : code[i].kind \in Kinds /\ code[i].loop \in BOOLEAN
  /\ phase # "program" =>
       \A i \in DOMAIN code :
         /\ code[i].kind \in {"enque", "free"} => \E v \in code[i].src : Queued(v[1])
         /\ code[i].def # None => \A j \in DOMAIN code \ {i} : code[j].def # code[i].def

\* Accesses of t, and those that write it.
Touching(t) == {i \in DOMAIN code : code[i].kind \in Accesses /\ Touches(code[i], t)}
Writing(t) == {i \in Touching(t) : code[i].dst # None /\ code[i].dst[1] = t}

\* What the passes do not cope with, of a tensor with a queue: a write that
\* nothing follows; a tensor of the function that the loop writes and then uses,
\* and that is used behind the loop too; one whose last access in the loop is a
\* write.
Abandoned(t) == \E i \in Writing(t) : \A j \in Touching(t) : j <= i
Split(t) ==
  /\ t \notin inner
  /\ \E i \in Writing(t), j, k \in Touching(t) : i < j /\ j < k /\ code[i].loop /\ code[j].loop /\ ~code[k].loop
Carried(t) ==
  /\ t \notin inner
  /\ \E i \in Writing(t) : code[i].loop /\ \A j \in Touching(t) : code[j].loop => j <= i

\* What the core executes if the loop runs twice.
Trace ==
  IF At("for") = {} THEN code
  ELSE LET body == SubSeq(code, ForAt + 1, EndAt - 1)
       IN SubSeq(code, 1, ForAt - 1) \o body \o body \o SubSeq(code, EndAt + 1, Len(code))

\* The module stays well formed: an operation uses a value that was defined
\* before it, and not one of the loop behind the loop.  (dequeueTensors renames
\* every later use to what the deque before the first of them returns.)
UsesDominated ==
  phase = "done" =>
    \A j \in DOMAIN code : \A v \in Uses(code[j]) :
      Split(v[1]) \/ \E i \in 1 .. j - 1 : code[i].def = v /\ (code[i].loop => code[j].loop)

\* The core never waits for ever: the one buffer of a queue is allocated when it
\* is free, enqueued and released by its holder, and dequeued when it is inside.
\* (enqueueTensors and dequeueTensors pair each enque with a deque, reEnque
\* keeps the pair in one block.)
QueueNeverBlocks ==
  phase = "done" =>
    LET s == Trace
        Past(kind, t, i) == Count(SubSeq(s, 1, i - 1), kind, t)
        Held(t, i) == Past("alloc", t, i) - Past("free", t, i)
        Inside(t, i) == Past("enque", t, i) - Past("deque", t, i)
    IN \A t \in Tensors : Abandoned(t) \/ Split(t) \/
         \A i \in DOMAIN s :
           /\ s[i].kind = "alloc" /\ s[i].def[1] = t => Held(t, i) = 0
           /\ s[i].kind \in {"enque", "free"} /\ Touches(s[i], t) => Held(t, i) = 1 /\ Inside(t, i) = 0
           /\ s[i].kind = "deque" /\ s[i].def[1] = t => Inside(t, i) = 1

\* Accesses of t that may not change places: one of them writes it.  A scalar
\* write is no OpWithDst, and has no dst.
Stores(op, t) == op.dst # None /\ op.dst[1] = t
WritesTo(op, t) == Stores(op, t) \/ (op.kind = "set" /\ Touches(op, t))
Dependent(a, b, t) ==
  /\ {a.kind, b.kind} \subseteq Accesses /\ Touches(a, t) /\ Touches(b, t)
  /\ WritesTo(a, t) \/ WritesTo(b, t)

\* The hand-overs that InsertSync does not make: it has none between scalar
\* accesses and copies (its flags are V_S and S_V), and none from what only reads
\* to what writes later, other than the flags.
Missing ==
  {<<"set", "copyin">>, <<"set", "copyout">>, <<"get", "copyin">>, <<"copyout", "set">>,
   <<"copyout", "copyin">>, <<"copyout", "vector">>, <<"vector", "copyin">>, <<"vector", "vector">>}
NotHandedOver(a, b, t) == ~Stores(a, t) /\ <<a.kind, b.kind>> \in Missing

\* Of two accesses of t, one of which writes it, the later one waits for the
\* earlier: behind a copy or a vector operation that writes, at a deque of the
\* tensor's queue (or its next allocation), at a barrier if both are vector
\* operations or at a flag if the later one is scalar; and between scalar and
\* vector operations, also if the earlier one only reads, at a flag.  Scalar
\* accesses follow one another on a pipe of their own.  The rest the passes
\* leave unordered: NotHandedOver, and, of a Carried tensor, an iteration
\* and the next.  (The barriers that canonicalizeBarriers drops were not needed.)
AccessesOrdered ==
  phase = "done" =>
    LET s == Trace
        Scalar(op) == op.kind \in {"get", "set"}
        Orders(op, a, b, t) ==
          \/ op.kind \in {"alloc", "deque"} /\ op.def[1] = t /\ Stores(a, t)
          \/ op.kind = "V" /\ a.kind = "vector" /\ b.kind = "vector"
          \/ op.kind = "V_S" /\ a.kind = "vector" /\ Scalar(b)
          \/ op.kind = "S_V" /\ Scalar(a) /\ b.kind = "vector"
    IN \A t \in Tensors : \A j \in DOMAIN s : \A i \in 1 .. j - 1 :
         Dependent(s[i], s[j], t) =>
           \/ NotHandedOver(s[i], s[j], t)
           \/ Carried(t) /\ Queued(t) /\ s[i].loop /\ s[j].loop /\ i < EndAt - 1 /\ EndAt - 1 <= j
           \/ Scalar(s[i]) /\ Scalar(s[j])
           \/ \E k \in i + 1 .. j - 1 : Orders(s[k], s[i], s[j], t)
=============================================================================
