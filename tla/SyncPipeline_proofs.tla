------------------------- MODULE SyncPipeline_proofs -------------------------
(***************************************************************************)
(* Proofs about VerifySync, behind the other passes and alone, for any     *)
(* queues and kernels.                                                     *)
(*                                                                         *)
(* VerifySync pairs a deque with the enque it finds first; the definition  *)
(* of what a kernel deserves to be warned of counts ranks in queues that   *)
(* are first in, first out.  The inductive invariant says that until the   *)
(* walk crashes both agree: a deque has its pair exactly if its queue is   *)
(* not empty there, the pairs have equal ranks, what waits in a queue came *)
(* after all that left it, and queBinds holds what waits and what is held. *)
(*                                                                         *)
(* FindDef, Buffer and InQueueAt look back from place to place.  That they *)
(* are defined, and keep their values as a kernel grows, is shown by       *)
(* looking at the least place that would be wrong.                         *)
(***************************************************************************)
EXTENDS SyncPipeline, FiniteSetTheorems, WellFoundedInduction, TLAPS

\* A set of natural numbers that is not empty has a least one.
LEMMA Least ==
  ASSUME NEW S \in SUBSET Nat, S # {}
  PROVE  \E i \in S : \A j \in S : i <= j
<1> DEFINE R == {p \in Nat \X Nat : p[1] < p[2]}
<1>1. IsWellFoundedOn(R, Nat)
  BY NatLessThanWellFounded DEF OpToRel
<1> HIDE DEF R
<1>2. PICK i \in S : \A j \in S : <<j, i>> \notin R
  BY <1>1, WFMin
<1>3. ASSUME NEW j \in S PROVE i <= j
  <2>1. i \in Nat /\ j \in Nat
    OBVIOUS
  <2>2. CASE j < i
    <3>1. <<j, i>> \in R
      BY <2>1, <2>2 DEF R
    <3> QED BY <1>2, <3>1
  <2> QED BY <2>1, <2>2
<1> QED BY <1>3

\* What the least number of a non-empty set is called.
LEMMA LeastIsMin ==
  ASSUME NEW S \in SUBSET Nat, S # {}
  PROVE  Min(S) \in S /\ \A j \in S : Min(S) <= j
BY Least DEF Min

-----------------------------------------------------------------------------

\* f is what FindDef computes on the first n places.
DefTo(o, d, n, f) ==
  f = [i \in 0 .. n |->
        IF i = 0 THEN 0
        ELSE IF o[i].kind = "alloc" THEN i
        ELSE IF i \in DOMAIN d THEN f[o[d[i]].tensor]
        ELSE -1]

\* A deque asks for the tensor of an earlier operation.
LooksBack(o, d, n) == \A i \in 1 .. n : i \in DOMAIN d => o[d[i]].tensor \in 0 .. i - 1

\* The value at a place follows from those before it.
LEMMA DefAt ==
  ASSUME NEW o, NEW d, NEW n \in Nat, NEW f, DefTo(o, d, n, f), NEW i \in 1 .. n
  PROVE  f[i] = IF o[i].kind = "alloc" THEN i ELSE IF i \in DOMAIN d THEN f[o[d[i]].tensor] ELSE -1
BY DEF DefTo

\* There is such an f, for kernels of any length.
LEMMA DefExists ==
  ASSUME NEW o, NEW d, NEW m \in Nat, LooksBack(o, d, m)
  PROVE  \E f : DefTo(o, d, m, f)
<1> DEFINE S == {n \in 0 .. m : ~\E f : DefTo(o, d, n, f)}
<1> SUFFICES ASSUME S # {} PROVE FALSE
  OBVIOUS
<1>1. S \in SUBSET Nat
  OBVIOUS
<1> HIDE DEF S
<1>2. PICK n \in S : \A k \in S : n <= k
  BY <1>1, Least
<1>3. n \in 0 .. m /\ ~\E f : DefTo(o, d, n, f)
  BY DEF S
<1>4. n # 0
  <2>1. DefTo(o, d, 0, [i \in 0 .. 0 |-> 0])
    BY DEF DefTo
  <2> QED BY <1>3, <2>1
<1>5. PICK k \in Nat : n = k + 1 /\ k \in 0 .. m /\ k \notin S
  <2>1. n - 1 \in Nat /\ n = (n - 1) + 1 /\ n - 1 \in 0 .. m /\ n - 1 \notin S
    BY <1>1, <1>2, <1>3, <1>4
  <2> QED BY <2>1
<1>6. PICK f : DefTo(o, d, k, f)
  BY <1>5 DEF S
<1>11. /\ f[0] = 0
       /\ \A i \in 1 .. n - 1 : f[i] = IF o[i].kind = "alloc" THEN i ELSE IF i \in DOMAIN d THEN f[o[d[i]].tensor] ELSE -1
  <2>1. n - 1 = k
    BY <1>5
  <2>2. /\ f[0] = 0
        /\ \A i \in 1 .. k : f[i] = IF o[i].kind = "alloc" THEN i ELSE IF i \in DOMAIN d THEN f[o[d[i]].tensor] ELSE -1
    BY <1>5, <1>6 DEF DefTo
  <2> QED BY <2>1, <2>2
<1> DEFINE v == IF o[n].kind = "alloc" THEN n ELSE IF n \in DOMAIN d THEN f[o[d[n]].tensor] ELSE -1
           g == [i \in 0 .. n |-> IF i = n THEN v ELSE f[i]]
<1>7. \A i \in 0 .. n - 1 : g[i] = f[i]
  BY <1>3, <1>4
<1>8. g[n] = v /\ DOMAIN g = 0 .. n
  BY <1>3, <1>4
<1>9. \A i \in 1 .. n : i \in DOMAIN d => o[d[i]].tensor \in 0 .. i - 1
  BY <1>3 DEF LooksBack
<1> HIDE DEF g
<1>10. DefTo(o, d, n, g)
  <2>1. ASSUME NEW i \in 0 .. n
        PROVE  g[i] = IF i = 0 THEN 0 ELSE IF o[i].kind = "alloc" THEN i ELSE IF i \in DOMAIN d THEN g[o[d[i]].tensor] ELSE -1
    <3>1. CASE i = 0
      BY <1>3, <1>4, <1>7, <1>11, <3>1
    <3>2. CASE i \in 1 .. n - 1
      <4>1. f[i] = IF o[i].kind = "alloc" THEN i ELSE IF i \in DOMAIN d THEN f[o[d[i]].tensor] ELSE -1
        BY <1>11, <3>2
      <4>2. i \in DOMAIN d => g[o[d[i]].tensor] = f[o[d[i]].tensor]
        BY <1>3, <1>7, <1>9, <3>2
      <4> QED BY <1>3, <1>7, <3>2, <4>1, <4>2
    <3>3. CASE i = n
      <4>1. n \in DOMAIN d => g[o[d[n]].tensor] = f[o[d[n]].tensor]
        BY <1>3, <1>4, <1>7, <1>9
      <4> QED BY <1>3, <1>4, <1>8, <3>3, <4>1
    <3> QED BY <1>3, <3>1, <3>2, <3>3
  <2>2. g = [i \in 0 .. n |-> g[i]]
    BY <1>8 DEF g
  <2> QED BY <2>1, <2>2 DEF DefTo
<1> QED BY <1>3, <1>10

\* Places that look alike and look back to alike places have one value.
LEMMA DefAgrees ==
  ASSUME NEW o, NEW d, NEW f, NEW n \in Nat, DefTo(o, d, n, f),
         NEW p, NEW e, NEW g, NEW m \in Nat, DefTo(p, e, m, g),
         n <= m, LooksBack(o, d, n),
         \A i \in 1 .. n : /\ o[i].kind = p[i].kind
                           /\ i \in DOMAIN d <=> i \in DOMAIN e
                           /\ i \in DOMAIN d => o[d[i]].tensor = p[e[i]].tensor
  PROVE  \A i \in 0 .. n : g[i] = f[i]
<1> DEFINE S == {i \in 0 .. n : g[i] # f[i]}
<1> SUFFICES ASSUME S # {} PROVE FALSE
  OBVIOUS
<1>1. S \in SUBSET Nat
  OBVIOUS
<1> HIDE DEF S
<1>2. PICK i \in S : \A k \in S : i <= k
  BY <1>1, Least
<1>3. i \in 0 .. n /\ g[i] # f[i]
  BY DEF S
<1>4. \A k \in 0 .. i - 1 : g[k] = f[k]
  BY <1>1, <1>2, <1>3 DEF S
<1>5. i \in 1 .. n /\ i \in 1 .. m
  BY <1>3 DEF DefTo
<1>6. f[i] = IF o[i].kind = "alloc" THEN i ELSE IF i \in DOMAIN d THEN f[o[d[i]].tensor] ELSE -1
  BY <1>5, DefAt
<1>7. g[i] = IF p[i].kind = "alloc" THEN i ELSE IF i \in DOMAIN e THEN g[p[e[i]].tensor] ELSE -1
  BY <1>5, DefAt
<1>8. i \in DOMAIN d => o[d[i]].tensor \in 0 .. i - 1
  BY <1>5 DEF LooksBack
<1> QED BY <1>3, <1>4, <1>5, <1>6, <1>7, <1>8

\* An allocation, none, or the null operation.
LEMMA DefRange ==
  ASSUME NEW o, NEW d, NEW f, NEW n \in Nat, DefTo(o, d, n, f), LooksBack(o, d, n)
  PROVE  \A i \in 0 .. n : f[i] \in -1 .. i /\ (f[i] > 0 => o[f[i]].kind = "alloc")
<1> DEFINE Right(i) == f[i] \in -1 .. i /\ (f[i] > 0 => o[f[i]].kind = "alloc")
           S == {i \in 0 .. n : ~Right(i)}
<1> SUFFICES ASSUME S # {} PROVE FALSE
  OBVIOUS
<1>1. S \in SUBSET Nat
  OBVIOUS
<1> HIDE DEF S
<1>2. PICK i \in S : \A k \in S : i <= k
  BY <1>1, Least
<1>3. i \in 0 .. n /\ ~Right(i)
  BY DEF S
<1>4. \A k \in 0 .. i - 1 : Right(k)
  BY <1>1, <1>2, <1>3 DEF S
<1>5. i \in 1 .. n
  BY <1>3 DEF DefTo
<1>6. f[i] = IF o[i].kind = "alloc" THEN i ELSE IF i \in DOMAIN d THEN f[o[d[i]].tensor] ELSE -1
  BY <1>5, DefAt
<1>7. i \in DOMAIN d => o[d[i]].tensor \in 0 .. i - 1 /\ Right(o[d[i]].tensor)
  BY <1>4, <1>5 DEF LooksBack
<1> QED BY <1>3, <1>5, <1>6, <1>7

-----------------------------------------------------------------------------

\* What place i does to a queue with x tensors inside.
After(o, q, i, x) ==
  CASE o[i].kind = "enque" /\ o[i].queue = q -> x + 1
    [] o[i].kind = "deque" /\ o[i].queue = q /\ x > 0 -> x - 1
    [] OTHER -> x

\* f is what InQueueAt computes before each of the first n places, and behind them.
InsideTo(o, q, n, f) == f = [i \in 1 .. n + 1 |-> IF i = 1 THEN 0 ELSE After(o, q, i - 1, f[i - 1])]

\* A queue starts empty and changes from place to place.
LEMMA InsideAt ==
  ASSUME NEW o, NEW q, NEW n \in Nat, NEW f, InsideTo(o, q, n, f)
  PROVE  f[1] = 0 /\ \A i \in 1 .. n : f[i + 1] = After(o, q, i, f[i])
<1>1. f[1] = 0
  BY DEF InsideTo
<1>2. ASSUME NEW i \in 1 .. n PROVE f[i + 1] = After(o, q, i, f[i])
  <2>1. i + 1 \in 1 .. n + 1 /\ i + 1 # 1 /\ (i + 1) - 1 = i
    OBVIOUS
  <2>2. f[i + 1] = IF i + 1 = 1 THEN 0 ELSE After(o, q, (i + 1) - 1, f[(i + 1) - 1])
    BY <2>1 DEF InsideTo
  <2> QED BY <2>1, <2>2
<1> QED BY <1>1, <1>2

\* There is such a count, for kernels of any length.
LEMMA InsideExists ==
  ASSUME NEW o, NEW q, NEW m \in Nat
  PROVE  \E f : InsideTo(o, q, m, f)
<1> DEFINE S == {n \in 0 .. m : ~\E f : InsideTo(o, q, n, f)}
<1> SUFFICES ASSUME S # {} PROVE FALSE
  OBVIOUS
<1>1. S \in SUBSET Nat
  OBVIOUS
<1> HIDE DEF S
<1>2. PICK n \in S : \A k \in S : n <= k
  BY <1>1, Least
<1>3. n \in 0 .. m /\ ~\E f : InsideTo(o, q, n, f)
  BY DEF S
<1>4. n # 0
  <2>1. InsideTo(o, q, 0, [i \in 1 .. 1 |-> 0])
    BY DEF InsideTo
  <2> QED BY <1>3, <2>1
<1>5. PICK k \in Nat : n = k + 1 /\ k \in 0 .. m /\ k \notin S
  <2>1. n - 1 \in Nat /\ n = (n - 1) + 1 /\ n - 1 \in 0 .. m /\ n - 1 \notin S
    BY <1>1, <1>2, <1>3, <1>4
  <2> QED BY <2>1
<1>6. PICK f : InsideTo(o, q, k, f)
  BY <1>5 DEF S
<1> DEFINE g == [i \in 1 .. n + 1 |-> IF i = n + 1 THEN After(o, q, n, f[n]) ELSE f[i]]
<1>7. \A i \in 1 .. n : g[i] = f[i]
  BY <1>3, <1>4
<1>8. g[n + 1] = After(o, q, n, f[n])
  BY <1>3, <1>4
<1>9. g = [i \in 1 .. n + 1 |-> g[i]]
  OBVIOUS
<1> HIDE DEF g
<1>10. ASSUME NEW i \in 1 .. n + 1
       PROVE  g[i] = IF i = 1 THEN 0 ELSE After(o, q, i - 1, g[i - 1])
  <2>1. CASE i = 1
    BY <1>3, <1>4, <1>5, <1>6, <1>7, <2>1 DEF InsideTo
  <2>2. CASE i \in 2 .. n
    <3>1. f[i] = After(o, q, i - 1, f[i - 1])
      BY <1>5, <1>6, <2>2 DEF InsideTo
    <3>2. g[i] = f[i] /\ g[i - 1] = f[i - 1]
      BY <1>3, <1>7, <2>2
    <3> QED BY <2>2, <3>1, <3>2
  <2>3. CASE i = n + 1
    <3>1. g[n] = f[n] /\ (n + 1) - 1 = n /\ n + 1 # 1
      BY <1>5, <1>7
    <3> QED BY <1>8, <2>3, <3>1
  <2> QED BY <1>5, <2>1, <2>2, <2>3
<1>11. InsideTo(o, q, n, g)
  BY <1>9, <1>10 DEF InsideTo
<1> QED BY <1>3, <1>11

\* Kernels that begin alike count alike.
LEMMA InsideAgrees ==
  ASSUME NEW q, NEW o, NEW f, NEW n \in Nat, InsideTo(o, q, n, f),
         NEW p, NEW g, NEW m \in Nat, InsideTo(p, q, m, g),
         n <= m, \A i \in 1 .. n : o[i] = p[i]
  PROVE  \A i \in 1 .. n + 1 : g[i] = f[i]
<1> DEFINE S == {i \in 1 .. n + 1 : g[i] # f[i]}
<1> SUFFICES ASSUME S # {} PROVE FALSE
  OBVIOUS
<1>1. S \in SUBSET Nat
  OBVIOUS
<1> HIDE DEF S
<1>2. PICK i \in S : \A k \in S : i <= k
  BY <1>1, Least
<1>3. i \in 1 .. n + 1 /\ g[i] # f[i]
  BY DEF S
<1>4. i # 1
  BY <1>3, InsideAt
<1>5. PICK k \in Nat : i = k + 1 /\ k \in 1 .. n /\ k \in 1 .. m /\ g[k] = f[k]
  <2>1. i - 1 \in Nat /\ i = (i - 1) + 1 /\ i - 1 \in 1 .. n /\ i - 1 \in 1 .. m /\ i - 1 \notin S
    BY <1>1, <1>2, <1>3, <1>4
  <2>2. g[i - 1] = f[i - 1]
    BY <2>1 DEF S
  <2> QED BY <2>1, <2>2
<1>6. f[k + 1] = After(o, q, k, f[k])
  BY <1>5, InsideAt
<1>7. g[k + 1] = After(p, q, k, g[k])
  BY <1>5, InsideAt
<1>8. After(p, q, k, g[k]) = After(o, q, k, f[k])
  BY <1>5 DEF After
<1> QED BY <1>3, <1>5, <1>6, <1>7, <1>8

\* A queue never holds less than nothing.
LEMMA InsideIsNat ==
  ASSUME NEW o, NEW q, NEW n \in Nat, NEW f, InsideTo(o, q, n, f)
  PROVE  \A i \in 1 .. n + 1 : f[i] \in Nat
<1> DEFINE S == {i \in 1 .. n + 1 : f[i] \notin Nat}
<1> SUFFICES ASSUME S # {} PROVE FALSE
  OBVIOUS
<1>1. S \in SUBSET Nat
  OBVIOUS
<1> HIDE DEF S
<1>2. PICK i \in S : \A k \in S : i <= k
  BY <1>1, Least
<1>3. i \in 1 .. n + 1 /\ f[i] \notin Nat
  BY DEF S
<1>4. i # 1
  BY <1>3, InsideAt
<1>5. PICK k \in Nat : i = k + 1 /\ k \in 1 .. n /\ f[k] \in Nat
  <2>1. i - 1 \in Nat /\ i = (i - 1) + 1 /\ i - 1 \in 1 .. n /\ i - 1 \notin S
    BY <1>1, <1>2, <1>3, <1>4
  <2>2. f[i - 1] \in Nat
    BY <2>1 DEF S
  <2> QED BY <2>1, <2>2
<1>6. f[k + 1] = After(o, q, k, f[k])
  BY <1>5, InsideAt
<1>7. After(o, q, k, f[k]) \in Nat
  BY <1>5 DEF After
<1> QED BY <1>3, <1>5, <1>6, <1>7

\* What InQueueAt computes for a kernel.
Inside(o, q) == CHOOSE f : InsideTo(o, q, Len(o), f)

LEMMA InQueueIs == \A q : InQueueAt(q) = Inside(ops, q) /\ InQueueAt(q)' = Inside(ops', q)
BY DEF InQueueAt, Inside, InsideTo, After, Kind

LEMMA Insides ==
  ASSUME NEW o, Len(o) \in Nat, NEW q
  PROVE  InsideTo(o, q, Len(o), Inside(o, q))
BY InsideExists DEF Inside

\* What FindDef computes for a kernel and its pairs.
Defs(o, d) == CHOOSE f : DefTo(o, d, Len(o), f)

LEMMA FindDefIs == \A t : FindDef(t) = Defs(ops, deqToEnq)[t] /\ FindDef(t)' = Defs(ops', deqToEnq')[t]
BY DEF FindDef, Defs, DefTo, Kind

LEMMA Definitions ==
  ASSUME NEW o, Len(o) \in Nat, NEW d, LooksBack(o, d, Len(o))
  PROVE  DefTo(o, d, Len(o), Defs(o, d))
BY DefExists DEF Defs

-----------------------------------------------------------------------------

\* What the walk can meet: a tensor is known by an earlier place, and what only
\* uses one belongs to no queue.
Operations ==
  [kind : {"use", "alloc", "enque", "deque", "free"}, queue : Queues \cup {CHOOSE q \in Queues : TRUE}, tensor : Nat]

Kernel(o) ==
  /\ o \in Seq(Operations)
  /\ \A i \in 1 .. Len(o) : o[i].tensor < i /\ (o[i].kind # "use" => o[i].queue \in Queues)

\* p is the kernel o with one operation more.
Grown(o, p) == Kernel(o) /\ Kernel(p) /\ Len(p) = Len(o) + 1 /\ \A i \in 1 .. Len(o) : p[i] = o[i]

EmptyAt(o, i) == Inside(o, o[i].queue)[i] = 0
RankOf(o, i) ==
  Cardinality({j \in {k \in 1 .. i - 1 : o[k].kind = o[i].kind /\ o[k].queue = o[i].queue} :
                 o[i].kind = "deque" => ~EmptyAt(o, j)})

\* The enques whose deque has come, and those of a queue that wait for theirs.
Taken(d) == {d[i] : i \in DOMAIN d}
Waiting(o, d, q) == {e \in 1 .. Len(o) : o[e].kind = "enque" /\ o[e].queue = q /\ e \notin Taken(d)}

\* A deque of a queue that is not empty finds the enque of its rank.
Paired(o, d) ==
  /\ DOMAIN d = {i \in 1 .. Len(o) : o[i].kind = "deque" /\ ~EmptyAt(o, i)}
  /\ \A i \in DOMAIN d : /\ d[i] \in 1 .. i - 1 /\ o[d[i]].kind = "enque" /\ o[d[i]].queue = o[i].queue
                         /\ RankOf(o, d[i]) = RankOf(o, i)
  /\ \A i, j \in DOMAIN d : d[i] = d[j] => i = j

\* What waits in a queue came after everything that has left it.
InOrder(o, d) == \A q \in Queues : \A e \in Waiting(o, d, q), i \in Taken(d) : o[i].queue = q => i < e

\* The count of a queue is that of the enques that wait in it.
Counted(o, d) == \A q \in Queues : Inside(o, q)[Len(o) + 1] = Cardinality(Waiting(o, d, q))

Matched(o, d) == Kernel(o) /\ Paired(o, d) /\ InOrder(o, d) /\ Counted(o, d)

\* What Kernel says of each place.
LEMMA KernelFacts ==
  ASSUME NEW o, Kernel(o)
  PROVE  /\ Len(o) \in Nat
         /\ \A i \in 1 .. Len(o) : /\ o[i] \in Operations /\ o[i].tensor \in 0 .. i - 1
                                   /\ o[i].kind \in {"use", "alloc", "enque", "deque", "free"}
                                   /\ o[i].kind # "use" => o[i].queue \in Queues
<1>1. o \in Seq(Operations) /\ Len(o) \in Nat /\ \A i \in 1 .. Len(o) : o[i] \in Operations
  BY DEF Kernel
<1>2. ASSUME NEW i \in 1 .. Len(o)
      PROVE  o[i].tensor \in 0 .. i - 1 /\ o[i].kind \in {"use", "alloc", "enque", "deque", "free"}
  <2>1. o[i] \in Operations
    BY <1>1
  <2>2. o[i].tensor \in Nat /\ o[i].kind \in {"use", "alloc", "enque", "deque", "free"}
    BY <2>1 DEF Operations
  <2>3. o[i].tensor < i
    BY DEF Kernel
  <2> QED BY <1>1, <2>2, <2>3
<1> QED BY <1>1, <1>2 DEF Kernel

\* An operation of the right kind makes the kernel grow.
LEMMA Append1 ==
  ASSUME NEW o, Kernel(o), NEW x \in Operations, x.tensor <= Len(o), x.kind # "use" => x.queue \in Queues
  PROVE  Grown(o, Append(o, x)) /\ Append(o, x)[Len(o) + 1] = x
<1>1. o \in Seq(Operations) /\ Len(o) \in Nat
  BY DEF Kernel
<1>2. /\ Append(o, x) \in Seq(Operations) /\ Len(Append(o, x)) = Len(o) + 1 /\ Append(o, x)[Len(o) + 1] = x
      /\ \A i \in 1 .. Len(o) : Append(o, x)[i] = o[i]
  BY <1>1
<1>3. x.tensor \in Nat
  BY DEF Operations
<1>4. Kernel(Append(o, x))
  BY <1>1, <1>2, <1>3 DEF Kernel
<1> QED BY <1>2, <1>4 DEF Grown

-----------------------------------------------------------------------------

\* A kernel grows at its end: what was counted before stays.
LEMMA SameInside ==
  ASSUME NEW o, NEW p, Grown(o, p), NEW q, NEW h, h = Len(o) + 1
  PROVE  /\ \A i \in 1 .. h : Inside(p, q)[i] = Inside(o, q)[i] /\ Inside(o, q)[i] \in Nat
         /\ Inside(p, q)[h + 1] = After(p, q, h, Inside(o, q)[h])
<1>1. Len(o) \in Nat /\ Len(p) \in Nat /\ Len(p) = h /\ \A i \in 1 .. Len(o) : o[i] = p[i]
  BY KernelFacts DEF Grown
<1>2. InsideTo(o, q, Len(o), Inside(o, q)) /\ InsideTo(p, q, Len(p), Inside(p, q))
  BY <1>1, Insides
<1>3. \A i \in 1 .. Len(o) + 1 : Inside(p, q)[i] = Inside(o, q)[i]
  <2> DEFINE f == Inside(o, q)
             g == Inside(p, q)
             n == Len(o)
             m == Len(p)
  <2>1. n \in Nat /\ m \in Nat /\ n <= m /\ InsideTo(o, q, n, f) /\ InsideTo(p, q, m, g)
    BY <1>1, <1>2
  <2>2. \A i \in 1 .. n : o[i] = p[i]
    BY <1>1
  <2> HIDE DEF f, g, n, m
  <2>3. \A i \in 1 .. n + 1 : g[i] = f[i]
    BY <2>1, <2>2, InsideAgrees
  <2> QED BY <2>3 DEF f, g, n
<1>4. \A i \in 1 .. Len(o) + 1 : Inside(o, q)[i] \in Nat
  BY <1>1, <1>2, InsideIsNat
<1>5. Inside(p, q)[Len(p) + 1] = After(p, q, Len(p), Inside(p, q)[Len(p)])
  BY <1>1, <1>2, InsideAt
<1> QED BY <1>1, <1>3, <1>4, <1>5

\* So do ranks, and whether a deque finds its queue empty.
LEMMA SameRank ==
  ASSUME NEW o, NEW p, Grown(o, p), NEW i \in 1 .. Len(o)
  PROVE  (EmptyAt(p, i) <=> EmptyAt(o, i)) /\ RankOf(p, i) = RankOf(o, i)
<1>1. Len(o) \in Nat /\ \A j \in 1 .. Len(o) : p[j] = o[j]
  BY KernelFacts DEF Grown
<1>2. \A j \in 1 .. Len(o) : EmptyAt(p, j) <=> EmptyAt(o, j)
  <2> SUFFICES ASSUME NEW j \in 1 .. Len(o) PROVE EmptyAt(p, j) <=> EmptyAt(o, j)
    OBVIOUS
  <2>1. Inside(p, o[j].queue)[j] = Inside(o, o[j].queue)[j]
    BY <1>1, SameInside
  <2> QED BY <1>1, <2>1 DEF EmptyAt
<1>3. {j \in {k \in 1 .. i - 1 : p[k].kind = p[i].kind /\ p[k].queue = p[i].queue} : p[i].kind = "deque" => ~EmptyAt(p, j)}
      = {j \in {k \in 1 .. i - 1 : o[k].kind = o[i].kind /\ o[k].queue = o[i].queue} : o[i].kind = "deque" => ~EmptyAt(o, j)}
  BY <1>1, <1>2
<1> QED BY <1>2, <1>3 DEF RankOf

LEMMA PlacesFinite ==
  ASSUME NEW n \in Int, NEW S \in SUBSET (1 .. n)
  PROVE  IsFiniteSet(S) /\ Cardinality(S) \in Nat
<1>1. IsFiniteSet(1 .. n)
  BY FS_Interval
<1>2. IsFiniteSet(S)
  BY <1>1, FS_Subset
<1> QED BY <1>2, FS_CardinalityType

LEMMA RankIsNat ==
  ASSUME NEW o, NEW i \in Nat
  PROVE  RankOf(o, i) \in Nat
<1>1. i - 1 \in Int
  OBVIOUS
<1> DEFINE S == {j \in {k \in 1 .. i - 1 : o[k].kind = o[i].kind /\ o[k].queue = o[i].queue} : o[i].kind = "deque" => ~EmptyAt(o, j)}
<1>2. S \in SUBSET (1 .. i - 1)
  OBVIOUS
<1> HIDE DEF S
<1>3. Cardinality(S) \in Nat
  BY <1>1, <1>2, PlacesFinite
<1> QED BY <1>3 DEF RankOf, S

\* Enques of one queue have different ranks.
LEMMA RanksDiffer ==
  ASSUME NEW o, Kernel(o), NEW i \in 1 .. Len(o), NEW j \in 1 .. Len(o),
         o[i].kind = "enque", o[j].kind = "enque", o[i].queue = o[j].queue, i < j
  PROVE  RankOf(o, i) < RankOf(o, j)
<1> DEFINE A == {k \in 1 .. i - 1 : o[k].kind = o[i].kind /\ o[k].queue = o[i].queue}
           B == {k \in 1 .. j - 1 : o[k].kind = o[j].kind /\ o[k].queue = o[j].queue}
<1>1. i \in Nat /\ j \in Nat /\ Len(o) \in Nat
  BY KernelFacts
<1>2. i - 1 \in Int /\ j - 1 \in Int
  BY <1>1
<1>3. /\ IsFiniteSet(A) /\ IsFiniteSet(B)
      /\ Cardinality(A) \in Nat /\ Cardinality(B) \in Nat
  BY <1>2, PlacesFinite
<1>4. A \subseteq B /\ i \in B /\ i \notin A
  BY <1>1
<1>5. RankOf(o, i) = Cardinality(A) /\ RankOf(o, j) = Cardinality(B)
  <2>1. {k \in A : o[i].kind = "deque" => ~EmptyAt(o, k)} = A
    OBVIOUS
  <2>2. {k \in B : o[j].kind = "deque" => ~EmptyAt(o, k)} = B
    OBVIOUS
  <2> QED BY <2>1, <2>2 DEF RankOf
<1> HIDE DEF A, B
<1>6. Cardinality(A) <= Cardinality(B) /\ (Cardinality(B) = Cardinality(A) => B = A)
  <2>1. A \in SUBSET B
    BY <1>4
  <2> QED BY <1>3, <2>1, FS_Subset
<1> QED BY <1>3, <1>4, <1>5, <1>6

-----------------------------------------------------------------------------

\* What Paired says of each pair.
LEMMA PairedFacts ==
  ASSUME NEW o, NEW d, Kernel(o), Paired(o, d)
  PROVE  /\ \A i \in DOMAIN d : /\ i \in 1 .. Len(o) /\ o[i].kind = "deque" /\ ~EmptyAt(o, i)
                                /\ d[i] \in 1 .. i - 1 /\ d[i] \in 1 .. Len(o)
                                /\ o[d[i]].kind = "enque" /\ o[d[i]].queue = o[i].queue
         /\ LooksBack(o, d, Len(o))
<1>1. Len(o) \in Nat /\ \A i \in 1 .. Len(o) : o[i].tensor \in 0 .. i - 1
  BY KernelFacts
<1>2. \A i \in DOMAIN d : /\ i \in 1 .. Len(o) /\ o[i].kind = "deque" /\ ~EmptyAt(o, i)
                          /\ d[i] \in 1 .. i - 1 /\ o[d[i]].kind = "enque" /\ o[d[i]].queue = o[i].queue
  BY DEF Paired
<1>3. \A i \in DOMAIN d : d[i] \in 1 .. Len(o)
  BY <1>1, <1>2
<1>4. ASSUME NEW i \in 1 .. Len(o), i \in DOMAIN d PROVE o[d[i]].tensor \in 0 .. i - 1
  <2>1. d[i] \in 1 .. Len(o) /\ d[i] \in 1 .. i - 1
    BY <1>2, <1>3, <1>4
  <2>2. o[d[i]].tensor \in 0 .. d[i] - 1
    BY <1>1, <2>1
  <2> QED BY <1>1, <2>1, <2>2
<1> QED BY <1>2, <1>3, <1>4 DEF LooksBack

\* An operation that is no deque finds no partner.
LEMMA OtherGrows ==
  ASSUME NEW o, NEW p, NEW d, Grown(o, p), Matched(o, d), NEW h, h = Len(o) + 1, p[h].kind # "deque"
  PROVE  /\ Matched(p, d)
         /\ \A q : Waiting(p, d, q) = Waiting(o, d, q) \cup {i \in {h} : p[h].kind = "enque" /\ p[h].queue = q}
<1>1. /\ Len(o) \in Nat /\ Len(p) = h /\ h \in Nat /\ Kernel(p) /\ Kernel(o) /\ Paired(o, d)
      /\ \A i \in 1 .. Len(o) : p[i] = o[i]
  BY KernelFacts DEF Grown, Matched
<1>2. \A i \in 1 .. Len(o) : (EmptyAt(p, i) <=> EmptyAt(o, i)) /\ RankOf(p, i) = RankOf(o, i)
  BY SameRank
<1>3. \A i \in DOMAIN d : i \in 1 .. Len(o) /\ d[i] \in 1 .. i - 1 /\ d[i] \in 1 .. Len(o)
  BY <1>1, PairedFacts
<1>4. Paired(p, d)
  <2>1. DOMAIN d = {i \in 1 .. Len(p) : p[i].kind = "deque" /\ ~EmptyAt(p, i)}
    <3>1. {i \in 1 .. Len(p) : p[i].kind = "deque" /\ ~EmptyAt(p, i)}
          = {i \in 1 .. Len(o) : o[i].kind = "deque" /\ ~EmptyAt(o, i)}
      BY <1>1, <1>2
    <3> QED BY <1>1, <3>1 DEF Paired
  <2>2. ASSUME NEW i \in DOMAIN d
        PROVE  /\ d[i] \in 1 .. i - 1 /\ p[d[i]].kind = "enque" /\ p[d[i]].queue = p[i].queue
               /\ RankOf(p, d[i]) = RankOf(p, i)
    <3>1. o[d[i]].kind = "enque" /\ o[d[i]].queue = o[i].queue /\ RankOf(o, d[i]) = RankOf(o, i)
      BY <1>1 DEF Paired
    <3> QED BY <1>1, <1>2, <1>3, <3>1
  <2>3. \A i, j \in DOMAIN d : d[i] = d[j] => i = j
    BY <1>1 DEF Paired
  <2> QED BY <2>1, <2>2, <2>3 DEF Paired
<1>5. ASSUME NEW q PROVE Waiting(p, d, q) = Waiting(o, d, q) \cup {i \in {h} : p[h].kind = "enque" /\ p[h].queue = q}
  <2>1. h \notin Taken(d)
    BY <1>1, <1>3 DEF Taken
  <2> QED BY <1>1, <2>1 DEF Waiting
<1>6. InOrder(p, d)
  <2> SUFFICES ASSUME NEW q \in Queues, NEW e \in Waiting(p, d, q), NEW i \in Taken(d), p[i].queue = q PROVE i < e
    BY DEF InOrder
  <2>1. i \in 1 .. Len(o) /\ o[i].queue = q
    BY <1>1, <1>3 DEF Taken
  <2>2. CASE e \in Waiting(o, d, q)
    BY <2>1, <2>2 DEF Matched, InOrder
  <2>3. CASE e = h
    BY <1>1, <2>1, <2>3
  <2> QED BY <1>5, <2>2, <2>3
<1>7. Counted(p, d)
  <2> SUFFICES ASSUME NEW q \in Queues PROVE Inside(p, q)[Len(p) + 1] = Cardinality(Waiting(p, d, q))
    BY DEF Counted
  <2> DEFINE n == Inside(o, q)[h]
  <2>1. n \in Nat /\ n = Cardinality(Waiting(o, d, q)) /\ Inside(p, q)[h + 1] = After(p, q, h, n)
    BY <1>1, SameInside DEF Matched, Counted
  <2>2. IsFiniteSet(Waiting(o, d, q)) /\ h \notin Waiting(o, d, q)
    <3>1. Waiting(o, d, q) \in SUBSET (1 .. Len(o))
      BY DEF Waiting
    <3>2. Len(o) \in Int
      BY <1>1
    <3>3. IsFiniteSet(Waiting(o, d, q))
      BY <3>1, <3>2, PlacesFinite
    <3> QED BY <1>1, <3>1, <3>3
  <2> HIDE DEF n
  <2>3. CASE p[h].kind = "enque" /\ p[h].queue = q
    <3>1. Waiting(p, d, q) = Waiting(o, d, q) \cup {h}
      BY <1>5, <2>3
    <3>2. After(p, q, h, n) = n + 1
      BY <2>3 DEF After
    <3>3. Cardinality(Waiting(o, d, q) \cup {h}) = Cardinality(Waiting(o, d, q)) + 1
      BY <2>2, FS_AddElement
    <3> QED BY <1>1, <2>1, <3>1, <3>2, <3>3
  <2>4. CASE ~(p[h].kind = "enque" /\ p[h].queue = q)
    <3>1. Waiting(p, d, q) = Waiting(o, d, q)
      BY <1>5, <2>4
    <3>2. After(p, q, h, n) = n
      BY <2>4 DEF After
    <3> QED BY <1>1, <2>1, <3>1, <3>2
  <2> QED BY <2>3, <2>4
<1> QED BY <1>1, <1>4, <1>5, <1>6, <1>7 DEF Matched

\* Nor does a deque of an empty queue.
LEMMA EmptyGrows ==
  ASSUME NEW o, NEW p, NEW d, Grown(o, p), Matched(o, d), NEW h, h = Len(o) + 1, p[h].kind = "deque",
         Waiting(o, d, p[h].queue) = {}
  PROVE  Matched(p, d) /\ \A q : Waiting(p, d, q) = Waiting(o, d, q)
<1>1. /\ Len(o) \in Nat /\ Len(p) = h /\ h \in Nat /\ Kernel(p) /\ Kernel(o) /\ Paired(o, d)
      /\ \A i \in 1 .. Len(o) : p[i] = o[i]
  BY KernelFacts DEF Grown, Matched
<1>2. \A i \in 1 .. Len(o) : (EmptyAt(p, i) <=> EmptyAt(o, i)) /\ RankOf(p, i) = RankOf(o, i)
  BY SameRank
<1>3. \A i \in DOMAIN d : i \in 1 .. Len(o) /\ d[i] \in 1 .. i - 1 /\ d[i] \in 1 .. Len(o)
  BY <1>1, PairedFacts
<1>4. EmptyAt(p, h) /\ p[h].queue \in Queues
  <2>1. p[h].queue \in Queues
    BY <1>1, KernelFacts
  <2>2. Inside(o, p[h].queue)[h] = Cardinality({})
    BY <1>1, <2>1 DEF Matched, Counted
  <2>3. Inside(p, p[h].queue)[h] = 0
    BY <1>1, <2>2, SameInside, FS_EmptySet
  <2> QED BY <2>1, <2>3 DEF EmptyAt
<1>5. Paired(p, d)
  <2>1. DOMAIN d = {i \in 1 .. Len(p) : p[i].kind = "deque" /\ ~EmptyAt(p, i)}
    <3>1. {i \in 1 .. Len(p) : p[i].kind = "deque" /\ ~EmptyAt(p, i)}
          = {i \in 1 .. Len(o) : o[i].kind = "deque" /\ ~EmptyAt(o, i)}
      BY <1>1, <1>2, <1>4
    <3> QED BY <1>1, <3>1 DEF Paired
  <2>2. ASSUME NEW i \in DOMAIN d
        PROVE  /\ d[i] \in 1 .. i - 1 /\ p[d[i]].kind = "enque" /\ p[d[i]].queue = p[i].queue
               /\ RankOf(p, d[i]) = RankOf(p, i)
    <3>1. o[d[i]].kind = "enque" /\ o[d[i]].queue = o[i].queue /\ RankOf(o, d[i]) = RankOf(o, i)
      BY <1>1 DEF Paired
    <3> QED BY <1>1, <1>2, <1>3, <3>1
  <2>3. \A i, j \in DOMAIN d : d[i] = d[j] => i = j
    BY <1>1 DEF Paired
  <2> QED BY <2>1, <2>2, <2>3 DEF Paired
<1>6. ASSUME NEW q PROVE Waiting(p, d, q) = Waiting(o, d, q)
  BY <1>1 DEF Waiting
<1>7. InOrder(p, d)
  <2> SUFFICES ASSUME NEW q \in Queues, NEW e \in Waiting(o, d, q), NEW i \in Taken(d), p[i].queue = q PROVE i < e
    BY <1>6 DEF InOrder
  <2>1. o[i].queue = q
    BY <1>1, <1>3 DEF Taken
  <2> QED BY <2>1 DEF Matched, InOrder
<1>8. Counted(p, d)
  <2> SUFFICES ASSUME NEW q \in Queues PROVE Inside(p, q)[Len(p) + 1] = Cardinality(Waiting(o, d, q))
    BY <1>6 DEF Counted
  <2> DEFINE n == Inside(o, q)[h]
  <2>1. n \in Nat /\ n = Cardinality(Waiting(o, d, q)) /\ Inside(p, q)[h + 1] = After(p, q, h, n)
    BY <1>1, SameInside DEF Matched, Counted
  <2>2. p[h].queue = q => n = 0
    <3>1. p[h].queue = q => Waiting(o, d, q) = {}
      OBVIOUS
    <3> QED BY <2>1, <3>1, FS_EmptySet
  <2> HIDE DEF n
  <2>3. After(p, q, h, n) = n
    BY <2>1, <2>2 DEF After
  <2> QED BY <1>1, <2>1, <2>3
<1> QED BY <1>1, <1>5, <1>6, <1>7, <1>8 DEF Matched

\* The first enque that waits has the rank of the deque that comes.
LEMMA FirstHasRank ==
  ASSUME NEW o, NEW p, NEW d, Grown(o, p), Matched(o, d), NEW h, h = Len(o) + 1, p[h].kind = "deque",
         NEW w \in Waiting(o, d, p[h].queue), \A i \in Waiting(o, d, p[h].queue) : w <= i
  PROVE  RankOf(p, w) = RankOf(p, h)
<1>1. /\ Len(o) \in Nat /\ Len(p) = h /\ h \in Nat /\ Kernel(p) /\ Kernel(o) /\ Paired(o, d)
      /\ \A i \in 1 .. Len(o) : p[i] = o[i]
  BY KernelFacts DEF Grown, Matched
<1> DEFINE q == p[h].queue
           A == {j \in {k \in 1 .. h - 1 : p[k].kind = p[h].kind /\ p[k].queue = p[h].queue} : p[h].kind = "deque" => ~EmptyAt(p, j)}
           B == {j \in {k \in 1 .. w - 1 : p[k].kind = p[w].kind /\ p[k].queue = p[w].queue} : p[w].kind = "deque" => ~EmptyAt(p, j)}
           f == [i \in A |-> d[i]]
<1>2. w \in 1 .. Len(o) /\ o[w].kind = "enque" /\ o[w].queue = q /\ w \notin Taken(d) /\ p[w] = o[w] /\ q \in Queues
  <2>1. q \in Queues
    BY <1>1, KernelFacts
  <2> QED BY <1>1, <2>1 DEF Waiting
<1>3. A = {i \in DOMAIN d : o[i].queue = q}
  <2>1. \A i \in 1 .. Len(o) : EmptyAt(p, i) <=> EmptyAt(o, i)
    BY SameRank
  <2>2. A = {i \in 1 .. Len(o) : o[i].kind = "deque" /\ o[i].queue = q /\ ~EmptyAt(o, i)}
    BY <1>1, <2>1
  <2>3. DOMAIN d = {i \in 1 .. Len(o) : o[i].kind = "deque" /\ ~EmptyAt(o, i)}
    BY <1>1 DEF Paired
  <2> HIDE DEF A, q
  <2> QED BY <2>2, <2>3
<1>4. B = {k \in 1 .. w - 1 : o[k].kind = "enque" /\ o[k].queue = q}
  BY <1>1, <1>2
<1> HIDE DEF A, B, q
<1>5. \A i \in A : d[i] \in B
  <2> SUFFICES ASSUME NEW i \in A PROVE d[i] \in B
    OBVIOUS
  <2>1. i \in DOMAIN d /\ d[i] \in 1 .. Len(o) /\ o[d[i]].kind = "enque" /\ o[d[i]].queue = q
    BY <1>1, <1>3, PairedFacts
  <2>2. d[i] \in Taken(d)
    BY <2>1 DEF Taken
  <2>3. d[i] < w
    BY <1>2, <2>1, <2>2 DEF Matched, InOrder, q
  <2> QED BY <1>1, <1>2, <1>4, <2>1, <2>3
<1>6. \A i, j \in A : d[i] = d[j] => i = j
  BY <1>1, <1>3 DEF Paired
<1>7. \A k \in B : \E i \in A : d[i] = k
  <2> SUFFICES ASSUME NEW k \in B PROVE \E i \in A : d[i] = k
    OBVIOUS
  <2>1. k \in 1 .. Len(o) /\ k < w /\ o[k].kind = "enque" /\ o[k].queue = q
    BY <1>1, <1>2, <1>4
  <2>2. k \in Taken(d)
    <3>1. k \in Waiting(o, d, q) => w <= k
      BY DEF q
    <3> QED BY <1>1, <1>2, <2>1, <3>1 DEF Waiting
  <2>3. PICK i \in DOMAIN d : d[i] = k
    BY <2>2 DEF Taken
  <2>4. o[i].queue = q
    BY <1>1, <2>1, <2>3, PairedFacts
  <2> QED BY <1>3, <2>3, <2>4
<1>8. IsFiniteSet(A)
  <2>1. A \in SUBSET (1 .. Len(o))
    BY <1>1, <1>3, PairedFacts
  <2>2. Len(o) \in Int
    BY <1>1
  <2> QED BY <2>1, <2>2, PlacesFinite
<1>9. f \in Bijection(A, B)
  BY <1>5, <1>6, <1>7 DEF Bijection, Injection, Surjection, IsInjective
<1>10. Cardinality(B) = Cardinality(A)
  <2>1. ExistsBijection(A, B)
    BY <1>9 DEF ExistsBijection
  <2> QED BY <1>8, <2>1, FS_Bijection
<1> QED BY <1>10 DEF RankOf, A, B

\* The deque at place h finds the first enque that waits, w.
Finds(o, p, d, e, h, w) ==
  /\ Grown(o, p) /\ Matched(o, d) /\ h = Len(o) + 1 /\ p[h].kind = "deque"
  /\ w \in Waiting(o, d, p[h].queue) /\ \A i \in Waiting(o, d, p[h].queue) : w <= i
  /\ DOMAIN e = DOMAIN d \cup {h} /\ e[h] = w /\ \A i \in DOMAIN d : e[i] = d[i]

\* It takes that enque out of the queue.
LEMMA FoundGrows ==
  ASSUME NEW o, NEW p, NEW d, NEW e, NEW h, NEW w, Finds(o, p, d, e, h, w)
  PROVE  Matched(p, e) /\ \A q : Waiting(p, e, q) = Waiting(o, d, q) \ {w}
<1> SUFFICES ASSUME Grown(o, p), Matched(o, d), h = Len(o) + 1, p[h].kind = "deque",
                    w \in Waiting(o, d, p[h].queue), \A i \in Waiting(o, d, p[h].queue) : w <= i,
                    DOMAIN e = DOMAIN d \cup {h}, e[h] = w, \A i \in DOMAIN d : e[i] = d[i]
             PROVE  Matched(p, e) /\ \A q : Waiting(p, e, q) = Waiting(o, d, q) \ {w}
  BY DEF Finds
<1>1. /\ Len(o) \in Nat /\ Len(p) = h /\ h \in Nat /\ Kernel(p) /\ Kernel(o) /\ Paired(o, d)
      /\ \A i \in 1 .. Len(o) : p[i] = o[i]
  BY KernelFacts DEF Grown, Matched
<1>2. \A i \in 1 .. Len(o) : (EmptyAt(p, i) <=> EmptyAt(o, i)) /\ RankOf(p, i) = RankOf(o, i)
  BY SameRank
<1>3. \A i \in DOMAIN d : i \in 1 .. Len(o) /\ d[i] \in 1 .. i - 1 /\ d[i] \in 1 .. Len(o)
  BY <1>1, PairedFacts
<1>4. /\ w \in 1 .. Len(o) /\ o[w].kind = "enque" /\ o[w].queue = p[h].queue /\ w \notin Taken(d)
      /\ p[h].queue \in Queues
  <2>1. p[h].queue \in Queues
    BY <1>1, KernelFacts
  <2> QED BY <2>1 DEF Waiting
<1>5. Taken(e) = Taken(d) \cup {w}
  BY <1>1, <1>3 DEF Taken
<1>6. ASSUME NEW q \in Queues PROVE IsFiniteSet(Waiting(o, d, q))
  <2>1. Waiting(o, d, q) \in SUBSET (1 .. Len(o)) /\ Len(o) \in Int
    BY <1>1 DEF Waiting
  <2> QED BY <2>1, PlacesFinite
<1>7. ~EmptyAt(p, h)
  <2>1. Inside(o, p[h].queue)[h] = Cardinality(Waiting(o, d, p[h].queue))
    BY <1>1, <1>4 DEF Matched, Counted
  <2>2. Cardinality(Waiting(o, d, p[h].queue)) # 0
    BY <1>4, <1>6, FS_EmptySet
  <2>3. Inside(p, p[h].queue)[h] # 0
    BY <1>1, <2>1, <2>2, SameInside
  <2> QED BY <2>3 DEF EmptyAt
<1>8. Paired(p, e)
  <2>1. DOMAIN e = {i \in 1 .. Len(p) : p[i].kind = "deque" /\ ~EmptyAt(p, i)}
    <3>1. {i \in 1 .. Len(p) : p[i].kind = "deque" /\ ~EmptyAt(p, i)}
          = {i \in 1 .. Len(o) : o[i].kind = "deque" /\ ~EmptyAt(o, i)} \cup {h}
      BY <1>1, <1>2, <1>7
    <3> QED BY <1>1, <3>1 DEF Paired
  <2>2. ASSUME NEW i \in DOMAIN e
        PROVE  /\ e[i] \in 1 .. i - 1 /\ p[e[i]].kind = "enque" /\ p[e[i]].queue = p[i].queue
               /\ RankOf(p, e[i]) = RankOf(p, i)
    <3>1. CASE i \in DOMAIN d
      <4>1. o[d[i]].kind = "enque" /\ o[d[i]].queue = o[i].queue /\ RankOf(o, d[i]) = RankOf(o, i)
        BY <1>1, <3>1 DEF Paired
      <4> QED BY <1>1, <1>2, <1>3, <3>1, <4>1
    <3>2. CASE i = h
      <4>1. RankOf(p, w) = RankOf(p, h)
        BY FirstHasRank
      <4> QED BY <1>1, <1>4, <3>2, <4>1
    <3> QED BY <3>1, <3>2
  <2>3. ASSUME NEW i \in DOMAIN e, NEW j \in DOMAIN e, e[i] = e[j] PROVE i = j
    <3>1. \A k \in DOMAIN d : d[k] # w
      BY <1>4 DEF Taken
    <3>2. CASE i \in DOMAIN d /\ j \in DOMAIN d
      BY <1>1, <2>3, <3>2 DEF Paired
    <3> QED BY <2>3, <3>1, <3>2
  <2> QED BY <2>1, <2>2, <2>3 DEF Paired
<1>9. ASSUME NEW q PROVE Waiting(p, e, q) = Waiting(o, d, q) \ {w}
  BY <1>1, <1>5 DEF Waiting
<1>10. InOrder(p, e)
  <2> SUFFICES ASSUME NEW q \in Queues, NEW i \in Taken(e), p[i].queue = q,
                      NEW k \in Waiting(o, d, q), k # w
               PROVE  i < k
    BY <1>9 DEF InOrder
  <2>1. k \in 1 .. Len(o)
    BY DEF Waiting
  <2>2. CASE i \in Taken(d)
    <3>1. o[i].queue = q
      BY <1>1, <1>3, <2>2 DEF Taken
    <3> QED BY <2>2, <3>1 DEF Matched, InOrder
  <2>3. CASE i = w
    <3>1. q = p[h].queue
      BY <1>1, <1>4, <2>3
    <3> QED BY <1>1, <1>4, <2>1, <2>3, <3>1
  <2> QED BY <1>5, <2>2, <2>3
<1>11. Counted(p, e)
  <2> SUFFICES ASSUME NEW q \in Queues PROVE Inside(p, q)[Len(p) + 1] = Cardinality(Waiting(o, d, q) \ {w})
    BY <1>9 DEF Counted
  <2> DEFINE n == Inside(o, q)[h]
  <2>1. n \in Nat /\ n = Cardinality(Waiting(o, d, q)) /\ Inside(p, q)[h + 1] = After(p, q, h, n)
    BY <1>1, SameInside DEF Matched, Counted
  <2>2. Cardinality(Waiting(o, d, q) \ {w}) = IF w \in Waiting(o, d, q) THEN n - 1 ELSE n
    BY <1>6, <2>1, FS_RemoveElement
  <2>3. w \in Waiting(o, d, q) <=> p[h].queue = q
    BY <1>4 DEF Waiting
  <2>4. w \in Waiting(o, d, q) => n # 0
    BY <1>6, <2>1, FS_EmptySet
  <2> HIDE DEF n
  <2>5. After(p, q, h, n) = IF p[h].queue = q THEN n - 1 ELSE n
    BY <2>1, <2>3, <2>4 DEF After
  <2> QED BY <1>1, <2>1, <2>2, <2>3, <2>5
<1> QED BY <1>1, <1>8, <1>9, <1>10, <1>11 DEF Matched

-----------------------------------------------------------------------------

\* The release at place k is one of the allocation at place a; what is held by
\* the author of a queue.
GivesBack(o, d, k, a) == o[k].kind = "free" /\ Defs(o, d)[o[k].tensor] = a /\ o[k].queue = o[a].queue
Held(o, d, q) == {a \in 1 .. Len(o) : o[a].kind = "alloc" /\ o[a].queue = q /\ \A k \in 1 .. Len(o) : ~GivesBack(o, d, k, a)}

\* What the walk has warned of.
Alone(o, d) == {i \in 1 .. Len(o) : o[i].kind = "deque" /\ i \notin DOMAIN d}
Unallocated(o, d) == {i \in 1 .. Len(o) : o[i].kind = "free" /\ Defs(o, d)[o[i].tensor] <= 0}
FreedBefore(o, d) ==
  {i \in 1 .. Len(o) : LET a == Defs(o, d)[o[i].tensor] IN
     /\ o[i].kind = "free" /\ a > 0
     /\ o[i].queue # o[a].queue \/ \E k \in 1 .. i - 1 : GivesBack(o, d, k, a)}
UsedBetween(o, d) ==
  {u \in 1 .. Len(o) : /\ o[u].kind \in {"use", "enque", "free"}
                       /\ \E i \in DOMAIN d : d[i] < u /\ u < i /\ o[d[i]].tensor = o[u].tensor}

\* p and e are the kernel o and its pairs d one operation later.
Continues(o, d, p, e) ==
  /\ Grown(o, p) /\ Matched(o, d) /\ Matched(p, e)
  /\ \A i \in 1 .. Len(o) : (i \in DOMAIN e <=> i \in DOMAIN d) /\ (i \in DOMAIN d => e[i] = d[i])

\* What a tensor comes from.
LEMMA Sources ==
  ASSUME NEW o, NEW d, Matched(o, d)
  PROVE  \A t \in 0 .. Len(o) : /\ Defs(o, d)[t] \in -1 .. t
                                /\ Defs(o, d)[t] > 0 => o[Defs(o, d)[t]].kind = "alloc"
<1>1. Len(o) \in Nat /\ LooksBack(o, d, Len(o))
  BY KernelFacts, PairedFacts DEF Matched
<1>2. DefTo(o, d, Len(o), Defs(o, d))
  BY <1>1, Definitions
<1> QED BY <1>1, <1>2, DefRange

\* Before the new operation nothing changes, the sources of tensors included.
LEMMA ContinuesFacts ==
  ASSUME NEW o, NEW d, NEW p, NEW e, Continues(o, d, p, e)
  PROVE  /\ Len(o) \in Nat /\ Len(p) = Len(o) + 1 /\ Kernel(o) /\ Kernel(p)
         /\ \A i \in 1 .. Len(o) : p[i] = o[i] /\ o[i].tensor \in 0 .. Len(o)
         /\ p[Len(o) + 1].tensor \in 0 .. Len(o)
         /\ \A t \in 0 .. Len(o) : Defs(p, e)[t] = Defs(o, d)[t]
<1>1. /\ Kernel(o) /\ Kernel(p) /\ Paired(o, d) /\ Paired(p, e) /\ Len(p) = Len(o) + 1
      /\ \A i \in 1 .. Len(o) : p[i] = o[i]
  BY DEF Continues, Grown, Matched
<1>2. /\ Len(o) \in Nat
      /\ \A i \in 1 .. Len(o) : o[i].tensor \in 0 .. Len(o)
      /\ p[Len(o) + 1].tensor \in 0 .. Len(o)
  <2>1. Len(o) \in Nat /\ Len(p) \in Nat
    BY <1>1, KernelFacts
  <2>2. \A i \in 1 .. Len(o) : o[i].tensor \in 0 .. i - 1
    BY <1>1, KernelFacts
  <2>3. \A i \in 1 .. Len(p) : p[i].tensor \in 0 .. i - 1
    BY <1>1, KernelFacts
  <2> QED BY <1>1, <2>1, <2>2, <2>3
<1>3. LooksBack(o, d, Len(o)) /\ LooksBack(p, e, Len(p))
  BY <1>1, PairedFacts
<1>4. DefTo(o, d, Len(o), Defs(o, d)) /\ DefTo(p, e, Len(p), Defs(p, e))
  BY <1>1, <1>2, <1>3, Definitions
<1>5. \A t \in 0 .. Len(o) : Defs(p, e)[t] = Defs(o, d)[t]
  <2> DEFINE f == Defs(o, d)
             g == Defs(p, e)
             n == Len(o)
             m == Len(p)
  <2>1. /\ n \in Nat /\ m \in Nat /\ n <= m /\ LooksBack(o, d, n)
        /\ DefTo(o, d, n, f) /\ DefTo(p, e, m, g)
    BY <1>1, <1>2, <1>3, <1>4
  <2>2. \A i \in 1 .. n : /\ o[i].kind = p[i].kind
                          /\ i \in DOMAIN d <=> i \in DOMAIN e
                          /\ i \in DOMAIN d => o[d[i]].tensor = p[e[i]].tensor
    BY <1>1, <1>2, PairedFacts DEF Continues
  <2> HIDE DEF f, g, n, m
  <2>3. \A i \in 0 .. n : g[i] = f[i]
    BY <2>1, <2>2, DefAgrees
  <2> QED BY <2>3 DEF f, g, n
<1> QED BY <1>1, <1>2, <1>5

\* A release is one of what was allocated before it.
LEMMA ReleasesGrow ==
  ASSUME NEW o, NEW d, NEW p, NEW e, Continues(o, d, p, e), NEW h, h = Len(o) + 1
  PROVE  /\ \A k, a \in 1 .. Len(o) : GivesBack(p, e, k, a) <=> GivesBack(o, d, k, a)
         /\ \A k \in 1 .. h : ~GivesBack(p, e, k, h)
<1>1. /\ Len(o) \in Nat /\ Len(p) = h /\ \A i \in 1 .. Len(o) : p[i] = o[i] /\ o[i].tensor \in 0 .. Len(o)
      /\ p[h].tensor \in 0 .. Len(o)
      /\ \A t \in 0 .. Len(o) : Defs(p, e)[t] = Defs(o, d)[t]
  BY ContinuesFacts
<1>2. \A t \in 0 .. Len(o) : Defs(o, d)[t] \in -1 .. t
  BY Sources DEF Continues
<1>3. \A k, a \in 1 .. Len(o) : GivesBack(p, e, k, a) <=> GivesBack(o, d, k, a)
  BY <1>1 DEF GivesBack
<1>4. ASSUME NEW k \in 1 .. h PROVE ~GivesBack(p, e, k, h)
  <2>1. p[k].tensor \in 0 .. Len(o)
    BY <1>1
  <2>2. Defs(p, e)[p[k].tensor] # h
    BY <1>1, <1>2, <2>1
  <2> QED BY <2>2 DEF GivesBack
<1> QED BY <1>3, <1>4

\* A release ends a hold, an allocation begins one.
LEMMA HeldGrows ==
  ASSUME NEW o, NEW d, NEW p, NEW e, Continues(o, d, p, e), NEW h, h = Len(o) + 1, NEW q
  PROVE  Held(p, e, q) = {a \in Held(o, d, q) : ~GivesBack(p, e, h, a)} \cup {i \in {h} : p[h].kind = "alloc" /\ p[h].queue = q}
<1>1. Len(o) \in Nat /\ Len(p) = h /\ \A i \in 1 .. Len(o) : p[i] = o[i]
  BY ContinuesFacts
<1>2. /\ \A k, a \in 1 .. Len(o) : GivesBack(p, e, k, a) <=> GivesBack(o, d, k, a)
      /\ \A k \in 1 .. h : ~GivesBack(p, e, k, h)
  BY ReleasesGrow
<1>3. 1 .. Len(p) = (1 .. Len(o)) \cup {h} /\ h \notin 1 .. Len(o)
  BY <1>1
<1>4. ASSUME NEW a \in 1 .. Len(o)
      PROVE  a \in Held(p, e, q) <=> a \in Held(o, d, q) /\ ~GivesBack(p, e, h, a)
  BY <1>1, <1>2, <1>3 DEF Held
<1>5. h \in Held(p, e, q) <=> p[h].kind = "alloc" /\ p[h].queue = q
  BY <1>2, <1>3 DEF Held, GivesBack
<1>6. Held(p, e, q) \subseteq 1 .. Len(p) /\ Held(o, d, q) \subseteq 1 .. Len(o)
  BY DEF Held
<1> QED BY <1>3, <1>4, <1>5, <1>6

\* What the new operation is warned of.
LEMMA WarnedGrows ==
  ASSUME NEW o, NEW d, NEW p, NEW e, Continues(o, d, p, e), NEW h, h = Len(o) + 1
  PROVE  /\ Alone(p, e) = Alone(o, d) \cup {i \in {h} : p[h].kind = "deque" /\ h \notin DOMAIN e}
         /\ Unallocated(p, e) = Unallocated(o, d) \cup {i \in {h} : p[h].kind = "free" /\ Defs(o, d)[p[h].tensor] <= 0}
         /\ FreedBefore(p, e) = FreedBefore(o, d) \cup
              {i \in {h} : LET a == Defs(o, d)[p[h].tensor] IN p[h].kind = "free" /\ a > 0 /\ a \notin Held(o, d, p[h].queue)}
<1>1. /\ Len(o) \in Nat /\ Len(p) = h /\ \A i \in 1 .. Len(o) : p[i] = o[i] /\ o[i].tensor \in 0 .. Len(o)
      /\ p[h].tensor \in 0 .. Len(o)
      /\ \A t \in 0 .. Len(o) : Defs(p, e)[t] = Defs(o, d)[t]
  BY ContinuesFacts
<1>2. \A t \in 0 .. Len(o) : Defs(o, d)[t] \in -1 .. t /\ (Defs(o, d)[t] > 0 => o[Defs(o, d)[t]].kind = "alloc")
  BY Sources DEF Continues
<1>3. /\ \A k, a \in 1 .. Len(o) : GivesBack(p, e, k, a) <=> GivesBack(o, d, k, a)
      /\ \A k \in 1 .. h : ~GivesBack(p, e, k, h)
  BY ReleasesGrow
<1>4. 1 .. Len(p) = (1 .. Len(o)) \cup {h} /\ h \notin 1 .. Len(o) /\ h - 1 = Len(o)
  BY <1>1
<1>5. Alone(p, e) = Alone(o, d) \cup {i \in {h} : p[h].kind = "deque" /\ h \notin DOMAIN e}
  BY <1>1, <1>4 DEF Alone, Continues
<1>6. Unallocated(p, e) = Unallocated(o, d) \cup {i \in {h} : p[h].kind = "free" /\ Defs(o, d)[p[h].tensor] <= 0}
  BY <1>1, <1>4 DEF Unallocated
<1>7. ASSUME NEW i \in 1 .. Len(o) PROVE i \in FreedBefore(p, e) <=> i \in FreedBefore(o, d)
  <2> DEFINE a == Defs(o, d)[o[i].tensor]
  <2>1. p[i] = o[i] /\ Defs(p, e)[p[i].tensor] = a
    BY <1>1
  <2>6. o[i].tensor \in 0 .. Len(o) /\ a \in -1 .. o[i].tensor
    BY <1>1, <1>2
  <2>2. a > 0 => a \in 1 .. Len(o) /\ p[a] = o[a]
    <3> HIDE DEF a
    <3> QED BY <1>1, <2>6
  <2>3. a > 0 => \A k \in 1 .. i - 1 : GivesBack(p, e, k, a) <=> GivesBack(o, d, k, a)
    <3>1. \A k \in 1 .. i - 1 : k \in 1 .. Len(o)
      BY <1>1
    <3> HIDE DEF a
    <3> QED BY <1>3, <2>2, <3>1
  <2>4. i \in FreedBefore(p, e) <=>
          /\ o[i].kind = "free" /\ a > 0
          /\ o[i].queue # p[a].queue \/ \E k \in 1 .. i - 1 : GivesBack(p, e, k, a)
    BY <1>4, <2>1 DEF FreedBefore
  <2>5. i \in FreedBefore(o, d) <=>
          /\ o[i].kind = "free" /\ a > 0
          /\ o[i].queue # o[a].queue \/ \E k \in 1 .. i - 1 : GivesBack(o, d, k, a)
    BY DEF FreedBefore
  <2> HIDE DEF a
  <2> QED BY <2>2, <2>3, <2>4, <2>5
<1>8. LET a == Defs(o, d)[p[h].tensor]
      IN  h \in FreedBefore(p, e) <=> p[h].kind = "free" /\ a > 0 /\ a \notin Held(o, d, p[h].queue)
  <2> DEFINE a == Defs(o, d)[p[h].tensor]
  <2>1. Defs(p, e)[p[h].tensor] = a
    BY <1>1
  <2>2. a > 0 => a \in 1 .. Len(o) /\ p[a] = o[a] /\ o[a].kind = "alloc"
    BY <1>1, <1>2
  <2>3. a > 0 => \A k \in 1 .. h - 1 : GivesBack(p, e, k, a) <=> GivesBack(o, d, k, a)
    BY <1>3, <1>4, <2>2
  <2>4. h \in FreedBefore(p, e) <=>
          /\ p[h].kind = "free" /\ a > 0
          /\ p[h].queue # p[a].queue \/ \E k \in 1 .. h - 1 : GivesBack(p, e, k, a)
    BY <1>4, <2>1 DEF FreedBefore
  <2>5. a > 0 => (a \in Held(o, d, p[h].queue) <=>
                    o[a].queue = p[h].queue /\ \A k \in 1 .. Len(o) : ~GivesBack(o, d, k, a))
    BY <2>2 DEF Held
  <2> HIDE DEF a
  <2>6. h \in FreedBefore(p, e) <=> p[h].kind = "free" /\ a > 0 /\ a \notin Held(o, d, p[h].queue)
    BY <1>4, <2>2, <2>3, <2>4, <2>5
  <2> QED BY <2>6 DEF a
<1>9. FreedBefore(p, e) \subseteq 1 .. Len(p) /\ FreedBefore(o, d) \subseteq 1 .. Len(o)
  BY DEF FreedBefore
<1> DEFINE a == Defs(o, d)[p[h].tensor]
           N == {i \in {h} : p[h].kind = "free" /\ a > 0 /\ a \notin Held(o, d, p[h].queue)}
<1>10. FreedBefore(p, e) = FreedBefore(o, d) \cup N
  <2>1. h \in N <=> h \in FreedBefore(p, e)
    BY <1>8
  <2>2. N \subseteq {h}
    OBVIOUS
  <2> HIDE DEF N
  <2> QED BY <1>4, <1>7, <1>9, <2>1, <2>2
<1> QED BY <1>5, <1>6, <1>10

\* Uses between the two of a pair are found when the pair is.
LEMMA UsesGrow ==
  ASSUME NEW o, NEW d, NEW p, NEW e, Continues(o, d, p, e), NEW h, h = Len(o) + 1
  PROVE  UsedBetween(p, e) = UsedBetween(o, d) \cup
           {u \in 1 .. Len(o) : /\ h \in DOMAIN e /\ e[h] < u /\ o[u].kind \in {"use", "enque", "free"}
                                /\ o[e[h]].tensor = o[u].tensor}
<1>1. Len(o) \in Nat /\ Len(p) = h /\ h \in Nat /\ \A i \in 1 .. Len(o) : p[i] = o[i]
  BY ContinuesFacts
<1>2. \A i \in DOMAIN d : i \in 1 .. Len(o) /\ d[i] \in 1 .. Len(o) /\ e[i] = d[i] /\ i \in DOMAIN e
  BY PairedFacts DEF Continues, Matched
<1>3. \A i \in DOMAIN e : i \in 1 .. h /\ e[i] \in 1 .. i - 1
  BY <1>1, PairedFacts DEF Continues, Matched
<1>4. \A i \in DOMAIN e : i = h \/ i \in DOMAIN d
  BY <1>1, <1>3 DEF Continues
<1>5. h \in DOMAIN e => e[h] \in 1 .. Len(o) /\ p[e[h]] = o[e[h]]
  BY <1>1, <1>3
<1>6. ASSUME NEW u \in 1 .. Len(o)
      PROVE  u \in UsedBetween(p, e) <=>
               /\ o[u].kind \in {"use", "enque", "free"}
               /\ \/ \E i \in DOMAIN d : d[i] < u /\ u < i /\ o[d[i]].tensor = o[u].tensor
                  \/ h \in DOMAIN e /\ e[h] < u /\ o[e[h]].tensor = o[u].tensor
  <2>1. u \in 1 .. Len(p) /\ u < h /\ p[u] = o[u]
    BY <1>1
  <2>2. (\E i \in DOMAIN e : e[i] < u /\ u < i /\ p[e[i]].tensor = o[u].tensor) <=>
          \/ \E i \in DOMAIN d : d[i] < u /\ u < i /\ o[d[i]].tensor = o[u].tensor
          \/ h \in DOMAIN e /\ e[h] < u /\ o[e[h]].tensor = o[u].tensor
    BY <1>1, <1>2, <1>4, <1>5, <2>1
  <2> QED BY <2>1, <2>2 DEF UsedBetween
<1>7. UsedBetween(p, e) \subseteq 1 .. Len(o)
  <2> SUFFICES ASSUME NEW u \in UsedBetween(p, e) PROVE u \in 1 .. Len(o)
    OBVIOUS
  <2>1. u \in 1 .. Len(p) /\ \E i \in DOMAIN e : u < i
    BY DEF UsedBetween
  <2> QED BY <1>1, <1>3, <2>1
<1> QED BY <1>6, <1>7 DEF UsedBetween

-----------------------------------------------------------------------------

\* f is what Buffer computes for the pairs P.
BufferTo(o, P, n, f) ==
  f = [i \in 0 .. n |->
        IF i = 0 \/ o[i].kind = "alloc" THEN i
        ELSE IF \E p \in P : p[2] = i THEN f[o[(CHOOSE p \in P : p[2] = i)[1]].tensor]
        ELSE 0]

PairsOf(d) == {<<d[i], i>> : i \in DOMAIN d}

\* A deque has one pair at most.
LEMMA PairOf ==
  ASSUME NEW d, NEW i
  PROVE  /\ (\E p \in PairsOf(d) : p[2] = i) <=> i \in DOMAIN d
         /\ i \in DOMAIN d => (CHOOSE p \in PairsOf(d) : p[2] = i)[1] = d[i]
<1>1. \A p \in PairsOf(d) : p[2] \in DOMAIN d /\ p[1] = d[p[2]]
  BY DEF PairsOf
<1>2. ASSUME i \in DOMAIN d PROVE \E p \in PairsOf(d) : p[2] = i
  <2>1. <<d[i], i>> \in PairsOf(d) /\ <<d[i], i>>[2] = i
    BY <1>2 DEF PairsOf
  <2> QED BY <2>1
<1>3. ASSUME i \in DOMAIN d PROVE (CHOOSE p \in PairsOf(d) : p[2] = i)[1] = d[i]
  <2> DEFINE c == CHOOSE p \in PairsOf(d) : p[2] = i
  <2>1. c \in PairsOf(d) /\ c[2] = i
    BY <1>2, <1>3
  <2> HIDE DEF c
  <2>2. c[1] = d[i]
    BY <1>1, <2>1
  <2> QED BY <2>2 DEF c
<1> QED BY <1>1, <1>2, <1>3

\* The buffer of a tensor is the allocation found for it, or none.
LEMMA BufferFound ==
  ASSUME NEW o, NEW d, NEW n \in Nat, LooksBack(o, d, n), NEW f, DefTo(o, d, n, f),
         NEW b, BufferTo(o, PairsOf(d), n, b)
  PROVE  \A i \in 0 .. n : b[i] = IF f[i] <= 0 THEN 0 ELSE f[i]
<1> DEFINE G(i) == IF f[i] <= 0 THEN 0 ELSE f[i]
           S == {i \in 0 .. n : b[i] # G(i)}
<1> SUFFICES ASSUME S # {} PROVE FALSE
  OBVIOUS
<1>1. S \in SUBSET Nat
  OBVIOUS
<1> HIDE DEF S
<1>2. PICK i \in S : \A k \in S : i <= k
  BY <1>1, Least
<1>3. i \in 0 .. n /\ b[i] # G(i)
  BY DEF S
<1>4. \A k \in 0 .. i - 1 : b[k] = G(k)
  BY <1>1, <1>2, <1>3 DEF S
<1>5. i \in DOMAIN d => o[d[i]].tensor \in 0 .. i - 1
  <2>1. CASE i = 0
    <3>1. f[0] = 0
      BY DEF DefTo
    <3>2. b[0] = 0
      BY DEF BufferTo
    <3> QED BY <1>3, <2>1, <3>1, <3>2
  <2>2. CASE i # 0
    BY <1>3, <2>2 DEF LooksBack
  <2> QED BY <2>1, <2>2
<1>6. f[i] = IF i = 0 THEN 0 ELSE IF o[i].kind = "alloc" THEN i ELSE IF i \in DOMAIN d THEN f[o[d[i]].tensor] ELSE -1
  BY <1>3 DEF DefTo
<1>7. b[i] = IF i = 0 \/ o[i].kind = "alloc" THEN i ELSE IF i \in DOMAIN d THEN b[o[d[i]].tensor] ELSE 0
  <2>1. b[i] = IF i = 0 \/ o[i].kind = "alloc" THEN i
               ELSE IF \E p \in PairsOf(d) : p[2] = i THEN b[o[(CHOOSE p \in PairsOf(d) : p[2] = i)[1]].tensor]
               ELSE 0
    BY <1>3 DEF BufferTo
  <2> QED BY <2>1, PairOf
<1>8. CASE i = 0 \/ o[i].kind = "alloc"
  BY <1>3, <1>6, <1>7, <1>8
<1>9. CASE ~(i = 0 \/ o[i].kind = "alloc") /\ i \in DOMAIN d
  <2>1. f[i] = f[o[d[i]].tensor] /\ b[i] = b[o[d[i]].tensor] /\ b[o[d[i]].tensor] = G(o[d[i]].tensor)
    BY <1>4, <1>5, <1>6, <1>7, <1>9
  <2> QED BY <1>3, <2>1
<1>10. CASE ~(i = 0 \/ o[i].kind = "alloc") /\ i \notin DOMAIN d
  BY <1>3, <1>6, <1>7, <1>10
<1> QED BY <1>8, <1>9, <1>10

\* The buffers are defined.
LEMMA BufferExists ==
  ASSUME NEW o, NEW d, NEW n \in Nat, LooksBack(o, d, n), NEW f, DefTo(o, d, n, f)
  PROVE  \E b : BufferTo(o, PairsOf(d), n, b)
<1> DEFINE b == [i \in 0 .. n |-> IF f[i] <= 0 THEN 0 ELSE f[i]]
<1>1. \A i \in 0 .. n : b[i] = IF f[i] <= 0 THEN 0 ELSE f[i]
  OBVIOUS
<1>2. b = [i \in 0 .. n |-> b[i]]
  OBVIOUS
<1> HIDE DEF b
<1>3. ASSUME NEW i \in 0 .. n
      PROVE  b[i] = IF i = 0 \/ o[i].kind = "alloc" THEN i
                    ELSE IF \E p \in PairsOf(d) : p[2] = i THEN b[o[(CHOOSE p \in PairsOf(d) : p[2] = i)[1]].tensor]
                    ELSE 0
  <2>1. f[i] = IF i = 0 THEN 0 ELSE IF o[i].kind = "alloc" THEN i ELSE IF i \in DOMAIN d THEN f[o[d[i]].tensor] ELSE -1
    BY DEF DefTo
  <2>2. CASE i = 0 \/ o[i].kind = "alloc"
    BY <1>1, <2>1, <2>2
  <2>3. CASE ~(i = 0 \/ o[i].kind = "alloc") /\ i \in DOMAIN d
    <3>1. o[d[i]].tensor \in 0 .. n
      BY <2>3 DEF LooksBack
    <3>2. b[i] = b[o[d[i]].tensor]
      BY <1>1, <2>1, <2>3, <3>1
    <3> QED BY <2>3, <3>2, PairOf
  <2>4. CASE ~(i = 0 \/ o[i].kind = "alloc") /\ i \notin DOMAIN d
    <3>1. b[i] = 0
      BY <1>1, <2>1, <2>4
    <3> QED BY <2>4, <3>1, PairOf
  <2> QED BY <2>2, <2>3, <2>4
<1>4. BufferTo(o, PairsOf(d), n, b)
  BY <1>2, <1>3 DEF BufferTo
<1> QED BY <1>4

-----------------------------------------------------------------------------

\* The definitions of VerifySync in these terms.
LEMMA EmptyIs == \A i : Empty(i) <=> EmptyAt(ops, i)
BY DEF Empty, EmptyAt, InQueueAt, Inside, InsideTo, After, Kind

LEMMA RankIs == \A i : Rank(i) = RankOf(ops, i)
<1> SUFFICES ASSUME NEW i PROVE Rank(i) = RankOf(ops, i)
  OBVIOUS
<1>1. {j \in Earlier(Kind(i), ops[i].queue, i) : Kind(i) = "deque" => ~Empty(j)}
      = {j \in {k \in 1 .. i - 1 : ops[k].kind = ops[i].kind /\ ops[k].queue = ops[i].queue} :
           ops[i].kind = "deque" => ~EmptyAt(ops, j)}
  BY EmptyIs DEF Earlier, Kind
<1> QED BY <1>1 DEF Rank, RankOf

\* The pass pairs what a queue that is first in, first out would.
LEMMA PairsAre ==
  ASSUME Matched(ops, deqToEnq)
  PROVE  Pairs = PairsOf(deqToEnq)
<1>1. Kernel(ops) /\ Paired(ops, deqToEnq) /\ Len(ops) \in Nat
  BY KernelFacts DEF Matched
<1>2. ASSUME NEW d \in DOMAIN deqToEnq PROVE <<deqToEnq[d], d>> \in Pairs
  <2> DEFINE e == deqToEnq[d]
  <2>1. /\ d \in Places /\ ops[d].kind = "deque" /\ ~EmptyAt(ops, d)
        /\ e \in Places /\ ops[e].kind = "enque" /\ ops[e].queue = ops[d].queue
    BY <1>1, PairedFacts DEF Places
  <2>2. RankOf(ops, e) = RankOf(ops, d)
    BY <1>1 DEF Paired
  <2> HIDE DEF e
  <2>3. Rank(e) = Rank(d) /\ ~Empty(d)
    BY <2>1, <2>2, EmptyIs, RankIs
  <2>4. <<e, d>> \in Pairs
    BY <2>1, <2>3 DEF Pairs, Kind
  <2> QED BY <2>4 DEF e
<1>3. ASSUME NEW p \in Pairs PROVE p \in PairsOf(deqToEnq)
  <2>1. PICK e \in Places, d \in Places :
          /\ p = <<e, d>> /\ ops[e].kind = "enque" /\ ops[d].kind = "deque" /\ ops[e].queue = ops[d].queue
          /\ ~Empty(d) /\ Rank(e) = Rank(d)
    BY DEF Pairs, Kind
  <2>2. d \in DOMAIN deqToEnq
    BY <1>1, <2>1, EmptyIs DEF Paired, Places
  <2> DEFINE c == deqToEnq[d]
  <2>3. c \in Places /\ ops[c].kind = "enque" /\ ops[c].queue = ops[d].queue
    BY <1>1, <2>2, PairedFacts DEF Places
  <2>4. RankOf(ops, c) = RankOf(ops, d) /\ RankOf(ops, e) = RankOf(ops, d)
    <3>1. RankOf(ops, c) = RankOf(ops, d)
      BY <1>1, <2>2 DEF Paired
    <3> QED BY <2>1, <3>1, RankIs
  <2> HIDE DEF c
  <2>5. c = e
    <3>1. c \in 1 .. Len(ops) /\ e \in 1 .. Len(ops) /\ c \in Int /\ e \in Int
      BY <1>1, <2>1, <2>3 DEF Places
    <3>2. ~(c < e)
      <4> SUFFICES ASSUME c < e PROVE FALSE
        OBVIOUS
      <4>1. RankOf(ops, c) < RankOf(ops, e)
        BY <1>1, <2>1, <2>3, <3>1, RanksDiffer
      <4>2. RankOf(ops, e) \in Nat
        BY <1>1, <3>1, RankIsNat
      <4> QED BY <2>4, <4>1, <4>2
    <3>3. ~(e < c)
      <4> SUFFICES ASSUME e < c PROVE FALSE
        OBVIOUS
      <4>1. RankOf(ops, e) < RankOf(ops, c)
        BY <1>1, <2>1, <2>3, <3>1, RanksDiffer
      <4>2. RankOf(ops, e) \in Nat
        BY <1>1, <3>1, RankIsNat
      <4> QED BY <2>4, <4>1, <4>2
    <3> QED BY <3>1, <3>2, <3>3
  <2> QED BY <2>1, <2>2, <2>5 DEF PairsOf, c
<1> QED BY <1>2, <1>3 DEF PairsOf

\* Buffer asks the pairs of the definition, findDef those of the pass.
LEMMA BufferIs ==
  ASSUME Matched(ops, deqToEnq)
  PROVE  \A t \in 0 .. Len(ops) :
           Buffer(t) = IF Defs(ops, deqToEnq)[t] <= 0 THEN 0 ELSE Defs(ops, deqToEnq)[t]
<1> DEFINE b == CHOOSE f : BufferTo(ops, PairsOf(deqToEnq), Len(ops), f)
<1>1. Len(ops) \in Nat /\ LooksBack(ops, deqToEnq, Len(ops))
  BY KernelFacts, PairedFacts DEF Matched
<1>2. DefTo(ops, deqToEnq, Len(ops), Defs(ops, deqToEnq))
  BY <1>1, Definitions
<1>3. BufferTo(ops, PairsOf(deqToEnq), Len(ops), b)
  <2>1. \E f : BufferTo(ops, PairsOf(deqToEnq), Len(ops), f)
    BY <1>1, <1>2, BufferExists
  <2> QED
    BY <2>1
<1>4. \A t : Buffer(t) = b[t]
  <2>1. \A t : Buffer(t) = (CHOOSE f : BufferTo(ops, Pairs, Len(ops), f))[t]
    BY DEF Buffer, BufferTo, Kind
  <2> QED
    BY <2>1, PairsAre
<1> HIDE DEF b
<1> QED
  BY <1>1, <1>2, <1>3, <1>4, BufferFound

\* A release of the definition is one of the pass.
LEMMA ReleasesIs ==
  ASSUME Matched(ops, deqToEnq), NEW k \in 1 .. Len(ops), NEW a \in 1 .. Len(ops)
  PROVE  Releases(k, a) <=> GivesBack(ops, deqToEnq, k, a)
<1> DEFINE f == Defs(ops, deqToEnq)[ops[k].tensor]
<1>1. Len(ops) \in Nat /\ ops[k].tensor \in 0 .. Len(ops)
  BY KernelFacts DEF Matched
<1>2. f \in -1 .. Len(ops)
  BY <1>1, Sources
<1>3. Buffer(ops[k].tensor) = IF f <= 0 THEN 0 ELSE f
  BY <1>1, BufferIs
<1> HIDE DEF f
<1>4. Buffer(ops[k].tensor) = a <=> f = a
  BY <1>1, <1>2, <1>3
<1> QED
  BY <1>4 DEF Releases, GivesBack, Kind, f

\* What a kernel deserves to be warned of, by the pairs of the pass.
DeservedBy(o, d) ==
       ({"deque"} \X Alone(o, d))
  \cup ({"enque"} \X {e \in 1 .. Len(o) : o[e].kind = "enque" /\ e \notin Taken(d)})
  \cup ({"alloc"} \X {a \in 1 .. Len(o) : o[a].kind = "alloc" /\ \A k \in 1 .. Len(o) : ~GivesBack(o, d, k, a)})
  \cup ({"unallocated"} \X Unallocated(o, d))
  \cup ({"freed"} \X FreedBefore(o, d))
  \cup ({"between"} \X UsedBetween(o, d))

\* The definition and the pass deserve the same warnings.
LEMMA DeservedIs ==
  ASSUME Matched(ops, deqToEnq)
  PROVE  Deserved = DeservedBy(ops, deqToEnq)
<1> DEFINE n == Len(ops)
           D == {j \in Places : Kind(j) = "deque" /\ Empty(j)}
           E == {j \in Places : Kind(j) = "enque" /\ \A p \in Pairs : p[1] # j}
           A == {j \in Places : Kind(j) = "alloc" /\ \A k \in Places : ~Releases(k, j)}
           U == {j \in Places : Kind(j) = "free" /\ Buffer(ops[j].tensor) = 0}
           F == {j \in Places : /\ Kind(j) = "free"
                                /\ LET a == Buffer(ops[j].tensor)
                                   IN a # 0 /\ (~Releases(j, a) \/ \E k \in 1 .. j - 1 : Releases(k, a))}
           B == {j \in Places : /\ Kind(j) \in {"use", "enque", "free"}
                                /\ \E p \in Pairs : p[1] < j /\ j < p[2] /\ ops[p[1]].tensor = ops[j].tensor}
<1>0. Pairs = {<<deqToEnq[i], i>> : i \in DOMAIN deqToEnq}
  BY PairsAre DEF PairsOf
<1>1. n \in Nat /\ \A j \in 1 .. n : ops[j].tensor \in 0 .. j - 1 /\ ops[j].tensor \in 0 .. n
  BY KernelFacts DEF Matched
<1>2. \A j \in 1 .. n : LET a == Defs(ops, deqToEnq)[ops[j].tensor]
                        IN /\ a \in -1 .. n
                           /\ Buffer(ops[j].tensor) = IF a <= 0 THEN 0 ELSE a
  <2> TAKE j \in 1 .. n
  <2>1. ops[j].tensor \in 0 .. n
    BY <1>1
  <2> QED
    BY <1>1, <2>1, Sources, BufferIs
<1>3. Deserved = ({"deque"} \X D) \cup ({"enque"} \X E) \cup ({"alloc"} \X A) \cup ({"unallocated"} \X U)
                 \cup ({"freed"} \X F) \cup ({"between"} \X B)
  <2> HIDE DEF D, E, A, U, F, B
  <2>1. Deserved = {<<"deque", x>> : x \in D} \cup {<<"enque", x>> : x \in E} \cup {<<"alloc", x>> : x \in A}
                   \cup {<<"unallocated", x>> : x \in U} \cup {<<"freed", x>> : x \in F} \cup {<<"between", x>> : x \in B}
    BY DEF Deserved, D, E, A, U, F, B
  <2>2. \A s, S : {<<s, x>> : x \in S} = {s} \X S
    OBVIOUS
  <2> QED
    BY <2>1, <2>2
<1>4. D = Alone(ops, deqToEnq)
  BY EmptyIs DEF Places, Kind, Alone, Matched, Paired
<1>5. E = {e \in 1 .. n : ops[e].kind = "enque" /\ e \notin Taken(deqToEnq)}
  <2>1. \A j : (\A p \in Pairs : p[1] # j) <=> j \notin Taken(deqToEnq)
    <3> TAKE j
    <3>1. \A i \in DOMAIN deqToEnq : <<deqToEnq[i], i>> \in Pairs /\ <<deqToEnq[i], i>>[1] = deqToEnq[i]
      BY <1>0
    <3>2. \A p \in Pairs : \E i \in DOMAIN deqToEnq : p = <<deqToEnq[i], i>> /\ p[1] = deqToEnq[i]
      BY <1>0
    <3> QED
      BY <3>1, <3>2 DEF Taken
  <2> QED
    BY <2>1 DEF Places, Kind
<1>6. A = {a \in 1 .. n : ops[a].kind = "alloc" /\ \A k \in 1 .. n : ~GivesBack(ops, deqToEnq, k, a)}
  BY ReleasesIs DEF Places, Kind
<1>7. U = Unallocated(ops, deqToEnq)
  <2>1. \A j \in 1 .. n : Buffer(ops[j].tensor) = 0 <=> Defs(ops, deqToEnq)[ops[j].tensor] <= 0
    BY <1>1, <1>2
  <2> QED
    BY <2>1 DEF Places, Kind, Unallocated
<1>8. F = FreedBefore(ops, deqToEnq)
  <2>1. SUFFICES ASSUME NEW j \in 1 .. n, ops[j].kind = "free"
        PROVE  LET a == Buffer(ops[j].tensor)
                   c == Defs(ops, deqToEnq)[ops[j].tensor]
               IN (a # 0 /\ (~Releases(j, a) \/ \E k \in 1 .. j - 1 : Releases(k, a)))
                  <=> (c > 0 /\ (ops[j].queue # ops[c].queue \/ \E k \in 1 .. j - 1 : GivesBack(ops, deqToEnq, k, c)))
    BY DEF Places, Kind, FreedBefore
  <2> DEFINE c == Defs(ops, deqToEnq)[ops[j].tensor]
  <2>2. c \in -1 .. n /\ Buffer(ops[j].tensor) = IF c <= 0 THEN 0 ELSE c
    BY <1>2
  <2> HIDE DEF c
  <2>3. CASE c <= 0
    BY <2>2, <2>3 DEF c
  <2>4. CASE c > 0
    <3>1. c \in 1 .. n /\ Buffer(ops[j].tensor) = c /\ c # 0
      BY <1>1, <2>2, <2>4
    <3>2. \A k \in 1 .. n : Releases(k, c) <=> GivesBack(ops, deqToEnq, k, c)
      BY <3>1, ReleasesIs
    <3>3. \A k \in 1 .. j - 1 : k \in 1 .. n
      BY <1>1
    <3>4. GivesBack(ops, deqToEnq, j, c) <=> ops[j].queue = ops[c].queue
      BY <2>1 DEF GivesBack, c
    <3> QED
      BY <2>4, <3>1, <3>2, <3>3, <3>4 DEF c
  <2> QED
    BY <1>1, <2>2, <2>3, <2>4
<1>9. B = UsedBetween(ops, deqToEnq)
  <2>1. \A j : (\E p \in Pairs : p[1] < j /\ j < p[2] /\ ops[p[1]].tensor = ops[j].tensor)
               <=> \E i \in DOMAIN deqToEnq : deqToEnq[i] < j /\ j < i /\ ops[deqToEnq[i]].tensor = ops[j].tensor
    <3> TAKE j
    <3>1. \A i \in DOMAIN deqToEnq : LET p == <<deqToEnq[i], i>> IN p \in Pairs /\ p[1] = deqToEnq[i] /\ p[2] = i
      BY <1>0
    <3>2. \A p \in Pairs : \E i \in DOMAIN deqToEnq : p[1] = deqToEnq[i] /\ p[2] = i
      BY <1>0
    <3>3. ASSUME NEW i \in DOMAIN deqToEnq, deqToEnq[i] < j, j < i, ops[deqToEnq[i]].tensor = ops[j].tensor
          PROVE  \E p \in Pairs : p[1] < j /\ j < p[2] /\ ops[p[1]].tensor = ops[j].tensor
      <4> DEFINE p == <<deqToEnq[i], i>>
      <4>1. p \in Pairs /\ p[1] = deqToEnq[i] /\ p[2] = i
        BY <3>1
      <4> HIDE DEF p
      <4> QED
        BY <3>3, <4>1
    <3>4. ASSUME NEW p \in Pairs, p[1] < j, j < p[2], ops[p[1]].tensor = ops[j].tensor
          PROVE  \E i \in DOMAIN deqToEnq : deqToEnq[i] < j /\ j < i /\ ops[deqToEnq[i]].tensor = ops[j].tensor
      <4>1. PICK i \in DOMAIN deqToEnq : p[1] = deqToEnq[i] /\ p[2] = i
        BY <3>2
      <4>2. deqToEnq[i] < j /\ j < i /\ ops[deqToEnq[i]].tensor = ops[j].tensor
        BY <3>4, <4>1
      <4> QED
        BY <4>2
    <3> QED
      BY <3>3, <3>4
  <2> QED
    BY <2>1 DEF Places, Kind, UsedBetween
<1> HIDE DEF D, E, A, U, F, B
<1> QED
  BY <1>3, <1>4, <1>5, <1>6, <1>7, <1>8, <1>9 DEF DeservedBy, n

-----------------------------------------------------------------------------

\* The open operations of a queue: the enques that wait and the allocations
\* that are held.
Bound(o, b, d) ==
  /\ b \in [Queues -> SUBSET (1 .. Len(o))]
  /\ \A q \in Queues : b[q] = Waiting(o, d, q) \cup Held(o, d, q)

\* What the pass has warned of before its end.
WarnedBy(o, d) ==
       ({"deque"} \X Alone(o, d))
  \cup ({"unallocated"} \X Unallocated(o, d))
  \cup ({"freed"} \X FreedBefore(o, d))
  \cup ({"between"} \X UsedBetween(o, d))

\* Until it crashes, the walk keeps the pairs of a queue that is first in,
\* first out, what is open, and the warnings that are due.
Walked(o, b, d, w, k) ==
  /\ k \in {"on", "done", "crashed"}
  /\ k # "crashed" => Matched(o, d) /\ Bound(o, b, d)
  /\ k = "on" => w = WarnedBy(o, d)
  /\ k = "done" => w = DeservedBy(o, d)

IInv == Walked(ops, queBinds, deqToEnq, warnings, walk)

\* The open enques are those that wait, the open allocations those that are held.
LEMMA BoundKinds ==
  ASSUME NEW o, NEW b, NEW d, Bound(o, b, d), NEW q \in Queues
  PROVE  /\ {i \in b[q] : o[i].kind = "enque"} = Waiting(o, d, q)
         /\ {i \in b[q] : o[i].kind = "alloc"} = Held(o, d, q)
         /\ \A i \in b[q] : i \in 1 .. Len(o) /\ o[i].queue = q /\ o[i].kind \in {"alloc", "enque"}
<1>1. b[q] = Waiting(o, d, q) \cup Held(o, d, q)
  BY DEF Bound
<1> QED
  BY <1>1 DEF Waiting, Held

\* An operation that is no deque opens what it allocates or enques, and closes
\* what it releases.
LEMMA OtherStep ==
  ASSUME NEW o, NEW b, NEW d, NEW p, NEW h, Grown(o, p), Matched(o, d), Bound(o, b, d),
         h = Len(o) + 1, p[h].kind # "deque"
  PROVE  LET a == Defs(o, d)[p[h].tensor] IN
         /\ Matched(p, d)
         /\ a \in -1 .. Len(o) /\ (a > 0 => o[a].kind = "alloc")
         /\ \A q \in Queues :
              Waiting(p, d, q) \cup Held(p, d, q) =
                {i \in b[q] : ~(p[h].kind = "free" /\ i = a /\ p[h].queue = q)}
                \cup {i \in {h} : p[h].kind \in {"alloc", "enque"} /\ p[h].queue = q}
         /\ WarnedBy(p, d) =
              WarnedBy(o, d)
              \cup ({"unallocated"} \X {i \in {h} : p[h].kind = "free" /\ a <= 0})
              \cup ({"freed"} \X {i \in {h} : p[h].kind = "free" /\ a > 0 /\ a \notin Held(o, d, p[h].queue)})
<1> DEFINE a == Defs(o, d)[p[h].tensor]
<1>1. /\ Matched(p, d)
      /\ \A q : Waiting(p, d, q) = Waiting(o, d, q) \cup {i \in {h} : p[h].kind = "enque" /\ p[h].queue = q}
  BY OtherGrows
<1>2. Continues(o, d, p, d)
  BY <1>1 DEF Continues
<1>3. /\ Len(o) \in Nat /\ \A i \in 1 .. Len(o) : p[i] = o[i]
      /\ p[h].tensor \in 0 .. Len(o)
      /\ \A t \in 0 .. Len(o) : Defs(p, d)[t] = Defs(o, d)[t]
  BY <1>2, ContinuesFacts
<1>4. a \in -1 .. Len(o) /\ (a > 0 => o[a].kind = "alloc")
  BY <1>3, Sources
<1>5. \A q \in Queues :
        Waiting(p, d, q) \cup Held(p, d, q) =
          {i \in b[q] : ~(p[h].kind = "free" /\ i = a /\ p[h].queue = q)}
          \cup {i \in {h} : p[h].kind \in {"alloc", "enque"} /\ p[h].queue = q}
  <2> TAKE q \in Queues
  <2>1. Held(p, d, q) = {i \in Held(o, d, q) : ~GivesBack(p, d, h, i)} \cup {i \in {h} : p[h].kind = "alloc" /\ p[h].queue = q}
    BY <1>2, HeldGrows
  <2>2. \A i \in b[q] : i \in 1 .. Len(o) /\ o[i].queue = q
    BY BoundKinds
  <2>3. \A i \in b[q] : GivesBack(p, d, h, i) <=> p[h].kind = "free" /\ i = a /\ p[h].queue = q
    BY <1>3, <2>2 DEF GivesBack
  <2>4. b[q] = Waiting(o, d, q) \cup Held(o, d, q)
    BY DEF Bound
  <2>5. \A i \in Waiting(o, d, q) : i # a
    BY <1>4 DEF Waiting
  <2> HIDE DEF a
  <2> QED
    BY <1>1, <2>1, <2>3, <2>4, <2>5
<1>6. /\ Alone(p, d) = Alone(o, d)
      /\ Unallocated(p, d) = Unallocated(o, d) \cup {i \in {h} : p[h].kind = "free" /\ a <= 0}
      /\ FreedBefore(p, d) = FreedBefore(o, d) \cup {i \in {h} : p[h].kind = "free" /\ a > 0 /\ a \notin Held(o, d, p[h].queue)}
  <2>1. /\ Alone(p, d) = Alone(o, d) \cup {i \in {h} : p[h].kind = "deque" /\ h \notin DOMAIN d}
        /\ Unallocated(p, d) = Unallocated(o, d) \cup {i \in {h} : p[h].kind = "free" /\ a <= 0}
        /\ FreedBefore(p, d) = FreedBefore(o, d) \cup {i \in {h} : p[h].kind = "free" /\ a > 0 /\ a \notin Held(o, d, p[h].queue)}
    BY <1>2, WarnedGrows
  <2> HIDE DEF a
  <2>2. {i \in {h} : p[h].kind = "deque" /\ h \notin DOMAIN d} = {}
    OBVIOUS
  <2> QED
    BY <2>1, <2>2
<1>7. UsedBetween(p, d) = UsedBetween(o, d)
  <2>1. h \notin DOMAIN d
    BY <1>3, PairedFacts DEF Matched
  <2> DEFINE N == {u \in 1 .. Len(o) : /\ h \in DOMAIN d /\ d[h] < u /\ o[u].kind \in {"use", "enque", "free"}
                                       /\ o[d[h]].tensor = o[u].tensor}
  <2>2. UsedBetween(p, d) = UsedBetween(o, d) \cup N
    BY <1>2, UsesGrow
  <2>3. N = {}
    BY <2>1
  <2> HIDE DEF N
  <2> QED
    BY <2>2, <2>3
<1> HIDE DEF a
<1>8. WarnedBy(p, d) =
        WarnedBy(o, d)
        \cup ({"unallocated"} \X {i \in {h} : p[h].kind = "free" /\ a <= 0})
        \cup ({"freed"} \X {i \in {h} : p[h].kind = "free" /\ a > 0 /\ a \notin Held(o, d, p[h].queue)})
  BY <1>6, <1>7 DEF WarnedBy
<1> QED
  BY <1>1, <1>4, <1>5, <1>8 DEF a

\* What only uses, allocates or enques is never warned of.
LEMMA OpensStep ==
  ASSUME NEW o, NEW b, NEW d, NEW p, NEW h, Grown(o, p), Matched(o, d), Bound(o, b, d),
         h = Len(o) + 1, p[h].kind \in {"use", "alloc", "enque"}
  PROVE  /\ Matched(p, d)
         /\ \A q \in Queues :
              Waiting(p, d, q) \cup Held(p, d, q) = b[q] \cup {i \in {h} : p[h].kind \in {"alloc", "enque"} /\ p[h].queue = q}
         /\ WarnedBy(p, d) = WarnedBy(o, d)
<1> DEFINE a == Defs(o, d)[p[h].tensor]
           U == {i \in {h} : p[h].kind = "free" /\ a <= 0}
           F == {i \in {h} : p[h].kind = "free" /\ a > 0 /\ a \notin Held(o, d, p[h].queue)}
<1>1. p[h].kind # "deque" /\ p[h].kind # "free"
  OBVIOUS
<1>2. /\ Matched(p, d)
      /\ \A q \in Queues :
           Waiting(p, d, q) \cup Held(p, d, q) =
             {i \in b[q] : ~(p[h].kind = "free" /\ i = a /\ p[h].queue = q)}
             \cup {i \in {h} : p[h].kind \in {"alloc", "enque"} /\ p[h].queue = q}
      /\ WarnedBy(p, d) = WarnedBy(o, d) \cup ({"unallocated"} \X U) \cup ({"freed"} \X F)
  BY <1>1, OtherStep
<1>3. U = {} /\ F = {}
  BY <1>1
<1> HIDE DEF U, F, a
<1>4. WarnedBy(p, d) = WarnedBy(o, d)
  BY <1>2, <1>3
<1>5. ASSUME NEW q \in Queues
      PROVE  {i \in b[q] : ~(p[h].kind = "free" /\ i = a /\ p[h].queue = q)} = b[q]
  BY <1>1
<1> QED
  BY <1>2, <1>4, <1>5

\* What any step of the walk appends.
LEMMA Appended ==
  ASSUME IInv, NEW kind \in {"use", "alloc", "enque", "deque", "free"}, NEW q, NEW t,
         q \in Queues \/ (kind = "use" /\ q = CHOOSE x \in Queues : TRUE),
         t \in Handles, Walk(kind, q, t)
  PROVE  /\ Matched(ops, deqToEnq) /\ Bound(ops, queBinds, deqToEnq) /\ warnings = WarnedBy(ops, deqToEnq)
         /\ Len(ops) \in Nat /\ Here = Len(ops) + 1 /\ Len(ops') = Here
         /\ Grown(ops, ops')
         /\ ops'[Here].kind = kind /\ ops'[Here].queue = q /\ ops'[Here].tensor = t
         /\ t \in 0 .. Len(ops)
<1> DEFINE x == [kind |-> kind, queue |-> q, tensor |-> t]
<1>1. /\ Matched(ops, deqToEnq) /\ Bound(ops, queBinds, deqToEnq) /\ warnings = WarnedBy(ops, deqToEnq)
      /\ ops' = Append(ops, x)
  BY DEF IInv, Walked, Walk
<1>2. Kernel(ops) /\ Len(ops) \in Nat /\ Here = Len(ops) + 1
  BY <1>1, KernelFacts DEF Matched, Here
<1>3. DOMAIN ops = 1 .. Len(ops)
  BY <1>2 DEF Kernel
<1>4. t \in 0 .. Len(ops)
  BY <1>2, <1>3 DEF Handles
<1>5. x \in Operations
  BY <1>4 DEF Operations
<1>6. x.kind = kind /\ x.queue = q /\ x.tensor = t
  OBVIOUS
<1> HIDE DEF x
<1>7. Grown(ops, Append(ops, x)) /\ Append(ops, x)[Len(ops) + 1] = x
  BY <1>2, <1>4, <1>5, <1>6, Append1
<1> QED
  BY <1>1, <1>2, <1>4, <1>6, <1>7 DEF Grown

\* The steps of the walk, one by one.
LEMMA UseStep == ASSUME IInv, Use PROVE IInv'
<1>1. PICK t \in Handles : Walk("use", CHOOSE q \in Queues : TRUE, t)
  BY DEF Use
<1> DEFINE o == ops
           p == ops'
           b == queBinds
           d == deqToEnq
           h == Here
<1>2. /\ Matched(o, d) /\ Bound(o, b, d) /\ warnings = WarnedBy(o, d) /\ Len(o) \in Nat /\ h = Len(o) + 1
      /\ Len(p) = h /\ Grown(o, p) /\ p[h].kind = "use" /\ walk = "on"
  BY <1>1, Appended DEF Walk
<1>3. queBinds' = b /\ deqToEnq' = d /\ warnings' = warnings /\ walk' = walk
  BY DEF Use
<1> HIDE DEF o, p, b, d, h
<1>4. /\ Matched(p, d)
      /\ \A q \in Queues : Waiting(p, d, q) \cup Held(p, d, q) = b[q] \cup {i \in {h} : p[h].kind \in {"alloc", "enque"} /\ p[h].queue = q}
      /\ WarnedBy(p, d) = WarnedBy(o, d)
  BY <1>2, OpensStep
<1>5. Bound(p, b, d)
  BY <1>2, <1>4 DEF Bound
<1> QED
  BY <1>2, <1>3, <1>4, <1>5 DEF IInv, Walked, p

LEMMA AllocStep == ASSUME IInv, Alloc PROVE IInv'
<1>1. PICK x \in Queues : Walk("alloc", x, 0) /\ queBinds' = [queBinds EXCEPT ![x] = @ \cup {Here}]
  BY DEF Alloc
<1> DEFINE o == ops
           p == ops'
           b == queBinds
           c == queBinds'
           d == deqToEnq
           h == Here
<1>2. /\ Matched(o, d) /\ Bound(o, b, d) /\ warnings = WarnedBy(o, d) /\ Len(o) \in Nat /\ h = Len(o) + 1
      /\ Len(p) = h /\ Grown(o, p) /\ p[h].kind = "alloc" /\ p[h].queue = x /\ walk = "on"
  BY <1>1, Appended DEF Walk, Handles
<1>3. c = [b EXCEPT ![x] = @ \cup {h}] /\ deqToEnq' = d /\ warnings' = warnings /\ walk' = walk
  BY <1>1 DEF Alloc
<1> HIDE DEF o, p, b, c, d, h
<1>4. /\ Matched(p, d)
      /\ \A q \in Queues : Waiting(p, d, q) \cup Held(p, d, q) = b[q] \cup {i \in {h} : p[h].kind \in {"alloc", "enque"} /\ p[h].queue = q}
      /\ WarnedBy(p, d) = WarnedBy(o, d)
  BY <1>2, OpensStep
<1>5. Bound(p, c, d)
  BY <1>2, <1>3, <1>4 DEF Bound
<1> QED
  BY <1>2, <1>3, <1>4, <1>5 DEF IInv, Walked, p, c

LEMMA EnqueStep == ASSUME IInv, Enque PROVE IInv'
<1>1. PICK x \in Queues, t \in Handles : Walk("enque", x, t) /\ queBinds' = [queBinds EXCEPT ![x] = @ \cup {Here}]
  BY DEF Enque
<1> DEFINE o == ops
           p == ops'
           b == queBinds
           c == queBinds'
           d == deqToEnq
           h == Here
<1>2. /\ Matched(o, d) /\ Bound(o, b, d) /\ warnings = WarnedBy(o, d) /\ Len(o) \in Nat /\ h = Len(o) + 1
      /\ Len(p) = h /\ Grown(o, p) /\ p[h].kind = "enque" /\ p[h].queue = x /\ walk = "on"
  BY <1>1, Appended DEF Walk
<1>3. c = [b EXCEPT ![x] = @ \cup {h}] /\ deqToEnq' = d /\ warnings' = warnings /\ walk' = walk
  BY <1>1 DEF Enque
<1> HIDE DEF o, p, b, c, d, h
<1>4. /\ Matched(p, d)
      /\ \A q \in Queues : Waiting(p, d, q) \cup Held(p, d, q) = b[q] \cup {i \in {h} : p[h].kind \in {"alloc", "enque"} /\ p[h].queue = q}
      /\ WarnedBy(p, d) = WarnedBy(o, d)
  BY <1>2, OpensStep
<1>5. Bound(p, c, d)
  BY <1>2, <1>3, <1>4 DEF Bound
<1> QED
  BY <1>2, <1>3, <1>4, <1>5 DEF IInv, Walked, p, c

LEMMA FreeStep == ASSUME IInv, Free PROVE IInv'
<1>1. PICK x \in Queues, t \in Handles :
        LET def == FindDef(t) IN
        /\ Walk("free", x, t)
        /\ \/ /\ def = -1 \/ (def > 0 /\ NullCast(x, def))
              /\ walk' = "crashed"
              /\ UNCHANGED <<queBinds, warnings>>
           \/ /\ IF def <= 0 THEN Warn("unallocated", {Here}) /\ UNCHANGED queBinds
                 ELSE IF def \in Open(x) THEN queBinds' = [queBinds EXCEPT ![x] = @ \ {def}] /\ UNCHANGED warnings
                 ELSE Warn("freed", {Here}) /\ UNCHANGED queBinds
              /\ UNCHANGED walk
  BY DEF Free
<1> DEFINE o == ops
           p == ops'
           b == queBinds
           c == queBinds'
           d == deqToEnq
           h == Here
           a == Defs(ops, deqToEnq)[t]
           w == warnings
           v == warnings'
<1>2. /\ Matched(o, d) /\ Bound(o, b, d) /\ w = WarnedBy(o, d) /\ Len(o) \in Nat /\ h = Len(o) + 1
      /\ Len(p) = h /\ Grown(o, p) /\ p[h].kind = "free" /\ p[h].queue = x /\ p[h].tensor = t /\ walk = "on"
  BY <1>1, Appended DEF Walk
<1>3. deqToEnq' = d
  BY DEF Free
<1>4. FindDef(t) = a
  BY FindDefIs
<1>5. CASE walk' = "crashed"
  BY <1>5 DEF IInv, Walked
<1>6. CASE walk' # "crashed"
  <2>1. /\ walk' = walk
        /\ \/ a <= 0 /\ v = w \cup ({"unallocated"} \X {h}) /\ c = b
           \/ ~(a <= 0) /\ a \in b[x] /\ c = [b EXCEPT ![x] = @ \ {a}] /\ v = w
           \/ ~(a <= 0) /\ a \notin b[x] /\ v = w \cup ({"freed"} \X {h}) /\ c = b
    BY <1>1, <1>4, <1>6 DEF Warn, Open
  <2>2. a = Defs(o, d)[p[h].tensor]
    BY <1>2
  <2> HIDE DEF o, p, b, c, d, h, a, w, v
  <2>3. /\ Matched(p, d)
        /\ a \in -1 .. Len(o) /\ (a > 0 => o[a].kind = "alloc")
        /\ \A q \in Queues : Waiting(p, d, q) \cup Held(p, d, q) = {i \in b[q] : ~(i = a /\ x = q)}
        /\ WarnedBy(p, d) = WarnedBy(o, d) \cup ({"unallocated"} \X {i \in {h} : a <= 0})
                            \cup ({"freed"} \X {i \in {h} : a > 0 /\ a \notin Held(o, d, x)})
    BY <1>2, <2>2, OtherStep
  <2>4. b \in [Queues -> SUBSET (1 .. Len(o))]
    BY <1>2 DEF Bound
  <2>5. a > 0 => (a \in Held(o, d, x) <=> a \in b[x])
    BY <1>2, <2>3, BoundKinds
  <2>6. c \in [Queues -> SUBSET (1 .. Len(p))] /\ \A q \in Queues : c[q] = {i \in b[q] : ~(i = a /\ x = q)}
    <3>1. CASE a <= 0
      BY <1>2, <2>1, <2>4, <3>1
    <3>2. CASE a > 0 /\ a \in b[x]
      BY <1>2, <2>1, <2>4, <3>2
    <3>3. CASE a > 0 /\ a \notin b[x]
      BY <1>2, <2>1, <2>4, <3>3
    <3> QED
      BY <2>3, <3>1, <3>2, <3>3
  <2>7. v = WarnedBy(p, d)
    <3>1. CASE a <= 0
      <4>1. ~(a > 0)
        BY <2>3, <3>1
      <4> QED
        BY <1>2, <2>1, <2>3, <3>1, <4>1
    <3>2. CASE a > 0
      <4>1. ~(a <= 0)
        BY <2>3, <3>2
      <4> QED
        BY <1>2, <2>1, <2>3, <2>5, <3>2, <4>1
    <3> QED
      BY <2>3, <3>1, <3>2
  <2>8. Bound(p, c, d)
    BY <2>3, <2>6 DEF Bound
  <2> QED
    BY <1>2, <1>3, <2>1, <2>3, <2>7, <2>8 DEF IInv, Walked, p, c, v
<1> QED
  BY <1>5, <1>6

LEMMA DequeStep == ASSUME IInv, Deque PROVE IInv'
<1>1. PICK x \in Queues :
        /\ Walk("deque", x, 0)
        /\ IF OpenEnques(x) # {}
           THEN LET e == FirstEnque(x)
                    users == {i \in e + 1 .. Len(ops) : Kind(i) \in {"use", "enque", "free"} /\ ops[i].tensor = ops[e].tensor}
                IN /\ queBinds' = [queBinds EXCEPT ![x] = @ \ {e}]
                   /\ deqToEnq' = [i \in DOMAIN deqToEnq \cup {Here} |-> IF i = Here THEN e ELSE deqToEnq[i]]
                   /\ Warn("between", users)
           ELSE Warn("deque", {Here}) /\ UNCHANGED <<queBinds, deqToEnq>>
        /\ UNCHANGED walk
  BY DEF Deque
<1> DEFINE o == ops
           p == ops'
           b == queBinds
           c == queBinds'
           d == deqToEnq
           e == deqToEnq'
           h == Here
           w == warnings
           v == warnings'
           first == Min(Waiting(o, d, x))
           users == {i \in 1 .. Len(o) : first < i /\ o[i].kind \in {"use", "enque", "free"} /\ o[i].tensor = o[first].tensor}
<1>2. /\ Matched(o, d) /\ Bound(o, b, d) /\ w = WarnedBy(o, d) /\ Len(o) \in Nat /\ h = Len(o) + 1
      /\ Len(p) = h /\ Grown(o, p) /\ p[h].kind = "deque" /\ p[h].queue = x /\ walk = "on" /\ walk' = walk
  BY <1>1, Appended DEF Walk, Handles
<1>3. OpenEnques(x) = Waiting(o, d, x)
  BY <1>2, BoundKinds DEF OpenEnques, Open, Kind
<1>4. /\ \A i \in 1 .. Len(o) : p[i] = o[i]
      /\ p[h].kind # "alloc" /\ p[h].kind # "free"
  BY <1>2 DEF Grown
<1>5. DOMAIN d \subseteq 1 .. Len(o)
  BY <1>2, PairedFacts DEF Matched
<1>6. CASE Waiting(o, d, x) = {}
  <2>1. v = w \cup ({"deque"} \X {h}) /\ c = b /\ e = d
    BY <1>1, <1>3, <1>6 DEF Warn
  <2> HIDE DEF o, p, b, c, d, e, h, w, v
  <2>2. Matched(p, d) /\ \A q : Waiting(p, d, q) = Waiting(o, d, q)
    BY <1>2, <1>6, EmptyGrows
  <2>3. Continues(o, d, p, d)
    BY <1>2, <2>2 DEF Continues
  <2>4. \A q : Held(p, d, q) = Held(o, d, q)
    <3> TAKE q
    <3>1. Held(p, d, q) = {a \in Held(o, d, q) : ~GivesBack(p, d, h, a)} \cup {i \in {h} : p[h].kind = "alloc" /\ p[h].queue = q}
      BY <1>2, <2>3, HeldGrows
    <3>2. \A a : ~GivesBack(p, d, h, a)
      BY <1>4 DEF GivesBack
    <3> QED
      BY <1>4, <3>1, <3>2
  <2>5. h \notin DOMAIN d
    BY <1>2, <1>5
  <2>6. Alone(p, d) = Alone(o, d) \cup {h} /\ Unallocated(p, d) = Unallocated(o, d) /\ FreedBefore(p, d) = FreedBefore(o, d)
    <3>1. Alone(p, d) = Alone(o, d) \cup {i \in {h} : p[h].kind = "deque" /\ h \notin DOMAIN d}
      BY <1>2, <2>3, WarnedGrows
    <3>2. Unallocated(p, d) = Unallocated(o, d) \cup {i \in {h} : p[h].kind = "free" /\ Defs(o, d)[p[h].tensor] <= 0}
      BY <1>2, <2>3, WarnedGrows
    <3>3. FreedBefore(p, d) = FreedBefore(o, d) \cup
            {i \in {h} : LET a == Defs(o, d)[p[h].tensor] IN p[h].kind = "free" /\ a > 0 /\ a \notin Held(o, d, p[h].queue)}
      BY <1>2, <2>3, WarnedGrows
    <3> QED
      BY <1>4, <1>2, <2>5, <3>1, <3>2, <3>3
  <2>7. UsedBetween(p, d) = UsedBetween(o, d)
    <3> DEFINE N == {u \in 1 .. Len(o) : /\ h \in DOMAIN d /\ d[h] < u /\ o[u].kind \in {"use", "enque", "free"}
                                         /\ o[d[h]].tensor = o[u].tensor}
    <3>1. UsedBetween(p, d) = UsedBetween(o, d) \cup N
      BY <1>2, <2>3, UsesGrow
    <3>2. N = {}
      BY <2>5
    <3> HIDE DEF N
    <3> QED
      BY <3>1, <3>2
  <2>8. v = WarnedBy(p, d)
    BY <1>2, <2>1, <2>6, <2>7 DEF WarnedBy
  <2>9. Bound(p, b, d)
    BY <1>2, <2>2, <2>4 DEF Bound
  <2> QED
    BY <1>2, <2>1, <2>2, <2>8, <2>9 DEF IInv, Walked, p, c, e, v
<1>7. CASE Waiting(o, d, x) # {}
  <2>1. /\ c = [b EXCEPT ![x] = @ \ {first}]
        /\ e = [i \in DOMAIN d \cup {h} |-> IF i = h THEN first ELSE d[i]]
        /\ v = w \cup ({"between"} \X {i \in first + 1 .. Len(ops) : Kind(i) \in {"use", "enque", "free"} /\ ops[i].tensor = ops[first].tensor})
    BY <1>1, <1>3, <1>7 DEF Warn, FirstEnque
  <2>2. Waiting(o, d, x) \in SUBSET Nat
    BY <1>2 DEF Waiting
  <2>3. first \in Waiting(o, d, x) /\ \A i \in Waiting(o, d, x) : first <= i
    BY <1>7, <2>2, LeastIsMin
  <2>4. first \in 1 .. Len(o) /\ o[first].queue = x
    BY <2>3 DEF Waiting
  <2>5. h \notin DOMAIN d
    BY <1>2, <1>5
  <2>6. DOMAIN e = DOMAIN d \cup {h} /\ e[h] = first /\ \A i \in DOMAIN d : e[i] = d[i]
    BY <2>1, <2>5
  <2>7. {i \in first + 1 .. Len(ops) : Kind(i) \in {"use", "enque", "free"} /\ ops[i].tensor = ops[first].tensor} = users
    BY <1>2, <2>4 DEF Kind
  <2> HIDE DEF o, p, b, c, d, e, h, w, v, first
  <2>8. Matched(p, e) /\ \A q : Waiting(p, e, q) = Waiting(o, d, q) \ {first}
    <3>1. first \in Waiting(o, d, p[h].queue) /\ \A i \in Waiting(o, d, p[h].queue) : first <= i
      BY <1>2, <2>3
    <3>2. Finds(o, p, d, e, h, first)
      BY <1>2, <2>6, <3>1 DEF Finds
    <3> QED
      BY <3>2, FoundGrows
  <2>9. Continues(o, d, p, e)
    BY <1>2, <2>6, <2>8 DEF Continues
  <2>10. \A q : Held(p, e, q) = Held(o, d, q)
    <3> TAKE q
    <3>1. Held(p, e, q) = {a \in Held(o, d, q) : ~GivesBack(p, e, h, a)} \cup {i \in {h} : p[h].kind = "alloc" /\ p[h].queue = q}
      BY <1>2, <2>9, HeldGrows
    <3>2. \A a : ~GivesBack(p, e, h, a)
      BY <1>4 DEF GivesBack
    <3> QED
      BY <1>4, <3>1, <3>2
  <2>11. Alone(p, e) = Alone(o, d) /\ Unallocated(p, e) = Unallocated(o, d) /\ FreedBefore(p, e) = FreedBefore(o, d)
    <3>1. Alone(p, e) = Alone(o, d) \cup {i \in {h} : p[h].kind = "deque" /\ h \notin DOMAIN e}
      BY <1>2, <2>9, WarnedGrows
    <3>2. Unallocated(p, e) = Unallocated(o, d) \cup {i \in {h} : p[h].kind = "free" /\ Defs(o, d)[p[h].tensor] <= 0}
      BY <1>2, <2>9, WarnedGrows
    <3>3. FreedBefore(p, e) = FreedBefore(o, d) \cup
            {i \in {h} : LET a == Defs(o, d)[p[h].tensor] IN p[h].kind = "free" /\ a > 0 /\ a \notin Held(o, d, p[h].queue)}
      BY <1>2, <2>9, WarnedGrows
    <3> QED
      BY <1>4, <1>2, <2>6, <3>1, <3>2, <3>3
  <2>12. UsedBetween(p, e) = UsedBetween(o, d) \cup users
    <3>1. UsedBetween(p, e) = UsedBetween(o, d) \cup
            {u \in 1 .. Len(o) : /\ h \in DOMAIN e /\ e[h] < u /\ o[u].kind \in {"use", "enque", "free"}
                                 /\ o[e[h]].tensor = o[u].tensor}
      BY <1>2, <2>9, UsesGrow
    <3> QED
      BY <2>6, <3>1
  <2>13. v = WarnedBy(p, e)
    <3> HIDE DEF users
    <3> QED
      BY <1>2, <2>1, <2>7, <2>11, <2>12 DEF WarnedBy
  <2>14. Bound(p, c, e)
    <3>1. c \in [Queues -> SUBSET (1 .. Len(p))]
      BY <1>2, <2>1 DEF Bound
    <3>2. ASSUME NEW q \in Queues PROVE c[q] = Waiting(p, e, q) \cup Held(p, e, q)
      <4>1. b[q] = Waiting(o, d, q) \cup Held(o, d, q) /\ b \in [Queues -> SUBSET (1 .. Len(o))]
        BY <1>2 DEF Bound
      <4>2. Waiting(p, e, q) = Waiting(o, d, q) \ {first} /\ Held(p, e, q) = Held(o, d, q)
        BY <2>8, <2>10
      <4>3. \A i \in Held(o, d, q) : i # first
        BY <2>3 DEF Held, Waiting
      <4>4. CASE q = x
        BY <2>1, <4>1, <4>2, <4>3, <4>4
      <4>5. CASE q # x
        <5>1. first \notin Waiting(o, d, q)
          BY <2>4, <4>5 DEF Waiting
        <5> QED
          BY <2>1, <4>1, <4>2, <4>5, <5>1
      <4> QED
        BY <4>4, <4>5
    <3> QED
      BY <3>1, <3>2 DEF Bound
  <2> QED
    BY <1>2, <2>8, <2>13, <2>14 DEF IInv, Walked, p, c, e, v
<1> QED
  BY <1>6, <1>7

\* What is open at the end has no partner.
LEMMA FinishStep == ASSUME IInv, Finish PROVE IInv'
<1> DEFINE E == {e \in 1 .. Len(ops) : ops[e].kind = "enque" /\ e \notin Taken(deqToEnq)}
           A == {a \in 1 .. Len(ops) : ops[a].kind = "alloc" /\ \A k \in 1 .. Len(ops) : ~GivesBack(ops, deqToEnq, k, a)}
<1>1. /\ Matched(ops, deqToEnq) /\ Bound(ops, queBinds, deqToEnq) /\ warnings = WarnedBy(ops, deqToEnq)
      /\ walk' = "done" /\ ops' = ops /\ queBinds' = queBinds /\ deqToEnq' = deqToEnq
      /\ warnings' = warnings \cup ({"alloc"} \X Left("alloc")) \cup ({"enque"} \X Left("enque"))
  BY DEF IInv, Walked, Finish
<1>2. DOMAIN ops = 1 .. Len(ops) /\ Kernel(ops)
  BY <1>1 DEF Matched, Kernel
<1>3. ASSUME NEW i \in 1 .. Len(ops)
      PROVE  /\ i \in Left("enque") <=> i \in E
             /\ i \in Left("alloc") <=> i \in A
  <2>1. CASE ops[i].kind = "use"
    BY <2>1 DEF Left, Kind
  <2>2. CASE ops[i].kind # "use"
    <3>1. ops[i].queue \in Queues
      BY <1>2, <2>2, KernelFacts
    <3>2. queBinds[ops[i].queue] = Waiting(ops, deqToEnq, ops[i].queue) \cup Held(ops, deqToEnq, ops[i].queue)
      BY <1>1, <3>1 DEF Bound
    <3> QED
      BY <1>2, <3>2 DEF Left, Kind, Open, Waiting, Held
  <2> QED
    BY <2>1, <2>2
<1>4. Left("enque") = E /\ Left("alloc") = A
  <2>1. Left("enque") \subseteq 1 .. Len(ops) /\ Left("alloc") \subseteq 1 .. Len(ops)
    BY <1>2 DEF Left
  <2>2. E \subseteq 1 .. Len(ops) /\ A \subseteq 1 .. Len(ops)
    OBVIOUS
  <2> HIDE DEF E, A
  <2> QED
    BY <1>3, <2>1, <2>2
<1>5. warnings' = DeservedBy(ops, deqToEnq)
  <2>1. DeservedBy(ops, deqToEnq) = WarnedBy(ops, deqToEnq) \cup ({"alloc"} \X A) \cup ({"enque"} \X E)
    <3>1. DeservedBy(ops, deqToEnq) =
                 ({"deque"} \X Alone(ops, deqToEnq)) \cup ({"enque"} \X E) \cup ({"alloc"} \X A)
            \cup ({"unallocated"} \X Unallocated(ops, deqToEnq)) \cup ({"freed"} \X FreedBefore(ops, deqToEnq))
            \cup ({"between"} \X UsedBetween(ops, deqToEnq))
      BY DEF DeservedBy
    <3> HIDE DEF E, A
    <3> QED
      BY <3>1 DEF WarnedBy
  <2> HIDE DEF E, A
  <2> QED
    BY <1>1, <1>4, <2>1
<1> QED
  BY <1>1, <1>5 DEF IInv, Walked

LEMMA InitStep == ASSUME VerifyInit PROVE IInv
<1>1. ops = <<>> /\ deqToEnq = <<>> /\ warnings = {} /\ walk = "on" /\ queBinds = [q \in Queues |-> {}]
  BY DEF VerifyInit
<1> DEFINE e == <<>>
<1>2. e \in Seq(Operations) /\ Len(e) = 0 /\ DOMAIN e = {} /\ 1 .. Len(e) = {}
  OBVIOUS
<1> HIDE DEF e
<1>3. Kernel(e)
  BY <1>2 DEF Kernel
<1>4. Paired(e, e)
  BY <1>2 DEF Paired
<1>5. \A q : Waiting(e, e, q) = {} /\ Held(e, e, q) = {}
  BY <1>2 DEF Waiting, Held
<1>6. Counted(e, e)
  <2> SUFFICES ASSUME NEW q \in Queues PROVE Inside(e, q)[Len(e) + 1] = Cardinality(Waiting(e, e, q))
    BY DEF Counted
  <2>1. InsideTo(e, q, 0, Inside(e, q))
    BY <1>2, Insides
  <2>2. Inside(e, q)[1] = 0
    BY <2>1, InsideAt
  <2> QED
    BY <1>2, <1>5, <2>2, FS_EmptySet
<1>7. Matched(e, e)
  BY <1>3, <1>4, <1>5, <1>6 DEF Matched, InOrder
<1>8. Bound(e, queBinds, e)
  BY <1>1, <1>2, <1>5 DEF Bound
<1>9. WarnedBy(e, e) = {}
  BY <1>2 DEF WarnedBy, Alone, Unallocated, FreedBefore, UsedBetween
<1> QED
  BY <1>1, <1>7, <1>8, <1>9 DEF IInv, Walked, e

-----------------------------------------------------------------------------

LEMMA InitInv == PipelineInit => IInv
BY InitStep DEF PipelineInit

\* The passes leave the walk alone; the author and the walk take its steps.
LEMMA NextPreserves == IInv /\ [PipelineNext]_<<vars, verifyVars>> => IInv'
<1> SUFFICES ASSUME IInv, [PipelineNext]_<<vars, verifyVars>>
             PROVE  IInv'
  OBVIOUS
<1>1. CASE UNCHANGED verifyVars
  BY <1>1 DEF IInv, verifyVars
<1>2. CASE VerifyNext
  BY <1>2, UseStep, AllocStep, EnqueStep, DequeStep, FreeStep, FinishStep DEF VerifyNext
<1>3. VerifyNext \/ UNCHANGED verifyVars
  BY DEF PipelineNext, Author, VerifyWalk, VerifyNext
<1> QED
  BY <1>1, <1>2, <1>3

LEMMA Invariance == PipelineSpec => []IInv
<1> QED
  BY InitInv, NextPreserves, PTL DEF PipelineSpec

\* VerifySync warns of what has no partner, and of nothing else: at the end of
\* the walk its warnings are those of the definition, for any number of queues,
\* any kernel and whatever the passes before it made of the kernel.
THEOREM WarningsCorrect == PipelineSpec => []WarningsAreRight
<1>1. IInv => WarningsAreRight
  BY DeservedIs DEF IInv, Walked, WarningsAreRight
<1> QED
  BY <1>1, Invariance, PTL

\* Alive is every state of the walk in which no null operation was dereferenced.
Alive == walk # "crashed"

LEMMA AliveTyped == IInv /\ Alive => VerifyTypeOK
<1> SUFFICES ASSUME IInv, Alive
             PROVE  VerifyTypeOK
  OBVIOUS
<1>1. /\ Matched(ops, deqToEnq) /\ Bound(ops, queBinds, deqToEnq)
      /\ walk \in {"on", "done"}
      /\ warnings = WarnedBy(ops, deqToEnq) \/ warnings = DeservedBy(ops, deqToEnq)
  BY DEF IInv, Walked, Alive
<1>2. DOMAIN ops = 1 .. Len(ops) /\ Len(ops) \in Nat
  BY <1>1, KernelFacts DEF Matched, Kernel
<1>3. \A q \in Queues : \A i \in Open(q) : i \in DOMAIN ops /\ Kind(i) \in {"alloc", "enque"}
  BY <1>1, <1>2, BoundKinds DEF Open, Kind
<1>4. \A d \in DOMAIN deqToEnq : Kind(d) = "deque" /\ Kind(deqToEnq[d]) = "enque" /\ deqToEnq[d] < d
  BY <1>1, <1>2, PairedFacts DEF Matched, Kind
<1>5. warnings \subseteq {"between", "deque", "unallocated", "freed", "alloc", "enque"} \X Places
  BY <1>1 DEF WarnedBy, DeservedBy, Places, Alone, Unallocated, FreedBefore, UsedBetween
<1> QED
  BY <1>1, <1>3, <1>4, <1>5 DEF VerifyTypeOK, Bound

\* A crash leaves everything in place.
LEMMA CrashTyped == IInv /\ Alive /\ VerifyTypeOK /\ VerifyNext /\ ~Alive' => VerifyTypeOK'
<1> SUFFICES ASSUME IInv, Alive, VerifyTypeOK, VerifyNext, ~Alive'
             PROVE  VerifyTypeOK'
  OBVIOUS
<1>1. Free /\ walk' = "crashed"
  BY DEF VerifyNext, Alive, Use, Alloc, Enque, Deque, Finish
<1>2. PICK q \in Queues, t \in Handles : Walk("free", q, t)
  BY <1>1 DEF Free
<1>3. /\ Len(ops) \in Nat /\ Len(ops') = Len(ops) + 1 /\ Kernel(ops) /\ Kernel(ops')
      /\ \A i \in 1 .. Len(ops) : ops'[i] = ops[i]
  <2>1. Grown(ops, ops') /\ Len(ops) \in Nat
    BY <1>2, Appended
  <2> QED
    BY <2>1 DEF Grown
<1>4. DOMAIN ops = 1 .. Len(ops) /\ DOMAIN ops' = 1 .. Len(ops) + 1
  BY <1>3 DEF Kernel
<1>5. queBinds' = queBinds /\ warnings' = warnings /\ deqToEnq' = deqToEnq
  <2>1. UNCHANGED deqToEnq
    BY <1>1 DEF Free
  <2>2. UNCHANGED <<queBinds, warnings>>
    BY <1>1 DEF Free, Alive
  <2> QED
    BY <2>1, <2>2
<1>6. \A i \in DOMAIN ops : i \in DOMAIN ops' /\ Kind(i)' = Kind(i)
  BY <1>3, <1>4 DEF Kind
<1>7. \A d \in DOMAIN deqToEnq : d \in DOMAIN ops /\ deqToEnq[d] \in DOMAIN ops
  BY <1>2, <1>4, Appended, PairedFacts DEF Matched
<1>8. Places \subseteq Places'
  BY <1>3 DEF Places
<1> QED
  BY <1>1, <1>5, <1>6, <1>7, <1>8 DEF VerifyTypeOK, Open

\* The variables of VerifySync have their types.
THEOREM TypeCorrect == PipelineSpec => []VerifyTypeOK
<1>1. PipelineInit => VerifyTypeOK
  BY InitInv, AliveTyped DEF PipelineInit, VerifyInit, Alive
<1>2. IInv /\ IInv' /\ VerifyTypeOK /\ [PipelineNext]_<<vars, verifyVars>> => VerifyTypeOK'
  <2> SUFFICES ASSUME IInv, IInv', VerifyTypeOK, [PipelineNext]_<<vars, verifyVars>>
               PROVE  VerifyTypeOK'
    OBVIOUS
  <2>1. CASE UNCHANGED verifyVars
    BY <2>1 DEF VerifyTypeOK, verifyVars, Open, Kind, Places
  <2>2. CASE VerifyNext
    <3>1. Alive
      BY <2>2 DEF VerifyNext, Use, Alloc, Enque, Deque, Free, Finish, Walk, Alive
    <3>2. CASE Alive'
      <4>1. IInv' /\ Alive' => VerifyTypeOK'
        BY AliveTyped, PTL
      <4> QED
        BY <3>2, <4>1
    <3>3. CASE ~Alive'
      BY <2>2, <3>1, <3>3, CrashTyped
    <3> QED
      BY <3>2, <3>3
  <2>3. VerifyNext \/ UNCHANGED verifyVars
    BY DEF PipelineNext, Author, VerifyWalk, VerifyNext
  <2> QED
    BY <2>1, <2>2, <2>3
<1> QED
  BY <1>1, <1>2, Invariance, PTL DEF PipelineSpec

=============================================================================
