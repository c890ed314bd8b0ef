-------------------------- MODULE DeviceCalls_proofs --------------------------
(***************************************************************************)
(* Proofs about DeviceCalls, for any functions, types and specifications,  *)
(* and any bounds.                                                         *)
(*                                                                         *)
(* One builder and dictionaries that are shared serve visitors that work   *)
(* inside one another.  The inductive invariant says how the visitors hang *)
(* together: where each goes on, which blocks are theirs, and that nothing *)
(* is recorded of a function before its visitor is done.                   *)
(***************************************************************************)
EXTENDS DeviceCalls, SequenceTheorems, TLAPS

Names == Functions \cup {Kernel}
Results == Types \cup {NoValue}

Regions == [block : Nat, saved : Nat, allowed : BOOLEAN]
Visitors ==
  [fn : Names, spec : Specs, dict : Nat, saved : Nat, entry : Nat,
   allowed : BOOLEAN, discard : BOOLEAN, rets : Results, open : Seq(Regions)]
Operations ==
  [op : {"call"}, at : Nat, fn : Names, spec : Specs, rets : Results]
  \cup [op : {"return"}, at : Nat] \cup [op : {"select"}, at : Nat, from : Nat]
Dictionaries == UNION {[D -> Results] : D \in SUBSET Names}

Typing ==
  /\ TypeOK
  /\ visitors \in Seq(Visitors) /\ dicts \in Seq(Dictionaries) /\ ops \in Seq(Operations)
  /\ \A m \in DOMAIN masks : masks[m] \in Nat

\* A visitor's regions are inside one another, and return is allowed in none.
RegionsOf(v) ==
  /\ v.open # <<>> => ~v.allowed /\ ~v.discard
  /\ \A k \in 1 .. Len(v.open) :
       /\ v.open[k].block \in DOMAIN blocks /\ blocks[v.open[k].block].around # 0
       /\ v.open[k].saved = IF k = 1 THEN v.entry ELSE v.open[k - 1].block
       /\ k > 1 => ~v.open[k].allowed

\* A visitor works at a function of the module, from its entry block on.
WorksAt(v) ==
  /\ v.dict \in DOMAIN dicts
  /\ v.entry \in DOMAIN blocks /\ blocks[v.entry].around = 0
  /\ funcs[blocks[v.entry].fn].name = v.fn

\* The visitors but the last wait where they have called the next one.
Nested ==
  \A i \in 1 .. Len(visitors) :
    /\ WorksAt(visitors[i]) /\ RegionsOf(visitors[i])
    /\ i > 1 => visitors[i].saved = Innermost(visitors[i - 1])
    /\ i < Len(visitors) => ~visitors[i].discard

\* Every visitor has a function of its own.
Apart ==
  \A i, j \in 1 .. Len(visitors) :
    visitors[i].fn = visitors[j].fn \/ visitors[i].entry = visitors[j].entry => i = j

InProgress(g) == \E i \in 1 .. Len(visitors) : visitors[i].fn = g

\* What is recorded of a function is so for good: it is in the module, and
\* its visitor is done.
Recorded ==
  /\ \A d \in 1 .. Len(dicts) : \A g \in DOMAIN dicts[d] :
       /\ HasFunction(g) /\ ~InProgress(g)
       /\ \A j \in DOMAIN funcs : funcs[j].name = g => dicts[d][g] = funcs[j].rets
  /\ \A i \in 1 .. Len(ops) : ops[i].op = "call" => HasFunction(ops[i].fn) /\ ~InProgress(ops[i].fn)

\* After a return, a visitor creates nothing more in its function.
Returned ==
  \A i \in 1 .. Len(ops) :
    /\ ops[i].at \in DOMAIN blocks
    /\ ops[i].op = "return" =>
         \A k \in 1 .. Len(visitors) : visitors[k].entry = ops[i].at => visitors[k].discard

IInv ==
  /\ Typing /\ InsertionFollows /\ Nested /\ Apart /\ Recorded /\ Returned
  /\ GeneratedOnce /\ ReturnsLast /\ ResultsAsDeclared

-----------------------------------------------------------------------------
(* Facts about visitors and blocks.                                        *)

\* The visitor at work is the last.
LEMMA AtWork ==
  ASSUME Typing
  PROVE  /\ Len(visitors) \in Nat \ {0} /\ Me = visitors[Len(visitors)] /\ Me \in Visitors
         /\ visitors \in Seq(Visitors)
<1>1. visitors \in Seq(Visitors) /\ visitors # <<>>
  BY DEF Typing, TypeOK
<1> QED BY <1>1 DEF Me, Last

\* Its fields.
LEMMA VisitorFields ==
  ASSUME NEW v \in Visitors
  PROVE  /\ v.fn \in Names /\ v.spec \in Specs /\ v.dict \in Nat /\ v.saved \in Nat /\ v.entry \in Nat
         /\ v.rets \in Results /\ v.open \in Seq(Regions) /\ Len(v.open) \in Nat
BY DEF Visitors

\* The module's parts.
LEMMA Parts ==
  ASSUME Typing
  PROVE  /\ funcs \in Seq([name : Names, spec : Specs, rets : Results])
         /\ DOMAIN funcs = 1 .. Len(funcs) /\ Len(funcs) \in Nat
         /\ blocks \in Seq([fn : 1 .. Len(funcs), around : 0 .. Len(blocks)])
         /\ DOMAIN blocks = 1 .. Len(blocks) /\ Len(blocks) \in Nat
         /\ insertion \in 1 .. Len(blocks) /\ insertion \in Nat
         /\ ops \in Seq(Operations) /\ DOMAIN ops = 1 .. Len(ops) /\ Len(ops) \in Nat
         /\ dicts \in Seq(Dictionaries) /\ DOMAIN dicts = 1 .. Len(dicts) /\ Len(dicts) \in Nat
<1>1. /\ funcs \in Seq([name : Names, spec : Specs, rets : Results])
      /\ blocks \in Seq([fn : DOMAIN funcs, around : 0 .. Len(blocks)])
      /\ insertion \in DOMAIN blocks /\ ops \in Seq(Operations) /\ dicts \in Seq(Dictionaries)
  BY DEF Typing, TypeOK, Names, Results
<1>2. DOMAIN funcs = 1 .. Len(funcs) /\ Len(funcs) \in Nat
  BY <1>1
<1>3. DOMAIN blocks = 1 .. Len(blocks) /\ Len(blocks) \in Nat
  BY <1>1
<1>4. insertion \in 1 .. Len(blocks) /\ insertion \in Nat
  BY <1>1, <1>3
<1> QED BY <1>1, <1>2, <1>3, <1>4

\* An element of a sequence.
LEMMA ElementOf ==
  ASSUME NEW S, NEW q \in Seq(S), NEW i \in DOMAIN q
  PROVE  q[i] \in S
OBVIOUS

\* A sequence over a smaller set is one over a larger set.
LEMMA OverLarger ==
  ASSUME NEW S, NEW T, S \subseteq T, NEW q \in Seq(S)
  PROVE  q \in Seq(T)
<1>1. Len(q) \in Nat /\ q \in [1 .. Len(q) -> S]
  OBVIOUS
<1>2. q \in [1 .. Len(q) -> T]
  BY <1>1
<1> QED BY <1>1, <1>2, SeqDef

\* The parts of a sequence that is not empty.
LEMMA FrontAndLast ==
  ASSUME NEW S, NEW q \in Seq(S), q # <<>>
  PROVE  /\ Len(q) \in Nat \ {0} /\ Last(q) = q[Len(q)] /\ q[Len(q)] \in S
         /\ Front(q) \in Seq(S) /\ Len(Front(q)) = Len(q) - 1 /\ \A i \in 1 .. Len(q) - 1 : Front(q)[i] = q[i]
<1> DEFINE n == Len(q)
<1>1. n \in Nat \ {0} /\ n \in 1 .. n
  OBVIOUS
<1>2. \A i \in 1 .. n - 1 : q[i] \in S
  BY <1>1
<1>3. Last(q) = q[n] /\ q[n] \in S
  BY <1>1 DEF Last
<1>4. Front(q) = SubSeq(q, 1, n - 1)
  BY DEF Front
<1> HIDE DEF n
<1>5. n - 1 \in Int /\ 1 \in Int /\ (n - 1) - 1 + 1 = n - 1 /\ (1 <= n - 1 \/ n - 1 = 0)
  BY <1>1
<1>6. /\ SubSeq(q, 1, n - 1) \in Seq(S)
      /\ Len(SubSeq(q, 1, n - 1)) = IF 1 <= n - 1 THEN n - 1 - 1 + 1 ELSE 0
      /\ \A i \in 1 .. n - 1 - 1 + 1 : SubSeq(q, 1, n - 1)[i] = q[1 + i - 1]
  BY <1>2, <1>5, SubSeqProperties
<1>7. Front(q) \in Seq(S) /\ Len(Front(q)) = n - 1 /\ \A i \in 1 .. n - 1 : Front(q)[i] = q[i]
  BY <1>4, <1>5, <1>6
<1> QED BY <1>1, <1>3, <1>7 DEF n

\* It changes.
LEMMA Changed ==
  ASSUME Typing, NEW v \in Visitors, Change(v)
  PROVE  /\ visitors' \in Seq(Visitors) /\ Len(visitors') = Len(visitors) /\ visitors'[Len(visitors)] = v /\ Me' = v
         /\ \A i \in 1 .. Len(visitors) - 1 : visitors'[i] = visitors[i]
<1> DEFINE n == Len(visitors)
           f == Front(visitors)
<1>1. visitors \in Seq(Visitors) /\ visitors # <<>>
  BY DEF Typing, TypeOK
<1>2. n \in Nat \ {0} /\ f \in Seq(Visitors) /\ Len(f) = n - 1 /\ \A i \in 1 .. n - 1 : f[i] = visitors[i]
  BY <1>1, FrontAndLast
<1>3. <<v>> \in Seq(Visitors) /\ Len(<<v>>) = 1 /\ <<v>>[1] = v
  OBVIOUS
<1>4. visitors' = f \o <<v>>
  BY DEF Change
<1> HIDE DEF n, f
<1>5. /\ f \o <<v>> \in Seq(Visitors) /\ Len(f \o <<v>>) = (n - 1) + 1
      /\ \A i \in 1 .. (n - 1) + 1 : (f \o <<v>>)[i] = IF i <= n - 1 THEN f[i] ELSE <<v>>[i - (n - 1)]
  BY <1>2, <1>3, ConcatProperties
<1>6. (n - 1) + 1 = n /\ n \in 1 .. n /\ ~(n <= n - 1) /\ n - (n - 1) = 1
  BY <1>2
<1>7. visitors' \in Seq(Visitors) /\ Len(visitors') = n /\ visitors'[n] = v
  BY <1>3, <1>4, <1>5, <1>6
<1>8. \A i \in 1 .. n - 1 : visitors'[i] = visitors[i]
  BY <1>2, <1>4, <1>5, <1>6
<1>9. Me' = v
  BY <1>7 DEF Me, Last
<1> QED BY <1>7, <1>8, <1>9 DEF n

\* The module only grows, and what a visitor works at stays.
Grows ==
  /\ \A b \in DOMAIN blocks : b \in DOMAIN blocks' /\ blocks'[b] = blocks[b]
  /\ \A f \in DOMAIN funcs : f \in DOMAIN funcs' /\ funcs'[f].name = funcs[f].name
  /\ DOMAIN dicts \subseteq DOMAIN dicts'

LEMMA Grown ==
  ASSUME Typing, Grows
  PROVE  /\ \A x, y : WorksAt(x) /\ x.dict = y.dict /\ x.entry = y.entry /\ x.fn = y.fn => WorksAt(y)'
         /\ \A x : RegionsOf(x) => RegionsOf(x)'
<1>1. ASSUME NEW b \in DOMAIN blocks PROVE blocks[b].fn \in DOMAIN funcs
  <2>1. blocks \in Seq([fn : DOMAIN funcs, around : 0 .. Len(blocks)])
    BY DEF Typing, TypeOK
  <2>2. blocks[b] \in [fn : DOMAIN funcs, around : 0 .. Len(blocks)]
    BY <2>1, ElementOf
  <2> QED BY <2>2
<1>2. \A x, y : WorksAt(x) /\ x.dict = y.dict /\ x.entry = y.entry /\ x.fn = y.fn => WorksAt(y)'
  BY <1>1 DEF WorksAt, Grows
<1>3. \A x : RegionsOf(x) => RegionsOf(x)'
  BY DEF RegionsOf, Grows
<1> QED BY <1>2, <1>3

\* Where visitors stand there is a block, and nothing was returned in it by
\* those that still go on.
LEMMA Standing ==
  ASSUME IInv, NEW k \in 1 .. Len(visitors)
  PROVE  /\ Innermost(visitors[k]) \in DOMAIN blocks
         /\ ~visitors[k].discard => \A i \in 1 .. Len(ops) : ops[i].op = "return" => ops[i].at # Innermost(visitors[k])
<1> DEFINE v == visitors[k]
<1>1. v \in Visitors /\ WorksAt(v) /\ RegionsOf(v)
  BY DEF IInv, Typing, Nested
<1>2. CASE v.open = <<>>
  BY <1>1, <1>2 DEF Innermost, WorksAt, IInv, Returned
<1>3. CASE v.open # <<>>
  <2>1. Len(v.open) \in 1 .. Len(v.open) /\ Innermost(v) = v.open[Len(v.open)].block
    BY <1>1, <1>3, VisitorFields DEF Innermost, Last
  <2>2. Innermost(v) \in DOMAIN blocks /\ blocks[Innermost(v)].around # 0
    BY <1>1, <2>1 DEF RegionsOf
  <2>3. \A i \in DOMAIN ops : ops[i].op = "return" => blocks[ops[i].at].around = 0
    BY DEF IInv, ReturnsLast
  <2>4. DOMAIN ops = 1 .. Len(ops)
    BY DEF IInv, Typing
  <2> QED BY <2>2, <2>3, <2>4
<1> QED BY <1>2, <1>3

\* An operation is created where nothing was returned.
LEMMA Created ==
  ASSUME IInv, NEW op \in Operations, ops' = Append(ops, op), op.at \in DOMAIN blocks, UNCHANGED blocks,
         \A i \in 1 .. Len(ops) : ops[i].op = "return" => ops[i].at # op.at,
         op.op = "return" => blocks[op.at].around = 0
  PROVE  /\ ops' \in Seq(Operations) /\ Len(ops) \in Nat /\ Len(ops') = Len(ops) + 1 /\ ops'[Len(ops) + 1] = op
         /\ \A i \in 1 .. Len(ops) : ops'[i] = ops[i]
         /\ ReturnsLast'
<1>1. /\ ops' \in Seq(Operations) /\ Len(ops) \in Nat /\ Len(ops') = Len(ops) + 1 /\ ops'[Len(ops) + 1] = op
      /\ \A i \in 1 .. Len(ops) : ops'[i] = ops[i]
      /\ DOMAIN ops' = 1 .. Len(ops) + 1 /\ DOMAIN ops = 1 .. Len(ops)
  BY DEF IInv, Typing
<1>2. ReturnsLast'
  <2> SUFFICES ASSUME NEW i \in 1 .. Len(ops) + 1, ops'[i].op = "return"
               PROVE  /\ blocks[ops'[i].at].around = 0
                      /\ \A j \in 1 .. Len(ops) + 1 : j > i => ops'[j].at # ops'[i].at
    BY <1>1 DEF ReturnsLast
  <2>1. CASE i = Len(ops) + 1
    BY <1>1, <2>1
  <2>2. CASE i \in 1 .. Len(ops)
    <3>1. /\ blocks[ops[i].at].around = 0
          /\ \A j \in 1 .. Len(ops) : j > i => ops[j].at # ops[i].at
      BY <1>1, <2>2 DEF IInv, ReturnsLast
    <3>2. ops'[Len(ops) + 1].at # ops'[i].at
      BY <1>1, <2>2
    <3> QED BY <1>1, <2>2, <3>1, <3>2
  <2> QED BY <1>1, <2>1, <2>2
<1> QED BY <1>1, <1>2

\* The kernel's own visitor begins.
LEMMA InitInv == Init => IInv
<1> SUFFICES ASSUME Init PROVE IInv
  OBVIOUS
<1> DEFINE s == CHOOSE x \in Specs : TRUE
           v == Visitor(Kernel, s, 1, 0, 1)
<1>1. s \in Specs
  BY SpecAssumption
<1> HIDE DEF s
<1>2. /\ v \in Visitors /\ v.fn = Kernel /\ v.dict = 1 /\ v.entry = 1 /\ v.allowed = TRUE /\ v.discard = FALSE /\ v.open = <<>>
  BY <1>1 DEF Visitor, Visitors, Names, Results, Regions
<1>3. /\ visitors = <<v>> /\ funcs = <<[name |-> Kernel, spec |-> s, rets |-> NoValue]>>
      /\ blocks = <<[fn |-> 1, around |-> 0]>> /\ ops = <<>> /\ insertion = 1 /\ dicts = <<<<>>>> /\ masks = <<>>
      /\ status = "running"
  BY DEF Init, s
<1> HIDE DEF v
<1>4. /\ Len(visitors) = 1 /\ visitors[1] = v /\ Me = v /\ visitors \in Seq(Visitors) /\ visitors # <<>>
      /\ Len(funcs) = 1 /\ funcs[1].name = Kernel /\ DOMAIN funcs = 1 .. 1
      /\ Len(blocks) = 1 /\ DOMAIN blocks = 1 .. 1 /\ blocks[1].fn = 1 /\ blocks[1].around = 0
      /\ Len(ops) = 0 /\ DOMAIN ops = {} /\ DOMAIN masks = {}
      /\ Len(dicts) = 1 /\ DOMAIN dicts = 1 .. 1 /\ dicts[1] = <<>> /\ DOMAIN dicts[1] = {}
  BY <1>2, <1>3 DEF Me, Last
<1>5. <<>> \in Dictionaries
  <2>1. <<>> \in [{} -> Results]
    OBVIOUS
  <2> QED BY <2>1 DEF Dictionaries
<1>6. Typing
  <2>1. funcs \in Seq([name : Names, spec : Specs, rets : Results])
    BY <1>1, <1>3 DEF Names, Results
  <2>2. blocks \in Seq([fn : DOMAIN funcs, around : 0 .. Len(blocks)])
    <3>1. [fn |-> 1, around |-> 0] \in [fn : 1 .. 1, around : 0 .. 1]
      OBVIOUS
    <3> QED BY <1>3, <1>4, <3>1
  <2>3. TypeOK
    BY <1>2, <1>3, <1>4, <2>1, <2>2 DEF TypeOK, Names, Results
  <2> QED BY <1>3, <1>4, <1>5, <2>3 DEF Typing
<1>7. InsertionFollows /\ Nested /\ Apart
  <2>1. InsertionFollows
    BY <1>2, <1>3, <1>4 DEF InsertionFollows, Innermost
  <2>2. Nested
    BY <1>2, <1>3, <1>4 DEF Nested, WorksAt, RegionsOf
  <2>3. Apart
    BY <1>4 DEF Apart
  <2> QED BY <2>1, <2>2, <2>3
<1>8. Recorded /\ Returned /\ GeneratedOnce /\ ReturnsLast /\ ResultsAsDeclared
  BY <1>4 DEF Recorded, Returned, GeneratedOnce, ReturnsLast, ResultsAsDeclared
<1> QED BY <1>6, <1>7, <1>8 DEF IInv

\* Visitors that do nothing in a module that does not change.
LEMMA StandsStill ==
  ASSUME IInv, UNCHANGED <<funcs, blocks, visitors, dicts>>
  PROVE  Nested' /\ Apart' /\ GeneratedOnce'
<1>1. Nested'
  <2>1. Nested
    BY DEF IInv
  <2>2. \A v : (WorksAt(v)' <=> WorksAt(v)) /\ (RegionsOf(v)' <=> RegionsOf(v))
    BY DEF WorksAt, RegionsOf
  <2> QED BY <2>1, <2>2 DEF Nested, Innermost, Last
<1>2. Apart' /\ GeneratedOnce'
  BY DEF IInv, Apart, GeneratedOnce
<1> QED BY <1>1, <1>2

\* Code generation ends, or nothing happens.
LEMMA EndPreserves ==
  ASSUME IInv, status' \in {"done", "unsupported", "recursive", "no return types", status},
         UNCHANGED <<funcs, blocks, ops, insertion, visitors, dicts, masks>>
  PROVE  IInv'
<1>1. Typing'
  BY DEF IInv, Typing, TypeOK
<1>2. InsertionFollows'
  BY DEF IInv, InsertionFollows, Innermost, Me, Last
<1>3. Nested' /\ Apart' /\ GeneratedOnce'
  BY StandsStill
<1>4. Recorded'
  <2>1. Recorded
    BY DEF IInv
  <2>2. ASSUME NEW d \in 1 .. Len(dicts), NEW g \in DOMAIN dicts[d]
        PROVE  /\ HasFunction(g)' /\ ~InProgress(g)'
               /\ \A j \in DOMAIN funcs : funcs[j].name = g => dicts[d][g] = funcs[j].rets
    BY <2>1 DEF Recorded, HasFunction, InProgress
  <2>3. ASSUME NEW i \in 1 .. Len(ops), ops[i].op = "call"
        PROVE  (HasFunction(ops[i].fn) /\ ~InProgress(ops[i].fn))'
    BY <2>1, <2>3 DEF Recorded, HasFunction, InProgress
  <2> QED BY <2>2, <2>3 DEF Recorded
<1>5. Returned' /\ ReturnsLast'
  BY DEF IInv, Returned, ReturnsLast
<1>6. ResultsAsDeclared'
  BY DEF IInv, ResultsAsDeclared
<1> QED BY <1>1, <1>2, <1>3, <1>4, <1>5, <1>6 DEF IInv

\* The steps that create an operation and leave the visitors where they are.
LEMMA OperationPreserves ==
  ASSUME IInv, Visiting, UNCHANGED <<funcs, blocks, insertion, visitors, dicts, status>>,
         DOMAIN masks' \subseteq Masks, \A m \in DOMAIN masks' : masks'[m] \in Nat,
         NEW op \in Operations, ops' = Append(ops, op), op.at = insertion, op.op # "return",
         op.op = "call" => /\ HasFunction(op.fn) /\ ~InProgress(op.fn)
                           /\ \A j \in DOMAIN funcs : funcs[j].name = op.fn => op.rets = funcs[j].rets
  PROVE  IInv'
<1>1. Typing /\ ~Me.discard /\ insertion = Innermost(Me)
  BY DEF IInv, Visiting, InsertionFollows
<1>2. insertion \in DOMAIN blocks /\ \A i \in 1 .. Len(ops) : ops[i].op = "return" => ops[i].at # insertion
  BY <1>1, AtWork, Standing
<1>3. /\ ops' \in Seq(Operations) /\ Len(ops) \in Nat /\ Len(ops') = Len(ops) + 1 /\ ops'[Len(ops) + 1] = op
      /\ \A i \in 1 .. Len(ops) : ops'[i] = ops[i]
      /\ ReturnsLast'
  BY <1>2, Created
<1>4. \A i \in 1 .. Len(ops') : (i \in 1 .. Len(ops) /\ ops'[i] = ops[i]) \/ ops'[i] = op
  BY <1>3
<1>5. Typing'
  BY <1>1, <1>3 DEF Typing, TypeOK
<1>6. InsertionFollows' /\ Nested' /\ Apart' /\ GeneratedOnce'
  BY StandsStill DEF IInv, InsertionFollows, Innermost, Me, Last
<1>7. Recorded'
  BY <1>4 DEF IInv, Recorded, HasFunction, InProgress
<1>8. Returned'
  BY <1>2, <1>4 DEF IInv, Returned
<1>9. ResultsAsDeclared'
  <2>1. DOMAIN ops' = 1 .. Len(ops') /\ DOMAIN ops = 1 .. Len(ops)
    BY <1>1, <1>3 DEF Typing
  <2> QED BY <1>4, <2>1 DEF IInv, ResultsAsDeclared
<1> QED BY <1>3, <1>5, <1>6, <1>7, <1>8, <1>9 DEF IInv

LEMMA CallKnownPreserves ==
  ASSUME IInv, NEW g \in Names, NEW s \in Specs, CallKnown(g, s)
  PROVE  IInv'
<1> DEFINE d == dicts[Me.dict]
           op == CallOp(insertion, g, s, d[g])
<1>1. Typing /\ Visiting /\ g \in DOMAIN d /\ ops' = Append(ops, op)
      /\ UNCHANGED <<funcs, blocks, insertion, visitors, dicts, masks, status>>
  BY DEF CallKnown, Create, IInv
<1>2. Me.dict \in 1 .. Len(dicts) /\ d \in Dictionaries
  BY <1>1, AtWork DEF IInv, Typing, Nested, WorksAt
<1>3. d[g] \in Results
  BY <1>1, <1>2 DEF Dictionaries
<1>4. /\ HasFunction(g) /\ ~InProgress(g)
      /\ \A j \in DOMAIN funcs : funcs[j].name = g => d[g] = funcs[j].rets
  BY <1>1, <1>2 DEF IInv, Recorded
<1> HIDE DEF d
<1>5. insertion \in Nat
  BY <1>1, Parts
<1>6. op \in Operations /\ op.op = "call" /\ op.at = insertion /\ op.fn = g /\ op.rets = d[g]
  BY <1>3, <1>5 DEF CallOp, Operations
<1>7. DOMAIN masks' \subseteq Masks /\ \A m \in DOMAIN masks' : masks'[m] \in Nat
  BY <1>1 DEF Typing, TypeOK
<1> HIDE DEF op
<1> QED BY <1>1, <1>4, <1>6, <1>7, OperationPreserves

LEMMA SelectPreserves ==
  ASSUME IInv, NEW m \in Masks, SelectFirst(m) \/ SelectAgain(m)
  PROVE  IInv'
<1>1. Typing /\ Visiting /\ UNCHANGED <<funcs, blocks, insertion, visitors, dicts, status>> /\ insertion \in Nat
  <2>1. Typing
    BY DEF IInv
  <2> QED BY <2>1, Parts DEF SelectFirst, SelectAgain
<1>2. PICK from \in Nat : ops' = Append(ops, SelectOp(insertion, from))
  BY <1>1 DEF SelectFirst, SelectAgain, Create, Typing
<1>3. DOMAIN masks' \subseteq Masks /\ \A k \in DOMAIN masks' : masks'[k] \in Nat
  BY <1>1 DEF SelectFirst, SelectAgain, Typing, TypeOK
<1> DEFINE op == SelectOp(insertion, from)
<1>4. op \in Operations /\ op.op = "select" /\ op.at = insertion
  BY <1>1 DEF SelectOp, Operations
<1> HIDE DEF op
<1>5. ops' = Append(ops, op)
  BY <1>2 DEF op
<1> QED BY <1>1, <1>3, <1>4, <1>5, OperationPreserves

\* A region is opened or closed: one visitor changes, the builder follows it.
LEMMA RegionPreserves ==
  ASSUME IInv, Visiting, UNCHANGED <<funcs, ops, dicts, masks, status>>, Grows,
         blocks' \in Seq([fn : DOMAIN funcs, around : 0 .. Len(blocks')]),
         NEW v \in Visitors, Change(v), RegionsOf(Me)', InsertionFollows', insertion' \in DOMAIN blocks',
         v.fn = Me.fn, v.entry = Me.entry, v.dict = Me.dict, v.saved = Me.saved, ~v.discard
  PROVE  IInv'
<1> DEFINE n == Len(visitors)
<1>1. Typing /\ n \in Nat \ {0} /\ n = Len(visitors) /\ Me = visitors[n] /\ ~Me.discard
  BY AtWork DEF IInv, Visiting
<1>2. /\ visitors' \in Seq(Visitors) /\ Len(visitors') = n /\ visitors'[n] = v /\ Me' = v
      /\ \A i \in 1 .. n - 1 : visitors'[i] = visitors[i]
  BY <1>1, Changed
<1> HIDE DEF n
<1>3. \A i \in 1 .. n : i = n \/ (i \in 1 .. n - 1 /\ i # n /\ i < n)
  BY <1>1
<1>4. \A i \in 1 .. n : /\ visitors'[i].fn = visitors[i].fn /\ visitors'[i].entry = visitors[i].entry
                        /\ visitors'[i].dict = visitors[i].dict /\ visitors'[i].saved = visitors[i].saved
                        /\ ~visitors[i].discard /\ ~visitors'[i].discard
  <2>1. \A i \in 1 .. n : ~visitors[i].discard
    BY <1>1, <1>3 DEF IInv, Nested
  <2> QED BY <1>1, <1>2, <1>3, <2>1
<1>5. Nested'
  <2> SUFFICES ASSUME NEW i \in 1 .. n
               PROVE  /\ WorksAt(visitors[i])' /\ RegionsOf(visitors[i])'
                      /\ i > 1 => visitors'[i].saved = Innermost(visitors'[i - 1])
    BY <1>1, <1>2, <1>4 DEF Nested, Innermost, Last
  <2>1. WorksAt(visitors[i]) /\ RegionsOf(visitors[i]) /\ (i > 1 => visitors[i].saved = Innermost(visitors[i - 1]))
    BY <1>1 DEF IInv, Nested
  <2>2. WorksAt(visitors[i])'
    BY <1>1, <1>4, <2>1, Grown
  <2>3. RegionsOf(visitors[i])'
    <3>1. CASE i = n
      BY <1>2, <3>1 DEF RegionsOf
    <3>2. CASE i # n
      BY <1>1, <1>2, <1>3, <2>1, <3>2, Grown
    <3> QED BY <3>1, <3>2
  <2>4. i > 1 => i - 1 \in 1 .. n - 1
    BY <1>1
  <2> QED BY <1>2, <1>4, <2>1, <2>2, <2>3, <2>4
<1>6. Typing'
  <2>1. DOMAIN visitors' = 1 .. n /\ visitors' # <<>>
    BY <1>1, <1>2
  <2>2. \A i \in DOMAIN visitors' : visitors'[i].dict \in DOMAIN dicts'
    BY <1>2, <1>5, <2>1 DEF Nested, WorksAt
  <2> QED BY <1>1, <1>2, <2>1, <2>2 DEF Typing, TypeOK
<1>7. Apart'
  BY <1>1, <1>2, <1>4 DEF IInv, Apart
<1>8. \A g : InProgress(g)' <=> InProgress(g)
  BY <1>1, <1>2, <1>4 DEF InProgress
<1>9. Recorded'
  BY <1>8 DEF IInv, Recorded, HasFunction
<1>10. Returned'
  <2>1. \A i \in 1 .. Len(ops) : ops[i].op = "return" => \A k \in 1 .. n : visitors[k].entry # ops[i].at
    BY <1>1, <1>4 DEF IInv, Returned
  <2>2. \A i \in 1 .. Len(ops) : ops[i].at \in DOMAIN blocks'
    BY DEF IInv, Returned, Grows
  <2> QED BY <1>2, <1>4, <2>1, <2>2 DEF Returned
<1>11. ReturnsLast'
  <2>1. \A i \in DOMAIN ops : ops[i].at \in DOMAIN blocks
    BY <1>1, Parts DEF IInv, Returned
  <2> QED BY <2>1 DEF IInv, ReturnsLast, Grows
<1>12. GeneratedOnce' /\ ResultsAsDeclared'
  BY DEF IInv, GeneratedOnce, ResultsAsDeclared
<1> QED BY <1>5, <1>6, <1>7, <1>9, <1>10, <1>11, <1>12 DEF IInv

LEMMA OpenRegionPreserves == IInv /\ OpenRegion => IInv'
<1> SUFFICES ASSUME IInv, OpenRegion PROVE IInv'
  OBVIOUS
<1> DEFINE b == Len(blocks) + 1
           m == Len(Me.open)
           reg == [block |-> b, saved |-> insertion, allowed |-> Me.allowed]
           v == [Me EXCEPT !.allowed = FALSE, !.open = Append(@, reg)]
           new == [fn |-> blocks[insertion].fn, around |-> insertion]
<1>1. /\ Visiting /\ blocks' = Append(blocks, new) /\ insertion' = b /\ Change(v)
      /\ UNCHANGED <<funcs, ops, dicts, masks, status>>
  BY DEF OpenRegion
<1>2. /\ Typing /\ ~Me.discard /\ insertion = Innermost(Me) /\ Me \in Visitors
      /\ Len(visitors) \in Nat \ {0} /\ Me = visitors[Len(visitors)]
  BY <1>1, AtWork DEF IInv, Visiting, InsertionFollows
<1>3. RegionsOf(Me)
  BY <1>2 DEF IInv, Nested
<1>4. /\ blocks \in Seq([fn : DOMAIN funcs, around : 0 .. Len(blocks)]) /\ Len(blocks) \in Nat
      /\ DOMAIN blocks = 1 .. Len(blocks) /\ insertion \in 1 .. Len(blocks)
  BY <1>2, Parts DEF Typing, TypeOK
<1>5. /\ b \in Nat /\ Len(blocks') = b /\ DOMAIN blocks' = 1 .. b /\ blocks'[b] = new
      /\ \A i \in 1 .. Len(blocks) : i \in 1 .. b /\ blocks'[i] = blocks[i]
  BY <1>1, <1>4
<1>6. Grows
  BY <1>1, <1>4, <1>5 DEF Grows
<1>7. blocks' \in Seq([fn : DOMAIN funcs, around : 0 .. b])
  <2>1. blocks[insertion] \in [fn : DOMAIN funcs, around : 0 .. Len(blocks)]
    BY <1>4, ElementOf
  <2>2. new \in [fn : DOMAIN funcs, around : 0 .. b]
    BY <1>4, <2>1
  <2>3. [fn : DOMAIN funcs, around : 0 .. Len(blocks)] \subseteq [fn : DOMAIN funcs, around : 0 .. b]
    BY <1>4
  <2> HIDE DEF new
  <2>4. blocks \in Seq([fn : DOMAIN funcs, around : 0 .. b])
    BY <1>4, <2>3, OverLarger
  <2> QED BY <1>1, <2>2, <2>4
<1>8. reg \in Regions
  <2>1. Me.allowed \in BOOLEAN
    BY <1>2 DEF Visitors
  <2> QED BY <1>4, <1>5, <2>1 DEF Regions
<1>9. Me.open \in Seq(Regions) /\ m \in Nat
  BY <1>2, VisitorFields
<1>10. /\ v.fn = Me.fn /\ v.entry = Me.entry /\ v.dict = Me.dict /\ v.saved = Me.saved /\ ~v.discard /\ ~v.allowed
       /\ v.open = Append(Me.open, reg) /\ v \in Visitors
  <2>1. Append(Me.open, reg) \in Seq(Regions)
    BY <1>8, <1>9
  <2> HIDE DEF reg
  <2> QED BY <1>2, <2>1 DEF Visitors
<1>11. reg.block = b /\ reg.saved = insertion /\ reg.allowed = Me.allowed
  OBVIOUS
<1> HIDE DEF v, reg
<1>12. /\ Len(v.open) = m + 1 /\ v.open # <<>> /\ v.open[m + 1] = reg /\ Last(v.open) = reg
       /\ \A k \in 1 .. m : v.open[k] = Me.open[k]
  BY <1>8, <1>9, <1>10 DEF Last
<1>13. Me' = v
  BY <1>1, <1>2, <1>10, Changed
<1>14. InsertionFollows'
  BY <1>1, <1>11, <1>12, <1>13 DEF InsertionFollows, Innermost, Last
<1>15. RegionsOf(Me)'
  <2> SUFFICES ASSUME NEW k \in 1 .. m + 1
               PROVE  /\ v.open[k].block \in DOMAIN blocks' /\ blocks'[v.open[k].block].around # 0
                      /\ v.open[k].saved = IF k = 1 THEN v.entry ELSE v.open[k - 1].block
                      /\ k > 1 => ~v.open[k].allowed
    BY <1>10, <1>12, <1>13 DEF RegionsOf
  <2>1. CASE k \in 1 .. m
    <3>1. k > 1 => k - 1 \in 1 .. m
      BY <1>9, <2>1
    <3> QED BY <1>3, <1>6, <1>10, <1>12, <2>1, <3>1 DEF RegionsOf, Grows
  <2>2. CASE k = m + 1
    <3>1. v.open[k].block = b /\ blocks'[b].around # 0 /\ b \in DOMAIN blocks'
      BY <1>4, <1>5, <1>11, <1>12, <2>2
    <3>2. v.open[k].saved = insertion
      BY <1>11, <1>12, <2>2
    <3>3. k = 1 => Me.open = <<>>
      BY <1>9, <2>2
    <3>4. k > 1 => m \in 1 .. m /\ k - 1 = m /\ k # 1 /\ Me.open # <<>> /\ Last(Me.open) = Me.open[m]
      BY <1>9, <2>2 DEF Last
    <3>5. k = 1 \/ k > 1
      OBVIOUS
    <3>6. v.open[k].saved = IF k = 1 THEN v.entry ELSE v.open[k - 1].block
      BY <1>2, <1>10, <1>12, <3>2, <3>3, <3>4, <3>5 DEF Innermost
    <3>7. k > 1 => ~v.open[k].allowed
      BY <1>3, <1>11, <1>12, <2>2, <3>4 DEF RegionsOf
    <3> QED BY <3>1, <3>6, <3>7
  <2> QED BY <1>9, <2>1, <2>2
<1>16. blocks' \in Seq([fn : DOMAIN funcs, around : 0 .. Len(blocks')]) /\ insertion' \in DOMAIN blocks'
  BY <1>1, <1>4, <1>5, <1>7
<1> QED BY <1>1, <1>6, <1>10, <1>14, <1>15, <1>16, RegionPreserves

LEMMA CloseRegionPreserves == IInv /\ CloseRegion => IInv'
<1> SUFFICES ASSUME IInv, CloseRegion PROVE IInv'
  OBVIOUS
<1> DEFINE m == Len(Me.open)
           reg == Last(Me.open)
           f == Front(Me.open)
           v == [Me EXCEPT !.allowed = reg.allowed, !.open = f]
<1>1. /\ status = "running" /\ Me.open # <<>> /\ insertion' = reg.saved /\ Change(v)
      /\ UNCHANGED <<funcs, blocks, ops, dicts, masks, status>>
  <2>1. [Me EXCEPT !.allowed = Last(Me.open).allowed, !.open = Front(@)] = v
    OBVIOUS
  <2> QED BY <2>1 DEF CloseRegion
<1>2. /\ Typing /\ Me \in Visitors /\ Len(visitors) \in Nat \ {0} /\ Me = visitors[Len(visitors)]
  BY AtWork DEF IInv
<1>3. RegionsOf(Me) /\ WorksAt(Me) /\ ~Me.discard /\ ~Me.allowed
  <2>1. RegionsOf(Me) /\ WorksAt(Me)
    BY <1>2 DEF IInv, Nested
  <2> QED BY <1>1, <2>1 DEF RegionsOf
<1>4. Me.open \in Seq(Regions)
  BY <1>2, VisitorFields
<1>5. /\ m \in Nat \ {0} /\ reg = Me.open[m] /\ reg \in Regions
      /\ f \in Seq(Regions) /\ Len(f) = m - 1 /\ \A i \in 1 .. m - 1 : f[i] = Me.open[i]
  BY <1>1, <1>4, FrontAndLast
<1>6. reg.allowed \in BOOLEAN
  BY <1>5 DEF Regions
<1> HIDE DEF reg, f
<1>7. /\ v.fn = Me.fn /\ v.entry = Me.entry /\ v.dict = Me.dict /\ v.saved = Me.saved /\ ~v.discard
      /\ v.open = f /\ v \in Visitors
  BY <1>2, <1>3, <1>5, <1>6 DEF Visitors
<1>8. v.allowed = reg.allowed
  BY <1>2 DEF Visitors
<1> HIDE DEF v
<1>9. Me' = v
  BY <1>1, <1>2, <1>7, Changed
<1>10. Grows
  BY <1>1 DEF Grows
<1> HIDE DEF m
<1>11. m \in 1 .. m /\ (m = 1 \/ (m > 1 /\ m - 1 \in 1 .. m - 1 /\ m # 1)) /\ \A k \in 1 .. m - 1 : k \in 1 .. m
  BY <1>5
<1>12. f = <<>> <=> m = 1
  BY <1>5
<1>13. reg.saved = Innermost(v)
  <2>1. reg.saved = IF m = 1 THEN Me.entry ELSE Me.open[m - 1].block
    BY <1>3, <1>5, <1>11 DEF RegionsOf, m
  <2>2. m > 1 => Last(f) = Me.open[m - 1]
    BY <1>5, <1>11 DEF Last
  <2> QED BY <1>7, <1>11, <1>12, <2>1, <2>2 DEF Innermost
<1>14. InsertionFollows'
  BY <1>1, <1>9, <1>13 DEF InsertionFollows, Innermost, Last
<1>15. RegionsOf(Me)'
  <2>1. v.open # <<>> => ~v.allowed /\ ~v.discard
    BY <1>3, <1>5, <1>7, <1>8, <1>11, <1>12 DEF RegionsOf, m
  <2>2. \A k \in 1 .. m : /\ Me.open[k].block \in DOMAIN blocks /\ blocks[Me.open[k].block].around # 0
                          /\ Me.open[k].saved = IF k = 1 THEN Me.entry ELSE Me.open[k - 1].block
                          /\ k > 1 => ~Me.open[k].allowed
    BY <1>3 DEF RegionsOf, m
  <2>3. \A k \in 1 .. m - 1 : k = 1 \/ k - 1 \in 1 .. m - 1
    BY <1>5
  <2>4. \A k \in 1 .. m - 1 : /\ f[k].block \in DOMAIN blocks /\ blocks[f[k].block].around # 0
                              /\ f[k].saved = IF k = 1 THEN v.entry ELSE f[k - 1].block
                              /\ k > 1 => ~f[k].allowed
    BY <1>5, <1>7, <1>11, <2>2, <2>3
  <2> QED BY <1>1, <1>5, <1>7, <1>9, <2>1, <2>4 DEF RegionsOf
<1>16. blocks' \in Seq([fn : DOMAIN funcs, around : 0 .. Len(blocks')])
  BY <1>1, <1>2 DEF Typing, TypeOK
<1>17. insertion' \in DOMAIN blocks'
  <2>1. Me.open[m].saved = IF m = 1 THEN Me.entry ELSE Me.open[m - 1].block
    BY <1>3, <1>11 DEF RegionsOf, m
  <2>2. m > 1 => Me.open[m - 1].block \in DOMAIN blocks
    BY <1>3, <1>11 DEF RegionsOf, m
  <2> QED BY <1>1, <1>3, <1>5, <1>11, <2>1, <2>2 DEF WorksAt
<1>18. Visiting
  BY <1>1, <1>3 DEF Visiting
<1> QED BY <1>1, <1>7, <1>10, <1>14, <1>15, <1>16, <1>17, <1>18, RegionPreserves

\* A function that is not yet in the module: a visitor begins for it.
LEMMA CallNewPreserves ==
  ASSUME IInv, NEW g \in Names, NEW s \in Specs, CallNew(g, s)
  PROVE  IInv'
<1> DEFINE b == Len(blocks) + 1
           n == Len(visitors)
           F == Len(funcs)
           w == Visitor(g, s, DictIndex, insertion, b)
           fun == [name |-> g, spec |-> s, rets |-> NoValue]
           new == [fn |-> F + 1, around |-> 0]
<1>1. /\ Visiting /\ ~HasFunction(g)
      /\ funcs' = Append(funcs, fun) /\ blocks' = Append(blocks, new) /\ dicts' = DictOfCallee
      /\ visitors' = Append(visitors, w) /\ insertion' = b /\ UNCHANGED <<ops, masks, status>>
  BY DEF CallNew, Known, Beginning
<1>2. /\ Typing /\ ~Me.discard /\ insertion = Innermost(Me)
      /\ n \in Nat \ {0} /\ Me = visitors[n] /\ Me \in Visitors /\ visitors \in Seq(Visitors)
  BY <1>1, AtWork DEF IInv, Visiting, InsertionFollows
<1>3. /\ blocks \in Seq([fn : 1 .. F, around : 0 .. Len(blocks)]) /\ Len(blocks) \in Nat
      /\ DOMAIN blocks = 1 .. Len(blocks) /\ insertion \in Nat
      /\ funcs \in Seq([name : Names, spec : Specs, rets : Results]) /\ F \in Nat /\ DOMAIN funcs = 1 .. F
      /\ dicts \in Seq(Dictionaries) /\ Len(dicts) \in Nat /\ DOMAIN dicts = 1 .. Len(dicts)
      /\ DOMAIN ops = 1 .. Len(ops)
  BY <1>2, Parts
<1>4. Me.dict \in 1 .. Len(dicts)
  BY <1>2, <1>3 DEF IInv, Nested, WorksAt
<1>5. /\ dicts' \in Seq(Dictionaries) /\ Len(dicts') \in Nat /\ DOMAIN dicts' = 1 .. Len(dicts') /\ DictIndex \in 1 .. Len(dicts')
      /\ \A d \in 1 .. Len(dicts) : d \in 1 .. Len(dicts') /\ dicts'[d] = dicts[d]
      /\ \A d \in 1 .. Len(dicts') : d \in 1 .. Len(dicts) \/ DOMAIN dicts'[d] = {}
  <2>1. CASE dicts[Me.dict] = <<>>
    <3>1. dicts' = Append(dicts, <<>>) /\ DictIndex = Len(dicts) + 1
      BY <1>1, <2>1 DEF DictOfCallee, DictIndex
    <3>2. <<>> \in Dictionaries
      BY <1>3, <1>4, <2>1, ElementOf
    <3> QED BY <1>3, <3>1, <3>2
  <2>2. CASE dicts[Me.dict] # <<>>
    BY <1>1, <1>3, <1>4, <2>2 DEF DictOfCallee, DictIndex
  <2> QED BY <2>1, <2>2
<1>6. /\ w.fn = g /\ w.dict = DictIndex /\ w.saved = insertion /\ w.entry = b /\ w.allowed = TRUE /\ w.discard = FALSE
      /\ w.open = <<>>
  BY DEF Visitor
<1>7. w \in Visitors
  <2>1. DictIndex \in Nat /\ b \in Nat
    BY <1>3, <1>5
  <2> QED BY <1>3, <2>1 DEF Visitor, Visitors, Results, Regions
<1> HIDE DEF w
<1>8. /\ visitors' \in Seq(Visitors) /\ Len(visitors') = n + 1 /\ visitors'[n + 1] = w /\ visitors' # <<>>
      /\ DOMAIN visitors' = 1 .. n + 1 /\ \A i \in 1 .. n : visitors'[i] = visitors[i]
  BY <1>1, <1>2, <1>7
<1>9. Me' = w
  BY <1>8 DEF Me, Last
<1>10. /\ Len(funcs') = F + 1 /\ DOMAIN funcs' = 1 .. F + 1 /\ funcs'[F + 1].name = g
       /\ \A f \in 1 .. F : f \in 1 .. F + 1 /\ funcs'[f] = funcs[f]
       /\ funcs' \in Seq([name : Names, spec : Specs, rets : Results])
  <2>1. fun \in [name : Names, spec : Specs, rets : Results] /\ fun.name = g
    BY DEF Results
  <2> HIDE DEF fun
  <2> QED BY <1>1, <1>3, <2>1
<1>11. /\ b \in Nat /\ Len(blocks') = b /\ DOMAIN blocks' = 1 .. b /\ blocks'[b] = new /\ ~(b \in DOMAIN blocks)
       /\ \A i \in 1 .. Len(blocks) : i \in 1 .. b /\ blocks'[i] = blocks[i]
  BY <1>1, <1>3
<1>12. blocks' \in Seq([fn : 1 .. F + 1, around : 0 .. b])
  <2>1. new \in [fn : 1 .. F + 1, around : 0 .. b]
    BY <1>3
  <2>2. [fn : 1 .. F, around : 0 .. Len(blocks)] \subseteq [fn : 1 .. F + 1, around : 0 .. b]
    BY <1>3
  <2>3. blocks \in Seq([fn : 1 .. F + 1, around : 0 .. b])
    BY <1>3, <2>2, OverLarger
  <2> HIDE DEF new
  <2> QED BY <1>1, <2>1, <2>3
<1>13. Grows
  BY <1>3, <1>5, <1>10, <1>11 DEF Grows
<1> HIDE DEF n
<1>14. \A i \in 1 .. n : WorksAt(visitors[i]) /\ RegionsOf(visitors[i]) /\ ~visitors[i].discard
                         /\ (i > 1 => visitors[i].saved = Innermost(visitors[i - 1]))
  <2>1. \A i \in 1 .. n : i = n \/ i < n
    BY <1>2
  <2> QED BY <1>2, <2>1 DEF IInv, Nested, n
<1>15. \A i \in 1 .. n + 1 : (i = n + 1 /\ i - 1 = n /\ n \in 1 .. n) \/ (i \in 1 .. n /\ (i > 1 => i - 1 \in 1 .. n))
  BY <1>2
<1>16. Nested'
  <2> SUFFICES ASSUME NEW i \in 1 .. n + 1
               PROVE  /\ WorksAt(visitors[i])' /\ RegionsOf(visitors[i])'
                      /\ i > 1 => visitors'[i].saved = Innermost(visitors'[i - 1])
                      /\ i # n + 1 => ~visitors'[i].discard
    BY <1>8 DEF Nested, Innermost, Last
  <2>1. CASE i = n + 1
    <3>0. visitors'[i] = w
      BY <1>8, <2>1
    <3>1. WorksAt(visitors[i])'
      <4>1. blocks'[b].around = 0 /\ blocks'[b].fn = F + 1 /\ b \in DOMAIN blocks'
        BY <1>11
      <4> QED BY <1>5, <1>6, <1>10, <3>0, <4>1 DEF WorksAt
    <3>2. RegionsOf(visitors[i])'
      BY <1>6, <3>0 DEF RegionsOf
    <3>3. visitors'[i].saved = insertion /\ visitors'[i - 1] = Me
      BY <1>2, <1>6, <1>8, <1>15, <2>1
    <3> QED BY <1>2, <2>1, <3>1, <3>2, <3>3
  <2>2. CASE i \in 1 .. n
    <3>1. WorksAt(visitors[i])' /\ RegionsOf(visitors[i])'
      BY <1>2, <1>8, <1>13, <1>14, <2>2, Grown
    <3> QED BY <1>8, <1>14, <1>15, <2>2, <3>1
  <2> QED BY <1>15, <2>1, <2>2
<1>17. Typing'
  <2>1. \A i \in DOMAIN visitors' : visitors'[i].dict \in DOMAIN dicts'
    BY <1>8, <1>16 DEF Nested, WorksAt
  <2>2. blocks' \in Seq([fn : DOMAIN funcs', around : 0 .. Len(blocks')]) /\ insertion' \in DOMAIN blocks'
    BY <1>1, <1>3, <1>10, <1>11, <1>12
  <2>3. TypeOK'
    BY <1>1, <1>2, <1>8, <1>10, <2>1, <2>2 DEF Typing, TypeOK, Names, Results
  <2> QED BY <1>1, <1>2, <1>5, <1>8, <2>3 DEF Typing
<1>18. InsertionFollows'
  BY <1>1, <1>6, <1>9 DEF InsertionFollows, Innermost
<1>19. \A i \in 1 .. n : visitors[i].fn # g /\ visitors[i].entry # b
  <2>1. \A i \in 1 .. n : HasFunction(visitors[i].fn) /\ visitors[i].entry \in DOMAIN blocks
    <3>1. ASSUME NEW k \in DOMAIN blocks PROVE blocks[k].fn \in 1 .. F
      <4>1. blocks[k] \in [fn : 1 .. F, around : 0 .. Len(blocks)]
        BY <1>3, ElementOf
      <4> QED BY <4>1
    <3> QED BY <1>3, <1>14, <3>1 DEF WorksAt, HasFunction
  <2> QED BY <1>1, <1>11, <2>1
<1>20. Apart'
  <2>1. \A i, j \in 1 .. n : visitors[i].fn = visitors[j].fn \/ visitors[i].entry = visitors[j].entry => i = j
    BY DEF IInv, Apart, n
  <2> QED BY <1>6, <1>8, <1>15, <1>19, <2>1 DEF Apart
<1>21. \A h : HasFunction(h) => h # g /\ HasFunction(h)' /\ (InProgress(h)' <=> InProgress(h))
  <2> SUFFICES ASSUME NEW h, HasFunction(h)
               PROVE  h # g /\ HasFunction(h)' /\ (InProgress(h)' <=> InProgress(h))
    OBVIOUS
  <2>1. h # g
    BY <1>1
  <2>2. HasFunction(h)'
    BY <1>3, <1>10 DEF HasFunction
  <2>3. InProgress(h)' <=> InProgress(h)
    BY <1>6, <1>8, <1>15, <2>1 DEF InProgress, n
  <2> QED BY <2>1, <2>2, <2>3
<1>22. Recorded'
  <2>1. ASSUME NEW d \in 1 .. Len(dicts'), NEW h \in DOMAIN dicts'[d]
        PROVE  /\ HasFunction(h)' /\ ~InProgress(h)'
               /\ \A j \in DOMAIN funcs' : funcs'[j].name = h => dicts'[d][h] = funcs'[j].rets
    <3>1. d \in 1 .. Len(dicts) /\ dicts'[d] = dicts[d]
      BY <1>5
    <3>2. /\ HasFunction(h) /\ ~InProgress(h)
          /\ \A j \in DOMAIN funcs : funcs[j].name = h => dicts[d][h] = funcs[j].rets
      BY <3>1 DEF IInv, Recorded
    <3>3. h # g /\ HasFunction(h)' /\ ~InProgress(h)'
      <4>1. HasFunction(h) => h # g /\ HasFunction(h)' /\ (InProgress(h)' <=> InProgress(h))
        BY <1>21, Zenon
      <4> QED BY <3>2, <4>1
    <3>4. \A j \in 1 .. F + 1 : j = F + 1 \/ j \in 1 .. F
      <4>1. F \in Nat
        BY <1>3
      <4> HIDE DEF F
      <4> QED BY <4>1
    <3>5. ASSUME NEW j \in DOMAIN funcs', funcs'[j].name = h PROVE dicts'[d][h] = funcs'[j].rets
      <4>1. j \in 1 .. F /\ funcs'[j] = funcs[j]
        BY <1>10, <3>3, <3>4, <3>5
      <4> QED BY <1>3, <3>1, <3>2, <3>5, <4>1
    <3> QED BY <3>3, <3>5
  <2>2. ASSUME NEW i \in 1 .. Len(ops), ops[i].op = "call"
        PROVE  HasFunction(ops[i].fn)' /\ ~InProgress(ops[i].fn)'
    <3>1. HasFunction(ops[i].fn) /\ ~InProgress(ops[i].fn)
      BY <2>2 DEF IInv, Recorded
    <3>2. \A h : HasFunction(h) /\ ~InProgress(h) => HasFunction(h)' /\ ~InProgress(h)'
      BY <1>21
    <3> QED BY <1>1, <3>1, <3>2 DEF HasFunction, InProgress
  <2> QED BY <1>1, <2>1, <2>2 DEF Recorded
<1>23. Returned' /\ ReturnsLast'
  <2>1. \A i \in 1 .. Len(ops) : ops[i].at \in DOMAIN blocks
    BY DEF IInv, Returned
  <2>2. \A i \in 1 .. Len(ops) : ops[i].op = "return" => \A k \in 1 .. n : visitors[k].entry # ops[i].at
    BY <1>14 DEF IInv, Returned, n
  <2>3. ASSUME NEW i \in 1 .. Len(ops), ops[i].op = "return", NEW k \in 1 .. n + 1
        PROVE  visitors'[k].entry # ops[i].at
    <3>1. ops[i].at # b
      BY <1>11, <2>1
    <3>2. visitors'[n + 1].entry = b
      BY <1>6, <1>8
    <3>3. k = n + 1 \/ k \in 1 .. n
      BY <1>15
    <3> QED BY <1>8, <2>2, <2>3, <3>1, <3>2, <3>3
  <2>4. Returned'
    BY <1>1, <1>8, <1>13, <2>1, <2>3 DEF Returned, Grows
  <2>5. ReturnsLast'
    BY <1>1, <1>3, <1>13, <2>1 DEF IInv, ReturnsLast, Grows
  <2> QED BY <2>4, <2>5
<1>24. \A j \in 1 .. F + 1 : j = F + 1 \/ j \in 1 .. F
  BY <1>3
<1>25. GeneratedOnce'
  BY <1>1, <1>3, <1>10, <1>24 DEF IInv, GeneratedOnce, HasFunction
<1>26. ResultsAsDeclared'
  <2>1. \A i \in 1 .. Len(ops) : ops[i].op = "call" => ops[i].fn # g
    BY <1>1 DEF IInv, Recorded
  <2> SUFFICES ASSUME NEW i \in 1 .. Len(ops), ops[i].op = "call", NEW j \in 1 .. F + 1, funcs'[j].name = ops[i].fn
               PROVE  ops[i].rets = funcs'[j].rets
    <3>1. ops' = ops /\ DOMAIN ops = 1 .. Len(ops) /\ DOMAIN funcs' = 1 .. F + 1
      BY <1>1, <1>3, <1>10
    <3> QED BY <3>1 DEF ResultsAsDeclared
  <2>2. j \in 1 .. F /\ funcs'[j] = funcs[j]
    BY <1>10, <1>24, <2>1
  <2> QED BY <1>3, <2>2 DEF IInv, ResultsAsDeclared
<1> QED BY <1>16, <1>17, <1>18, <1>20, <1>22, <1>23, <1>25, <1>26 DEF IInv

\* A return statement: the visitor discards what follows.
LEMMA ReturnPreserves ==
  ASSUME IInv, NEW r \in Results, Return(r)
  PROVE  IInv'
<1> SUFFICES ASSUME Me.allowed, ~(r # NoValue /\ Len(visitors) = 1) PROVE IInv'
  BY EndPreserves DEF Return, End
<1> DEFINE n == Len(visitors)
           v == [Me EXCEPT !.discard = TRUE, !.rets = r]
           op == [op |-> "return", at |-> insertion]
<1>1. /\ Visiting /\ Change(v) /\ UNCHANGED <<funcs, blocks, insertion, dicts, masks, status>>
      /\ ops' = ops \/ ops' = Append(ops, op)
  BY DEF Return, Create
<1>2. /\ Typing /\ ~Me.discard /\ insertion = Innermost(Me) /\ n = Len(visitors)
      /\ n \in Nat \ {0} /\ Me = visitors[n] /\ Me \in Visitors /\ n \in 1 .. n
  BY <1>1, AtWork DEF IInv, Visiting, InsertionFollows
<1>3. /\ v \in Visitors /\ v.discard = TRUE /\ v.fn = Me.fn /\ v.entry = Me.entry /\ v.dict = Me.dict
      /\ v.saved = Me.saved /\ v.open = Me.open
  BY <1>2 DEF Visitors
<1> HIDE DEF v
<1>4. /\ visitors' \in Seq(Visitors) /\ Len(visitors') = n /\ visitors'[n] = v /\ Me' = v
      /\ \A i \in 1 .. n - 1 : visitors'[i] = visitors[i]
  BY <1>1, <1>2, <1>3, Changed
<1> HIDE DEF n
<1>5. \A i \in 1 .. n : i = n \/ (i \in 1 .. n - 1 /\ i # n /\ i < n)
  BY <1>2
<1>6. \A i \in 1 .. n : /\ visitors'[i].fn = visitors[i].fn /\ visitors'[i].entry = visitors[i].entry
                        /\ visitors'[i].dict = visitors[i].dict /\ visitors'[i].saved = visitors[i].saved
                        /\ visitors'[i].open = visitors[i].open
  BY <1>2, <1>3, <1>4, <1>5
<1>7. \A i \in 1 .. n : WorksAt(visitors[i]) /\ RegionsOf(visitors[i]) /\ ~visitors[i].discard
                        /\ (i > 1 => visitors[i].saved = Innermost(visitors[i - 1]))
  BY <1>2, <1>5 DEF IInv, Nested
<1>8. Me.open = <<>> /\ insertion = Me.entry /\ insertion \in DOMAIN blocks /\ blocks[insertion].around = 0
  <2>1. WorksAt(Me) /\ RegionsOf(Me)
    BY <1>2, <1>7
  <2>2. Me.open = <<>>
    BY <2>1 DEF RegionsOf
  <2> QED BY <1>2, <2>1, <2>2 DEF WorksAt, Innermost
<1>9. \A i \in 1 .. Len(ops) : ops[i].op = "return" => ops[i].at # insertion
  BY <1>2, Standing
<1>10. op \in Operations /\ op.op = "return" /\ op.at = insertion
  <2>1. insertion \in Nat
    BY <1>2, Parts
  <2> QED BY <2>1 DEF Operations
<1> HIDE DEF op
<1>11. ops' = Append(ops, op) =>
         /\ ops' \in Seq(Operations) /\ Len(ops) \in Nat /\ Len(ops') = Len(ops) + 1 /\ ops'[Len(ops) + 1] = op
         /\ \A i \in 1 .. Len(ops) : ops'[i] = ops[i]
         /\ ReturnsLast'
  BY <1>1, <1>8, <1>9, <1>10, Created
<1>12. ops' = ops => ReturnsLast'
  BY <1>1 DEF IInv, ReturnsLast
<1>13. \A i \in 1 .. Len(ops') : (i \in 1 .. Len(ops) /\ ops'[i] = ops[i]) \/ ops'[i] = op
  BY <1>1, <1>11
<1>14. Nested'
  <2> SUFFICES ASSUME NEW i \in 1 .. n
               PROVE  /\ WorksAt(visitors[i])' /\ RegionsOf(visitors[i])'
                      /\ i > 1 => visitors'[i].saved = Innermost(visitors'[i - 1])
                      /\ i # n => ~visitors'[i].discard
    BY <1>2, <1>4 DEF Nested, Innermost, Last
  <2>1. Grows
    BY <1>1 DEF Grows
  <2>2. WorksAt(visitors[i])'
    BY <1>2, <1>6, <1>7, <2>1, Grown
  <2>3. RegionsOf(visitors[i])'
    <3>1. CASE i = n
      BY <1>3, <1>4, <1>8, <3>1 DEF RegionsOf
    <3>2. CASE i # n
      BY <1>2, <1>4, <1>5, <1>7, <2>1, <3>2, Grown
    <3> QED BY <3>1, <3>2
  <2>4. i > 1 => i - 1 \in 1 .. n - 1
    BY <1>2
  <2> QED BY <1>4, <1>5, <1>6, <1>7, <2>2, <2>3, <2>4
<1>15. Typing'
  <2>1. DOMAIN visitors' = 1 .. n /\ visitors' # <<>>
    BY <1>2, <1>4
  <2>2. \A i \in DOMAIN visitors' : visitors'[i].dict \in DOMAIN dicts'
    BY <1>4, <1>14, <2>1 DEF Nested, WorksAt
  <2>3. ops' \in Seq(Operations)
    BY <1>1, <1>2, <1>11 DEF Typing
  <2> QED BY <1>1, <1>2, <1>4, <2>1, <2>2, <2>3 DEF Typing, TypeOK
<1>16. InsertionFollows'
  BY <1>1, <1>3, <1>4, <1>8 DEF InsertionFollows, Innermost
<1>17. Apart'
  BY <1>2, <1>4, <1>6 DEF IInv, Apart
<1>18. \A g : InProgress(g)' <=> InProgress(g)
  BY <1>2, <1>4, <1>6 DEF InProgress
<1>19. Recorded'
  <2>1. \A i \in 1 .. Len(ops') : ops'[i].op = "call" => i \in 1 .. Len(ops) /\ ops'[i] = ops[i]
    BY <1>10, <1>13
  <2>2. ASSUME NEW i \in 1 .. Len(ops'), ops'[i].op = "call"
        PROVE  (HasFunction(ops[i].fn) /\ ~InProgress(ops[i].fn))'
    <3>1. HasFunction(ops[i].fn) /\ ~InProgress(ops[i].fn) /\ ops'[i] = ops[i]
      BY <2>1, <2>2 DEF IInv, Recorded
    <3>2. \A g : HasFunction(g) /\ ~InProgress(g) =>
                   (\E j \in DOMAIN funcs' : funcs'[j].name = g) /\ ~(\E j \in 1 .. Len(visitors') : visitors'[j].fn = g)
      BY <1>1, <1>18 DEF HasFunction, InProgress
    <3>3. /\ \E j \in DOMAIN funcs' : funcs'[j].name = ops'[i].fn
          /\ ~(\E j \in 1 .. Len(visitors') : visitors'[j].fn = ops'[i].fn)
      BY <3>1, <3>2
    <3> QED BY <3>3 DEF HasFunction, InProgress
  <2>3. ASSUME NEW d \in 1 .. Len(dicts), NEW g \in DOMAIN dicts[d]
        PROVE  /\ HasFunction(g)' /\ ~InProgress(g)'
               /\ \A j \in DOMAIN funcs : funcs[j].name = g => dicts[d][g] = funcs[j].rets
    BY <1>1, <1>18 DEF IInv, Recorded, HasFunction
  <2> QED BY <1>1, <2>2, <2>3 DEF Recorded
<1>20. Returned'
  <2> SUFFICES ASSUME NEW i \in 1 .. Len(ops')
               PROVE  /\ ops'[i].at \in DOMAIN blocks
                      /\ ops'[i].op = "return" => \A k \in 1 .. n : visitors'[k].entry = ops'[i].at => k = n
    BY <1>1, <1>3, <1>4 DEF Returned
  <2>1. CASE i \in 1 .. Len(ops) /\ ops'[i] = ops[i]
    BY <1>2, <1>6, <1>7, <2>1 DEF IInv, Returned
  <2>2. CASE ops'[i] = op
    <3>1. \A k \in 1 .. n : visitors[k].entry = visitors[n].entry => k = n
      BY <1>2 DEF IInv, Apart
    <3> QED BY <1>2, <1>6, <1>8, <1>10, <2>2, <3>1
  <2> QED BY <1>13, <2>1, <2>2
<1>21. GeneratedOnce'
  BY <1>1 DEF IInv, GeneratedOnce
<1>22. ResultsAsDeclared'
  <2>1. DOMAIN ops' = 1 .. Len(ops') /\ DOMAIN ops = 1 .. Len(ops) /\ funcs' = funcs
    BY <1>1, <1>2, <1>15 DEF Typing
  <2> SUFFICES ASSUME NEW i \in 1 .. Len(ops'), ops'[i].op = "call"
               PROVE  \A j \in DOMAIN funcs : funcs[j].name = ops'[i].fn => ops'[i].rets = funcs[j].rets
    BY <2>1 DEF ResultsAsDeclared
  <2>2. i \in 1 .. Len(ops) /\ ops'[i] = ops[i]
    BY <1>10, <1>13
  <2> QED BY <2>1, <2>2 DEF IInv, ResultsAsDeclared
<1> QED BY <1>1, <1>11, <1>12, <1>14, <1>15, <1>16, <1>17, <1>19, <1>20, <1>21, <1>22 DEF IInv

\* A function is done: its caller goes on, records the types, calls it.
LEMMA EndFunctionPreserves == IInv /\ EndFunction => IInv'
<1> SUFFICES ASSUME IInv, EndFunction PROVE IInv'
  OBVIOUS
<1> DEFINE n == Len(visitors)
           own == blocks[Me.entry].fn
           c == Caller.dict
           op == CallOp(Me.saved, Me.fn, Me.spec, Me.rets)
           table == [g \in DOMAIN dicts[c] \cup {Me.fn} |-> IF g = Me.fn THEN Me.rets ELSE dicts[c][g]]
<1>1. /\ status = "running" /\ n > 1 /\ ops' = Append(ops, op) /\ insertion' = Me.saved /\ visitors' = Front(visitors)
      /\ funcs' = [funcs EXCEPT ![own].rets = Me.rets] /\ dicts' = [dicts EXCEPT ![c] = table]
      /\ UNCHANGED <<blocks, masks, status>>
  BY DEF EndFunction, Create, ResumeAt, ReturnTypes
<1>2. /\ Typing /\ n = Len(visitors) /\ n \in Nat \ {0} /\ Me = visitors[n] /\ Me \in Visitors
      /\ visitors \in Seq(Visitors) /\ visitors # <<>> /\ Caller = visitors[n - 1]
  BY AtWork DEF IInv, Typing, TypeOK, Caller
<1>3. /\ funcs \in Seq([name : Names, spec : Specs, rets : Results]) /\ DOMAIN funcs = 1 .. Len(funcs)
      /\ blocks \in Seq([fn : DOMAIN funcs, around : 0 .. Len(blocks)])
      /\ dicts \in Seq(Dictionaries) /\ Len(dicts) \in Nat /\ DOMAIN dicts = 1 .. Len(dicts)
      /\ DOMAIN ops = 1 .. Len(ops) /\ Len(ops) \in Nat
  BY <1>2, Parts
<1>4. /\ Me.fn \in Names /\ Me.spec \in Specs /\ Me.saved \in Nat /\ Me.rets \in Results
  BY <1>2, VisitorFields
<1>5. /\ Front(visitors) \in Seq(Visitors) /\ Len(Front(visitors)) = n - 1
      /\ \A i \in 1 .. n - 1 : Front(visitors)[i] = visitors[i]
  BY <1>2, FrontAndLast
<1> HIDE DEF n
<1>6. n - 1 \in Nat \ {0} /\ n - 1 \in 1 .. n - 1 /\ n \in 1 .. n /\ n - 1 \in 1 .. n /\ n > 1
      /\ \A i \in 1 .. n - 1 : i \in 1 .. n /\ i # n /\ i < n /\ (i > 1 => i - 1 \in 1 .. n - 1)
  <2>1. n \in Nat /\ n > 1
    BY <1>1, <1>2
  <2> QED BY <2>1
<1>7. /\ visitors' \in Seq(Visitors) /\ Len(visitors') = n - 1 /\ DOMAIN visitors' = 1 .. n - 1 /\ visitors' # <<>>
      /\ \A i \in 1 .. n - 1 : visitors'[i] = visitors[i]
  BY <1>1, <1>5, <1>6
<1>8. Me' = Caller
  BY <1>2, <1>6, <1>7 DEF Me, Last
<1>9. \A i \in 1 .. n : WorksAt(visitors[i]) /\ RegionsOf(visitors[i])
                        /\ (i > 1 => visitors[i].saved = Innermost(visitors[i - 1]))
  BY <1>2 DEF IInv, Nested
<1>10. \A i \in 1 .. n - 1 : ~visitors[i].discard
  BY <1>2, <1>6 DEF IInv, Nested
<1>11. Me.saved = Innermost(Caller) /\ WorksAt(Me) /\ WorksAt(Caller)
  BY <1>2, <1>6, <1>9
<1>12. c \in 1 .. Len(dicts) /\ own \in DOMAIN funcs /\ funcs[own].name = Me.fn
  <2>1. Me.entry \in DOMAIN blocks /\ c \in DOMAIN dicts /\ funcs[own].name = Me.fn
    BY <1>11 DEF WorksAt
  <2>2. blocks[Me.entry] \in [fn : DOMAIN funcs, around : 0 .. Len(blocks)]
    BY <1>3, <2>1, ElementOf
  <2> QED BY <1>3, <2>1, <2>2
<1>13. /\ Innermost(visitors[n - 1]) \in DOMAIN blocks
       /\ \A i \in 1 .. Len(ops) : ops[i].op = "return" => ops[i].at # Innermost(visitors[n - 1])
  BY <1>2, <1>6, <1>10, Standing
<1>14. op \in Operations /\ op.op = "call" /\ op.at = Me.saved /\ op.fn = Me.fn /\ op.rets = Me.rets
  BY <1>4 DEF CallOp, Operations
<1>15. dicts[c] \in Dictionaries
  BY <1>3, <1>12, ElementOf
<1>16. PICK D \in SUBSET Names : dicts[c] \in [D -> Results]
  BY <1>15 DEF Dictionaries
<1>17. /\ table \in Dictionaries /\ DOMAIN table = DOMAIN dicts[c] \cup {Me.fn} /\ table[Me.fn] = Me.rets
       /\ \A g \in DOMAIN dicts[c] : g # Me.fn => table[g] = dicts[c][g]
  <2>1. D \cup {Me.fn} \in SUBSET Names /\ DOMAIN dicts[c] = D
    BY <1>4, <1>16
  <2>2. \A g \in D : dicts[c][g] \in Results
    BY <1>16
  <2>3. table \in [D \cup {Me.fn} -> Results]
    BY <1>4, <2>1, <2>2
  <2> QED BY <2>1, <2>3 DEF Dictionaries
<1> HIDE DEF op, own, c, table
<1>18. /\ ops' \in Seq(Operations) /\ Len(ops') = Len(ops) + 1 /\ ops'[Len(ops) + 1] = op
       /\ \A i \in 1 .. Len(ops) : ops'[i] = ops[i]
       /\ ReturnsLast'
  BY <1>1, <1>2, <1>11, <1>13, <1>14, Created
<1>19. \A i \in 1 .. Len(ops') : (i \in 1 .. Len(ops) /\ ops'[i] = ops[i]) \/ ops'[i] = op
  BY <1>3, <1>18
<1>20. /\ dicts' \in Seq(Dictionaries) /\ Len(dicts') = Len(dicts) /\ DOMAIN dicts' = 1 .. Len(dicts) /\ dicts'[c] = table
       /\ \A d \in 1 .. Len(dicts) : d # c => dicts'[d] = dicts[d]
  BY <1>1, <1>3, <1>12, <1>17
<1>21. /\ Len(funcs') = Len(funcs) /\ DOMAIN funcs' = DOMAIN funcs /\ funcs'[own].rets = Me.rets
       /\ \A j \in DOMAIN funcs : funcs'[j].name = funcs[j].name /\ (j # own => funcs'[j].rets = funcs[j].rets)
       /\ funcs' \in Seq([name : Names, spec : Specs, rets : Results])
  <2>1. funcs[own] \in [name : Names, spec : Specs, rets : Results]
    BY <1>3, <1>12, ElementOf
  <2>2. [funcs[own] EXCEPT !.rets = Me.rets] \in [name : Names, spec : Specs, rets : Results]
    BY <1>4, <2>1
  <2>3. [funcs[own] EXCEPT !.rets = Me.rets].name = funcs[own].name /\ [funcs[own] EXCEPT !.rets = Me.rets].rets = Me.rets
    BY <2>1
  <2> DEFINE fun == [funcs[own] EXCEPT !.rets = Me.rets]
  <2>4. funcs' = [funcs EXCEPT ![own] = fun]
    BY <1>1
  <2> HIDE DEF fun
  <2>5. fun \in [name : Names, spec : Specs, rets : Results] /\ fun.name = funcs[own].name /\ fun.rets = Me.rets
    BY <2>2, <2>3 DEF fun
  <2> QED BY <1>3, <1>12, <2>4, <2>5
<1>22. Grows
  BY <1>1, <1>3, <1>20, <1>21 DEF Grows
<1>23. \A j \in DOMAIN funcs : funcs[j].name = Me.fn => j = own
  BY <1>12 DEF IInv, GeneratedOnce
<1>24. \A g : HasFunction(g)' <=> HasFunction(g)
  BY <1>21 DEF HasFunction
<1>25. \A i \in 1 .. n - 1 : visitors[i].fn # Me.fn
  BY <1>2, <1>6 DEF IInv, Apart
<1>26. /\ \A g : InProgress(g)' => InProgress(g)
       /\ InProgress(Me.fn)
       /\ ~(\E i \in 1 .. n - 1 : visitors'[i].fn = Me.fn)
  <2>1. \A g : InProgress(g)' => InProgress(g)
    BY <1>2, <1>6, <1>7 DEF InProgress
  <2>2. InProgress(Me.fn)
    BY <1>2, <1>6 DEF InProgress
  <2> QED BY <1>7, <1>25, <2>1, <2>2
<1>27. HasFunction(Me.fn)
  BY <1>12 DEF HasFunction
<1>28. Nested'
  <2> SUFFICES ASSUME NEW i \in 1 .. n - 1
               PROVE  /\ WorksAt(visitors[i])' /\ RegionsOf(visitors[i])'
                      /\ i > 1 => visitors'[i].saved = Innermost(visitors'[i - 1])
                      /\ ~visitors'[i].discard
    BY <1>7 DEF Nested, Innermost, Last
  <2>1. WorksAt(visitors[i])' /\ RegionsOf(visitors[i])'
    BY <1>2, <1>6, <1>7, <1>9, <1>22, Grown
  <2> QED BY <1>6, <1>7, <1>9, <1>10, <2>1
<1>29. Typing'
  <2>1. \A i \in DOMAIN visitors' : visitors'[i].dict \in DOMAIN dicts'
    BY <1>7, <1>28 DEF Nested, WorksAt
  <2>2. blocks' \in Seq([fn : DOMAIN funcs', around : 0 .. Len(blocks')]) /\ insertion' \in DOMAIN blocks'
    BY <1>1, <1>2, <1>3, <1>11, <1>13, <1>21
  <2>3. TypeOK'
    BY <1>1, <1>2, <1>7, <1>21, <2>1, <2>2 DEF Typing, TypeOK, Names, Results
  <2> QED BY <1>1, <1>2, <1>7, <1>18, <1>20, <2>3 DEF Typing
<1>30. InsertionFollows'
  BY <1>1, <1>8, <1>11 DEF InsertionFollows, Innermost, Last
<1>31. Apart'
  BY <1>2, <1>6, <1>7 DEF IInv, Apart
<1>32. Recorded'
  <2>1. ASSUME NEW d \in 1 .. Len(dicts'), NEW g \in DOMAIN dicts'[d]
        PROVE  /\ HasFunction(g)' /\ ~InProgress(g)'
               /\ \A j \in DOMAIN funcs' : funcs'[j].name = g => dicts'[d][g] = funcs'[j].rets
    <3>1. CASE g \in DOMAIN dicts[d] /\ dicts'[d][g] = dicts[d][g]
      <4>1. /\ HasFunction(g) /\ ~InProgress(g)
            /\ \A j \in DOMAIN funcs : funcs[j].name = g => dicts[d][g] = funcs[j].rets
        BY <1>20, <3>1 DEF IInv, Recorded
      <4>2. g # Me.fn
        BY <1>26, <4>1
      <4>3. \A j \in DOMAIN funcs : funcs[j].name = g => j # own
        BY <1>12, <4>2
      <4> QED BY <1>21, <1>24, <1>26, <3>1, <4>1, <4>3
    <3>2. CASE g = Me.fn /\ d = c
      <4>1. HasFunction(g)'
        BY <1>24, <1>27, <3>2
      <4>2. ~InProgress(g)'
        BY <1>7, <1>26, <3>2 DEF InProgress
      <4>3. \A j \in DOMAIN funcs' : funcs'[j].name = g => dicts'[d][g] = funcs'[j].rets
        BY <1>17, <1>20, <1>21, <1>23, <3>2
      <4> QED BY <4>1, <4>2, <4>3
    <3>3. \/ g \in DOMAIN dicts[d] /\ dicts'[d][g] = dicts[d][g]
          \/ g = Me.fn /\ d = c
      BY <1>17, <1>20
    <3> QED BY <3>1, <3>2, <3>3
  <2>2. ASSUME NEW i \in 1 .. Len(ops'), ops'[i].op = "call"
        PROVE  (HasFunction(ops[i].fn) /\ ~InProgress(ops[i].fn))'
    <3>1. \A g : HasFunction(g) /\ ~InProgress(g) => HasFunction(g)' /\ ~InProgress(g)'
      BY <1>24, <1>26
    <3>2. CASE i \in 1 .. Len(ops) /\ ops'[i] = ops[i]
      <4>1. HasFunction(ops[i].fn) /\ ~InProgress(ops[i].fn)
        BY <2>2, <3>2 DEF IInv, Recorded
      <4>2. \A g : HasFunction(g) /\ ~InProgress(g) =>
                     (\E j \in DOMAIN funcs' : funcs'[j].name = g) /\ ~(\E j \in 1 .. Len(visitors') : visitors'[j].fn = g)
        BY <3>1 DEF HasFunction, InProgress
      <4>3. /\ \E j \in DOMAIN funcs' : funcs'[j].name = ops'[i].fn
            /\ ~(\E j \in 1 .. Len(visitors') : visitors'[j].fn = ops'[i].fn)
        BY <3>2, <4>1, <4>2
      <4> QED BY <4>3 DEF HasFunction, InProgress
    <3>3. CASE ops'[i] = op
      <4>1. ops'[i].fn = Me.fn
        BY <1>14, <3>3
      <4>2. \E j \in DOMAIN funcs' : funcs'[j].name = ops'[i].fn
        BY <1>12, <1>21, <4>1
      <4>3. ~(\E k \in 1 .. Len(visitors') : visitors'[k].fn = ops'[i].fn)
        BY <1>7, <1>26, <4>1
      <4> QED BY <4>2, <4>3 DEF HasFunction, InProgress
    <3> QED BY <1>19, <3>2, <3>3
  <2> QED BY <2>1, <2>2 DEF Recorded
<1>33. Returned'
  <2> SUFFICES ASSUME NEW i \in 1 .. Len(ops')
               PROVE  /\ ops'[i].at \in DOMAIN blocks
                      /\ ops'[i].op = "return" => \A k \in 1 .. n - 1 : visitors'[k].entry # ops'[i].at
    BY <1>1, <1>7 DEF Returned
  <2>1. CASE i \in 1 .. Len(ops) /\ ops'[i] = ops[i]
    BY <1>2, <1>6, <1>7, <1>10, <2>1 DEF IInv, Returned
  <2>2. CASE ops'[i] = op
    BY <1>2, <1>11, <1>13, <1>14, <2>2
  <2> QED BY <1>19, <2>1, <2>2
<1>34. GeneratedOnce'
  BY <1>21 DEF IInv, GeneratedOnce
<1>35. ResultsAsDeclared'
  <2>1. DOMAIN ops' = 1 .. Len(ops')
    BY <1>18
  <2> SUFFICES ASSUME NEW i \in 1 .. Len(ops'), ops'[i].op = "call", NEW j \in DOMAIN funcs, funcs[j].name = ops'[i].fn
               PROVE  ops'[i].rets = funcs'[j].rets
    BY <1>21, <2>1 DEF ResultsAsDeclared
  <2>2. CASE i \in 1 .. Len(ops) /\ ops'[i] = ops[i]
    <3>1. ops[i].rets = funcs[j].rets /\ ~InProgress(ops[i].fn)
      BY <1>3, <2>2 DEF IInv, ResultsAsDeclared, Recorded
    <3>2. ops[i].fn # Me.fn
      BY <1>26, <3>1
    <3> QED BY <1>12, <1>21, <2>2, <3>1, <3>2
  <2>3. CASE ops'[i] = op
    BY <1>14, <1>21, <1>23, <2>3
  <2> QED BY <1>19, <2>2, <2>3
<1> QED BY <1>18, <1>28, <1>29, <1>30, <1>31, <1>32, <1>33, <1>34, <1>35 DEF IInv

-----------------------------------------------------------------------------
(* The specification.                                                      *)

LEMMA StepInv == IInv /\ [Next]_vars => IInv'
<1> SUFFICES ASSUME IInv, [Next]_vars PROVE IInv'
  OBVIOUS
<1>1. CASE OpenRegion
  BY <1>1, OpenRegionPreserves
<1>2. CASE CloseRegion
  BY <1>2, CloseRegionPreserves
<1>3. CASE EndFunction
  BY <1>3, EndFunctionPreserves
<1>4. CASE EndKernel
  BY <1>4, EndPreserves DEF EndKernel, End
<1>5. ASSUME NEW g \in Functions \cup {Kernel}, CallUnrecorded(g)
      PROVE  IInv'
  BY <1>5, EndPreserves DEF CallUnrecorded, End
<1>6. ASSUME NEW g \in Functions \cup {Kernel}, NEW s \in Specs, CallKnown(g, s) \/ CallNew(g, s)
      PROVE  IInv'
  BY <1>6, CallKnownPreserves, CallNewPreserves DEF Names
<1>7. ASSUME NEW r \in Types \cup {NoValue}, Return(r)
      PROVE  IInv'
  BY <1>7, ReturnPreserves DEF Results
<1>8. ASSUME NEW m \in Masks, SelectFirst(m) \/ SelectAgain(m)
      PROVE  IInv'
  BY <1>8, SelectPreserves
<1>9. CASE UNCHANGED vars
  BY <1>9, EndPreserves DEF vars
<1> QED BY <1>1, <1>2, <1>3, <1>4, <1>5, <1>6, <1>7, <1>8, <1>9 DEF Next

\* How visitors hang together holds throughout the generation of a module.
THEOREM Invariance == Spec => []IInv
<1>1. Init => IInv
  BY InitInv
<1>2. IInv /\ [Next]_vars => IInv'
  BY StepInv
<1> QED BY <1>1, <1>2, PTL DEF Spec

\* Whatever calls what, and however regions and visitors are nested: every
\* function is in the module once, and every return is the last operation of
\* its function's entry block.
THEOREM ModuleAccepted == Spec => []ModuleWellFormed
<1>1. IInv => ModuleWellFormed
  BY DEF IInv, Typing, ModuleWellFormed
<1> QED BY <1>1, Invariance, PTL

\* The one builder stands where the visitor at work does.
THEOREM BuilderFollows == Spec => []InsertionFollows
<1>1. IInv => InsertionFollows
  BY DEF IInv
<1> QED BY <1>1, Invariance, PTL

\* Every call has the result types its callee has got, although the callee's
\* type is set elsewhere and the dictionaries are shared by reference.
THEOREM CallsMatchCallees == Spec => []ResultsAsDeclared
<1>1. IInv => ResultsAsDeclared
  BY DEF IInv
<1> QED BY <1>1, Invariance, PTL

=============================================================================
