------------------------ MODULE KernelLaunch_proofs ------------------------
(***************************************************************************)
(* Proofs about KernelLaunch, for any sets of arrays, buffers, binaries    *)
(* and streams: type correctness, that each argument owns its buffer, that *)
(* a run which returns leaves nothing behind, and, when the program uses   *)
(* no stream but the current one, that no kernel ever loses its memory and *)
(* that what it writes into arrays without gaps comes back.                *)
(***************************************************************************)
EXTENDS KernelLaunch, TLAPS

\* The steps after the copies to the device, and those after the wait.
Copied == {"launch", "sync", "copyback", "release", "unregister", "freeall",
           "return"}

Waited == {"copyback", "release", "unregister", "freeall", "return"}

\* How far the handles of the arguments have got at each step.
LocalInv ==
  /\ pc \in {"idle", "register", "function"} => handles = <<>>
  /\ pc = "idle" => args = <<>>
  /\ pc = "malloc" => Len(handles) < Len(args)
  /\ pc = "copyin" => Len(handles) \in 1 .. Len(args)
  /\ pc \in Copied => Len(handles) = Len(args)
  /\ pc \notin Waited => at = 1
  /\ pc \in {"function", "malloc", "copyin", "launch", "sync"} =>
       binary \in kernels

\* free_mem empties one dictionary after the other.
FreedInv ==
  /\ pc \in {"freeall", "return"} => kernels = {}
  /\ pc = "return" => allocs = {}

IInv ==
  /\ TypeOK
  /\ LocalInv
  /\ OwnBuffersHeld
  /\ FreedInv

\* Past the wait the current stream is empty.
Drained == pc \in Waited => queue[Current] = <<>>

QInv ==
  /\ Drained
  /\ KernelOnLiveMemory

-----------------------------------------------------------------------------
(* Sequences. *)

\* Bounded sequences are sequences.
LEMMA BoundedIsSeq ==
  ASSUME NEW S, NEW n \in Nat, NEW q \in BoundedSeq(S, n)
  PROVE  q \in Seq(S) /\ Len(q) <= n
<1>1. PICK m \in 0 .. n : q \in [1 .. m -> S]
  BY DEF BoundedSeq, SeqOf
<1>2. q \in Seq(S) /\ Len(q) = m
  BY <1>1
<1> QED
  BY <1>1, <1>2

\* The elements of a sequence after one more is appended.
LEMMA AppendAt ==
  ASSUME NEW S, NEW q \in Seq(S), NEW x \in S
  PROVE  /\ Append(q, x) \in Seq(S)
         /\ Len(Append(q, x)) = Len(q) + 1
         /\ \A i \in 1 .. Len(q) : Append(q, x)[i] = q[i]
         /\ Append(q, x)[Len(q) + 1] = x
OBVIOUS

\* The elements of a queue after its first is taken away.
LEMMA TailAt ==
  ASSUME NEW S, NEW q \in Seq(S), q # <<>>
  PROVE  /\ Tail(q) \in Seq(S)
         /\ Head(q) \in S
         /\ Len(q) \in Nat \ {0}
         /\ Len(Tail(q)) = Len(q) - 1
         /\ \A i \in 1 .. Len(Tail(q)) : Tail(q)[i] = q[i + 1]
OBVIOUS

\* An index that is not the last has a successor.
LEMMA NextIndex ==
  ASSUME NEW n \in Nat, NEW i \in 1 .. n, i # n
  PROVE  i + 1 \in 1 .. n
OBVIOUS

\* The empty sequence belongs to every type of sequence.
LEMMA EmptySeq ==
  ASSUME NEW S
  PROVE  <<>> \in Seq(S) /\ Len(<<>>) = 0 /\ DOMAIN <<>> = {}
OBVIOUS

\* A function on 1 .. n is a sequence of length n.
LEMMA FunctionIsSeq ==
  ASSUME NEW S, NEW n \in Nat, NEW f \in [1 .. n -> S]
  PROVE  f \in Seq(S) /\ Len(f) = n
OBVIOUS

\* What the caller or a kernel puts into a cell is a value.
LEMMA ValueType ==
  /\ \A c \in Cells : Given(c) \in Values
  /\ \A k \in Positions, i \in Cells : Written(k, i) \in Values
BY DEF Values

\* An argument is a sequence of at most NCells cells.
LEMMA ArgType ==
  ASSUME TypeOK, NEW k \in 1 .. Len(args)
  PROVE  /\ args[k] \in Seq(Cells)
         /\ Len(args[k]) \in Nat
         /\ Len(args[k]) <= NCells
         /\ DOMAIN args[k] = 1 .. Len(args[k])
         /\ \A i \in 1 .. Len(args[k]) : args[k][i] \in Cells
<1>1. args[k] \in Layouts
  BY DEF TypeOK
<1>2. args[k] \in Seq(Cells) /\ Len(args[k]) <= NCells
  BY <1>1, LaunchAssumption
<1> QED
  BY <1>2

\* When a run is over its variables have the types they had at first.
LEMMA LeaveType ==
  ASSUME TypeOK, Leave, UNCHANGED memory, queue' = queue, kernels' = kernels,
         allocs' \subseteq allocs
  PROVE  TypeOK'
<1>1. /\ host' \in [Cells -> Values]
      /\ dev' \in [Buffers -> Seq(Values)]
      /\ \A b \in Buffers : Len(dev'[b]) <= NCells
      /\ allocs' \in SUBSET Buffers
      /\ kernels' \in SUBSET Binaries
      /\ queue' \in [Streams -> Seq([binary : Binaries, bufs : Seq(Buffers),
                                     outs : SUBSET Positions])]
  BY DEF TypeOK, memory
<1>2. /\ args' \in Seq(Layouts) /\ Len(args') <= MaxArgs
      /\ outs' \in SUBSET DOMAIN args'
      /\ handles' \in Seq(Buffers) /\ Len(handles') <= Len(args')
  BY EmptySeq, LaunchAssumption DEF Leave
<1>3. /\ pc' \in Steps /\ pc' \notin {"copyback", "release"}
      /\ stream' \in Streams
      /\ binary' \in Binaries \cup {NoBinary}
      /\ at' \in Nat
      /\ raising' \in BOOLEAN
  BY LaunchAssumption DEF Leave, Steps
<1> QED
  BY <1>1, <1>2, <1>3 DEF TypeOK

-----------------------------------------------------------------------------
(* Type correctness, handles and leaks. *)

\* At first nothing is held and nothing runs.
LEMMA InitInv == Init => IInv
<1>1. SUFFICES ASSUME Init PROVE IInv
  OBVIOUS
<1>2. \A c \in Cells : Given(c) \in Values
  BY ValueType
<1>3. TypeOK
  <2>1. /\ host \in [Cells -> Values]
        /\ allocs \in SUBSET Buffers
        /\ kernels \in SUBSET Binaries
    BY <1>1, <1>2 DEF Init
  <2>2. /\ dev \in [Buffers -> Seq(Values)]
        /\ \A b \in Buffers : Len(dev[b]) <= NCells
        /\ queue \in [Streams -> Seq([binary : Binaries, bufs : Seq(Buffers),
                                      outs : SUBSET Positions])]
    BY <1>1, EmptySeq, LaunchAssumption DEF Init
  <2>3. /\ args \in Seq(Layouts) /\ Len(args) <= MaxArgs
        /\ outs \in SUBSET DOMAIN args
        /\ handles \in Seq(Buffers) /\ Len(handles) <= Len(args)
    BY <1>1, EmptySeq, LaunchAssumption DEF Init
  <2>4. /\ pc \in Steps /\ pc \notin {"copyback", "release"}
        /\ stream \in Streams
        /\ binary \in Binaries \cup {NoBinary}
        /\ at \in Nat
        /\ raising \in BOOLEAN
    BY <1>1, LaunchAssumption DEF Init, Steps
  <2> QED
    BY <2>1, <2>2, <2>3, <2>4 DEF TypeOK
<1>4. LocalInv /\ OwnBuffersHeld /\ FreedInv
  BY <1>1 DEF Init, LocalInv, OwnBuffersHeld, FreedInv, Copied, Waited
<1> QED
  BY <1>3, <1>4 DEF IInv

\* The arguments of a new run are arrays of the program.
LEMMA RunPreserves ==
  ASSUME IInv, NEW a \in ArgLists, NEW s \in Streams,
         NEW o \in SUBSET DOMAIN a, Run(a, o, s)
  PROVE  IInv'
<1> USE DEF Run, Goto, memory, driver, run, locals
<1>1. TypeOK'
  <2>1. a \in Seq(Layouts) /\ Len(a) <= MaxArgs
    BY BoundedIsSeq, LaunchAssumption DEF ArgLists
  <2>2. host' \in [Cells -> Values]
    BY ValueType
  <2>3. handles = <<>> /\ Len(handles') <= Len(a)
    BY <2>1, EmptySeq DEF IInv, LocalInv
  <2>4. pc' \in Steps /\ pc' \notin {"copyback", "release"}
    BY DEF Steps
  <2> QED
    BY <2>1, <2>2, <2>3, <2>4 DEF IInv, TypeOK
<1>2. LocalInv'
  BY DEF IInv, TypeOK, LocalInv, Copied, Waited
<1>3. OwnBuffersHeld'
  BY DEF IInv, TypeOK, LocalInv, OwnBuffersHeld, Copied, Waited
<1>4. FreedInv'
  BY DEF IInv, TypeOK, FreedInv, Steps
<1> QED
  BY <1>1, <1>2, <1>3, <1>4 DEF IInv

\* The binary is not among those registered.
LEMMA RegisterPreserves ==
  ASSUME IInv, Register
  PROVE  IInv'
<1> USE DEF Register, Goto, memory, driver, run, locals
<1>1. TypeOK'
  BY DEF IInv, TypeOK, LocalInv, Steps, Copied, Waited
<1>2. LocalInv'
  BY DEF IInv, TypeOK, LocalInv, Copied, Waited
<1>3. OwnBuffersHeld'
  BY DEF IInv, TypeOK, LocalInv, OwnBuffersHeld, Copied, Waited
<1>4. FreedInv'
  BY DEF IInv, TypeOK, FreedInv, Steps
<1> QED
  BY <1>1, <1>2, <1>3, <1>4 DEF IInv

\* No buffer has been asked for.
LEMMA RegisterFunctionPreserves ==
  ASSUME IInv, RegisterFunction
  PROVE  IInv'
<1> USE DEF RegisterFunction, Goto, memory, driver, run, locals
<1>1. TypeOK'
  BY DEF IInv, TypeOK, LocalInv, Steps, Copied, Waited
<1>2. LocalInv'
  BY DEF IInv, TypeOK, LocalInv, Copied, Waited
<1>3. OwnBuffersHeld'
  BY DEF IInv, TypeOK, LocalInv, OwnBuffersHeld, Copied, Waited
<1>4. FreedInv'
  BY DEF IInv, TypeOK, FreedInv, Steps
<1> QED
  BY <1>1, <1>2, <1>3, <1>4 DEF IInv

\* The new buffer is none of those held.
LEMMA MallocPreserves ==
  ASSUME IInv, Malloc
  PROVE  IInv'
<1> USE DEF Malloc, Goto, memory, driver, run, locals
<1>0. PICK b \in Buffers \ allocs :
        /\ allocs' = allocs \cup {b}
        /\ handles' = Append(handles, b)
  OBVIOUS
<1>5. /\ Append(handles, b) \in Seq(Buffers)
      /\ Len(Append(handles, b)) = Len(handles) + 1
      /\ \A i \in 1 .. Len(handles) : Append(handles, b)[i] = handles[i]
      /\ Append(handles, b)[Len(handles) + 1] = b
  BY AppendAt DEF IInv, TypeOK
<1>1. TypeOK'
  <2>1. allocs' \in SUBSET Buffers
    BY <1>0 DEF IInv, TypeOK
  <2>2. handles' \in Seq(Buffers) /\ Len(handles') <= Len(args)
    BY <1>0, <1>5 DEF IInv, TypeOK, LocalInv
  <2>3. pc' \in Steps /\ pc' \notin {"copyback", "release"}
    BY DEF Steps
  <2> QED
    BY <2>1, <2>2, <2>3 DEF IInv, TypeOK
<1>2. LocalInv'
  BY <1>0, <1>5 DEF IInv, TypeOK, LocalInv, Copied, Waited
<1>3. OwnBuffersHeld'
  BY <1>0, <1>5 DEF IInv, TypeOK, LocalInv, OwnBuffersHeld, Copied, Waited
<1>4. FreedInv'
  BY DEF IInv, TypeOK, FreedInv, Steps
<1> QED
  BY <1>1, <1>2, <1>3, <1>4 DEF IInv

\* The buffer takes the array's elements.
LEMMA CopyInPreserves ==
  ASSUME IInv, CopyIn
  PROVE  IInv'
<1> USE DEF CopyIn, Goto, memory, driver, run, locals
<1>1. TypeOK'
  <2> DEFINE k == Len(handles)
             e == [i \in DOMAIN args[k] |-> host[args[k][i]]]
  <2>1. k \in 1 .. Len(args) /\ handles[k] \in Buffers
    BY DEF IInv, TypeOK, LocalInv
  <2>2. e \in Seq(Values) /\ Len(e) <= NCells
    <3>1. e \in [1 .. Len(args[k]) -> Values]
      BY <2>1, ArgType DEF IInv, TypeOK
    <3>2. Len(args[k]) \in Nat /\ Len(args[k]) <= NCells
      BY <2>1, ArgType DEF IInv
    <3> HIDE DEF e, k
    <3> QED
      BY <3>1, <3>2, FunctionIsSeq
  <2>3. dev' = [dev EXCEPT ![handles[k]] = e]
    OBVIOUS
  <2> HIDE DEF e, k
  <2>4. dev \in [Buffers -> Seq(Values)] /\ \A b \in Buffers : Len(dev[b]) <= NCells
    BY DEF IInv, TypeOK
  <2>5. dev' \in [Buffers -> Seq(Values)] /\ \A b \in Buffers : Len(dev'[b]) <= NCells
    BY <2>1, <2>2, <2>3, <2>4
  <2> QED
    BY <2>5 DEF IInv, TypeOK, Steps
<1>2. LocalInv'
  BY DEF IInv, TypeOK, LocalInv, Copied, Waited
<1>3. OwnBuffersHeld'
  BY DEF IInv, TypeOK, LocalInv, OwnBuffersHeld, Copied, Waited
<1>4. FreedInv'
  BY DEF IInv, TypeOK, FreedInv, Steps
<1> QED
  BY <1>1, <1>2, <1>3, <1>4 DEF IInv

\* The kernel is given the buffers of the arguments.
LEMMA LaunchKernelPreserves ==
  ASSUME IInv, LaunchKernel
  PROVE  IInv'
<1> USE DEF LaunchKernel, Goto, memory, driver, run, locals
<1>1. TypeOK'
  <2> DEFINE R == [binary : Binaries, bufs : Seq(Buffers), outs : SUBSET Positions]
             r == [binary |-> binary, bufs |-> handles, outs |-> outs]
  <2>1. r \in R
    <3>1. binary \in Binaries /\ handles \in Seq(Buffers)
      BY DEF IInv, TypeOK, LocalInv
    <3>2. outs \subseteq Positions
      BY LaunchAssumption DEF IInv, TypeOK, Positions
    <3> QED
      BY <3>1, <3>2
  <2>2. Append(queue[stream], r) \in Seq(R)
    BY <2>1, AppendAt DEF IInv, TypeOK
  <2>3. queue' \in [Streams -> Seq(R)]
    BY <2>2 DEF IInv, TypeOK
  <2> HIDE DEF R, r
  <2> QED
    BY <2>3 DEF IInv, TypeOK, Steps, R
<1>2. LocalInv'
  BY DEF IInv, TypeOK, LocalInv, Copied, Waited
<1>3. OwnBuffersHeld'
  BY DEF IInv, TypeOK, LocalInv, OwnBuffersHeld, Copied, Waited
<1>4. FreedInv'
  BY DEF IInv, TypeOK, FreedInv, Steps
<1> QED
  BY <1>1, <1>2, <1>3, <1>4 DEF IInv

\* The wait changes nothing.
LEMMA SynchronizePreserves ==
  ASSUME IInv, Synchronize
  PROVE  IInv'
<1> USE DEF Synchronize, Goto, memory, driver, run, locals
<1>1. TypeOK'
  <2>1. pc' \in Steps
    BY DEF Steps
  <2>2. pc' \in {"copyback", "release"} => at \in DOMAIN handles
    <3>1. at = 1 /\ Len(handles) = Len(args)
      BY DEF IInv, LocalInv, Copied, Waited
    <3>2. args # <<>> => Len(args) \in Nat \ {0}
      BY DEF IInv, TypeOK
    <3>3. DOMAIN handles = 1 .. Len(handles)
      BY DEF IInv, TypeOK
    <3> QED
      BY <3>1, <3>2, <3>3
  <2> QED
    BY <2>1, <2>2 DEF IInv, TypeOK
<1>2. LocalInv'
  BY DEF IInv, TypeOK, LocalInv, Copied, Waited
<1>3. OwnBuffersHeld'
  BY DEF IInv, TypeOK, LocalInv, OwnBuffersHeld, Copied, Waited
<1>4. FreedInv'
  BY DEF IInv, TypeOK, FreedInv, Steps
<1> QED
  BY <1>1, <1>2, <1>3, <1>4 DEF IInv

\* Host memory takes the buffer's elements.
LEMMA CopyBackPreserves ==
  ASSUME IInv, CopyBack
  PROVE  IInv'
<1> USE DEF CopyBack, Goto, memory, driver, run, locals
<1>1. TypeOK'
  <2>1. handles[at] \in Buffers
    BY DEF IInv, TypeOK
  <2>2. \A c \in Cells, j \in DOMAIN dev[handles[at]] :
          dev[handles[at]][j] \in Values
    BY <2>1 DEF IInv, TypeOK
  <2>3. host' \in [Cells -> Values]
    BY <2>2 DEF IInv, TypeOK
  <2> QED
    BY <2>3 DEF IInv, TypeOK, Steps
<1>2. LocalInv'
  BY DEF IInv, TypeOK, LocalInv, Copied, Waited
<1>3. OwnBuffersHeld'
  BY DEF IInv, TypeOK, LocalInv, OwnBuffersHeld, Copied, Waited
<1>4. FreedInv'
  BY DEF IInv, TypeOK, FreedInv, Steps
<1> QED
  BY <1>1, <1>2, <1>3, <1>4 DEF IInv

\* The exception leaves the buffers alone.
LEMMA CopyBackRaisesPreserves ==
  ASSUME IInv, CopyBackRaises
  PROVE  IInv'
<1> USE DEF CopyBackRaises, Goto, memory, driver, run, locals
<1>1. TypeOK'
  BY DEF IInv, TypeOK, LocalInv, Steps, Copied, Waited
<1>2. LocalInv'
  BY DEF IInv, TypeOK, LocalInv, Copied, Waited
<1>3. OwnBuffersHeld'
  BY DEF IInv, TypeOK, LocalInv, OwnBuffersHeld, Copied, Waited
<1>4. FreedInv'
  BY DEF IInv, TypeOK, FreedInv, Steps
<1> QED
  BY <1>1, <1>2, <1>3, <1>4 DEF IInv

\* The buffers of the later arguments are other ones.
LEMMA ReleasePreserves ==
  ASSUME IInv, Release
  PROVE  IInv'
<1> USE DEF Release, Goto, memory, driver, run, locals, Leave
<1>1. TypeOK'
  <2>1. CASE raising
    BY <2>1, LeaveType DEF IInv
  <2>2. CASE ~raising
    <3>1. allocs' \in SUBSET Buffers /\ pc' \in Steps
      BY <2>2 DEF IInv, TypeOK, Steps
    <3>2. /\ at' \in Nat
          /\ pc' \in {"copyback", "release"} => at' \in DOMAIN handles
      <4>1. /\ at \in 1 .. Len(handles)
            /\ Len(handles) \in Nat
            /\ DOMAIN handles = 1 .. Len(handles)
        BY DEF IInv, TypeOK
      <4>2. Len(handles) = Len(args)
        BY DEF IInv, LocalInv, Copied
      <4>3. at' = at + 1 /\ (at = Len(args) => pc' = "unregister")
        BY <2>2
      <4>4. CASE at = Len(args)
        BY <4>1, <4>3, <4>4
      <4>5. CASE at # Len(args)
        <5>1. at + 1 \in 1 .. Len(handles)
          BY <4>1, <4>2, <4>5, NextIndex
        <5> QED
          BY <4>1, <4>3, <5>1
      <4> QED
        BY <4>4, <4>5
    <3> QED
      BY <2>2, <3>1, <3>2 DEF IInv, TypeOK
  <2> QED
    BY <2>1, <2>2
<1>2. LocalInv'
  BY DEF IInv, TypeOK, LocalInv, Copied, Waited
<1>3. OwnBuffersHeld'
  <2>1. CASE raising
    BY <2>1, EmptySeq DEF OwnBuffersHeld
  <2>2. CASE ~raising
    <3>1. /\ at \in 1 .. Len(handles)
          /\ Len(handles) \in Nat
          /\ handles \in Seq(Buffers)
      BY DEF IInv, TypeOK
    <3>2. \A i \in at .. Len(handles) :
            /\ handles[i] \in allocs
            /\ \A j \in (i + 1) .. Len(handles) : handles[i] # handles[j]
      BY DEF IInv, OwnBuffersHeld
    <3>3. \A i \in (at + 1) .. Len(handles) : handles[i] \in allocs'
      <4>1. \A j \in (at + 1) .. Len(handles) : handles[at] # handles[j]
        BY <3>1, <3>2
      <4>2. \A j \in (at + 1) .. Len(handles) : j \in at .. Len(handles)
        BY <3>1
      <4> QED
        BY <3>2, <4>1, <4>2
    <3>4. \A i \in (at + 1) .. Len(handles) :
            \A j \in (i + 1) .. Len(handles) : handles[i] # handles[j]
      BY <3>1, <3>2
    <3> QED
      BY <2>2, <3>3, <3>4 DEF OwnBuffersHeld
  <2> QED
    BY <2>1, <2>2
<1>4. FreedInv'
  BY DEF IInv, TypeOK, FreedInv, Steps
<1> QED
  BY <1>1, <1>2, <1>3, <1>4 DEF IInv

\* Only the dictionary of binaries shrinks.
LEMMA UnregisterPreserves ==
  ASSUME IInv, Unregister
  PROVE  IInv'
<1> USE DEF Unregister, Goto, memory, driver, run, locals
<1>1. TypeOK'
  BY DEF IInv, TypeOK, LocalInv, Steps, Copied, Waited
<1>2. LocalInv'
  BY DEF IInv, TypeOK, LocalInv, Copied, Waited
<1>3. OwnBuffersHeld'
  BY DEF IInv, TypeOK, LocalInv, OwnBuffersHeld, Copied, Waited
<1>4. FreedInv'
  BY DEF IInv, TypeOK, FreedInv, Steps
<1> QED
  BY <1>1, <1>2, <1>3, <1>4 DEF IInv

\* Only the dictionary of buffers shrinks.
LEMMA FreeAllPreserves ==
  ASSUME IInv, FreeAll
  PROVE  IInv'
<1> USE DEF FreeAll, Goto, memory, driver, run, locals
<1>1. TypeOK'
  BY DEF IInv, TypeOK, LocalInv, Steps, Copied, Waited
<1>2. LocalInv'
  BY DEF IInv, TypeOK, LocalInv, Copied, Waited
<1>3. OwnBuffersHeld'
  BY DEF IInv, TypeOK, LocalInv, OwnBuffersHeld, Copied, Waited
<1>4. FreedInv'
  BY DEF IInv, TypeOK, FreedInv, Steps
<1> QED
  BY <1>1, <1>2, <1>3, <1>4 DEF IInv

\* A finished run leaves no local variable.
LEMMA ReturnPreserves ==
  ASSUME IInv, Return
  PROVE  IInv'
<1> USE DEF Return, Goto, memory, driver, run, locals, Leave
<1>1. TypeOK'
  BY LeaveType DEF IInv
<1>2. LocalInv'
  BY DEF IInv, TypeOK, LocalInv, Copied, Waited
<1>3. OwnBuffersHeld'
  BY DEF IInv, TypeOK, LocalInv, OwnBuffersHeld, Copied, Waited
<1>4. FreedInv'
  BY DEF IInv, TypeOK, FreedInv, Steps
<1> QED
  BY <1>1, <1>2, <1>3, <1>4 DEF IInv

\* A failed run leaves no local variable.
LEMMA FailPreserves ==
  ASSUME IInv, Fail
  PROVE  IInv'
<1> USE DEF Fail, Goto, memory, driver, run, locals, Leave, Fallible
<1>1. TypeOK'
  BY LeaveType DEF IInv
<1>2. LocalInv'
  BY DEF IInv, TypeOK, LocalInv, Copied, Waited
<1>3. OwnBuffersHeld'
  BY DEF IInv, TypeOK, LocalInv, OwnBuffersHeld, Copied, Waited
<1>4. FreedInv'
  BY DEF IInv, TypeOK, FreedInv, Steps
<1> QED
  BY <1>1, <1>2, <1>3, <1>4 DEF IInv

\* A refused run leaves no local variable.
LEMMA RefusePreserves ==
  ASSUME IInv, Refuse
  PROVE  IInv'
<1> USE DEF Refuse, Goto, memory, driver, run, locals, Leave, Exhausted
<1>1. TypeOK'
  BY LeaveType DEF IInv
<1>2. LocalInv'
  BY DEF IInv, TypeOK, LocalInv, Copied, Waited
<1>3. OwnBuffersHeld'
  BY DEF IInv, TypeOK, LocalInv, OwnBuffersHeld, Copied, Waited
<1>4. FreedInv'
  BY DEF IInv, TypeOK, FreedInv, Steps
<1> QED
  BY <1>1, <1>2, <1>3, <1>4 DEF IInv

\* A kernel writes elements and changes no length.
LEMMA ExecutePreserves ==
  ASSUME IInv, NEW s \in Streams, Execute(s)
  PROVE  IInv'
<1> USE DEF Execute, Goto, memory, driver, run, locals
<1>1. TypeOK'
  <2>1. PICK k \in [binary : Binaries, bufs : Seq(Buffers), outs : SUBSET Positions] :
          /\ k = Head(queue[s])
          /\ dev' = [b \in Buffers |->
                       IF {p \in k.outs : k.bufs[p] = b} = {}
                         THEN dev[b]
                         ELSE [i \in DOMAIN dev[b] |->
                                 Written(CHOOSE p \in {p \in k.outs : k.bufs[p] = b} : TRUE, i)]]
    <3>1. queue[s] \in Seq([binary : Binaries, bufs : Seq(Buffers), outs : SUBSET Positions]) /\ queue[s] # <<>>
      BY DEF IInv, TypeOK
    <3>2. Head(queue[s]) \in [binary : Binaries, bufs : Seq(Buffers), outs : SUBSET Positions]
      BY <3>1, TailAt
    <3> QED
      BY <3>2
  <2>2. ASSUME NEW b \in Buffers
        PROVE  dev'[b] \in Seq(Values) /\ Len(dev'[b]) <= NCells
    <3> DEFINE P == {p \in k.outs : k.bufs[p] = b}
               w == [i \in DOMAIN dev[b] |-> Written(CHOOSE p \in P : TRUE, i)]
    <3>1. dev[b] \in Seq(Values) /\ Len(dev[b]) <= NCells
      BY DEF IInv, TypeOK
    <3>2. CASE P = {}
      BY <2>1, <3>1, <3>2
    <3>3. CASE P # {}
      <4>1. (CHOOSE p \in P : TRUE) \in Positions
        BY <3>3
      <4>2. DOMAIN dev[b] = 1 .. Len(dev[b]) /\ Len(dev[b]) \in Nat
        BY <3>1
      <4>3. \A i \in 1 .. Len(dev[b]) : i \in Cells
        BY <3>1, <4>2, LaunchAssumption DEF Cells
      <4>4. w \in [1 .. Len(dev[b]) -> Values]
        BY <4>1, <4>2, <4>3, ValueType
      <4>5. w \in Seq(Values) /\ Len(w) = Len(dev[b])
        BY <4>2, <4>4
      <4>6. dev'[b] = w
        BY <2>1, <3>3
      <4> HIDE DEF w
      <4> QED
        BY <3>1, <4>5, <4>6
    <3> QED
      BY <3>2, <3>3
  <2>3. dev' = [b \in Buffers |-> dev'[b]]
    BY <2>1
  <2>4. queue' \in [Streams -> Seq([binary : Binaries, bufs : Seq(Buffers),
                                    outs : SUBSET Positions])]
    BY TailAt DEF IInv, TypeOK
  <2> QED
    BY <2>2, <2>3, <2>4 DEF IInv, TypeOK
<1>2. LocalInv'
  BY DEF IInv, TypeOK, LocalInv, Copied, Waited
<1>3. OwnBuffersHeld'
  BY DEF IInv, TypeOK, LocalInv, OwnBuffersHeld, Copied, Waited
<1>4. FreedInv'
  BY DEF IInv, TypeOK, FreedInv, Steps
<1> QED
  BY <1>1, <1>2, <1>3, <1>4 DEF IInv

\* Every step of the launcher, the driver and the device keeps the invariant.
LEMMA NextPreserves == IInv /\ [Next]_vars => IInv'
<1>1. SUFFICES ASSUME IInv, [Next]_vars PROVE IInv'
  OBVIOUS
<1>2. ASSUME NEW a \in ArgLists, NEW s \in Streams,
             NEW o \in SUBSET DOMAIN a, Run(a, o, s)
      PROVE  IInv'
  BY <1>1, <1>2, RunPreserves
<1>3. CASE Progress
  BY <1>1, <1>3, RegisterPreserves, RegisterFunctionPreserves, MallocPreserves,
     CopyInPreserves, LaunchKernelPreserves, SynchronizePreserves,
     CopyBackPreserves, ReleasePreserves, UnregisterPreserves,
     FreeAllPreserves, ReturnPreserves, RefusePreserves DEF Progress
<1>4. CASE CopyBackRaises \/ Fail
  BY <1>1, <1>4, CopyBackRaisesPreserves, FailPreserves
<1>5. ASSUME NEW s \in Streams, Execute(s)
      PROVE  IInv'
  BY <1>1, <1>5, ExecutePreserves
<1>6. CASE UNCHANGED vars
  <2>1. TypeOK'
    BY <1>1, <1>6 DEF vars, IInv, TypeOK
  <2>2. LocalInv' /\ FreedInv'
    BY <1>1, <1>6 DEF vars, IInv, LocalInv, FreedInv
  <2>3. OwnBuffersHeld'
    BY <1>1, <1>6 DEF vars, IInv, OwnBuffersHeld
  <2> QED
    BY <2>1, <2>2, <2>3 DEF IInv
<1> QED
  BY <1>1, <1>2, <1>3, <1>4, <1>5, <1>6 DEF Next

\* The inductive invariant holds in every reachable state.
THEOREM Invariance == Spec => []IInv
BY InitInv, NextPreserves, PTL DEF Spec

\* Every variable of the launcher, the driver and the device keeps its type.
THEOREM TypeCorrect == Spec => []TypeOK
<1>1. IInv => TypeOK
  BY DEF IInv
<1> QED
  BY <1>1, Invariance, PTL

\* No two arguments of a run share a buffer, and no release meets a handle
\* that is not in state.allocs, on any stream and whatever fails.
THEOREM ArgumentsOwnTheirBuffers == Spec => []OwnBuffersHeld
<1>1. IInv => OwnBuffersHeld
  BY DEF IInv
<1> QED
  BY <1>1, Invariance, PTL

\* A run that returns leaves no buffer and no binary behind.
THEOREM ReturnsWithoutLeaks == Spec => []NothingLeaks
<1>1. IInv => NothingLeaks
  BY DEF IInv, FreedInv, NothingLeaks
<1> QED
  BY <1>1, Invariance, PTL

-----------------------------------------------------------------------------
(* Kernels keep their memory, when there is only the current stream. *)

\* At first no kernel is queued.
LEMMA LiveInit == Init => QInv
BY DEF Init, QInv, Drained, KernelOnLiveMemory, Waited

\* A step that frees nothing and launches nothing keeps kernels alive.
LEMMA GrowthIsLive ==
  ASSUME KernelOnLiveMemory, allocs \subseteq allocs', kernels \subseteq kernels',
         queue' = queue
  PROVE  KernelOnLiveMemory'
BY DEF KernelOnLiveMemory

\* A kernel is launched on buffers that its run holds.
LEMMA LaunchIsLive ==
  ASSUME IInv, KernelOnLiveMemory, LaunchKernel
  PROVE  KernelOnLiveMemory'
<1> DEFINE R == [binary : Binaries, bufs : Seq(Buffers), outs : SUBSET Positions]
           r == [binary |-> binary, bufs |-> handles, outs |-> outs]
           q == queue[stream]
<1>1. stream \in Streams /\ queue \in [Streams -> Seq(R)] /\ q \in Seq(R)
  BY DEF IInv, TypeOK
<1>2. r \in R
  <2>1. binary \in Binaries /\ handles \in Seq(Buffers)
    BY DEF IInv, TypeOK, LocalInv, LaunchKernel, Goto
  <2>2. outs \subseteq Positions
    BY LaunchAssumption DEF IInv, TypeOK, Positions
  <2> QED
    BY <2>1, <2>2
<1>3. /\ Append(q, r) \in Seq(R)
      /\ Len(Append(q, r)) = Len(q) + 1
      /\ \A i \in 1 .. Len(q) : Append(q, r)[i] = q[i]
      /\ Append(q, r)[Len(q) + 1] = r
  <2> HIDE DEF R, r, q
  <2> QED
    BY <1>1, <1>2, AppendAt
<1>4. /\ r.binary \in kernels
      /\ ToSet(r.bufs) \subseteq allocs
  BY DEF IInv, TypeOK, LocalInv, OwnBuffersHeld, LaunchKernel, Goto, ToSet
<1>5. /\ queue' = [queue EXCEPT ![stream] = Append(q, r)]
      /\ allocs' = allocs
      /\ kernels' = kernels
  BY DEF LaunchKernel
<1> HIDE DEF r, q
<1>6. SUFFICES ASSUME NEW s \in Streams, NEW i \in DOMAIN queue'[s]
               PROVE  /\ queue'[s][i].binary \in kernels
                      /\ ToSet(queue'[s][i].bufs) \subseteq allocs
  BY <1>5 DEF KernelOnLiveMemory
<1>7. CASE s # stream
  BY <1>1, <1>5, <1>7 DEF KernelOnLiveMemory
<1>8. CASE s = stream /\ i = Len(q) + 1
  BY <1>1, <1>3, <1>4, <1>5, <1>8
<1>9. CASE s = stream /\ i # Len(q) + 1
  <2>1. i \in 1 .. Len(q) /\ queue'[s][i] = q[i]
    BY <1>1, <1>3, <1>5, <1>9
  <2> QED
    BY <1>1, <1>9, <2>1 DEF KernelOnLiveMemory, q
<1> QED
  BY <1>7, <1>8, <1>9

\* A kernel that completes leaves the others of its stream as they were.
LEMMA ExecuteIsLive ==
  ASSUME IInv, KernelOnLiveMemory, NEW t \in Streams, Execute(t)
  PROVE  KernelOnLiveMemory'
<1> DEFINE R == [binary : Binaries, bufs : Seq(Buffers), outs : SUBSET Positions]
<1>1. queue \in [Streams -> Seq(R)] /\ queue[t] \in Seq(R) /\ queue[t] # <<>>
  BY DEF IInv, TypeOK, Execute
<1>2. /\ Tail(queue[t]) \in Seq(R)
      /\ Len(queue[t]) \in Nat \ {0}
      /\ Len(Tail(queue[t])) = Len(queue[t]) - 1
      /\ \A i \in 1 .. Len(Tail(queue[t])) : Tail(queue[t])[i] = queue[t][i + 1]
  BY <1>1, TailAt
<1>3. /\ queue' = [queue EXCEPT ![t] = Tail(queue[t])]
      /\ allocs' = allocs
      /\ kernels' = kernels
  BY DEF Execute
<1>4. SUFFICES ASSUME NEW s \in Streams, NEW i \in DOMAIN queue'[s]
               PROVE  /\ queue'[s][i].binary \in kernels
                      /\ ToSet(queue'[s][i].bufs) \subseteq allocs
  BY <1>3 DEF KernelOnLiveMemory
<1>5. CASE s # t
  BY <1>1, <1>3, <1>5 DEF KernelOnLiveMemory
<1>6. CASE s = t
  <2>1. i + 1 \in DOMAIN queue[t] /\ queue'[s][i] = queue[t][i + 1]
    BY <1>1, <1>2, <1>3, <1>6
  <2> QED
    BY <2>1 DEF KernelOnLiveMemory
<1> QED
  BY <1>5, <1>6

\* With one stream, whatever is freed is freed when no kernel is queued.
LEMMA LiveNext ==
  ASSUME Streams = {Current}
  PROVE  IInv /\ QInv /\ [Next]_vars => QInv'
<1>1. SUFFICES ASSUME IInv, QInv, [Next]_vars PROVE QInv'
  OBVIOUS
<1> USE DEF QInv
<1>2. CASE \/ \E a \in ArgLists, s \in Streams :
                \E o \in SUBSET DOMAIN a : Run(a, o, s)
           \/ Register \/ RegisterFunction \/ Malloc \/ CopyIn
           \/ CopyBack \/ CopyBackRaises
           \/ Return \/ Fail \/ Refuse
  <2>1. allocs \subseteq allocs' /\ kernels \subseteq kernels' /\ queue' = queue
    BY <1>2 DEF Run, Register, RegisterFunction, Malloc, CopyIn, CopyBack,
                CopyBackRaises, Return, Fail, Refuse, driver
  <2>2. Drained'
    BY <1>1, <1>2, <2>1
       DEF Run, Register, RegisterFunction, Malloc, CopyIn, CopyBack,
           CopyBackRaises, Return, Fail, Refuse, Leave, Goto, Drained, Waited
  <2> QED
    BY <1>1, <2>1, <2>2, GrowthIsLive
<1>3. CASE Synchronize
  <2>1. Drained' /\ queue'[Current] = <<>>
    BY <1>3 DEF Synchronize, driver, Drained
  <2> QED
    BY <1>1, <1>3, <2>1, GrowthIsLive DEF Synchronize, driver
<1>4. CASE Release \/ Unregister \/ FreeAll
  <2>1. queue[Current] = <<>> /\ queue' = queue
    BY <1>1, <1>4 DEF Release, Unregister, FreeAll, Drained, Waited
  <2>2. Drained'
    BY <2>1 DEF Drained
  <2>3. KernelOnLiveMemory'
    BY <2>1 DEF KernelOnLiveMemory
  <2> QED
    BY <2>2, <2>3
<1>5. CASE LaunchKernel
  <2>1. Drained'
    BY <1>5 DEF LaunchKernel, Goto, Drained, Waited
  <2> QED
    BY <1>1, <1>5, <2>1, LaunchIsLive
<1>6. ASSUME NEW s \in Streams, Execute(s)
      PROVE  QInv'
  <2>1. Drained'
    BY <1>1, <1>6 DEF Execute, Drained
  <2> QED
    BY <1>1, <1>6, <2>1, ExecuteIsLive
<1>7. CASE UNCHANGED vars
  BY <1>1, <1>7 DEF vars, Drained, KernelOnLiveMemory
<1> QED
  BY <1>1, <1>2, <1>3, <1>4, <1>5, <1>6, <1>7 DEF Next, Progress

\* When the program uses no stream but the current one, a kernel that has
\* not completed has its binary and all its buffers, whatever failed before
\* (launcher.py, launch_kernel and run; interface.py, free_mem).
THEOREM KernelsKeepTheirMemory ==
  ASSUME Streams = {Current}
  PROVE  Spec => []KernelOnLiveMemory
<1>1. QInv => KernelOnLiveMemory
  BY DEF QInv
<1>2. IInv /\ QInv /\ [Next]_vars => QInv'
  BY LiveNext
<1> QED
  BY <1>1, <1>2, LiveInit, Invariance, PTL DEF Spec

-----------------------------------------------------------------------------
(* Results come back, when there is only the current stream and the        *)
(* elements of every array are consecutive in memory.                      *)

Consecutive == \A a \in Layouts : \A i \in DOMAIN a : a[i] = a[1] + i - 1

\* The data of argument k, and what it holds after the run's kernel.
Data(k) == [i \in DOMAIN args[k] |-> Given(args[k][i])]
Result(k) == IF k \in outs THEN [i \in DOMAIN args[k] |-> Written(k, i)] ELSE Data(k)

\* The first n queued kernels are of earlier runs: they do not know the
\* buffers of this one.
Foreign(n) ==
  \A i \in 1 .. n : \A k \in 1 .. Len(handles) : handles[k] \notin ToSet(queue[Current][i].bufs)

CopiedIn(n) == \A k \in 1 .. n : dev[handles[k]] = Data(k)

Computed == \A k \in 1 .. Len(handles) : dev[handles[k]] = Result(k)

\* The kernel of this run is the last in the queue.
Pending ==
  LET n == Len(queue[Current])
  IN  /\ Foreign(n - 1) /\ CopiedIn(Len(handles))
      /\ queue[Current][n].bufs = handles /\ queue[Current][n].outs = outs

Covers(k, c) == \E i \in DOMAIN args[k] : args[k][i] = c

\* The first m arguments have been copied back: a cell holds what the last
\* of them that covers it had.
CopiedBack(m) ==
  \A c \in Cells :
    \/ /\ host[c] = Given(c)
       /\ \A k \in 1 .. m : ~Covers(k, c)
    \/ \E k \in 1 .. m : \E i \in DOMAIN args[k] :
         /\ args[k][i] = c /\ host[c] = Result(k)[i]
         /\ \A j \in 1 .. m : Covers(j, c) => j <= k

\* Every queued kernel has addresses for all its outputs.
Addressed ==
  \A i \in DOMAIN queue[Current] : queue[Current][i].outs \subseteq DOMAIN queue[Current][i].bufs

DataInv ==
  /\ Addressed
  /\ raising => pc = "release"
  /\ pc \in {"register", "function", "malloc", "copyin", "launch", "sync"} => \A c \in Cells : host[c] = Given(c)
  /\ pc \in {"malloc", "copyin", "launch"} => Foreign(Len(queue[Current]))
  /\ pc \in {"malloc", "launch"} => CopiedIn(Len(handles))
  /\ pc = "copyin" => CopiedIn(Len(handles) - 1)
  /\ pc = "sync" => IF queue[Current] = <<>> THEN Computed ELSE Pending
  /\ pc \in {"copyback", "release"} => Computed
  /\ pc = "copyback" => CopiedBack(at - 1)
  /\ pc = "release" /\ ~raising => CopiedBack(at)
  /\ pc \in {"unregister", "freeall", "return"} => CopiedBack(Len(args))

\* A step that leaves the data, the queue and the run's arguments alone.
LEMMA DataFrame ==
  ASSUME UNCHANGED <<host, dev, queue, args, outs, handles>>
  PROVE  /\ \A n : (Foreign(n)' <=> Foreign(n)) /\ (CopiedIn(n)' <=> CopiedIn(n)) /\ (CopiedBack(n)' <=> CopiedBack(n))
         /\ Computed' <=> Computed
         /\ Pending' <=> Pending
         /\ Addressed' <=> Addressed
<1>1. \A n : Foreign(n)' <=> Foreign(n)
  BY DEF Foreign, ToSet
<1>2. \A k : Data(k)' = Data(k) /\ Result(k)' = Result(k)
  BY DEF Data, Result
<1>3. \A n : CopiedIn(n)' <=> CopiedIn(n)
  BY <1>2 DEF CopiedIn
<1>4. Computed' <=> Computed
  BY <1>2 DEF Computed
<1>5. \A n : CopiedBack(n)' <=> CopiedBack(n)
  BY <1>2 DEF CopiedBack, Covers
<1>6. Pending' <=> Pending
  BY <1>1, <1>3 DEF Pending
<1>7. Addressed' <=> Addressed
  BY DEF Addressed
<1> QED
  BY <1>1, <1>3, <1>4, <1>5, <1>6, <1>7

\* At first nothing runs.
LEMMA DataInit == Init => DataInv
BY LaunchAssumption, EmptySeq DEF Init, DataInv, Addressed

\* A run that ends, in whatever way.
LEMMA LeaveKeepsData ==
  ASSUME DataInv, Leave, queue' = queue
  PROVE  DataInv'
BY DEF DataInv, Addressed, Leave

\* A new run fills its arrays.
LEMMA RunKeepsData ==
  ASSUME IInv, DataInv, NEW a \in ArgLists, NEW s \in Streams,
         NEW o \in SUBSET DOMAIN a, Run(a, o, s)
  PROVE  DataInv'
BY DEF IInv, DataInv, Addressed, Run, Goto, driver, locals

\* The steps that only go on.
LEMMA ProceedKeepsData ==
  ASSUME IInv, DataInv,
         Register \/ RegisterFunction \/ Unregister \/ FreeAll \/ CopyBackRaises
  PROVE  DataInv'
<1>1. UNCHANGED <<host, dev, queue, args, outs, handles, at>>
  BY DEF Register, RegisterFunction, Unregister, FreeAll, CopyBackRaises, memory, run, driver, locals
<1>2. /\ \A n : (Foreign(n)' <=> Foreign(n)) /\ (CopiedIn(n)' <=> CopiedIn(n)) /\ (CopiedBack(n)' <=> CopiedBack(n))
      /\ Computed' <=> Computed
      /\ Addressed' <=> Addressed
  BY <1>1, DataFrame
<1>3. CASE Register
  BY <1>1, <1>2, <1>3 DEF DataInv, Register, Goto
<1>4. CASE RegisterFunction
  <2>1. handles = <<>>
    BY <1>4 DEF IInv, LocalInv, RegisterFunction, Goto
  <2>2. Foreign(Len(queue[Current])) /\ CopiedIn(Len(handles))
    BY <2>1, EmptySeq DEF Foreign, CopiedIn
  <2> QED
    BY <1>1, <1>2, <1>4, <2>2 DEF DataInv, RegisterFunction, Goto, locals
<1>5. CASE Unregister \/ FreeAll
  BY <1>1, <1>2, <1>5 DEF DataInv, Unregister, FreeAll, locals
<1>6. CASE CopyBackRaises
  BY <1>1, <1>2, <1>6 DEF DataInv, CopyBackRaises, Goto
<1> QED
  BY <1>3, <1>4, <1>5, <1>6

\* The wait is over when the run's own kernel has completed too.
LEMMA SynchronizeKeepsData ==
  ASSUME IInv, DataInv, Synchronize
  PROVE  DataInv'
<1>1. /\ UNCHANGED <<host, dev, queue, args, outs, handles, at, raising>>
      /\ pc = "sync" /\ queue[Current] = <<>>
      /\ pc' = IF args = <<>> THEN "unregister" ELSE "copyback"
  BY DEF Synchronize, Goto, memory, run, driver, locals
<1>2. /\ \A n : CopiedBack(n)' <=> CopiedBack(n)
      /\ Computed' <=> Computed
      /\ Addressed' <=> Addressed
  BY <1>1, DataFrame
<1>3. Computed /\ at = 1 /\ ~raising
  BY <1>1 DEF IInv, LocalInv, DataInv, Waited
<1>4. CopiedBack(0)
  BY <1>1 DEF DataInv, CopiedBack
<1>5. args = <<>> => Len(args) = 0
  BY EmptySeq
<1>6. at - 1 = 0
  BY <1>3
<1> QED
  BY <1>1, <1>2, <1>3, <1>4, <1>5, <1>6 DEF DataInv

\* The next argument, or the end of the loop.
LEMMA ReleaseKeepsData ==
  ASSUME IInv, DataInv, Release
  PROVE  DataInv'
<1>1. CASE raising
  BY <1>1, LeaveKeepsData DEF Release
<1>2. CASE ~raising
  <2>1. /\ UNCHANGED <<host, dev, queue, args, outs, handles, raising>>
        /\ pc = "release" /\ at' = at + 1
        /\ pc' = IF at = Len(args) THEN "unregister" ELSE "copyback"
    BY <1>2 DEF Release, memory, run
  <2>2. /\ \A n : CopiedBack(n)' <=> CopiedBack(n)
        /\ Computed' <=> Computed
        /\ Addressed' <=> Addressed
    BY <2>1, DataFrame
  <2>3. at \in Nat /\ at' - 1 = at
    BY <2>1 DEF IInv, TypeOK
  <2>4. CopiedBack(at) /\ Computed /\ Addressed
    BY <1>2, <2>1 DEF DataInv
  <2> QED
    BY <1>2, <2>1, <2>2, <2>3, <2>4 DEF DataInv
<1> QED
  BY <1>1, <1>2

\* The new buffer is one that no queued kernel knows.
LEMMA MallocKeepsData ==
  ASSUME IInv, QInv, DataInv, Malloc
  PROVE  DataInv'
<1> DEFINE n == Len(handles)
<1>1. PICK b \in Buffers \ allocs : handles' = Append(handles, b)
  BY DEF Malloc
<1>2. /\ UNCHANGED <<host, dev, queue, args, outs, at, raising>>
      /\ pc = "malloc" /\ pc' = "copyin"
  BY DEF Malloc, Goto, memory, run
<1>3. n \in Nat /\ handles \in Seq(Buffers)
  BY DEF IInv, TypeOK
<1>4. /\ Len(handles') = n + 1 /\ handles'[n + 1] = b
      /\ \A k \in 1 .. n : handles'[k] = handles[k]
      /\ \A k \in 1 .. n + 1 : k = n + 1 \/ k \in 1 .. n
      /\ Len(handles') - 1 = n
  BY <1>1, <1>3
<1>5. Foreign(Len(queue[Current]))'
  <2> SUFFICES ASSUME NEW i \in 1 .. Len(queue[Current]), NEW k \in 1 .. n + 1
               PROVE  handles'[k] \notin ToSet(queue[Current][i].bufs)
    BY <1>2, <1>4 DEF Foreign, ToSet
  <2>1. CASE k \in 1 .. n
    BY <1>2, <1>4, <2>1 DEF DataInv, Foreign
  <2>2. CASE k = n + 1
    <3>1. DOMAIN queue[Current] = 1 .. Len(queue[Current])
      BY LaunchAssumption DEF IInv, TypeOK
    <3>2. ToSet(queue[Current][i].bufs) \subseteq allocs
      BY <3>1, LaunchAssumption DEF QInv, KernelOnLiveMemory
    <3> QED
      BY <1>4, <2>2, <3>2
  <2> QED
    BY <1>4, <2>1, <2>2
<1>6. CopiedIn(Len(handles) - 1)'
  <2>1. \A k \in 1 .. n : dev[handles[k]] = Data(k)
    BY <1>2 DEF DataInv, CopiedIn
  <2>2. \A k : Data(k)' = Data(k)
    BY <1>2 DEF Data
  <2> QED
    BY <1>2, <1>4, <2>1, <2>2 DEF CopiedIn
<1>7. Addressed'
  BY <1>2 DEF DataInv, Addressed
<1> QED
  BY <1>2, <1>5, <1>6, <1>7 DEF DataInv

\* The buffers of the other arguments are not touched.
LEMMA CopyInKeepsData ==
  ASSUME IInv, DataInv, CopyIn
  PROVE  DataInv'
<1> DEFINE n == Len(handles)
           e == [i \in DOMAIN args[n] |-> host[args[n][i]]]
<1>1. /\ UNCHANGED <<host, queue, args, outs, handles, at, raising>>
      /\ pc = "copyin" /\ pc' = IF n = Len(args) THEN "launch" ELSE "malloc"
      /\ dev' = [dev EXCEPT ![handles[n]] = e]
  BY DEF CopyIn, Goto, driver, run, locals
<1>2. n \in 1 .. Len(args) /\ n \in Nat /\ \A k \in 1 .. n : handles[k] \in Buffers
  BY <1>1 DEF IInv, TypeOK, LocalInv
<1>3. e = Data(n)
  <2>1. \A i \in DOMAIN args[n] : host[args[n][i]] = Given(args[n][i])
    BY <1>1, <1>2, ArgType DEF IInv, DataInv
  <2> QED
    BY <2>1 DEF Data
<1> HIDE DEF e
<1>4. \A k \in 1 .. n - 1 : handles[k] # handles[n]
  <2>1. \A i \in 1 .. n : \A j \in (i + 1) .. n : handles[i] # handles[j]
    BY <1>1 DEF IInv, OwnBuffersHeld
  <2>2. \A k \in 1 .. n - 1 : k \in 1 .. n /\ n \in (k + 1) .. n
    BY <1>2
  <2> QED
    BY <2>1, <2>2
<1>5. /\ n \in 1 .. n
      /\ \A k \in 1 .. n : k = n \/ k \in 1 .. n - 1
  BY <1>2
<1> HIDE DEF n
<1>6. dev \in [Buffers -> Seq(Values)]
  BY DEF IInv, TypeOK
<1>7. \A k \in 1 .. n - 1 : dev[handles[k]] = Data(k)
  BY <1>1 DEF DataInv, CopiedIn, n
<1>8. \A k \in 1 .. n : dev'[handles[k]] = Data(k)
  BY <1>1, <1>2, <1>3, <1>4, <1>5, <1>6, <1>7
<1>9. CopiedIn(Len(handles))'
  <2>1. \A k : Data(k)' = Data(k)
    BY <1>1 DEF Data
  <2> QED
    BY <1>1, <1>8, <2>1 DEF CopiedIn, n
<1>10. Foreign(Len(queue[Current]))'
  BY <1>1 DEF DataInv, Foreign, ToSet
<1>11. Addressed'
  BY <1>1 DEF DataInv, Addressed
<1> QED
  BY <1>1, <1>9, <1>10, <1>11 DEF DataInv

\* The kernel goes behind those of earlier runs.
LEMMA LaunchKeepsData ==
  ASSUME Streams = {Current}, IInv, DataInv, LaunchKernel
  PROVE  DataInv'
<1> DEFINE R == [binary : Binaries, bufs : Seq(Buffers), outs : SUBSET Positions]
           r == [binary |-> binary, bufs |-> handles, outs |-> outs]
           q == queue[Current]
<1>1. /\ UNCHANGED <<host, dev, args, outs, handles, at, raising>>
      /\ pc = "launch" /\ pc' = "sync"
      /\ queue' = [queue EXCEPT ![Current] = Append(q, r)]
  BY DEF LaunchKernel, Goto, memory, run, locals, IInv, TypeOK
<1>2. queue \in [Streams -> Seq(R)] /\ q \in Seq(R) /\ Len(q) \in Nat
  BY LaunchAssumption DEF IInv, TypeOK
<1>3. r \in R /\ r.bufs = handles /\ r.outs = outs
  <2>1. binary \in Binaries /\ handles \in Seq(Buffers)
    BY DEF IInv, TypeOK, LocalInv, LaunchKernel, Goto
  <2>2. outs \subseteq Positions
    BY LaunchAssumption DEF IInv, TypeOK, Positions
  <2> QED
    BY <2>1, <2>2
<1>4. outs \subseteq DOMAIN handles
  BY <1>1 DEF IInv, TypeOK, LocalInv, Copied
<1> HIDE DEF r, R, q
<1>5. /\ Append(q, r) \in Seq(R) /\ Len(Append(q, r)) = Len(q) + 1
      /\ \A i \in 1 .. Len(q) : Append(q, r)[i] = q[i]
      /\ Append(q, r)[Len(q) + 1] = r
  BY <1>2, <1>3, AppendAt
<1>6. queue'[Current] = Append(q, r)
  BY <1>1, <1>2, LaunchAssumption
<1>7. /\ Len(queue'[Current]) - 1 = Len(q) /\ queue'[Current] # <<>> /\ DOMAIN queue'[Current] = 1 .. Len(q) + 1
      /\ \A i \in 1 .. Len(q) + 1 : i = Len(q) + 1 \/ i \in 1 .. Len(q)
  <2>1. \A i \in 1 .. Len(q) + 1 : i = Len(q) + 1 \/ i \in 1 .. Len(q)
    BY <1>2
  <2>2. Len(queue'[Current]) = Len(q) + 1 /\ Len(q) + 1 # 0 /\ Len(q) + 1 - 1 = Len(q)
    BY <1>2, <1>5, <1>6
  <2>3. queue'[Current] \in Seq(R)
    BY <1>5, <1>6
  <2>4. queue'[Current] # <<>> /\ DOMAIN queue'[Current] = 1 .. Len(queue'[Current])
    BY <2>2, <2>3, EmptySeq
  <2> QED
    BY <2>1, <2>2, <2>4
<1>8. Foreign(Len(q)) /\ CopiedIn(Len(handles))
  BY <1>1 DEF DataInv, q
<1>9. Foreign(Len(queue[Current]) - 1)'
  BY <1>1, <1>5, <1>6, <1>7, <1>8 DEF Foreign, ToSet, q
<1>10. CopiedIn(Len(handles))'
  <2>1. \A k : Data(k)' = Data(k)
    BY <1>1 DEF Data
  <2> QED
    BY <1>1, <1>8, <2>1 DEF CopiedIn
<1>11. Pending'
  BY <1>1, <1>3, <1>5, <1>6, <1>9, <1>10 DEF Pending
<1>12. Addressed'
  <2>1. \A i \in 1 .. Len(q) : q[i].outs \subseteq DOMAIN q[i].bufs
    BY <1>2 DEF DataInv, Addressed, q
  <2>2. \A i \in 1 .. Len(q) + 1 : Append(q, r)[i].outs \subseteq DOMAIN Append(q, r)[i].bufs
    BY <1>3, <1>4, <1>5, <1>7, <2>1
  <2> QED
    BY <1>6, <1>7, <2>2 DEF Addressed
<1> QED
  BY <1>1, <1>7, <1>11, <1>12 DEF DataInv

\* The copy covers the cells of one more argument, and no others.
LEMMA CopyBackKeepsData ==
  ASSUME Consecutive, IInv, DataInv, CopyBack
  PROVE  DataInv'
<1> DEFINE a == args[at]
           b == dev[handles[at]]
<1>1. /\ UNCHANGED <<dev, queue, args, outs, handles, at, raising>>
      /\ pc = "copyback" /\ pc' = "release"
      /\ host' = [c \in Cells |-> IF a # <<>> /\ c - a[1] + 1 \in DOMAIN b THEN b[c - a[1] + 1] ELSE host[c]]
  BY DEF CopyBack, Goto, driver, run, locals
<1>2. at \in 1 .. Len(args) /\ at \in 1 .. Len(handles) /\ at \in Nat
  BY <1>1 DEF IInv, TypeOK, LocalInv, Copied
<1>3. b = Result(at)
  BY <1>1, <1>2 DEF DataInv, Computed
<1>4. DOMAIN b = DOMAIN a
  BY <1>3 DEF Result, Data
<1>5. /\ a \in Seq(Cells) /\ DOMAIN a = 1 .. Len(a) /\ Len(a) \in Nat
      /\ \A i \in DOMAIN a : a[i] = a[1] + i - 1
  <2>1. a \in Layouts
    BY <1>2 DEF IInv, TypeOK
  <2> QED
    BY <1>2, <2>1, ArgType DEF IInv, Consecutive
<1>6. \A c \in Cells : c \in Int
  BY DEF Cells
<1>7. \A c \in Cells : a # <<>> /\ c - a[1] + 1 \in DOMAIN a <=> Covers(at, c)
  <2> SUFFICES ASSUME NEW c \in Cells
               PROVE  a # <<>> /\ c - a[1] + 1 \in DOMAIN a <=> \E i \in DOMAIN a : a[i] = c
    BY DEF Covers
  <2>1. ASSUME NEW i \in DOMAIN a, a[i] = c
        PROVE  a # <<>> /\ c - a[1] + 1 \in DOMAIN a
    <3>1. a # <<>> /\ 1 \in DOMAIN a /\ i \in Int
      BY <1>5
    <3>2. a[1] \in Int
      BY <1>5, <1>6, <3>1
    <3>3. c = a[1] + i - 1
      BY <1>5, <2>1
    <3>4. c - a[1] + 1 = i
      BY <3>1, <3>2, <3>3
    <3> QED
      BY <3>1, <3>4
  <2>2. ASSUME a # <<>>, c - a[1] + 1 \in DOMAIN a
        PROVE  \E i \in DOMAIN a : a[i] = c
    <3>1. a[1] \in Int /\ c \in Int
      BY <1>5, <1>6, <2>2
    <3>2. a[c - a[1] + 1] = a[1] + (c - a[1] + 1) - 1
      BY <1>5, <2>2
    <3>3. a[c - a[1] + 1] = c
      BY <3>1, <3>2
    <3> QED
      BY <2>2, <3>3
  <2> QED
    BY <2>1, <2>2
<1>8. \A k : Result(k)' = Result(k)
  BY <1>1 DEF Result, Data
<1>9. \A k, c : Covers(k, c)' <=> Covers(k, c)
  BY <1>1 DEF Covers
<1>10. \A k \in 1 .. at : k = at \/ k \in 1 .. at - 1
  BY <1>2
<1>11. \A k \in 1 .. at - 1 : k \in 1 .. at
  BY <1>2
<1>12. at \in 1 .. at /\ \A j \in 1 .. at : j <= at
  BY <1>2
<1>13. CopiedBack(at - 1)
  BY <1>1 DEF DataInv
<1>14. ASSUME NEW c \in Cells
       PROVE  \/ /\ host'[c] = Given(c)
                 /\ \A k \in 1 .. at : ~Covers(k, c)
              \/ \E k \in 1 .. at : \E i \in DOMAIN args[k] :
                   /\ args[k][i] = c /\ host'[c] = Result(k)[i]
                   /\ \A j \in 1 .. at : Covers(j, c) => j <= k
  <2>1. CASE Covers(at, c)
    <3>1. a # <<>> /\ c - a[1] + 1 \in DOMAIN a
      BY <1>7, <2>1
    <3>2. host'[c] = Result(at)[c - a[1] + 1]
      BY <1>1, <1>3, <1>4, <3>1
    <3>3. a[1] \in Int /\ c \in Int
      BY <1>5, <1>6, <3>1
    <3>4. a[c - a[1] + 1] = a[1] + (c - a[1] + 1) - 1
      BY <1>5, <3>1
    <3>5. a[c - a[1] + 1] = c
      BY <3>3, <3>4
    <3> QED
      BY <1>12, <3>1, <3>2, <3>5
  <2>2. CASE ~Covers(at, c)
    <3>1. host'[c] = host[c]
      BY <1>1, <1>4, <1>7, <2>2
    <3>2. CASE host[c] = Given(c) /\ \A k \in 1 .. at - 1 : ~Covers(k, c)
      BY <1>10, <2>2, <3>1, <3>2
    <3>3. CASE \E k \in 1 .. at - 1 : \E i \in DOMAIN args[k] :
                 /\ args[k][i] = c /\ host[c] = Result(k)[i]
                 /\ \A j \in 1 .. at - 1 : Covers(j, c) => j <= k
      BY <1>10, <1>11, <2>2, <3>1, <3>3
    <3> QED
      BY <1>13, <3>2, <3>3 DEF CopiedBack
  <2> QED
    BY <2>1, <2>2
<1>15. CopiedBack(at)'
  BY <1>1, <1>8, <1>9, <1>14 DEF CopiedBack
<1>16. Computed'
  BY <1>1, <1>8 DEF DataInv, Computed
<1>17. Addressed'
  BY <1>1 DEF DataInv, Addressed
<1> QED
  BY <1>1, <1>15, <1>16, <1>17 DEF DataInv

\* A kernel of an earlier run writes elsewhere; the run's own writes each of
\* its outputs.
LEMMA ExecuteKeepsData ==
  ASSUME Streams = {Current}, IInv, QInv, DataInv, NEW s \in Streams, Execute(s)
  PROVE  DataInv'
<1> DEFINE R == [binary : Binaries, bufs : Seq(Buffers), outs : SUBSET Positions]
           q == queue[Current]
           n == Len(q)
           k == Head(q)
           Of(b) == {p \in k.outs : k.bufs[p] = b}
<1>1. /\ UNCHANGED <<host, args, outs, handles, at, raising, pc>>
      /\ queue' = [queue EXCEPT ![Current] = Tail(q)] /\ q # <<>>
      /\ dev' = [b \in Buffers |-> IF Of(b) = {} THEN dev[b]
                                   ELSE [i \in DOMAIN dev[b] |-> Written(CHOOSE p \in Of(b) : TRUE, i)]]
  BY DEF Execute, run, locals
<1>2. queue \in [Streams -> Seq(R)] /\ q \in Seq(R)
  BY LaunchAssumption DEF IInv, TypeOK
<1>3. n \in Nat \ {0} /\ k = q[1] /\ DOMAIN q = 1 .. n
  BY <1>1, <1>2
<1>4. /\ Tail(q) \in Seq(R) /\ k \in R /\ Len(Tail(q)) = n - 1 /\ \A i \in 1 .. Len(Tail(q)) : Tail(q)[i] = q[i + 1]
  <2> HIDE DEF R, q
  <2> QED
    BY <1>1, <1>2, TailAt
<1> HIDE DEF R, k, q, n
<1>5. queue'[Current] = Tail(q)
  BY <1>1, <1>2
<1>6. /\ Len(queue'[Current]) = n - 1 /\ DOMAIN queue'[Current] = 1 .. n - 1
      /\ \A i \in 1 .. n - 1 : i + 1 \in 1 .. n /\ queue'[Current][i] = q[i + 1]
  BY <1>3, <1>4, <1>5
<1>7. pc \notin Waited
  BY <1>1 DEF QInv, Drained, q
<1>8. k.outs \subseteq DOMAIN k.bufs
  BY <1>3 DEF DataInv, Addressed, q
<1>9. \A b \in Buffers : b \notin ToSet(k.bufs) => dev'[b] = dev[b]
  <2>1. \A b \in Buffers : b \notin ToSet(k.bufs) => Of(b) = {}
    BY <1>8 DEF ToSet
  <2> QED
    BY <1>1, <2>1
<1>10. \A j \in 1 .. Len(handles) : handles[j] \in Buffers
  BY DEF IInv, TypeOK
<1>11. \A j : Data(j)' = Data(j) /\ Result(j)' = Result(j)
  BY <1>1 DEF Data, Result
<1>12. ASSUME NEW m \in {n, n - 1}, Foreign(m), m # 0
       PROVE  /\ \A i \in 1 .. m - 1 : \A j \in 1 .. Len(handles) : handles[j] \notin ToSet(queue'[Current][i].bufs)
              /\ \A j \in 1 .. Len(handles) : dev'[handles[j]] = dev[handles[j]]
  <2>1. 1 \in 1 .. m /\ \A i \in 1 .. m - 1 : i \in 1 .. n - 1 /\ i + 1 \in 1 .. m
    BY <1>3, <1>12
  <2>2. \A i \in 1 .. m - 1 : \A j \in 1 .. Len(handles) : handles[j] \notin ToSet(queue'[Current][i].bufs)
    BY <1>6, <1>12, <2>1 DEF Foreign, q
  <2>3. \A j \in 1 .. Len(handles) : dev'[handles[j]] = dev[handles[j]]
    BY <1>3, <1>9, <1>10, <1>12, <2>1 DEF Foreign, q
  <2> QED
    BY <2>2, <2>3
<1>13. Addressed'
  BY <1>3, <1>6 DEF DataInv, Addressed, q
<1>14. Len(handles) \in Nat
  BY DEF IInv, TypeOK
<1>15. CASE pc \in {"malloc", "copyin", "launch"}
  <2>1. Foreign(n) /\ n # 0
    BY <1>3, <1>15 DEF DataInv, n, q
  <2>2. /\ \A i \in 1 .. n - 1 : \A j \in 1 .. Len(handles) : handles[j] \notin ToSet(queue'[Current][i].bufs)
        /\ \A j \in 1 .. Len(handles) : dev'[handles[j]] = dev[handles[j]]
    BY <1>12, <2>1
  <2>3. Foreign(Len(queue[Current]))'
    <3>1. handles' = handles /\ Len(queue'[Current]) = n - 1
      BY <1>1, <1>6
    <3> QED
      BY <2>2, <3>1 DEF Foreign, ToSet
  <2>4. pc \in {"malloc", "launch"} => CopiedIn(Len(handles))'
    BY <1>1, <1>11, <2>2 DEF DataInv, CopiedIn
  <2>5. pc = "copyin" => CopiedIn(Len(handles) - 1)'
    <3>1. \A j \in 1 .. Len(handles) - 1 : j \in 1 .. Len(handles)
      BY <1>14
    <3> QED
      BY <1>1, <1>11, <2>2, <3>1 DEF DataInv, CopiedIn
  <2> QED
    BY <1>1, <1>13, <1>15, <2>3, <2>4, <2>5 DEF DataInv
<1>16. CASE pc = "sync"
  <2>1. Foreign(n - 1) /\ CopiedIn(Len(handles)) /\ q[n].bufs = handles /\ q[n].outs = outs
    BY <1>1, <1>16 DEF DataInv, Pending, n, q
  <2>2. CASE n = 1
    <3>1. queue'[Current] = <<>>
      BY <1>4, <1>5, <2>2, EmptySeq
    <3>2. k.bufs = handles /\ k.outs = outs /\ outs \subseteq 1 .. Len(handles)
      BY <1>3, <1>8, <2>1, <2>2 DEF IInv, TypeOK
    <3>3. \A i, j \in 1 .. Len(handles) : handles[i] = handles[j] => i = j
      <4>1. \A i \in 1 .. Len(handles) : \A j \in (i + 1) .. Len(handles) : handles[i] # handles[j]
        BY <1>16 DEF IInv, OwnBuffersHeld
      <4>2. \A i, j \in 1 .. Len(handles) : i = j \/ j \in (i + 1) .. Len(handles) \/ i \in (j + 1) .. Len(handles)
        BY <1>14
      <4> QED
        BY <4>1, <4>2
    <3>4. ASSUME NEW j \in 1 .. Len(handles)
          PROVE  dev'[handles[j]] = Result(j)
      <4>1. dev[handles[j]] = Data(j) /\ DOMAIN dev[handles[j]] = DOMAIN args[j] /\ handles[j] \in Buffers
        BY <1>10, <2>1 DEF CopiedIn, Data
      <4>2. CASE j \in outs
        <5>1. Of(handles[j]) = {j}
          BY <3>2, <3>3, <4>2
        <5>2. (CHOOSE p \in {j} : TRUE) = j
          OBVIOUS
        <5> QED
          BY <1>1, <4>1, <4>2, <5>1, <5>2 DEF Result
      <4>3. CASE j \notin outs
        <5>1. Of(handles[j]) = {}
          BY <3>2, <3>3, <4>3
        <5> QED
          BY <1>1, <4>1, <4>3, <5>1 DEF Result
      <4> QED
        BY <4>2, <4>3
    <3>5. Computed'
      BY <1>1, <1>11, <3>4 DEF Computed
    <3> QED
      BY <1>1, <1>13, <1>16, <3>1, <3>5 DEF DataInv
  <2>3. CASE n # 1
    <3>1. /\ n - 1 \in {n, n - 1} /\ n - 1 # 0 /\ n - 1 \in 1 .. n - 1 /\ (n - 1) + 1 = n
      BY <1>3, <2>3
    <3>2. /\ \A i \in 1 .. (n - 1) - 1 : \A j \in 1 .. Len(handles) : handles[j] \notin ToSet(queue'[Current][i].bufs)
          /\ \A j \in 1 .. Len(handles) : dev'[handles[j]] = dev[handles[j]]
      BY <1>12, <2>1, <3>1
    <3>3. Foreign(Len(queue[Current]) - 1)'
      <4>1. handles' = handles /\ Len(queue'[Current]) = n - 1
        BY <1>1, <1>6
      <4> QED
        BY <3>2, <4>1 DEF Foreign, ToSet
    <3>4. CopiedIn(Len(handles))'
      BY <1>1, <1>11, <2>1, <3>2 DEF CopiedIn
    <3>5. /\ queue'[Current][Len(queue'[Current])].bufs = handles /\ queue'[Current][Len(queue'[Current])].outs = outs
          /\ queue'[Current] # <<>>
      BY <1>6, <2>1, <3>1
    <3>6. Pending'
      BY <1>1, <3>3, <3>4, <3>5 DEF Pending
    <3> QED
      BY <1>1, <1>13, <1>16, <3>5, <3>6 DEF DataInv
  <2> QED
    BY <2>2, <2>3
<1>17. CASE pc \in {"idle", "register", "function"}
  BY <1>1, <1>13, <1>17 DEF DataInv
<1> QED
  BY <1>7, <1>15, <1>16, <1>17 DEF IInv, TypeOK, Steps, Waited

\* The steps that change neither data nor the queue, and those that do.
LEMMA DataNext ==
  ASSUME Streams = {Current}, Consecutive
  PROVE  IInv /\ QInv /\ DataInv /\ [Next]_vars => DataInv'
<1>1. SUFFICES ASSUME IInv, QInv, DataInv, [Next]_vars PROVE DataInv'
  OBVIOUS
<1>2. ASSUME NEW a \in ArgLists, NEW s \in Streams, NEW o \in SUBSET DOMAIN a, Run(a, o, s)
      PROVE  DataInv'
  BY <1>1, <1>2, RunKeepsData
<1>3. CASE Register \/ RegisterFunction \/ Unregister \/ FreeAll \/ CopyBackRaises
  BY <1>1, <1>3, ProceedKeepsData
<1>4. CASE Malloc \/ CopyIn \/ LaunchKernel \/ Synchronize \/ CopyBack \/ Release
  BY <1>1, <1>4, MallocKeepsData, CopyInKeepsData, LaunchKeepsData, SynchronizeKeepsData,
     CopyBackKeepsData, ReleaseKeepsData
<1>5. CASE Return \/ Refuse \/ Fail
  BY <1>1, <1>5, LeaveKeepsData DEF Return, Refuse, Fail, driver
<1>6. ASSUME NEW s \in Streams, Execute(s)
      PROVE  DataInv'
  BY <1>1, <1>6, ExecuteKeepsData
<1>7. CASE UNCHANGED vars
  <2>1. UNCHANGED <<host, dev, queue, args, outs, handles, pc, at, raising>>
    BY <1>7 DEF vars
  <2>2. /\ \A n : (Foreign(n)' <=> Foreign(n)) /\ (CopiedIn(n)' <=> CopiedIn(n)) /\ (CopiedBack(n)' <=> CopiedBack(n))
        /\ Computed' <=> Computed
        /\ Pending' <=> Pending
        /\ Addressed' <=> Addressed
    BY <2>1, DataFrame
  <2> QED
    BY <1>1, <2>1, <2>2 DEF DataInv
<1> QED
  BY <1>1, <1>2, <1>3, <1>4, <1>5, <1>6, <1>7 DEF Next, Progress

\* A cell holds what the last argument that covers it had: that is what is
\* expected, unless this argument came after all outputs that cover the cell.
LEMMA CopiedBackAsExpected ==
  ASSUME Consecutive, IInv, CopiedBack(Len(args))
  PROVE  \A c \in Cells : Overwritten(c) \/ host[c] = Expected(c)
<1> SUFFICES ASSUME NEW c \in Cells, ~Overwritten(c) PROVE host[c] = Expected(c)
  OBVIOUS
<1>1. DOMAIN args = 1 .. Len(args) /\ Len(args) \in Nat /\ outs \subseteq DOMAIN args
  BY DEF IInv, TypeOK
<1>2. /\ \A k \in DOMAIN args : c \in ToSet(args[k]) <=> Covers(k, c)
      /\ \A k : k \in Outputs(c) <=> k \in outs /\ Covers(k, c)
  BY <1>1 DEF ToSet, Covers, Outputs
<1>3. CASE host[c] = Given(c) /\ \A k \in 1 .. Len(args) : ~Covers(k, c)
  <2>1. Outputs(c) = {}
    BY <1>1, <1>2, <1>3
  <2> QED
    BY <1>3, <2>1 DEF Expected
<1>4. ASSUME NEW k \in 1 .. Len(args), NEW i \in DOMAIN args[k], args[k][i] = c, host[c] = Result(k)[i],
             \A j \in 1 .. Len(args) : Covers(j, c) => j <= k
      PROVE  host[c] = Expected(c)
  <2>1. Covers(k, c) /\ k \in DOMAIN args /\ k \in Nat
    BY <1>1, <1>4 DEF Covers
  <2>2. \A j \in Outputs(c) : j \in Nat /\ j <= k
    BY <1>1, <1>2, <1>4
  <2>3. CASE k \notin outs
    <3>1. \A j \in Outputs(c) : j < k
      BY <1>2, <2>1, <2>2, <2>3
    <3>2. Outputs(c) = {}
      BY <1>2, <2>1, <2>3, <3>1 DEF Overwritten
    <3> QED
      BY <1>4, <2>3, <3>2 DEF Expected, Result, Data
  <2>4. CASE k \in outs
    <3> DEFINE last == CHOOSE m \in Outputs(c) : \A j \in Outputs(c) : j <= m
    <3>1. k \in Outputs(c)
      BY <1>2, <2>1, <2>4
    <3>2. last = k
      <4>1. \A m \in Outputs(c) : (\A j \in Outputs(c) : j <= m) => m = k
        BY <2>1, <2>2, <3>1
      <4> QED
        BY <2>2, <3>1, <4>1
    <3>3. \A j \in DOMAIN args[k] : args[k][j] = c => j = i
      <4>1. /\ args[k] \in Seq(Cells) /\ DOMAIN args[k] = 1 .. Len(args[k])
            /\ \A j \in DOMAIN args[k] : args[k][j] = args[k][1] + j - 1
        <5>1. args[k] \in Layouts
          BY <2>1 DEF IInv, TypeOK
        <5> QED
          BY <5>1, ArgType DEF IInv, Consecutive
      <4>2. args[k][1] \in Int
        <5>1. 1 \in 1 .. Len(args[k])
          BY <1>4, <4>1
        <5>2. args[k][1] \in Cells
          BY <4>1, <5>1
        <5> QED
          BY <5>2 DEF Cells
      <4> QED
        BY <1>4, <4>1, <4>2
    <3>4. (CHOOSE j \in DOMAIN args[k] : args[k][j] = c) = i
      BY <1>4, <3>3
    <3>5. Expected(c) = IF Outputs(c) = {} THEN Given(c)
                        ELSE Written(last, CHOOSE j \in DOMAIN args[last] : args[last][j] = c)
      BY DEF Expected
    <3> HIDE DEF last
    <3>6. Expected(c) = Written(k, i)
      BY <3>1, <3>2, <3>4, <3>5
    <3> QED
      BY <1>4, <2>4, <3>6 DEF Result
  <2> QED
    BY <2>3, <2>4
<1> QED
  BY <1>3, <1>4 DEF CopiedBack

\* When the program uses no stream but the current one and its arrays have
\* their elements one after the other, a run that returns has brought back
\* what its kernel wrote, and nothing else, whatever failed before: in
\* arrays that overlap or are passed twice as outputs too, but not where an
\* argument that comes after the outputs and is only read shares a cell
\* with them.
THEOREM WhatIsWrittenComesBack ==
  ASSUME Streams = {Current}, Consecutive
  PROVE  Spec => []ResultsComeBack
<1>1. IInv /\ DataInv => ResultsComeBack
  BY CopiedBackAsExpected DEF DataInv, ResultsComeBack
<1>2. IInv /\ QInv /\ [Next]_vars => QInv'
  BY LiveNext
<1>3. IInv /\ QInv /\ DataInv /\ [Next]_vars => DataInv'
  BY DataNext
<1> QED
  BY <1>1, <1>2, <1>3, LiveInit, DataInit, Invariance, PTL DEF Spec

=============================================================================
