---------------------------- MODULE KernelLaunch ----------------------------
(***************************************************************************)
(* One run of a compiled kernel after another: Launcher.run and            *)
(* launch_kernel of python/asc/runtime/launcher.py, the handles of host    *)
(* arrays of memory_handle.py, and the operations of the driver they use   *)
(* in python/asc/lib/runtime/interface.py.                                 *)
(*                                                                         *)
(* The host thread makes one driver call per step, any of which may raise. *)
(* The device executes the kernels of each stream in order, at its own     *)
(* pace.  Host memory is an array of cells; a host array is the sequence   *)
(* of the cells its elements occupy, so that arrays may overlap, be passed *)
(* twice, or have strides.  What a cell holds tells the caller's data from *)
(* what the kernel wrote, and nothing more.                                *)
(*                                                                         *)
(* Left out: arguments that need no memory of the device (scalars, tensors *)
(* that are on the device already), DRY_RUN, and profiling.                *)
(***************************************************************************)
EXTENDS Integers, Sequences, SequencesExt

CONSTANTS
  NCells,    \* number of cells of host memory
  Layouts,   \* the host arrays, as sequences of cells
  MaxArgs,   \* bound: arrays passed to a kernel
  Buffers,   \* blocks of device memory the driver can give out
  Binaries,  \* handles of registered kernel binaries
  Streams,   \* the streams of the device
  Current,   \* the one current_stream() returns
  NoBinary   \* no kernel registered by this run

VARIABLES
  host,      \* host[c]: what cell c holds
  dev,       \* dev[b]: what the elements of device buffer b hold
  allocs,    \* state.allocs: the buffers not yet given back
  kernels,   \* state.kernels: the binaries still registered
  queue,     \* queue[s]: kernels launched on s that have not completed
  pc,        \* the next step of Launcher.run
  args,      \* kernel_args of the run
  outs,      \* the arguments its kernel writes to
  stream,    \* LaunchOptions.stream, or the current one
  binary,    \* kernel_handle
  handles,   \* the device buffer of each argument copied so far
  at,        \* index of the loop over memory_args
  raising    \* an exception is passing through the finally clause

memory == <<host, dev>>
driver == <<allocs, kernels, queue>>
run == <<args, outs, stream>>
locals == <<binary, handles, at, raising>>
vars == <<host, dev, allocs, kernels, queue, pc, args, outs, stream,
          binary, handles, at, raising>>

Cells == 1 .. NCells
Positions == 1 .. MaxArgs

ASSUME LaunchAssumption ==
  /\ NCells \in Nat
  /\ MaxArgs \in Nat
  /\ Layouts \subseteq {a \in Seq(Cells) : Len(a) <= NCells}
  /\ Current \in Streams
  /\ NoBinary \notin Binaries

\* The caller's data in cell c, and what a kernel writes to element i of
\* its argument k.
Given(c) == <<"given", c, 0>>
Written(k, i) == <<"written", k, i>>

Values ==
  {Given(c) : c \in Cells} \cup {Written(k, i) : k \in Positions, i \in Cells}

Steps == {"idle", "register", "function", "malloc", "copyin", "launch",
          "sync", "copyback", "release", "unregister", "freeall", "return"}

\* The steps at which the driver is called, or the run checks its inputs.
Fallible == Steps \ {"idle", "copyback", "return"}

-----------------------------------------------------------------------------

Init ==
  /\ host = [c \in Cells |-> Given(c)]
  /\ dev = [b \in Buffers |-> <<>>]
  /\ allocs = {}
  /\ kernels = {}
  /\ queue = [s \in Streams |-> <<>>]
  /\ pc = "idle"
  /\ args = <<>>
  /\ outs = {}
  /\ stream = Current
  /\ binary = NoBinary
  /\ handles = <<>>
  /\ at = 1
  /\ raising = FALSE

Goto(from, to) ==
  /\ pc = from
  /\ pc' = to

\* The program fills its arrays and calls the kernel on s.
Run(a, o, s) ==
  /\ Goto("idle", "register")
  /\ host' = [c \in Cells |-> Given(c)]
  /\ args' = a
  /\ outs' = o
  /\ stream' = s
  /\ UNCHANGED <<dev, driver, locals>>

\* rt.register_device_binary_kernel
Register ==
  /\ Goto("register", "function")
  /\ \E k \in Binaries \ kernels :
       /\ kernels' = kernels \cup {k}
       /\ binary' = k
  /\ UNCHANGED <<memory, allocs, queue, run, handles, at, raising>>

\* rt.register_function, then the check of core_num, which raises (Fail)
\* after the binary has been registered.
RegisterFunction ==
  /\ Goto("function", IF args = <<>> THEN "launch" ELSE "malloc")
  /\ UNCHANGED <<memory, driver, run, locals>>

\* Slip: an array that has a buffer already is not given a second one.
MallocOncePerArray ==
  /\ Goto("malloc", "copyin")
  /\ LET old == {k \in 1 .. Len(handles) : args[k] = args[Len(handles) + 1]}
     IN  \E b \in IF old = {} THEN Buffers \ allocs ELSE {handles[k] : k \in old} :
           /\ allocs' = allocs \cup {b}
           /\ handles' = Append(handles, b)
  /\ UNCHANGED <<memory, kernels, queue, run, binary, at, raising>>

\* copy_data_to_device: malloc.  The buffer is noted in state.allocs.
Malloc ==
  /\ Goto("malloc", "copyin")
  /\ \E b \in Buffers \ allocs :
       /\ allocs' = allocs \cup {b}
       /\ handles' = Append(handles, b)
  /\ UNCHANGED <<memory, kernels, queue, run, binary, at, raising>>

\* copy_data_to_device: memcpy of the flattened array, element by element.
CopyIn ==
  /\ Goto("copyin", IF Len(handles) = Len(args) THEN "launch" ELSE "malloc")
  /\ LET k == Len(handles)
     IN  dev' = [dev EXCEPT ![handles[k]] =
                   [i \in DOMAIN args[k] |-> host[args[k][i]]]]
  /\ UNCHANGED <<host, driver, run, locals>>

\* rt.launch_kernel returns when the kernel is in the stream's queue.
LaunchKernel ==
  /\ Goto("launch", "sync")
  /\ queue' = [queue EXCEPT ![stream] =
                 Append(@, [binary |-> binary, bufs |-> handles, outs |-> outs])]
  /\ UNCHANGED <<memory, allocs, kernels, run, locals>>

\* Slip: nobody waits for the device.
SynchronizeNot ==
  /\ Goto("sync", IF args = <<>> THEN "unregister" ELSE "copyback")
  /\ UNCHANGED <<memory, driver, run, locals>>

\* rt.synchronize(), with no argument: the current stream is waited for.
Synchronize ==
  /\ queue[Current] = <<>>
  /\ Goto("sync", IF args = <<>> THEN "unregister" ELSE "copyback")
  /\ UNCHANGED <<memory, driver, run, locals>>

\* copy_from_device: the buffer is copied to consecutive cells, from the
\* array's first one on, whatever the array's strides are.
CopyBack ==
  /\ Goto("copyback", "release")
  /\ LET a == args[at]
         b == dev[handles[at]]
     IN  host' = [c \in Cells |->
                    IF a # <<>> /\ c - a[1] + 1 \in DOMAIN b
                      THEN b[c - a[1] + 1] ELSE host[c]]
  /\ UNCHANGED <<dev, driver, run, locals>>

\* The copy (or the printing of the debug buffer) raises: the finally
\* clause still releases this argument's buffer.
CopyBackRaises ==
  /\ Goto("copyback", "release")
  /\ raising' = TRUE
  /\ UNCHANGED <<memory, driver, run, binary, handles, at>>

\* The run is over and its local variables are gone.
Leave ==
  /\ pc' = "idle"
  /\ args' = <<>>
  /\ outs' = {}
  /\ stream' = Current
  /\ binary' = NoBinary
  /\ handles' = <<>>
  /\ at' = 1
  /\ raising' = FALSE

\* Slip: the loop ends one argument too late.
ReleaseOneMore ==
  /\ pc = "release"
  /\ handles[at] \in allocs
  /\ allocs' = allocs \ {handles[at]}
  /\ IF raising
       THEN Leave
       ELSE /\ at' = at + 1
            /\ pc' = IF at > Len(args) THEN "unregister" ELSE "copyback"
            /\ UNCHANGED <<run, binary, handles, raising>>
  /\ UNCHANGED <<memory, kernels, queue>>

\* arg.release_memory() in the finally clause: rt.free.  Then the next
\* argument, or the exception goes on.
Release ==
  /\ pc = "release"
  /\ handles[at] \in allocs
  /\ allocs' = allocs \ {handles[at]}
  /\ IF raising
       THEN Leave
       ELSE /\ at' = at + 1
            /\ pc' = IF at = Len(args) THEN "unregister" ELSE "copyback"
            /\ UNCHANGED <<run, binary, handles, raising>>
  /\ UNCHANGED <<memory, kernels, queue>>

\* Slip: free_mem unregisters the binary of this run only.
UnregisterOwn ==
  /\ pc = "unregister"
  /\ kernels' = kernels \ {binary}
  /\ pc' = "freeall"
  /\ UNCHANGED <<memory, allocs, queue, run, locals>>

\* rt.free_mem(): first every binary that is registered, ...
Unregister ==
  /\ pc = "unregister"
  /\ \/ /\ kernels = {}
        /\ pc' = "freeall"
        /\ UNCHANGED kernels
     \/ /\ \E k \in kernels : kernels' = kernels \ {k}
        /\ UNCHANGED pc
  /\ UNCHANGED <<memory, allocs, queue, run, locals>>

\* ... then every buffer, those that failed runs left behind included.
FreeAll ==
  /\ pc = "freeall"
  /\ \/ /\ allocs = {}
        /\ pc' = "return"
        /\ UNCHANGED allocs
     \/ /\ \E b \in allocs : allocs' = allocs \ {b}
        /\ UNCHANGED pc
  /\ UNCHANGED <<memory, kernels, queue, run, locals>>

Return ==
  /\ pc = "return"
  /\ Leave
  /\ UNCHANGED <<memory, driver>>

\* Slip: run() frees its memory in a finally clause.
FailFreesAll ==
  /\ pc \in Fallible
  /\ Leave
  /\ kernels' = {}
  /\ allocs' = {}
  /\ UNCHANGED <<memory, queue>>

\* A driver call raises, having changed nothing, and nothing in run() or
\* launch_kernel cleans up.
Fail ==
  /\ pc \in Fallible
  /\ Leave
  /\ UNCHANGED <<memory, driver>>

\* The driver has no block or no handle left to give.
Exhausted ==
  \/ pc = "register" /\ kernels = Binaries
  \/ pc = "malloc" /\ allocs = Buffers

\* Slip: malloc waits until there is memory.
RefuseBinary ==
  /\ pc = "register" /\ kernels = Binaries
  /\ Leave
  /\ UNCHANGED <<memory, driver>>

Refuse ==
  /\ Exhausted
  /\ Leave
  /\ UNCHANGED <<memory, driver>>

\* The device completes the oldest kernel of stream s.  It writes through
\* the addresses it was given, whoever owns the memory by then.
Execute(s) ==
  /\ queue[s] # <<>>
  /\ LET k == Head(queue[s])
         Of(b) == {p \in k.outs : k.bufs[p] = b}
     IN  dev' = [b \in Buffers |->
                   IF Of(b) = {}
                     THEN dev[b]
                     ELSE [i \in DOMAIN dev[b] |->
                             Written(CHOOSE p \in Of(b) : TRUE, i)]]
  /\ queue' = [queue EXCEPT ![s] = Tail(@)]
  /\ UNCHANGED <<host, allocs, kernels, pc, run, locals>>

\* The steps of a run that follow from its call.
Progress ==
  \/ Register
  \/ RegisterFunction
  \/ Malloc
  \/ CopyIn
  \/ LaunchKernel
  \/ Synchronize
  \/ CopyBack
  \/ Release
  \/ Unregister
  \/ FreeAll
  \/ Return
  \/ Refuse

ArgLists == BoundedSeq(Layouts, MaxArgs)

Next ==
  \/ \E a \in ArgLists, s \in Streams :
       \E o \in SUBSET DOMAIN a : Run(a, o, s)
  \/ Progress
  \/ CopyBackRaises
  \/ Fail
  \/ \E s \in Streams : Execute(s)

Spec == Init /\ [][Next]_vars

\* The host thread runs and driver calls return; the device executes what
\* its streams hold.  Nothing obliges the program to launch, or a call to
\* fail.
Fairness ==
  /\ WF_vars(Progress)
  /\ \A s \in Streams : WF_vars(Execute(s))

FairSpec == Spec /\ Fairness

-----------------------------------------------------------------------------
(* Properties *)

TypeOK ==
  /\ host \in [Cells -> Values]
  /\ dev \in [Buffers -> Seq(Values)]
  /\ \A b \in Buffers : Len(dev[b]) <= NCells
  /\ allocs \in SUBSET Buffers
  /\ kernels \in SUBSET Binaries
  /\ queue \in [Streams -> Seq([binary : Binaries, bufs : Seq(Buffers),
                                outs : SUBSET Positions])]
  /\ pc \in Steps
  /\ args \in Seq(Layouts)
  /\ Len(args) <= MaxArgs
  /\ outs \in SUBSET DOMAIN args
  /\ stream \in Streams
  /\ binary \in Binaries \cup {NoBinary}
  /\ handles \in Seq(Buffers)
  /\ Len(handles) <= Len(args)
  /\ at \in Nat
  /\ pc \in {"copyback", "release"} => at \in DOMAIN handles
  /\ raising \in BOOLEAN

\* The kernel's outputs that cover cell c.
Outputs(c) == {k \in outs : c \in ToSet(args[k])}

\* What the program is to find in cell c after a run: what the kernel wrote
\* there, through the last output if several cover the cell, and otherwise
\* its own data.
Expected(c) ==
  LET last == CHOOSE k \in Outputs(c) : \A j \in Outputs(c) : j <= k
  IN  IF Outputs(c) = {}
        THEN Given(c)
        ELSE Written(last, CHOOSE i \in DOMAIN args[last] : args[last][i] = c)

\* Every argument is copied back, also one the kernel only reads: when it
\* comes after all outputs that cover the cell, its copy, of what the caller
\* gave, undoes theirs.
Overwritten(c) ==
  /\ Outputs(c) # {}
  /\ \E j \in DOMAIN args \ outs :
       c \in ToSet(args[j]) /\ \A k \in Outputs(c) : k < j

\* When a run returns without an exception, host memory holds, element for
\* element, what the kernel wrote to its outputs, and nothing else in it has
\* changed; but for cells that a later argument, which the kernel only
\* reads, shares with an output (launcher.py, launch_kernel; memory_handle.py).
\* Cells that several outputs share, or that an earlier read-only argument
\* covers, are not excepted.
ResultsComeBack ==
  pc = "return" => \A c \in Cells : Overwritten(c) \/ host[c] = Expected(c)

\* The same with no exception, as docs/architecture_introduction.md:93 has
\* it: data in host memory is copied to the device and back automatically.
\* It is false of arrays passed again as a later argument that is only read,
\* of streams other than the current one, and of strided arrays.
OutputsComeBack ==
  pc = "return" => \A c \in Cells : host[c] = Expected(c)

\* As long as a kernel is in a stream's queue, its binary is registered and
\* none of its buffers has been given back, also when the run that launched
\* it failed and later runs have cleaned up after it (free_mem).
KernelOnLiveMemory ==
  \A s \in Streams : \A i \in DOMAIN queue[s] :
    /\ queue[s][i].binary \in kernels
    /\ ToSet(queue[s][i].bufs) \subseteq allocs

\* Each argument of a run owns its buffer until it releases it: no two
\* arguments share one, even when the program passes the same array twice,
\* so that no release meets a handle that is not in state.allocs
\* (memory_handle.py, release_memory; interface.py, free).
OwnBuffersHeld ==
  LET held == IF pc \in {"copyback", "release"} THEN at ELSE 1
  IN  pc \notin {"unregister", "freeall", "return"} =>
        \A i \in held .. Len(handles) :
          /\ handles[i] \in allocs
          /\ \A j \in (i + 1) .. Len(handles) : handles[i] # handles[j]

\* A run that returns without an exception leaves no buffer and no binary
\* behind, neither its own nor one of a run that failed before (launcher.py,
\* run: rt.free_mem()).
NothingLeaks ==
  pc = "return" => allocs = {} /\ kernels = {}

\* Every run ends, with its results or with an exception: it never waits for
\* memory that no one will give back, or for a device with nothing to do.
RunEnds == pc # "idle" ~> pc = "idle"

=============================================================================
