----------------------------- MODULE DeviceState -----------------------------
(***************************************************************************)
(* The life of the runtime library, the devices and their streams:         *)
(* python/asc/lib/runtime/interface.py over the module-level variables of  *)
(* state.py, and set_platform of runtime/config.py.                        *)
(*                                                                         *)
(* Every operation begins with _lazy_init, which loads the library, sets   *)
(* the default device and creates a stream when there is none, by calling  *)
(* operations that begin with _lazy_init.  The calls in progress are kept  *)
(* in todo, the one to continue first.  The driver may fail at any call;   *)
(* the exception leaves every call up to the one that catches it.          *)
(*                                                                         *)
(* Programs may make streams of their own and destroy any stream, also the *)
(* runtime's, behind its back.  own and taken are the history of that: no  *)
(* step depends on them, they only serve to say who made what there is.    *)
(***************************************************************************)
EXTENDS Naturals, Sequences, SequencesExt

CONSTANTS
  Devices,         \* device numbers; the default device is 0
  Handles,         \* addresses that malloc may return
  StreamAddresses, \* addresses of streams, which the driver uses again
  None

Backends == {"Model", "NPU"}

ASSUME DeviceAssumption == 0 \in Devices /\ Devices \subseteq Nat /\ None \notin Devices \cup StreamAddresses

VARIABLES
  backend,   \* state.model: the backend chosen last
  lib,       \* state.lib: the backend whose library is loaded, or None
  device,    \* state.device_id
  order,     \* the keys of state.streams, in the order of the dictionary
  stream,    \* state.streams: the address of each device's stream, or None
  allocs,    \* the keys of state.allocs
  open,      \* the driver: devices set since their last reset
  live,      \*   the streams there are, as pairs of address and device
  memory,    \*   handles of live memory
  own,       \* history: those of live that programs made with create_stream
  taken,     \*   devices whose stream, in state.streams, a program destroyed
  todo       \* the calls in progress

state == <<backend, lib, device, order, stream, allocs>>
driver == <<open, live, memory, own, taken>>
vars == <<state, driver, todo>>

\* The devices with a stream in state.streams.
streams == {d \in Devices : stream[d] # None}

\* Streams but for the one at address a, and but for those of device d.
Without(pairs, a) == {p \in pairs : p[1] # a}
NotOf(pairs, d) == {p \in pairs : p[2] # d}
InUse == {p[1] : p \in live}

Call(op, arg) == [op |-> op, arg |-> arg]

\* The three ways _lazy_init is called: how much must be there.
Library == Call("_lazy_init", 1)
Device == Call("_lazy_init", 2)
Stream == Call("_lazy_init", 3)

Running(op) == todo # <<>> /\ Head(todo).op = op
Arg == Head(todo).arg
Continue(steps) == todo' = steps \o Tail(todo)

\* An exception leaves the calls in progress, up to the handler of
\* is_available, which forgets the library.
Raise ==
  LET caught == SelectInSeq(todo, LAMBDA call : call.op = "except")
  IN  IF caught = 0 THEN todo' = <<>> /\ UNCHANGED lib
      ELSE todo' = SubSeq(todo, caught + 1, Len(todo)) /\ lib' = None

Init ==
  /\ backend = "NPU" /\ lib = None /\ device = None
  /\ order = <<>> /\ stream = [d \in Devices |-> None] /\ allocs = {}
  /\ open = {} /\ live = {} /\ memory = {}
  /\ own = {} /\ taken = {}
  /\ todo = <<>>

-----------------------------------------------------------------------------
(* What a program calls.  launch_kernel, synchronize, memcpy and the       *)
(* registration of binaries are "use"; device_count, "query".  The stream  *)
(* it destroys is one of its own, the one current_stream() returned, or    *)
(* one that is gone.                                                       *)

Platform(b, d) ==
  (IF b = "NPU" THEN <<Library, Call("query", None)>> ELSE <<>>)
  \o <<Call("backend", b)>>
  \o (IF d = None THEN <<>> ELSE <<Call("set_device", d)>>)
  \o <<Call("is_available", None)>>

Programs ==
  {<<Call("set_device", d)>> : d \in Devices}
  \cup {<<Call("reset_device", d)>> : d \in Devices \cup {None}}
  \cup {<<Stream, Call("malloc", h)>> : h \in Handles}
  \cup {<<Stream, Call("free_mem", None)>>, <<Stream, Call("use", None)>>,
        <<Library, Call("query", None)>>, <<Call("is_available", None)>>,
        <<Device, Call("create_stream", None)>>}
  \cup {<<Stream, Call("destroy_stream", a)>> : a \in StreamAddresses}
  \cup {Platform(b, d) : b \in Backends, d \in Devices \cup {None}}

Begin ==
  /\ todo = <<>>
  /\ todo' \in Programs
  /\ UNCHANGED <<state, driver>>

-----------------------------------------------------------------------------
(* What the calls do *)

\* load_lib fails before there is a library or, with the NPU's utilities,
\* after it was stored.
LoadLib ==
  /\ Running("_lazy_init") /\ lib = None
  /\ \/ lib' = backend /\ UNCHANGED todo
     \/ Raise
     \/ /\ backend = "NPU" /\ \A i \in DOMAIN todo : todo[i].op # "except"
        /\ lib' = backend /\ todo' = <<>>
  /\ UNCHANGED <<backend, device, order, stream, allocs, driver>>

\* The rest of _lazy_init.  Where there is no stream it calls create_stream,
\* and stores what that returns.
LazyInit ==
  /\ Running("_lazy_init") /\ lib # None
  /\ Continue(CASE Arg = 1 \/ (device # None /\ (Arg = 2 \/ device \in streams)) -> <<>>
                [] Arg # 1 /\ device = None -> <<Call("set_device", 0), Head(todo)>>
                [] OTHER -> <<Device, Call("StreamCreate", None), Head(todo)>>)
  /\ UNCHANGED <<state, driver>>

\* Slip: the device in use is left as it is.
SetDeviceOnTop ==
  /\ Running("set_device")
  /\ Continue(<<Library, Call("SetDevice", Arg)>>)
  /\ UNCHANGED <<state, driver>>

SetDevice ==
  /\ Running("set_device")
  /\ Continue((IF device = None THEN <<>> ELSE <<Call("reset_device", device)>>)
              \o <<Library, Call("SetDevice", Arg)>>)
  /\ UNCHANGED <<state, driver>>

\* Whatever device was named, all streams and the current device go.
ResetDevice ==
  /\ Running("reset_device")
  /\ Continue((IF Arg = None THEN <<Device>> ELSE <<>>) \o <<Stream, Call("destroy", 1)>>)
  /\ UNCHANGED <<state, driver>>

\* The loop over the streams, from a position of the dictionary on.
DestroyLoop ==
  /\ Running("destroy")
  /\ Continue(CASE Arg > Len(order) -> <<Call("DeviceReset", None)>>
                [] Arg <= Len(order) /\ order[Arg] \notin streams -> <<Call("destroy", Arg + 1)>>
                [] OTHER -> <<Stream, Call("StreamDestroy", order[Arg]), Call("destroy", Arg + 1)>>)
  /\ UNCHANGED <<state, driver>>

\* The handles there are at first, in any order.
FreeMem ==
  /\ Running("free_mem")
  /\ Continue(<<Call("free_all", allocs)>>)
  /\ UNCHANGED <<state, driver>>

FreeLoop ==
  /\ Running("free_all")
  /\ IF Arg = {} THEN Continue(<<>>)
     ELSE \E h \in Arg : Continue(<<Stream, Call("free", h), Call("free_all", Arg \ {h})>>)
  /\ UNCHANGED <<state, driver>>

UseBackend ==
  /\ Running("backend")
  /\ backend' = Arg
  /\ Continue(<<>>)
  /\ UNCHANGED <<lib, device, order, stream, allocs, driver>>

IsAvailable ==
  /\ Running("is_available")
  /\ Continue(<<Library, Call("except", None)>>)
  /\ UNCHANGED <<state, driver>>

\* is_available returns: nothing was raised.
NothingRaised ==
  /\ Running("except")
  /\ Continue(<<>>)
  /\ UNCHANGED <<state, driver>>

-----------------------------------------------------------------------------
(* Calls of the driver.  It refuses those that need a device when the      *)
(* current one is not open, and to free what is not live.                  *)

DriverCalls == {"SetDevice", "DeviceReset", "StreamCreate", "StreamDestroy",
                "create_stream", "destroy_stream", "malloc", "free", "use", "query"}
NeedDevice == DriverCalls \ {"SetDevice", "DeviceReset", "query"}

\* Slip: the call is tried again once the library is known to be there.
DriverFailsAgain ==
  /\ todo # <<>> /\ Head(todo).op \in DriverCalls
  /\ todo' = <<Library>> \o todo
  /\ UNCHANGED <<state, driver>>

DriverFails ==
  /\ todo # <<>> /\ Head(todo).op \in DriverCalls
  /\ Raise
  /\ UNCHANGED <<backend, device, order, stream, allocs, driver>>

\* Slip: the device gets no entry among the streams.
DriverSetDeviceNoEntry ==
  /\ Running("SetDevice")
  /\ open' = open \cup {Arg}
  /\ device' = Arg
  /\ Continue(<<>>)
  /\ UNCHANGED <<backend, lib, order, stream, allocs, live, memory, own, taken>>

DriverSetDevice ==
  /\ Running("SetDevice")
  /\ open' = open \cup {Arg}
  /\ device' = Arg
  /\ order' = IF Contains(order, Arg) THEN order ELSE Append(order, Arg)
  /\ stream' = [stream EXCEPT ![Arg] = None]
  /\ taken' = taken \ {Arg}
  /\ Continue(<<>>)
  /\ UNCHANGED <<backend, lib, allocs, live, memory, own>>

\* Slip: the device stays the current one.
DriverDeviceResetStays ==
  /\ Running("DeviceReset")
  /\ open' = open \ {device}
  /\ live' = NotOf(live, device) /\ own' = NotOf(own, device)
  /\ memory' = {}
  /\ Continue(<<>>)
  /\ UNCHANGED <<state, taken>>

\* device_id is compared with the loop's variable: the last key.
DriverDeviceReset ==
  /\ Running("DeviceReset")
  /\ open' = open \ {device}
  /\ live' = NotOf(live, device) /\ own' = NotOf(own, device)
  /\ memory' = {}
  /\ device' = IF Last(order) = device THEN None ELSE device
  /\ Continue(<<>>)
  /\ UNCHANGED <<backend, lib, order, stream, allocs, taken>>

\* The stream of _lazy_init.
DriverStreamCreate ==
  /\ Running("StreamCreate") /\ device \in open
  /\ \E a \in StreamAddresses \ InUse :
       /\ live' = live \cup {<<a, device>>}
       /\ stream' = [stream EXCEPT ![device] = a]
  /\ Continue(<<>>)
  /\ UNCHANGED <<backend, lib, device, order, allocs, open, memory, own, taken>>

\* Slip: create_stream stores the stream as the device's.
DriverCreateStored ==
  /\ Running("create_stream") /\ device \in open
  /\ \E a \in StreamAddresses \ InUse :
       /\ live' = live \cup {<<a, device>>}
       /\ own' = own \cup {<<a, device>>}
       /\ stream' = [stream EXCEPT ![device] = a]
  /\ Continue(<<>>)
  /\ UNCHANGED <<backend, lib, device, order, allocs, open, memory, taken>>

\* A program's stream: the library does not store it.
DriverCreateOwn ==
  /\ Running("create_stream") /\ device \in open
  /\ \E a \in StreamAddresses \ InUse :
       /\ live' = live \cup {<<a, device>>}
       /\ own' = own \cup {<<a, device>>}
  /\ Continue(<<>>)
  /\ UNCHANGED <<state, open, memory, taken>>

\* Slip: the dictionary keeps the destroyed stream.
DriverStreamDestroyKeeps ==
  /\ Running("StreamDestroy") /\ device \in open
  /\ stream[Arg] \in InUse
  /\ live' = Without(live, stream[Arg]) /\ own' = Without(own, stream[Arg])
  /\ taken' = taken \ {Arg}
  /\ Continue(<<>>)
  /\ UNCHANGED <<state, open, memory>>

\* The loop of reset_device destroys a stream and forgets it.
DriverStreamDestroy ==
  /\ Running("StreamDestroy") /\ device \in open
  /\ stream[Arg] \in InUse
  /\ live' = Without(live, stream[Arg]) /\ own' = Without(own, stream[Arg])
  /\ stream' = [stream EXCEPT ![Arg] = None]
  /\ taken' = taken \ {Arg}
  /\ Continue(<<>>)
  /\ UNCHANGED <<backend, lib, device, order, allocs, open, memory>>

\* A program destroys a stream.  If it was the device's, state.streams keeps
\* its address all the same.
DriverDestroyAny ==
  /\ Running("destroy_stream") /\ device \in open
  /\ Arg \in InUse
  /\ live' = Without(live, Arg) /\ own' = Without(own, Arg)
  /\ taken' = taken \cup {d \in Devices : stream[d] = Arg}
  /\ Continue(<<>>)
  /\ UNCHANGED <<state, open, memory>>

DriverMalloc ==
  /\ Running("malloc") /\ device \in open
  /\ Arg \notin memory
  /\ memory' = memory \cup {Arg}
  /\ allocs' = allocs \cup {Arg}
  /\ Continue(<<>>)
  /\ UNCHANGED <<backend, lib, device, order, stream, open, live, own, taken>>

DriverFree ==
  /\ Running("free") /\ device \in open
  /\ Arg \in memory
  /\ memory' = memory \ {Arg}
  /\ allocs' = allocs \ {Arg}
  /\ Continue(<<>>)
  /\ UNCHANGED <<backend, lib, device, order, stream, open, live, own, taken>>

DriverElse ==
  /\ Running("query") \/ (Running("use") /\ device \in open)
  /\ Continue(<<>>)
  /\ UNCHANGED <<state, driver>>

Progress ==
  \/ LoadLib \/ LazyInit \/ SetDevice \/ ResetDevice \/ DestroyLoop
  \/ FreeMem \/ FreeLoop \/ UseBackend \/ IsAvailable \/ NothingRaised
  \/ DriverFails \/ DriverSetDevice \/ DriverDeviceReset \/ DriverStreamCreate
  \/ DriverStreamDestroy \/ DriverCreateOwn \/ DriverDestroyAny \/ DriverMalloc \/ DriverFree \/ DriverElse

Next == Begin \/ Progress

\* A call runs on its program's thread until it returns.
Spec == Init /\ [][Next]_vars /\ WF_vars(Progress)

-----------------------------------------------------------------------------
(* Properties *)

\* The variables have their types.
TypeOK ==
  /\ backend \in Backends /\ lib \in Backends \cup {None}
  /\ device \in Devices \cup {None}
  /\ IsInjective(order) /\ ToSet(order) \subseteq Devices
  /\ stream \in [Devices -> StreamAddresses \cup {None}]
  /\ streams \subseteq ToSet(order) /\ allocs \subseteq Handles
  /\ open \subseteq Devices /\ memory \subseteq Handles
  /\ live \subseteq StreamAddresses \X Devices /\ own \subseteq live /\ taken \subseteq streams

\* No device but the current one is ever open: whatever call of set_device,
\* reset_device or _lazy_init fails, none is left behind that nothing will
\* reset (set_device resets before it sets).
OneDeviceOpen == open \subseteq {device}

\* The streams that state.streams has, but for those a program destroyed.
Known == {<<stream[d], d>> : d \in streams \ taken}

\* Every stream of the driver is either known to state.streams or one that a
\* program made with create_stream and may still destroy, and not both: no
\* failure between two calls loses one, none is used or destroyed by the
\* library after it is gone, and none of a program's is taken for the
\* library's (_lazy_init, create_stream, destroy_stream, reset_device).  The
\* exception is what Known leaves out: a program that destroys the stream of
\* current_stream() leaves its address in state.streams, and if the driver
\* gives the address to the program's next stream, reset_device destroys it.
StreamsAreLive == live = Known \cup own /\ Known \cap own = {}

\* The process and the driver agree on devices and streams, but for streams
\* that a program destroyed under the library.
StateAgrees == TypeOK /\ OneDeviceOpen /\ StreamsAreLive

\* In a process that has used one device only, whoever needs a device finds the
\* current one open (_lazy_init).  With two, the loop of reset_device may leave
\* a closed device the current one.
CalledOnOpenDevice ==
  todo # <<>> /\ Head(todo).op \in NeedDevice /\ Len(order) <= 1 => device \in open

\* Between calls, the library in use is the one of the backend that was
\* chosen (set_platform; docs/python-api/lib/config.md).
BackendIsLoaded == todo = <<>> /\ lib # None => lib = backend

\* The operations call one another through _lazy_init; every call ends all
\* the same, also when the driver fails or the device was lost.
CallReturns == (todo # <<>>) ~> (todo = <<>>)

=============================================================================
