-------------------------- MODULE DeviceState_proofs --------------------------
(***************************************************************************)
(* Proofs about DeviceState, for any devices and handles, and at the end   *)
(* about DeviceMemory, for all addresses and sizes: the two models of      *)
(* interface.py.                                                           *)
(*                                                                         *)
(* What a step of the driver may rely on was established by calls that are *)
(* no longer in progress.  The inductive invariant therefore speaks of the *)
(* calls in todo: which may stand above which, and what holds of devices   *)
(* and streams while certain calls are the next to continue.               *)
(***************************************************************************)
EXTENDS DeviceState, DeviceMemory, SequenceTheorems, TLAPS

Calls ==
  [op : {"_lazy_init"}, arg : 1 .. 3]
  \cup [op : {"set_device", "SetDevice", "StreamDestroy"}, arg : Devices]
  \cup [op : {"reset_device"}, arg : Devices \cup {None}]
  \cup [op : {"destroy"}, arg : Nat \ {0}]
  \cup [op : {"malloc", "free"}, arg : Handles]
  \cup [op : {"free_all"}, arg : SUBSET Handles]
  \cup [op : {"backend"}, arg : Backends]
  \cup [op : {"destroy_stream"}, arg : StreamAddresses]
  \cup [op : {"StreamCreate", "DeviceReset", "free_mem", "use", "query", "except", "is_available", "create_stream"}, arg : {None}]

\* A reset in one of its three parts.
Resets == {"reset_device", "destroy", "DeviceReset"}

\* Call a is made by, or before, call b: whoever needs a device has had one
\* made sure of, and the loop over the streams goes on after each of them.
Above(a, b) ==
  /\ a.op \notin {"except", "is_available"} /\ b.op # "DeviceReset"
  /\ b.op \in {"malloc", "free", "use", "StreamDestroy", "destroy_stream"} => a = Stream
  /\ b.op \in {"StreamCreate", "create_stream"} => a = Device
  /\ a.op = "StreamCreate" => b = Stream
  /\ b.op = "SetDevice" => a = Library
  /\ b.op = "destroy" => IF b.arg = 1 THEN a = Stream ELSE a.op = "StreamDestroy"

\* The calls in progress follow one another as the operations make them.
WellStacked(s) ==
  /\ s \in Seq(Calls)
  /\ \A i \in 2 .. Len(s) : Above(s[i - 1], s[i])
  /\ \A i \in 3 .. Len(s) : s[i].op \notin {"StreamCreate", "StreamDestroy"} /\ (s[i].op = "SetDevice" => s[i - 2].op \in Resets)
  /\ \A i \in 4 .. Len(s) : s[i].op = "destroy" => s[i].arg = 1

Typing == TypeOK /\ order \in Seq(Devices) /\ WellStacked(todo)

\* The devices and the streams, at any time.
Current ==
  /\ OneDeviceOpen /\ StreamsAreLive
  /\ streams \subseteq {device} /\ device \in ToSet(order) \cup {None}
  /\ Len(order) <= 1 /\ device # None => device \in open

\* What the call to continue with may rely on.
AtTop ==
  todo # <<>> =>
    /\ todo[1].op \in NeedDevice \cup {"destroy"} => device # None
    /\ todo[1].op = "DeviceReset" => streams = {}
    /\ todo[1].op = "destroy" => \A j \in 1 .. todo[1].arg - 1 : j \in 1 .. Len(order) /\ order[j] \notin streams

\* What the calls next to it may rely on.
NearTop ==
  \A i \in 1 .. Len(todo) :
    /\ i <= 2 /\ todo[i].op = "SetDevice" => open = {} /\ streams = {}
    /\ i <= 2 /\ todo[i].op = "StreamDestroy" => todo[i].arg = device /\ device \in streams
    /\ i <= 2 /\ todo[i].op = "StreamCreate" => device # None /\ device \notin streams
    /\ i \in {2, 3} /\ todo[i].op = "destroy" /\ todo[i].arg # 1 =>
         todo[i].arg - 1 \in 1 .. Len(order) /\ order[todo[i].arg - 1] = device

IInv == Typing /\ Current /\ AtTop /\ NearTop

-----------------------------------------------------------------------------
(* Facts about the calls in progress.                                      *)

\* What the arguments of a call are.
LEMMA CallArguments ==
  ASSUME NEW c \in Calls
  PROVE  /\ c = Call(c.op, c.arg)
         /\ c.op = "_lazy_init" => c.arg \in 1 .. 3
         /\ c.op \in {"set_device", "SetDevice", "StreamDestroy"} => c.arg \in Devices
         /\ c.op = "reset_device" => c.arg \in Devices \cup {None}
         /\ c.op = "destroy" => c.arg \in Nat \ {0}
         /\ c.op \in {"malloc", "free"} => c.arg \in Handles
         /\ c.op = "free_all" => c.arg \in SUBSET Handles
         /\ c.op = "backend" => c.arg \in Backends
         /\ c.op = "destroy_stream" => c.arg \in StreamAddresses
BY DEF Calls, Call

\* The calls the operations make.
LEMMA CallsMade ==
  /\ Library \in Calls /\ Device \in Calls /\ Stream \in Calls
  /\ \A d \in Devices : Call("set_device", d) \in Calls /\ Call("SetDevice", d) \in Calls /\ Call("StreamDestroy", d) \in Calls
  /\ \A d \in Devices \cup {None} : Call("reset_device", d) \in Calls
  /\ \A n \in Nat \ {0} : Call("destroy", n) \in Calls
  /\ \A h \in Handles : Call("malloc", h) \in Calls /\ Call("free", h) \in Calls
  /\ \A hs \in SUBSET Handles : Call("free_all", hs) \in Calls
  /\ \A b \in Backends : Call("backend", b) \in Calls
  /\ Call("StreamCreate", None) \in Calls /\ Call("DeviceReset", None) \in Calls /\ Call("free_mem", None) \in Calls
  /\ Call("use", None) \in Calls /\ Call("query", None) \in Calls /\ Call("except", None) \in Calls
  /\ Call("is_available", None) \in Calls /\ Call("create_stream", None) \in Calls
  /\ \A a \in StreamAddresses : Call("destroy_stream", a) \in Calls
BY DEF Calls, Call, Library, Device, Stream

LEMMA NoneStacked == WellStacked(<<>>)
BY DEF WellStacked

\* A call returns.
LEMMA Returned ==
  ASSUME NEW s, WellStacked(s), s # <<>>
  PROVE  /\ WellStacked(Tail(s)) /\ Len(Tail(s)) = Len(s) - 1 /\ Tail(s) \in Seq(Calls)
         /\ \A i \in 1 .. Len(Tail(s)) : Tail(s)[i] = s[i + 1]
<1>1. s \in Seq(Calls) /\ Len(s) \in Nat \ {0}
  BY DEF WellStacked
<1>2. Tail(s) \in Seq(Calls) /\ Len(Tail(s)) = Len(s) - 1 /\ \A i \in 1 .. Len(Tail(s)) : Tail(s)[i] = s[i + 1]
  BY <1>1
<1> DEFINE t == Tail(s)
<1>3. \A i \in 2 .. Len(t) : Above(t[i - 1], t[i])
  <2> SUFFICES ASSUME NEW i \in 2 .. Len(t) PROVE Above(t[i - 1], t[i])
    OBVIOUS
  <2>1. t[i] = s[i + 1] /\ t[i - 1] = s[i] /\ i + 1 \in 2 .. Len(s) /\ (i + 1) - 1 = i
    BY <1>1, <1>2
  <2> QED BY <2>1 DEF WellStacked
<1>4. \A i \in 3 .. Len(t) : t[i].op \notin {"StreamCreate", "StreamDestroy"} /\ (t[i].op = "SetDevice" => t[i - 2].op \in Resets)
  <2> SUFFICES ASSUME NEW i \in 3 .. Len(t) PROVE t[i].op \notin {"StreamCreate", "StreamDestroy"} /\ (t[i].op = "SetDevice" => t[i - 2].op \in Resets)
    OBVIOUS
  <2>1. t[i] = s[i + 1] /\ t[i - 2] = s[i - 1] /\ i + 1 \in 3 .. Len(s) /\ (i + 1) - 2 = i - 1
    BY <1>1, <1>2
  <2> QED BY <2>1 DEF WellStacked
<1>5. \A i \in 4 .. Len(t) : t[i].op = "destroy" => t[i].arg = 1
  BY <1>1, <1>2 DEF WellStacked
<1> QED BY <1>2, <1>3, <1>4, <1>5 DEF WellStacked

\* A call makes another.
LEMMA Made ==
  ASSUME NEW s, WellStacked(s), NEW c \in Calls,
         Len(s) >= 1 => Above(c, s[1]),
         Len(s) >= 2 => s[2].op \notin {"StreamCreate", "StreamDestroy"} /\ (s[2].op = "SetDevice" => c.op \in Resets),
         Len(s) >= 3 => (s[3].op = "destroy" => s[3].arg = 1)
  PROVE  /\ WellStacked(<<c>> \o s) /\ Len(<<c>> \o s) = Len(s) + 1 /\ (<<c>> \o s)[1] = c
         /\ \A i \in 2 .. Len(s) + 1 : (<<c>> \o s)[i] = s[i - 1]
<1> DEFINE t == <<c>> \o s
<1>1. s \in Seq(Calls) /\ Len(s) \in Nat /\ <<c>> \in Seq(Calls)
  BY DEF WellStacked
<1>2. t \in Seq(Calls) /\ Len(t) = Len(s) + 1 /\ t[1] = c /\ \A i \in 2 .. Len(t) : t[i] = s[i - 1]
  BY <1>1
<1>3. \A i \in 2 .. Len(t) : Above(t[i - 1], t[i])
  <2> SUFFICES ASSUME NEW i \in 2 .. Len(t) PROVE Above(t[i - 1], t[i])
    OBVIOUS
  <2>1. CASE i = 2
    BY <1>1, <1>2, <2>1
  <2>2. CASE i # 2
    <3>1. i - 1 \in 2 .. Len(s) /\ i - 1 \in 2 .. Len(t) /\ t[i] = s[i - 1] /\ t[i - 1] = s[(i - 1) - 1]
      BY <1>1, <1>2, <2>2
    <3> QED BY <3>1 DEF WellStacked
  <2> QED BY <2>1, <2>2
<1>4. \A i \in 3 .. Len(t) : t[i].op \notin {"StreamCreate", "StreamDestroy"} /\ (t[i].op = "SetDevice" => t[i - 2].op \in Resets)
  <2> SUFFICES ASSUME NEW i \in 3 .. Len(t) PROVE t[i].op \notin {"StreamCreate", "StreamDestroy"} /\ (t[i].op = "SetDevice" => t[i - 2].op \in Resets)
    OBVIOUS
  <2>1. CASE i = 3
    BY <1>1, <1>2, <2>1
  <2>2. CASE i # 3
    <3>1. i - 1 \in 3 .. Len(s) /\ t[i] = s[i - 1] /\ i - 2 \in 2 .. Len(t) /\ t[i - 2] = s[(i - 1) - 2]
      BY <1>1, <1>2, <2>2
    <3> QED BY <3>1 DEF WellStacked
  <2> QED BY <2>1, <2>2
<1>5. \A i \in 4 .. Len(t) : t[i].op = "destroy" => t[i].arg = 1
  <2> SUFFICES ASSUME NEW i \in 4 .. Len(t) PROVE t[i].op = "destroy" => t[i].arg = 1
    OBVIOUS
  <2>1. t[i] = s[i - 1] /\ (i = 4 => i - 1 = 3 /\ Len(s) >= 3) /\ (i # 4 => i - 1 \in 4 .. Len(s))
    BY <1>1, <1>2
  <2> QED BY <2>1 DEF WellStacked
<1> QED BY <1>2, <1>3, <1>4, <1>5 DEF WellStacked

\* Several calls are made at once.
OverTwo(a, b, s) == <<a, b>> \o s
OverThree(a, b, c, s) == <<a, b, c>> \o s

LEMMA TwoInOrder ==
  ASSUME NEW s \in Seq(Calls), NEW a \in Calls, NEW b \in Calls
  PROVE  OverTwo(a, b, s) = <<a>> \o (<<b>> \o s)
<1>1. <<a>> \in Seq(Calls) /\ <<b>> \in Seq(Calls) /\ <<a, b>> \in Seq(Calls)
  OBVIOUS
<1>2. <<a>> \o <<b>> = <<a, b>>
  <2>1. /\ <<a>> \o <<b>> \in Seq(Calls) /\ Len(<<a>> \o <<b>>) = Len(<<a, b>>)
        /\ \A i \in 1 .. Len(<<a, b>>) : (<<a>> \o <<b>>)[i] = <<a, b>>[i]
    BY <1>1
  <2> QED BY <1>1, <2>1, SeqEqual
<1>3. (<<a>> \o <<b>>) \o s = <<a>> \o (<<b>> \o s)
  BY <1>1, ConcatAssociative
<1> QED BY <1>2, <1>3 DEF OverTwo

LEMMA ThreeInOrder ==
  ASSUME NEW s \in Seq(Calls), NEW a \in Calls, NEW b \in Calls, NEW c \in Calls
  PROVE  OverThree(a, b, c, s) = <<a>> \o OverTwo(b, c, s)
<1>1. /\ <<a>> \in Seq(Calls) /\ <<b, c>> \in Seq(Calls) /\ <<a, b, c>> \in Seq(Calls)
  OBVIOUS
<1>2. <<a>> \o <<b, c>> = <<a, b, c>>
  <2>1. /\ <<a>> \o <<b, c>> \in Seq(Calls) /\ Len(<<a>> \o <<b, c>>) = Len(<<a, b, c>>)
        /\ \A i \in 1 .. Len(<<a, b, c>>) : (<<a>> \o <<b, c>>)[i] = <<a, b, c>>[i]
    BY <1>1
  <2> QED BY <1>1, <2>1, SeqEqual
<1>3. (<<a>> \o <<b, c>>) \o s = <<a>> \o (<<b, c>> \o s)
  BY <1>1, ConcatAssociative
<1> QED BY <1>2, <1>3 DEF OverTwo, OverThree

\* The calls that were made sure of something before, or leave something to
\* the one below.
Binding == {"_lazy_init", "StreamCreate", "StreamDestroy"}

LEMMA Topmost ==
  ASSUME WellStacked(todo), todo # <<>>
  PROVE  /\ Len(todo) \in Nat \ {0} /\ todo \in Seq(Calls) /\ Head(todo) = todo[1] /\ todo[1] \in Calls
         /\ Len(todo) >= 2 => todo[2] \in Calls /\ Above(todo[1], todo[2])
         /\ Len(todo) >= 3 => todo[3] \in Calls /\ Above(todo[2], todo[3])
<1>1. Len(todo) \in Nat \ {0} /\ todo \in Seq(Calls) /\ Head(todo) = todo[1] /\ todo[1] \in Calls
  BY DEF WellStacked
<1>2. Len(todo) >= 2 => todo[2] \in Calls /\ Above(todo[2 - 1], todo[2])
  BY <1>1 DEF WellStacked
<1>3. Len(todo) >= 3 => todo[3] \in Calls /\ Above(todo[3 - 1], todo[3])
  BY <1>1 DEF WellStacked
<1> QED BY <1>1, <1>2, <1>3

\* What is below a call that is not one of them waits for nothing.
LEMMA BelowPlain ==
  ASSUME WellStacked(todo), todo # <<>>, todo[1].op \notin Binding
  PROVE  /\ Len(todo) >= 2 => todo[2].op \notin NeedDevice \cup {"destroy", "DeviceReset", "SetDevice"} /\ todo[1].op \notin {"except", "is_available"}
         /\ Len(todo) >= 3 => /\ todo[3].op \notin {"StreamCreate", "StreamDestroy"} /\ (todo[3].op = "SetDevice" => todo[1].op \in Resets)
                              /\ todo[3].op = "destroy" => todo[3].arg = 1
         /\ \A i \in 4 .. Len(todo) : todo[i].op = "destroy" => todo[i].arg = 1
<1>1. Len(todo) >= 2 => todo[2].op \notin NeedDevice \cup {"destroy", "DeviceReset", "SetDevice"} /\ todo[1].op \notin {"except", "is_available"}
  BY Topmost DEF Above, Binding, Library, Device, Stream, Call, NeedDevice, DriverCalls
<1>2. Len(todo) >= 3 => (todo[3].op = "destroy" => todo[3].arg = 1)
  BY <1>1, Topmost DEF Above, NeedDevice, DriverCalls
<1>3. Len(todo) >= 3 => todo[3].op \notin {"StreamCreate", "StreamDestroy"} /\ (todo[3].op = "SetDevice" => todo[3 - 2].op \in Resets)
  BY Topmost DEF WellStacked
<1> QED BY <1>1, <1>2, <1>3 DEF WellStacked

\* Such a call returns.
LEMMA PlainReturn ==
  ASSUME WellStacked(todo), todo # <<>>, todo[1].op \notin Binding, todo' = Tail(todo),
         todo[1].op \in Resets => open' = {} /\ streams' = {}
  PROVE  WellStacked(todo)' /\ AtTop' /\ NearTop'
<1>1. /\ WellStacked(todo') /\ Len(todo') = Len(todo) - 1 /\ Len(todo) \in Nat
      /\ \A i \in 1 .. Len(todo') : todo'[i] = todo[i + 1]
  BY Returned, Topmost
<1>2. AtTop'
  BY <1>1, BelowPlain DEF AtTop, WellStacked
<1>3. NearTop'
  <2> SUFFICES ASSUME NEW i \in 1 .. Len(todo')
               PROVE  /\ i <= 2 /\ todo'[i].op = "SetDevice" => open' = {} /\ streams' = {}
                      /\ ~(i <= 2 /\ todo'[i].op \in {"StreamCreate", "StreamDestroy"})
                      /\ ~(i \in {2, 3} /\ todo'[i].op = "destroy" /\ todo'[i].arg # 1)
    BY DEF NearTop
  <2>1. CASE i = 1
    BY <1>1, <2>1, BelowPlain DEF NeedDevice, DriverCalls
  <2>2. CASE i = 2
    BY <1>1, <2>2, BelowPlain
  <2>3. CASE i > 2
    <3>1. todo'[i] = todo[i + 1] /\ i + 1 \in 4 .. Len(todo)
      BY <1>1, <2>3
    <3> QED BY <2>3, <3>1, BelowPlain
  <2> QED BY <2>1, <2>2, <2>3
<1> QED BY <1>1, <1>2, <1>3

\* Such a call goes on as another.
LEMMA PlainReplaced ==
  ASSUME WellStacked(todo), todo # <<>>, todo[1].op \notin Binding,
         NEW c \in Calls, c.op \notin {"except", "is_available", "StreamCreate"}, todo[1].op \in Resets => c.op \in Resets
  PROVE  /\ WellStacked(<<c>> \o Tail(todo)) /\ Len(<<c>> \o Tail(todo)) = Len(todo) /\ (<<c>> \o Tail(todo))[1] = c
         /\ \A i \in 2 .. Len(todo) : (<<c>> \o Tail(todo))[i] = todo[i]
<1> DEFINE s == Tail(todo)
<1>1. /\ WellStacked(s) /\ Len(s) = Len(todo) - 1 /\ Len(todo) \in Nat \ {0}
      /\ \A i \in 1 .. Len(s) : s[i] = todo[i + 1]
  BY Returned, Topmost
<1>2. Len(s) >= 1 => Above(c, s[1])
  BY <1>1, Topmost DEF Above, Binding, Library, Device, Stream, Call
<1>3. Len(s) >= 2 => s[2].op \notin {"StreamCreate", "StreamDestroy"} /\ (s[2].op = "SetDevice" => c.op \in Resets)
  BY <1>1, BelowPlain
<1>4. Len(s) >= 3 => (s[3].op = "destroy" => s[3].arg = 1)
  BY <1>1, BelowPlain
<1> HIDE DEF s
<1>5. /\ WellStacked(<<c>> \o s) /\ Len(<<c>> \o s) = Len(s) + 1 /\ (<<c>> \o s)[1] = c
      /\ \A i \in 2 .. Len(s) + 1 : (<<c>> \o s)[i] = s[i - 1]
  BY <1>1, <1>2, <1>3, <1>4, Made
<1>6. \A i \in 2 .. Len(todo) : (<<c>> \o s)[i] = todo[i]
  <2> TAKE i \in 2 .. Len(todo)
  <2>1. i - 1 \in 1 .. Len(s) /\ (i - 1) + 1 = i /\ i \in 2 .. Len(s) + 1
    BY <1>1
  <2> QED BY <1>1, <1>5, <2>1
<1> QED BY <1>1, <1>5, <1>6 DEF s

-----------------------------------------------------------------------------
(* The steps.                                                              *)

LEMMA InitInv == Init => IInv
<1> SUFFICES ASSUME Init PROVE IInv
  OBVIOUS
<1>0. streams = {}
  BY DEF Init, streams
<1>1. Typing
  BY <1>0, NoneStacked DEF Init, Typing, TypeOK, Backends, IsInjective, ToSet
<1>2. Current
  BY <1>0 DEF Init, Current, OneDeviceOpen, StreamsAreLive, Known
<1> QED BY <1>1, <1>2 DEF Init, IInv, AtTop, NearTop

\* No call is in progress.
LEMMA NothingInProgress == ASSUME todo' = <<>> PROVE WellStacked(todo)' /\ AtTop' /\ NearTop'
BY NoneStacked DEF AtTop, NearTop

\* Calls that no other relies on.
LEMMA Independent ==
  ASSUME NEW s \in Seq(Calls), todo' = s,
         \A i \in 1 .. Len(s) : s[i].op \in {"_lazy_init", "query", "backend", "set_device", "reset_device", "except", "is_available"},
         \A i \in 1 .. Len(s) - 1 : s[i].op \notin {"except", "is_available"}
  PROVE  WellStacked(todo)' /\ AtTop' /\ NearTop'
<1>1. WellStacked(s)
  <2>1. \A i \in 2 .. Len(s) : Above(s[i - 1], s[i])
    <3> SUFFICES ASSUME NEW i \in 2 .. Len(s) PROVE Above(s[i - 1], s[i])
      OBVIOUS
    <3>1. i - 1 \in 1 .. Len(s) - 1 /\ i - 1 \in 1 .. Len(s) /\ i \in 1 .. Len(s)
      OBVIOUS
    <3> QED BY <3>1 DEF Above
  <2>2. \A i \in 3 .. Len(s) : s[i].op \notin {"StreamCreate", "StreamDestroy"} /\ (s[i].op = "SetDevice" => s[i - 2].op \in Resets)
    OBVIOUS
  <2>3. \A i \in 4 .. Len(s) : s[i].op = "destroy" => s[i].arg = 1
    OBVIOUS
  <2> QED BY <2>1, <2>2, <2>3 DEF WellStacked
<1>2. AtTop' /\ NearTop'
  BY DEF AtTop, NearTop, NeedDevice, DriverCalls
<1> QED BY <1>1, <1>2

\* A call that needs a device, after _lazy_init.
LEMMA AfterStream ==
  ASSUME NEW b, NEW c \in Calls, todo' = <<b, c>>,
         \/ b = Stream /\ c.op \in {"malloc", "free_mem", "use", "destroy_stream"}
         \/ b = Device /\ c.op = "create_stream"
  PROVE  WellStacked(todo)' /\ AtTop' /\ NearTop'
<1>1. b.op = "_lazy_init" /\ b \in Calls
  BY CallsMade DEF Stream, Device, Call
<1>2. WellStacked(<<b, c>>)
  BY <1>1 DEF WellStacked, Above
<1> QED BY <1>1, <1>2 DEF AtTop, NearTop, NeedDevice, DriverCalls

LEMMA PlatformStacked ==
  ASSUME NEW b \in Backends, NEW d \in Devices \cup {None}, todo' = Platform(b, d)
  PROVE  WellStacked(todo)' /\ AtTop' /\ NearTop'
<1> DEFINE Plain == {c \in Calls : c.op \in {"_lazy_init", "query", "backend", "set_device"}}
           first == IF b = "NPU" THEN <<Library, Call("query", None)>> ELSE <<>>
           third == IF d = None THEN <<>> ELSE <<Call("set_device", d)>>
           front == (first \o <<Call("backend", b)>>) \o third
           end == <<Call("is_available", None)>>
<1>1. /\ Library \in Plain /\ Call("query", None) \in Plain /\ Call("backend", b) \in Plain
      /\ d # None => Call("set_device", d) \in Plain
  BY CallsMade DEF Library, Call
<1> HIDE DEF Plain
<1>2. first \in Seq(Plain) /\ <<Call("backend", b)>> \in Seq(Plain) /\ third \in Seq(Plain)
  BY <1>1
<1> HIDE DEF first, third
<1>3. front \in Seq(Plain)
  BY <1>2
<1> HIDE DEF front
<1>4. end \in Seq(Calls) /\ Len(end) = 1 /\ end[1] = Call("is_available", None)
  BY CallsMade
<1> HIDE DEF end
<1>5. front \in Seq(Calls) /\ \A i \in 1 .. Len(front) : front[i].op \in {"_lazy_init", "query", "backend", "set_device"}
  BY <1>3 DEF Plain
<1>6. /\ todo' \in Seq(Calls) /\ Len(todo') = Len(front) + 1
      /\ \A i \in 1 .. Len(todo') : todo'[i] = IF i <= Len(front) THEN front[i] ELSE end[i - Len(front)]
  <2>1. todo' = front \o end
    BY DEF Platform, front, end, first, third
  <2>2. /\ front \o end \in Seq(Calls) /\ Len(front \o end) = Len(front) + Len(end)
        /\ \A i \in 1 .. Len(front) + Len(end) : (front \o end)[i] = IF i <= Len(front) THEN front[i] ELSE end[i - Len(front)]
    BY <1>4, <1>5, ConcatProperties
  <2> QED BY <1>4, <2>1, <2>2
<1>7. \A i \in 1 .. Len(todo') :
        /\ todo'[i].op \in {"_lazy_init", "query", "backend", "set_device", "reset_device", "except", "is_available"}
        /\ i <= Len(todo') - 1 => todo'[i].op \notin {"except", "is_available"}
  <2> SUFFICES ASSUME NEW i \in 1 .. Len(todo')
               PROVE  /\ todo'[i].op \in {"_lazy_init", "query", "backend", "set_device", "reset_device", "except", "is_available"}
                      /\ i <= Len(todo') - 1 => todo'[i].op \notin {"except", "is_available"}
    OBVIOUS
  <2>1. CASE i <= Len(front)
    BY <1>5, <1>6, <2>1
  <2>2. CASE i = Len(front) + 1
    BY <1>4, <1>5, <1>6, <2>2 DEF Call
  <2> QED BY <1>5, <1>6, <2>1, <2>2
<1> QED BY <1>6, <1>7, Independent

\* The one handler there is catches for the last call of a program.
LEMMA RaiseEnds ==
  ASSUME WellStacked(todo), Raise
  PROVE  todo' = <<>> /\ lib' \in {lib, None}
<1> DEFINE I == {i \in 1 .. Len(todo) : todo[i].op = "except"}
           caught == IF I # {} THEN Min(I) ELSE 0
<1>1. todo \in Seq(Calls) /\ Len(todo) \in Nat
  BY DEF WellStacked
<1>2. \A i \in I : i = Len(todo)
  <2> SUFFICES ASSUME NEW i \in 1 .. Len(todo), todo[i].op = "except", i # Len(todo) PROVE FALSE
    OBVIOUS
  <2>1. i + 1 \in 2 .. Len(todo) /\ (i + 1) - 1 = i
    BY <1>1
  <2> QED BY <2>1 DEF WellStacked, Above
<1>3. IF caught = 0 THEN todo' = <<>> /\ UNCHANGED lib
      ELSE todo' = SubSeq(todo, caught + 1, Len(todo)) /\ lib' = None
  BY DEF Raise, SelectInSeq
<1>4. CASE I = {}
  BY <1>3, <1>4
<1>5. CASE I # {}
  <2>1. I = {Len(todo)}
    BY <1>2, <1>5
  <2>2. Min(I) = Len(todo)
    BY <1>1, <2>1 DEF Min
  <2>3. SubSeq(todo, Len(todo) + 1, Len(todo)) = <<>>
    BY <1>1
  <2>4. caught = Len(todo)
    BY <1>5, <2>2
  <2> HIDE DEF caught, I
  <2> QED BY <1>1, <1>3, <2>3, <2>4
<1> QED BY <1>4, <1>5

\* What state.streams has, and what of it is known, stays with its addresses
\* and with what programs destroyed.
LEMMA KnownStays ==
  ASSUME UNCHANGED <<stream, taken>>
  PROVE  streams' = streams /\ Known' = Known
BY DEF streams, Known

\* Steps that change no more than the library.
LEMMA DevicesStay ==
  ASSUME IInv, UNCHANGED <<backend, device, order, stream, allocs, driver>>, lib' \in Backends \cup {None},
         WellStacked(todo)' /\ AtTop' /\ NearTop'
  PROVE  IInv'
<1>1. streams' = streams /\ Known' = Known
  BY KnownStays DEF driver
<1> QED BY <1>1 DEF IInv, Typing, TypeOK, Current, OneDeviceOpen, StreamsAreLive, driver

\* A program calls.
LEMMA BeginPreserves == ASSUME IInv, Begin PROVE IInv'
<1>1. WellStacked(todo)' /\ AtTop' /\ NearTop'
  <2>1. CASE todo' \in {<<Call("set_device", d)>> : d \in Devices} \cup {<<Call("reset_device", d)>> : d \in Devices \cup {None}}
                     \cup {<<Call("is_available", None)>>}
    <3>1. PICK c \in Calls : todo' = <<c>> /\ c.op \in {"set_device", "reset_device", "is_available"}
      BY <2>1, CallsMade DEF Call
    <3>2. <<c>> \in Seq(Calls) /\ Len(<<c>>) = 1 /\ <<c>>[1] = c
      OBVIOUS
    <3>3. \A i \in 1 .. Len(<<c>>) : <<c>>[i] = c
      BY <3>2
    <3>4. \A i \in 1 .. Len(<<c>>) - 1 : FALSE
      BY <3>2
    <3> DEFINE s == <<c>>
    <3>5. /\ s \in Seq(Calls) /\ todo' = s
          /\ \A i \in 1 .. Len(s) : s[i].op \in {"set_device", "reset_device", "is_available"}
          /\ \A i \in 1 .. Len(s) - 1 : FALSE
      BY <3>1, <3>2, <3>3, <3>4
    <3> HIDE DEF s
    <3> QED BY <3>5, Independent
  <2>2. CASE todo' \in {<<Stream, Call("malloc", h)>> : h \in Handles} \cup {<<Stream, Call("destroy_stream", a)>> : a \in StreamAddresses}
                     \cup {<<Stream, Call("free_mem", None)>>, <<Stream, Call("use", None)>>}
    <3>1. PICK c \in Calls : todo' = <<Stream, c>> /\ c.op \in {"malloc", "free_mem", "use", "destroy_stream"}
      BY <2>2, CallsMade DEF Call
    <3> QED BY <3>1, AfterStream
  <2>3. CASE todo' = <<Library, Call("query", None)>>
    <3> DEFINE c == Call("query", None)
    <3>1. c \in Calls /\ c.op = "query" /\ Library.op = "_lazy_init" /\ Library \in Calls
      BY CallsMade DEF Library, Call
    <3> HIDE DEF c
    <3>2. <<Library, c>> \in Seq(Calls) /\ Len(<<Library, c>>) = 2 /\ <<Library, c>>[1] = Library /\ <<Library, c>>[2] = c
      BY <3>1
    <3>3. /\ \A i \in 1 .. Len(<<Library, c>>) : <<Library, c>>[i].op \in {"_lazy_init", "query", "backend", "set_device", "reset_device", "except", "is_available"}
          /\ \A i \in 1 .. Len(<<Library, c>>) - 1 : <<Library, c>>[i].op \notin {"except", "is_available"}
      BY <3>1, <3>2
    <3>4. todo' = <<Library, c>>
      BY <2>3 DEF c
    <3> QED BY <3>2, <3>3, <3>4, Independent
  <2>5. CASE todo' = <<Device, Call("create_stream", None)>>
    <3>1. Call("create_stream", None) \in Calls /\ Call("create_stream", None).op = "create_stream"
      BY CallsMade DEF Call
    <3> QED BY <2>5, <3>1, AfterStream
  <2>4. CASE todo' \in {Platform(b, d) : b \in Backends, d \in Devices \cup {None}}
    BY <2>4, PlatformStacked
  <2> QED BY <2>1, <2>2, <2>3, <2>4, <2>5 DEF Begin, Programs
<1>2. UNCHANGED <<backend, lib, device, order, stream, allocs, driver>>
  BY DEF Begin, state
<1> QED BY <1>1, <1>2, DevicesStay DEF IInv, Typing, TypeOK

\* The library is loaded, or the call fails.
LEMMA LoadPreserves == ASSUME IInv, LoadLib PROVE IInv'
<1>1. UNCHANGED <<backend, device, order, stream, allocs, driver>> /\ backend \in Backends /\ lib \in Backends \cup {None}
  BY DEF LoadLib, IInv, Typing, TypeOK
<1>2. CASE todo' = todo /\ lib' = backend
  <2>1. WellStacked(todo)' /\ AtTop' /\ NearTop'
    BY <1>1, <1>2, KnownStays DEF IInv, Typing, AtTop, NearTop, driver
  <2> QED BY <1>1, <1>2, <2>1, DevicesStay
<1>3. CASE todo' = <<>> /\ lib' \in {backend, lib, None}
  <2>1. WellStacked(todo)' /\ AtTop' /\ NearTop'
    BY <1>3, NothingInProgress
  <2> QED BY <1>1, <1>3, <2>1, DevicesStay
<1>4. (todo' = todo /\ lib' = backend) \/ (todo' = <<>> /\ lib' \in {backend, lib, None})
  <2>1. CASE Raise
    BY <2>1, RaiseEnds DEF IInv, Typing
  <2>2. CASE lib' = backend /\ UNCHANGED todo
    BY <2>2
  <2>3. CASE lib' = backend /\ todo' = <<>>
    BY <2>3
  <2> QED BY <2>1, <2>2, <2>3 DEF LoadLib
<1> QED BY <1>2, <1>3, <1>4

LEMMA DriverFailsPreserves == ASSUME IInv, DriverFails PROVE IInv'
<1>1. todo' = <<>> /\ lib' \in {lib, None}
  BY RaiseEnds DEF DriverFails, IInv, Typing
<1>2. UNCHANGED <<backend, device, order, stream, allocs, driver>> /\ lib \in Backends \cup {None}
  BY DEF DriverFails, IInv, Typing, TypeOK
<1>3. WellStacked(todo)' /\ AtTop' /\ NearTop'
  BY <1>1, NothingInProgress
<1> QED BY <1>1, <1>2, <1>3, DevicesStay

\* The calls that return without more: what stays of devices and streams.
LEMMA ReturnPreserves == ASSUME IInv, UseBackend \/ NothingRaised \/ DriverElse PROVE IInv'
<1>1. WellStacked(todo) /\ todo # <<>> /\ Head(todo).op \in {"backend", "except", "query", "use"} /\ todo' = <<>> \o Tail(todo)
  BY DEF UseBackend, NothingRaised, DriverElse, Running, Continue, IInv, Typing
<1>2. todo[1].op \in {"backend", "except", "query", "use"} /\ todo' = Tail(todo)
  BY <1>1, Topmost, Returned
<1>3. WellStacked(todo)' /\ AtTop' /\ NearTop'
  BY <1>1, <1>2, PlainReturn DEF Binding, Resets
<1>4. backend' \in Backends /\ UNCHANGED <<lib, device, order, stream, allocs, driver>>
  <2>1. CASE UseBackend
    BY <1>1, <2>1, Topmost, CallArguments DEF UseBackend, Running, Arg
  <2>2. CASE NothingRaised \/ DriverElse
    <3>1. UNCHANGED <<state, driver>>
      BY <2>2 DEF NothingRaised, DriverElse
    <3> QED BY <3>1 DEF IInv, Typing, TypeOK, state
  <2> QED BY <2>1, <2>2 DEF UseBackend, NothingRaised, DriverElse
<1> QED BY <1>3, <1>4, KnownStays DEF IInv, Typing, TypeOK, Current, OneDeviceOpen, StreamsAreLive, driver

\* Memory comes and goes, and with a reset goes altogether.
LEMMA MemoryPreserves == ASSUME IInv, DriverMalloc \/ DriverFree PROVE IInv'
<1>1. WellStacked(todo) /\ todo # <<>> /\ Head(todo).op \in {"malloc", "free"} /\ todo' = <<>> \o Tail(todo)
  BY DEF DriverMalloc, DriverFree, Running, Continue, IInv, Typing
<1>2. todo[1].op \in {"malloc", "free"} /\ todo' = Tail(todo) /\ Arg \in Handles
  BY <1>1, Topmost, Returned, CallArguments DEF Arg
<1>3. WellStacked(todo)' /\ AtTop' /\ NearTop'
  BY <1>1, <1>2, PlainReturn DEF Binding, Resets
<1>4. UNCHANGED <<backend, lib, device, order, stream, open, live, own, taken>> /\ memory' \subseteq Handles /\ allocs' \subseteq Handles
  BY <1>2 DEF DriverMalloc, DriverFree, IInv, Typing, TypeOK
<1> QED BY <1>3, <1>4, KnownStays DEF IInv, Typing, TypeOK, Current, OneDeviceOpen, StreamsAreLive

\* Such a call goes on as two others.
LEMMA PlainMakesTwo ==
  ASSUME WellStacked(todo), todo # <<>>, todo[1].op \notin Binding,
         NEW c \in Calls, c.op \notin {"except", "is_available", "StreamCreate", "StreamDestroy"}, todo[1].op \in Resets => c.op \in Resets,
         NEW b \in Calls, Above(b, c)
  PROVE  /\ WellStacked(<<b, c>> \o Tail(todo)) /\ Len(<<b, c>> \o Tail(todo)) = Len(todo) + 1
         /\ (<<b, c>> \o Tail(todo))[1] = b /\ (<<b, c>> \o Tail(todo))[2] = c
         /\ \A i \in 3 .. Len(todo) + 1 : (<<b, c>> \o Tail(todo))[i] = todo[i - 1]
<1> DEFINE t == <<b, c>> \o Tail(todo)
<1> DEFINE s == <<c>> \o Tail(todo)
<1>1. Len(todo) \in Nat \ {0} /\ Tail(todo) \in Seq(Calls)
  BY Topmost, Returned
<1>2. WellStacked(s) /\ Len(s) = Len(todo) /\ s[1] = c /\ \A i \in 2 .. Len(todo) : s[i] = todo[i]
  BY PlainReplaced
<1>3. t = <<b>> \o s
  <2>1. OverTwo(b, c, Tail(todo)) = <<b>> \o (<<c>> \o Tail(todo))
    BY <1>1, TwoInOrder
  <2> QED BY <2>1 DEF OverTwo
<1> HIDE DEF s, t
<1>4. /\ Len(s) >= 2 => s[2].op \notin {"StreamCreate", "StreamDestroy", "SetDevice", "destroy"}
      /\ Len(s) >= 3 => (s[3].op = "destroy" => s[3].arg = 1)
  BY <1>1, <1>2, BelowPlain DEF NeedDevice, DriverCalls
<1>5. WellStacked(t) /\ Len(t) = Len(s) + 1 /\ t[1] = b /\ \A i \in 2 .. Len(s) + 1 : t[i] = s[i - 1]
  <2>1. Len(s) >= 1 => Above(b, s[1])
    BY <1>2
  <2>2. Len(s) >= 2 => s[2].op \notin {"StreamCreate", "StreamDestroy"} /\ (s[2].op = "SetDevice" => b.op \in Resets)
    BY <1>4
  <2>3. WellStacked(<<b>> \o s) /\ Len(<<b>> \o s) = Len(s) + 1 /\ (<<b>> \o s)[1] = b
        /\ \A i \in 2 .. Len(s) + 1 : (<<b>> \o s)[i] = s[i - 1]
    BY <1>2, <1>4, <2>1, <2>2, Made
  <2> QED BY <1>3, <2>3
<1>6. t[2] = c
  BY <1>1, <1>2, <1>5
<1>7. \A i \in 3 .. Len(todo) + 1 : t[i] = todo[i - 1]
  <2> TAKE i \in 3 .. Len(todo) + 1
  <2>1. i - 1 \in 2 .. Len(todo) /\ i \in 2 .. Len(s) + 1
    BY <1>1, <1>2
  <2> QED BY <1>2, <1>5, <2>1
<1> QED BY <1>2, <1>5, <1>6, <1>7 DEF t

\* Such a call goes on as three others.
LEMMA PlainMakesThree ==
  ASSUME WellStacked(todo), todo # <<>>, todo[1].op \notin Binding,
         NEW c \in Calls, c.op \notin {"except", "is_available", "StreamCreate", "StreamDestroy"}, todo[1].op \in Resets => c.op \in Resets,
         NEW b \in Calls, Above(b, c),
         NEW a \in Calls, Above(a, b), c.op = "SetDevice" => a.op \in Resets
  PROVE  LET u == <<a, b, c>> \o Tail(todo)
         IN  /\ WellStacked(u) /\ Len(u) = Len(todo) + 2 /\ u[1] = a /\ u[2] = b /\ u[3] = c
             /\ \A i \in 4 .. Len(todo) + 2 : u[i] = todo[i - 2]
<1> DEFINE t == <<b, c>> \o Tail(todo)
           u == <<a, b, c>> \o Tail(todo)
<1>1. Len(todo) \in Nat \ {0} /\ Tail(todo) \in Seq(Calls)
  BY Topmost, Returned
<1>2. /\ WellStacked(t) /\ Len(t) = Len(todo) + 1 /\ t[1] = b /\ t[2] = c
      /\ \A i \in 3 .. Len(todo) + 1 : t[i] = todo[i - 1]
  BY PlainMakesTwo
<1>3. u = <<a>> \o t
  <2>1. OverThree(a, b, c, Tail(todo)) = <<a>> \o OverTwo(b, c, Tail(todo))
    BY <1>1, ThreeInOrder
  <2> QED BY <2>1 DEF OverTwo, OverThree
<1> HIDE DEF t, u
<1>4. Len(t) >= 3 => t[3].op # "destroy"
  BY <1>1, <1>2, BelowPlain
<1>5. WellStacked(u) /\ Len(u) = Len(t) + 1 /\ u[1] = a /\ \A i \in 2 .. Len(t) + 1 : u[i] = t[i - 1]
  <2>1. Len(t) >= 2 => t[2].op \notin {"StreamCreate", "StreamDestroy"} /\ (t[2].op = "SetDevice" => a.op \in Resets)
    BY <1>2
  <2>2. WellStacked(<<a>> \o t) /\ Len(<<a>> \o t) = Len(t) + 1 /\ (<<a>> \o t)[1] = a
        /\ \A i \in 2 .. Len(t) + 1 : (<<a>> \o t)[i] = t[i - 1]
    BY <1>2, <1>4, <2>1, Made
  <2> QED BY <1>3, <2>2
<1>6. u[2] = b /\ u[3] = c
  BY <1>1, <1>2, <1>5
<1>7. \A i \in 4 .. Len(todo) + 2 : u[i] = todo[i - 2]
  <2> TAKE i \in 4 .. Len(todo) + 2
  <2>1. i - 1 \in 3 .. Len(todo) + 1 /\ i \in 2 .. Len(t) + 1 /\ (i - 1) - 1 = i - 2
    BY <1>1, <1>2
  <2> QED BY <1>2, <1>5, <2>1
<1> QED BY <1>2, <1>5, <1>6, <1>7 DEF u

\* free_mem takes the handles there are, and frees one after the other.
LEMMA FreePreserves == ASSUME IInv, FreeMem \/ FreeLoop PROVE IInv'
<1>1. /\ WellStacked(todo) /\ todo # <<>> /\ todo[1].op \in {"free_mem", "free_all"} /\ Arg = todo[1].arg
      /\ todo[1].op \notin Binding /\ todo[1].op \notin Resets /\ todo[1] \in Calls
  BY Topmost DEF FreeMem, FreeLoop, Running, IInv, Typing, Binding, Resets, Arg
<1>2. UNCHANGED <<state, driver>> /\ streams' = streams
  BY KnownStays DEF FreeMem, FreeLoop, state, driver
<1>3. WellStacked(todo)' /\ AtTop' /\ NearTop'
  <2>1. CASE FreeMem
    <3> DEFINE c == Call("free_all", allocs)
    <3>1. c \in Calls /\ c.op = "free_all" /\ todo' = <<c>> \o Tail(todo)
      BY <2>1, CallsMade DEF FreeMem, Continue, Call, IInv, Typing, TypeOK
    <3> HIDE DEF c
    <3>2. /\ WellStacked(todo') /\ Len(todo') = Len(todo) /\ todo'[1] = c
          /\ \A i \in 2 .. Len(todo) : todo'[i] = todo[i]
      BY <1>1, <3>1, PlainReplaced
    <3> QED BY <1>1, <3>1, <3>2, Topmost, BelowPlain DEF AtTop, NearTop, NeedDevice, DriverCalls
  <2>2. CASE FreeLoop /\ todo' = <<>> \o Tail(todo)
    <3>1. todo' = Tail(todo)
      BY <1>1, <2>2, Returned
    <3> QED BY <1>1, <3>1, PlainReturn
  <2>3. CASE FreeLoop /\ \E h \in Arg : todo' = <<Stream, Call("free", h), Call("free_all", Arg \ {h})>> \o Tail(todo)
    <3>1. Arg \in SUBSET Handles
      BY <1>1, <2>3, CallArguments DEF FreeLoop, Running, Arg
    <3>2. PICK h \in Arg : todo' = <<Stream, Call("free", h), Call("free_all", Arg \ {h})>> \o Tail(todo)
      BY <2>3
    <3> DEFINE b == Call("free", h)
               c == Call("free_all", Arg \ {h})
    <3>3. Stream \in Calls /\ b \in Calls /\ c \in Calls /\ Stream.op = "_lazy_init" /\ b.op = "free" /\ c.op = "free_all"
      BY <3>1, CallsMade DEF Stream, Call
    <3>4. todo' = <<Stream, b, c>> \o Tail(todo)
      BY <3>2
    <3> HIDE DEF b, c
    <3>5. Above(Stream, b) /\ Above(b, c)
      BY <3>3 DEF Above
    <3>6. LET u == <<Stream, b, c>> \o Tail(todo)
          IN  /\ WellStacked(u) /\ Len(u) = Len(todo) + 2 /\ u[1] = Stream /\ u[2] = b /\ u[3] = c
              /\ \A i \in 4 .. Len(todo) + 2 : u[i] = todo[i - 2]
      BY <1>1, <3>3, <3>5, PlainMakesThree
    <3> QED BY <1>1, <3>3, <3>4, <3>6, Topmost DEF AtTop, NearTop, NeedDevice, DriverCalls
  <2> QED BY <2>1, <2>2, <2>3 DEF FreeLoop, FreeMem, Continue
<1> QED BY <1>2, <1>3, DevicesStay DEF IInv, Typing, TypeOK, state

\* set_device resets the device in use, and then sets the other.
LEMMA SetDevicePreserves == ASSUME IInv, SetDevice PROVE IInv'
<1> DEFINE c == Call("SetDevice", Arg)
           a == Call("reset_device", device)
<1>1. /\ WellStacked(todo) /\ todo # <<>> /\ todo[1].op = "set_device" /\ Arg \in Devices
      /\ todo[1].op \notin Binding /\ todo[1].op \notin Resets /\ todo[1] \in Calls
  BY Topmost, CallArguments DEF SetDevice, Running, IInv, Typing, Binding, Resets, Arg
<1>2. UNCHANGED <<state, driver>> /\ streams' = streams /\ device \in Devices \cup {None}
  BY KnownStays DEF SetDevice, IInv, Typing, TypeOK, state, driver
<1>3. /\ Library \in Calls /\ c \in Calls /\ a \in Calls
      /\ Library.op = "_lazy_init" /\ c.op = "SetDevice" /\ a.op = "reset_device"
  BY <1>1, <1>2, CallsMade DEF Library, Call
<1>4. todo' = (IF device = None THEN <<>> ELSE <<a>>) \o <<Library, c>> \o Tail(todo)
  BY DEF SetDevice, Continue
<1> HIDE DEF a, c
<1>5. Above(Library, c) /\ Above(a, Library) /\ a.op \in Resets /\ Tail(todo) \in Seq(Calls)
  BY <1>1, <1>3, Returned DEF Above, Resets
<1>6. WellStacked(todo)' /\ AtTop' /\ NearTop'
  <2>1. CASE device = None
    <3>1. open = {} /\ streams = {}
      BY <2>1, DeviceAssumption DEF IInv, Current, OneDeviceOpen, Typing, TypeOK
    <3>2. todo' = <<Library, c>> \o Tail(todo)
      <4>1. <<>> \o <<Library, c>> = <<Library, c>>
        BY <1>3
      <4> QED BY <1>4, <2>1, <4>1
    <3>3. /\ WellStacked(todo') /\ Len(todo') = Len(todo) + 1 /\ todo'[1] = Library /\ todo'[2] = c
          /\ \A i \in 3 .. Len(todo) + 1 : todo'[i] = todo[i - 1]
      <4>1. LET t == <<Library, c>> \o Tail(todo)
            IN  /\ WellStacked(t) /\ Len(t) = Len(todo) + 1 /\ t[1] = Library /\ t[2] = c
                /\ \A i \in 3 .. Len(todo) + 1 : t[i] = todo[i - 1]
        BY <1>1, <1>3, <1>5, PlainMakesTwo
      <4> QED BY <3>2, <4>1
    <3>4. Len(todo) >= 2 => todo[2].op # "destroy"
      BY <1>1, BelowPlain
    <3>5. AtTop'
      BY <1>3, <3>3 DEF AtTop, NeedDevice, DriverCalls
    <3>6. NearTop'
      <4>1. open' = {} /\ streams' = {} /\ todo'[1].op = "_lazy_init" /\ todo'[2].op = "SetDevice"
        BY <1>2, <1>3, <3>1, <3>3 DEF state, driver
      <4>2. Len(todo) >= 2 => todo'[3].op # "destroy"
        <5>1. Len(todo) >= 2 => 3 \in 3 .. Len(todo) + 1 /\ 3 - 1 = 2
          BY <1>1, Topmost
        <5> QED BY <3>3, <3>4, <5>1
      <4>3. Len(todo') = Len(todo) + 1 /\ Len(todo) \in Nat \ {0}
        BY <1>1, <3>3, Topmost
      <4> QED BY <4>1, <4>2, <4>3 DEF NearTop
    <3> QED BY <3>3, <3>5, <3>6
  <2>2. CASE device # None
    <3>1. todo' = <<a, Library, c>> \o Tail(todo)
      <4>1. <<a>> \o <<Library, c>> = <<a, Library, c>>
        <5>1. /\ <<a>> \o <<Library, c>> \in Seq(Calls) /\ Len(<<a>> \o <<Library, c>>) = Len(<<a, Library, c>>)
              /\ \A i \in 1 .. Len(<<a, Library, c>>) : (<<a>> \o <<Library, c>>)[i] = <<a, Library, c>>[i]
              /\ <<a, Library, c>> \in Seq(Calls)
          BY <1>3
        <5> QED BY <5>1, SeqEqual
      <4> QED BY <1>4, <2>2, <4>1
    <3>2. LET u == <<a, Library, c>> \o Tail(todo)
          IN  /\ WellStacked(u) /\ Len(u) = Len(todo) + 2 /\ u[1] = a /\ u[2] = Library /\ u[3] = c
              /\ \A i \in 4 .. Len(todo) + 2 : u[i] = todo[i - 2]
      BY <1>1, <1>3, <1>5, PlainMakesThree
    <3> QED BY <1>1, <1>3, <3>1, <3>2, Topmost DEF AtTop, NearTop, NeedDevice, DriverCalls
  <2> QED BY <2>1, <2>2
<1> QED BY <1>2, <1>6, DevicesStay DEF IInv, Typing, TypeOK, state

\* reset_device makes sure of a device, its stream, and goes through the
\* streams.
LEMMA ResetPreserves == ASSUME IInv, ResetDevice PROVE IInv'
<1> DEFINE c == Call("destroy", 1)
<1>1. /\ WellStacked(todo) /\ todo # <<>> /\ todo[1].op = "reset_device"
      /\ todo[1].op \notin Binding /\ todo[1].op \in Resets /\ todo[1] \in Calls
  BY Topmost DEF ResetDevice, Running, IInv, Typing, Binding, Resets
<1>2. UNCHANGED <<state, driver>> /\ streams' = streams
  BY KnownStays DEF ResetDevice, state, driver
<1>3. /\ Device \in Calls /\ Stream \in Calls /\ c \in Calls
      /\ Device.op = "_lazy_init" /\ Stream.op = "_lazy_init" /\ c.op = "destroy" /\ c.arg = 1
  BY CallsMade DEF Device, Stream, Call
<1>4. todo' = (IF Arg = None THEN <<Device>> ELSE <<>>) \o <<Stream, c>> \o Tail(todo)
  BY DEF ResetDevice, Continue
<1> HIDE DEF c
<1>5. Above(Stream, c) /\ Above(Device, Stream) /\ c.op \in Resets
  BY <1>3 DEF Above, Resets
<1>6. WellStacked(todo)' /\ AtTop' /\ NearTop'
  <2>1. CASE Arg # None
    <3>1. todo' = <<Stream, c>> \o Tail(todo)
      <4>1. <<>> \o <<Stream, c>> = <<Stream, c>>
        BY <1>3
      <4> QED BY <1>4, <2>1, <4>1
    <3>2. /\ WellStacked(todo') /\ Len(todo') = Len(todo) + 1 /\ todo'[1] = Stream /\ todo'[2] = c
          /\ \A i \in 3 .. Len(todo) + 1 : todo'[i] = todo[i - 1]
      BY <1>1, <1>3, <1>5, <3>1, PlainMakesTwo
    <3>3. Len(todo) >= 2 => todo[2].op # "destroy"
      BY <1>1, BelowPlain
    <3> QED BY <1>1, <1>3, <3>2, <3>3, Topmost DEF AtTop, NearTop, NeedDevice, DriverCalls
  <2>2. CASE Arg = None
    <3>1. todo' = <<Device, Stream, c>> \o Tail(todo)
      <4>1. <<Device>> \o <<Stream, c>> = <<Device, Stream, c>>
        <5>1. /\ <<Device>> \o <<Stream, c>> \in Seq(Calls) /\ Len(<<Device>> \o <<Stream, c>>) = Len(<<Device, Stream, c>>)
              /\ \A i \in 1 .. Len(<<Device, Stream, c>>) : (<<Device>> \o <<Stream, c>>)[i] = <<Device, Stream, c>>[i]
              /\ <<Device, Stream, c>> \in Seq(Calls)
          BY <1>3
        <5> QED BY <5>1, SeqEqual
      <4> QED BY <1>4, <2>2, <4>1
    <3>2. LET u == <<Device, Stream, c>> \o Tail(todo)
          IN  /\ WellStacked(u) /\ Len(u) = Len(todo) + 2 /\ u[1] = Device /\ u[2] = Stream /\ u[3] = c
              /\ \A i \in 4 .. Len(todo) + 2 : u[i] = todo[i - 2]
      BY <1>1, <1>3, <1>5, PlainMakesThree
    <3> QED BY <1>1, <1>3, <3>1, <3>2, Topmost DEF AtTop, NearTop, NeedDevice, DriverCalls
  <2> QED BY <2>1, <2>2
<1> QED BY <1>2, <1>6, DevicesStay DEF IInv, Typing, TypeOK, state

\* The loop has left no stream behind it.
LEMMA LoopSteps ==
  ASSUME DestroyLoop, Arg \in Nat, Len(order) \in Nat
  PROVE  /\ Arg > Len(order) => todo' = <<Call("DeviceReset", None)>> \o Tail(todo)
         /\ Arg <= Len(order) /\ order[Arg] \notin streams => todo' = <<Call("destroy", Arg + 1)>> \o Tail(todo)
         /\ Arg <= Len(order) /\ order[Arg] \in streams =>
              todo' = <<Stream, Call("StreamDestroy", order[Arg]), Call("destroy", Arg + 1)>> \o Tail(todo)
<1> DEFINE steps == CASE Arg > Len(order) -> <<Call("DeviceReset", None)>>
                      [] Arg <= Len(order) /\ order[Arg] \notin streams -> <<Call("destroy", Arg + 1)>>
                      [] OTHER -> <<Stream, Call("StreamDestroy", order[Arg]), Call("destroy", Arg + 1)>>
<1>1. todo' = steps \o Tail(todo)
  BY DEF DestroyLoop, Continue
<1>2. Arg > Len(order) <=> ~(Arg <= Len(order))
  OBVIOUS
<1>3. Arg > Len(order) => steps = <<Call("DeviceReset", None)>>
  BY <1>2, Zenon
<1>4. Arg <= Len(order) /\ order[Arg] \notin streams => steps = <<Call("destroy", Arg + 1)>>
  BY <1>2, Zenon
<1>5. Arg <= Len(order) /\ order[Arg] \in streams =>
        steps = <<Stream, Call("StreamDestroy", order[Arg]), Call("destroy", Arg + 1)>>
  BY <1>2, Zenon
<1> HIDE DEF steps
<1>6. CASE Arg > Len(order)
  BY <1>1, <1>2, <1>3, <1>6
<1>7. CASE Arg <= Len(order) /\ order[Arg] \notin streams
  BY <1>1, <1>2, <1>4, <1>7
<1>8. CASE Arg <= Len(order) /\ order[Arg] \in streams
  BY <1>1, <1>2, <1>5, <1>8
<1> QED BY <1>2, <1>6, <1>7, <1>8

LEMMA LoopPreserves == ASSUME IInv, DestroyLoop PROVE IInv'
<1> DEFINE n == todo[1].arg
<1>1. /\ WellStacked(todo) /\ todo # <<>> /\ todo[1].op = "destroy" /\ Arg = n /\ n \in Nat \ {0}
      /\ todo[1].op \notin Binding /\ todo[1].op \in Resets /\ todo[1] \in Calls
  BY Topmost, CallArguments DEF DestroyLoop, Running, IInv, Typing, Binding, Resets, Arg
<1>2. UNCHANGED <<state, driver>> /\ streams' = streams
  BY KnownStays DEF DestroyLoop, state, driver
<1>3. /\ device # None /\ \A j \in 1 .. n - 1 : j \in 1 .. Len(order) /\ order[j] \notin streams
      /\ order \in Seq(Devices) /\ Len(order) \in Nat /\ streams \subseteq {device} /\ streams \subseteq ToSet(order)
  BY <1>1 DEF IInv, AtTop, Current, Typing, TypeOK
<1>4. WellStacked(todo)' /\ AtTop' /\ NearTop'
  <2>1. CASE n > Len(order)
    <3> DEFINE c == Call("DeviceReset", None)
    <3>1. c \in Calls /\ c.op = "DeviceReset" /\ todo' = <<c>> \o Tail(todo)
      <4>1. c \in Calls /\ c.op = "DeviceReset"
        BY CallsMade DEF Call
      <4>2. Arg > Len(order) /\ Arg \in Nat /\ Len(order) \in Nat
        BY <1>1, <1>3, <2>1
      <4> QED BY <4>1, <4>2, LoopSteps
    <3> HIDE DEF c
    <3>2. /\ WellStacked(todo') /\ Len(todo') = Len(todo) /\ todo'[1] = c
          /\ \A i \in 2 .. Len(todo) : todo'[i] = todo[i]
      BY <1>1, <3>1, PlainReplaced DEF Resets
    <3>3. streams = {}
      <4>1. \A d \in ToSet(order) : d \notin streams
        BY <1>1, <1>3, <2>1 DEF ToSet
      <4> QED BY <1>3, <4>1
    <3> QED BY <1>1, <1>2, <3>1, <3>2, <3>3, Topmost, BelowPlain DEF AtTop, NearTop, NeedDevice, DriverCalls, state
  <2>2. CASE n <= Len(order) /\ order[n] \notin streams
    <3> DEFINE c == Call("destroy", n + 1)
    <3>1. c \in Calls /\ c.op = "destroy" /\ c.arg = n + 1 /\ todo' = <<c>> \o Tail(todo)
      <4>1. n + 1 \in Nat \ {0} /\ Arg \in Nat /\ Len(order) \in Nat /\ Arg <= Len(order) /\ order[Arg] \notin streams
        BY <1>1, <1>3, <2>2
      <4>2. c \in Calls /\ c.op = "destroy" /\ c.arg = n + 1 /\ c = Call("destroy", Arg + 1)
        BY <1>1, <4>1, CallsMade DEF Call
      <4> HIDE DEF c
      <4> QED BY <4>1, <4>2, LoopSteps
    <3> HIDE DEF c
    <3>2. /\ WellStacked(todo') /\ Len(todo') = Len(todo) /\ todo'[1] = c
          /\ \A i \in 2 .. Len(todo) : todo'[i] = todo[i]
      BY <1>1, <3>1, PlainReplaced DEF Resets
    <3>3. \A j \in 1 .. n : j \in 1 .. Len(order) /\ order[j] \notin streams
      BY <1>1, <1>3, <2>2
    <3>4. AtTop'
      BY <1>1, <1>2, <1>3, <3>1, <3>2, <3>3 DEF AtTop, state
    <3> QED BY <1>1, <1>2, <3>1, <3>2, <3>4, Topmost, BelowPlain DEF NearTop, NeedDevice, DriverCalls
  <2>3. CASE n <= Len(order) /\ order[n] \in streams
    <3> DEFINE b == Call("StreamDestroy", order[n])
               c == Call("destroy", n + 1)
    <3>1. order[n] = device /\ order[n] \in Devices
      BY <1>1, <1>3, <2>3
    <3>2. /\ Stream \in Calls /\ b \in Calls /\ c \in Calls
          /\ Stream.op = "_lazy_init" /\ b.op = "StreamDestroy" /\ b.arg = order[n] /\ c.op = "destroy" /\ c.arg = n + 1
      <4>1. n + 1 \in Nat \ {0}
        BY <1>1
      <4>2. Stream \in Calls /\ b \in Calls /\ c \in Calls
        BY <3>1, <4>1, CallsMade
      <4> QED BY <4>2 DEF Call, Stream
    <3>5. todo' = <<Stream, b, c>> \o Tail(todo)
      <4>1. Arg \in Nat /\ Len(order) \in Nat /\ Arg <= Len(order) /\ order[Arg] \in streams
        BY <1>1, <1>3, <2>3
      <4>2. b = Call("StreamDestroy", order[Arg]) /\ c = Call("destroy", Arg + 1)
        BY <1>1
      <4> HIDE DEF b, c
      <4> QED BY <4>1, <4>2, LoopSteps
    <3> HIDE DEF b, c
    <3>3. Above(Stream, b) /\ Above(b, c)
      BY <1>1, <3>2 DEF Above
    <3>4. LET u == <<Stream, b, c>> \o Tail(todo)
          IN  /\ WellStacked(u) /\ Len(u) = Len(todo) + 2 /\ u[1] = Stream /\ u[2] = b /\ u[3] = c
              /\ \A i \in 4 .. Len(todo) + 2 : u[i] = todo[i - 2]
      BY <1>1, <3>2, <3>3, PlainMakesThree DEF Resets
    <3> QED BY <1>1, <1>2, <2>3, <3>1, <3>2, <3>4, <3>5, Topmost DEF AtTop, NearTop, NeedDevice, DriverCalls, state
  <2> QED BY <1>1, <1>3, <2>1, <2>2, <2>3
<1> QED BY <1>2, <1>4, DevicesStay DEF IInv, Typing, TypeOK, state

\* A call is back on its operation.
LEMMA HeadAndTail ==
  ASSUME WellStacked(todo), todo # <<>>
  PROVE  <<todo[1]>> \o Tail(todo) = todo
<1>1. /\ todo[1] \in Calls /\ todo \in Seq(Calls) /\ Len(todo) \in Nat \ {0}
      /\ Tail(todo) \in Seq(Calls) /\ Len(Tail(todo)) = Len(todo) - 1
      /\ \A i \in 1 .. Len(Tail(todo)) : Tail(todo)[i] = todo[i + 1]
  BY Topmost, Returned
<1> DEFINE s == Tail(todo)
           t == <<todo[1]>> \o s
<1> HIDE DEF s
<1>2. s \in Seq(Calls) /\ Len(s) = Len(todo) - 1 /\ \A i \in 1 .. Len(s) : s[i] = todo[i + 1]
  BY <1>1 DEF s
<1>3. t \in Seq(Calls) /\ Len(t) = Len(todo)
  <2>1. <<todo[1]>> \in Seq(Calls) /\ Len(<<todo[1]>>) = 1
    BY <1>1
  <2>2. t \in Seq(Calls) /\ Len(t) = Len(<<todo[1]>>) + Len(s)
    BY <1>2, <2>1, ConcatProperties
  <2> HIDE DEF t
  <2>3. Len(t) = 1 + (Len(todo) - 1)
    BY <1>2, <2>1, <2>2
  <2>4. Len(todo) \in Nat
    BY <1>1
  <2>5. 1 + (Len(todo) - 1) = Len(todo)
    BY <2>4
  <2> QED BY <2>2, <2>3, <2>5
<1>4. \A i \in 1 .. Len(t) : t[i] = todo[i]
  <2> SUFFICES ASSUME NEW i \in 1 .. Len(todo) PROVE t[i] = todo[i]
    BY <1>3
  <2>1. CASE i = 1
    BY <1>1, <1>2, <2>1
  <2>2. CASE i # 1
    <3>1. t[i] = s[i - 1] /\ i - 1 \in 1 .. Len(s)
      BY <1>1, <1>2, <2>2
    <3> QED BY <1>2, <3>1
  <2> QED BY <2>1, <2>2
<1>5. t = todo
  BY <1>1, <1>3, <1>4, SeqEqual
<1> QED BY <1>5 DEF s

\* _lazy_init finds what it is to make sure of, or makes it.
LEMMA LazyInitPreserves == ASSUME IInv, LazyInit PROVE IInv'
<1>1. /\ WellStacked(todo) /\ todo # <<>> /\ Head(todo) = todo[1] /\ todo[1].op = "_lazy_init" /\ Arg = todo[1].arg
      /\ todo[1] \in Calls /\ Len(todo) \in Nat \ {0} /\ Arg \in 1 .. 3 /\ todo[1] = Call("_lazy_init", Arg)
  BY Topmost, CallArguments DEF LazyInit, Running, IInv, Typing, Arg
<1>2. UNCHANGED <<state, driver>> /\ streams' = streams
  BY KnownStays DEF LazyInit, state, driver
<1>3. /\ <<todo[1]>> \o Tail(todo) = todo
      /\ Tail(todo) \in Seq(Calls) /\ Len(Tail(todo)) = Len(todo) - 1 /\ WellStacked(Tail(todo))
      /\ \A i \in 1 .. Len(Tail(todo)) : Tail(todo)[i] = todo[i + 1]
  BY <1>1, HeadAndTail, Returned
<1>4. Len(todo) >= 2 => (todo[2].op = "SetDevice" => Arg = 1) /\ (todo[2].op = "destroy" => todo[2].arg = 1)
  BY <1>1, Topmost DEF Above, Library, Call
<1>5. /\ streams \subseteq Devices /\ device \in Devices \cup {None} /\ None \notin Devices
      /\ Len(todo) >= 2 => (todo[2].op = "StreamDestroy" => device \in streams)
      /\ Len(todo) >= 2 => (todo[2].op = "StreamCreate" => device # None /\ Arg = 2)
      /\ Len(todo) >= 3 => (todo[3].op = "destroy" /\ todo[3].arg # 1 => todo[2].op = "StreamDestroy")
  <2>1. streams \subseteq Devices /\ device \in Devices \cup {None} /\ None \notin Devices
    BY DeviceAssumption DEF IInv, Typing, TypeOK, streams
  <2>2. Len(todo) >= 2 => /\ todo[2].op = "StreamDestroy" => device \in streams
                          /\ todo[2].op = "StreamCreate" => device # None
    BY <1>1 DEF IInv, NearTop
  <2>3. Len(todo) >= 2 => (todo[2].op = "StreamCreate" => Arg = 2)
    BY <1>1, Topmost DEF Above, Device, Call
  <2>4. Len(todo) >= 3 => (todo[3].op = "destroy" /\ todo[3].arg # 1 => todo[2].op = "StreamDestroy")
    BY <1>1, Topmost DEF Above
  <2> QED BY <2>1, <2>2, <2>3, <2>4
<1>6. WellStacked(todo)' /\ AtTop' /\ NearTop'
  <2>1. CASE Arg = 1 \/ (device # None /\ (Arg = 2 \/ device \in streams))
    <3>1. todo' = Tail(todo)
      <4>1. todo' = <<>> \o Tail(todo)
        BY <2>1 DEF LazyInit, Continue
      <4> QED BY <1>3, <4>1
    <3>2. AtTop'
      <4>1. Len(todo) >= 2 => /\ todo[2].op # "DeviceReset"
                              /\ todo[2].op \in NeedDevice \cup {"destroy"} => Arg # 1
        BY <1>1, <1>4, Topmost DEF Above, Library, Device, Stream, Call, NeedDevice, DriverCalls
      <4> QED BY <1>1, <1>2, <1>3, <1>4, <2>1, <3>1, <4>1 DEF AtTop, state
    <3>3. NearTop'
      <4> SUFFICES ASSUME NEW i \in 1 .. Len(todo')
                   PROVE  /\ i <= 2 /\ todo'[i].op = "SetDevice" => open = {} /\ streams = {}
                          /\ i <= 2 /\ todo'[i].op = "StreamDestroy" => todo'[i].arg = device /\ device \in streams
                          /\ i <= 2 /\ todo'[i].op = "StreamCreate" => device # None /\ device \notin streams
                          /\ i \in {2, 3} /\ todo'[i].op = "destroy" /\ todo'[i].arg # 1 =>
                               todo'[i].arg - 1 \in 1 .. Len(order) /\ order[todo'[i].arg - 1] = device
        BY <1>2 DEF NearTop, state, driver
      <4>1. todo'[i] = todo[i + 1] /\ i + 1 \in 2 .. Len(todo)
        BY <1>1, <1>3, <3>1
      <4>2. CASE i = 1
        BY <4>1, <4>2 DEF IInv, NearTop
      <4>3. CASE i = 2
        <5>1. todo[3].op \notin {"StreamCreate", "StreamDestroy"} /\ (todo[3].op = "SetDevice" => todo[3 - 2].op \in Resets)
          BY <1>1, <4>1, <4>3 DEF WellStacked
        <5> QED BY <1>1, <4>1, <4>3, <5>1 DEF IInv, NearTop, Resets
      <4>4. CASE i > 2
        BY <1>1, <4>1, <4>4 DEF WellStacked
      <4> QED BY <4>2, <4>3, <4>4
    <3> QED BY <1>3, <3>1, <3>2, <3>3
  <2>2. CASE Arg # 1 /\ device = None
    <3> DEFINE c == Call("set_device", 0)
    <3>1. c \in Calls /\ c.op = "set_device"
      BY CallsMade, DeviceAssumption DEF Call
    <3>2. todo' = <<c>> \o todo
      <4>1. todo' = <<c, todo[1]>> \o Tail(todo)
        BY <1>1, <2>2 DEF LazyInit, Continue
      <4>2. todo' = OverTwo(c, todo[1], Tail(todo))
        BY <4>1 DEF OverTwo
      <4>3. Tail(todo) \in Seq(Calls) /\ todo[1] \in Calls
        BY <1>1, <1>3
      <4> HIDE DEF c
      <4>4. OverTwo(c, todo[1], Tail(todo)) = <<c>> \o (<<todo[1]>> \o Tail(todo))
        BY <3>1, <4>3, TwoInOrder
      <4>5. <<todo[1]>> \o Tail(todo) = todo
        BY <1>3
      <4> QED BY <4>2, <4>4, <4>5
    <3> HIDE DEF c
    <3>3. Above(c, todo[1])
      BY <1>1, <3>1 DEF Above
    <3>4. Len(todo) >= 2 => todo[2].op \notin {"StreamCreate", "StreamDestroy", "SetDevice"}
      BY <1>4, <1>5, <2>2
    <3>5. Len(todo) >= 3 => (todo[3].op = "destroy" => todo[3].arg = 1)
      BY <1>1, <1>5, <3>4
    <3>6. /\ WellStacked(<<c>> \o todo) /\ Len(<<c>> \o todo) = Len(todo) + 1 /\ (<<c>> \o todo)[1] = c
          /\ \A i \in 2 .. Len(todo) + 1 : (<<c>> \o todo)[i] = todo[i - 1]
      BY <1>1, <3>1, <3>3, <3>4, <3>5, Made
    <3> QED BY <1>1, <1>4, <3>1, <3>2, <3>6 DEF AtTop, NearTop, NeedDevice, DriverCalls
  <2>3. CASE Arg = 3 /\ device # None /\ device \notin streams
    <3> DEFINE c == Call("StreamCreate", None)
               t == <<c>> \o todo
    <3>1. c \in Calls /\ c.op = "StreamCreate" /\ Device \in Calls /\ Device.op = "_lazy_init" /\ todo[1] = Stream
      BY <1>1, <2>3, CallsMade DEF Call, Device, Stream
    <3>2. todo' = <<Device>> \o t
      <4>1. todo' = <<Device, c, todo[1]>> \o Tail(todo)
        BY <1>1, <2>3 DEF LazyInit, Continue
      <4>2. todo' = OverThree(Device, c, todo[1], Tail(todo))
        BY <4>1 DEF OverThree
      <4>3. Tail(todo) \in Seq(Calls) /\ todo[1] \in Calls
        BY <1>1, <1>3
      <4>4. t = <<c>> \o todo
        OBVIOUS
      <4> HIDE DEF c, t
      <4>5. OverThree(Device, c, todo[1], Tail(todo)) = <<Device>> \o OverTwo(c, todo[1], Tail(todo))
        BY <3>1, <4>3, ThreeInOrder
      <4>6. OverTwo(c, todo[1], Tail(todo)) = <<c>> \o (<<todo[1]>> \o Tail(todo))
        BY <3>1, <4>3, TwoInOrder
      <4>7. <<todo[1]>> \o Tail(todo) = todo
        BY <1>3
      <4> QED BY <4>2, <4>4, <4>5, <4>6, <4>7
    <3> HIDE DEF c
    <3>3. Above(c, todo[1]) /\ Above(Device, c)
      BY <3>1, <1>1 DEF Above
    <3>4. Len(todo) >= 2 => todo[2].op \notin {"StreamCreate", "StreamDestroy", "SetDevice"}
      BY <1>4, <1>5, <2>3
    <3>5. Len(todo) >= 3 => (todo[3].op = "destroy" => todo[3].arg = 1)
      BY <1>1, <1>5, <3>4
    <3>6. /\ WellStacked(t) /\ Len(t) = Len(todo) + 1 /\ t[1] = c
          /\ \A i \in 2 .. Len(todo) + 1 : t[i] = todo[i - 1]
      BY <1>1, <3>1, <3>3, <3>4, <3>5, Made
    <3> HIDE DEF t
    <3>7. t[2] = todo[1] /\ (Len(t) >= 3 => t[3] = todo[2])
      BY <1>1, <3>6
    <3>8. /\ WellStacked(<<Device>> \o t) /\ Len(<<Device>> \o t) = Len(t) + 1 /\ (<<Device>> \o t)[1] = Device
          /\ \A i \in 2 .. Len(t) + 1 : (<<Device>> \o t)[i] = t[i - 1]
      <4>1. Len(t) >= 1 => Above(Device, t[1])
        BY <3>3, <3>6
      <4>2. Len(t) >= 2 => t[2].op \notin {"StreamCreate", "StreamDestroy"} /\ (t[2].op = "SetDevice" => Device.op \in Resets)
        BY <1>1, <3>7
      <4>3. Len(t) >= 3 => (t[3].op = "destroy" => t[3].arg = 1)
        BY <1>1, <1>4, <3>6, <3>7
      <4> QED BY <3>1, <3>6, <4>1, <4>2, <4>3, Made
    <3>9. /\ todo'[1] = Device /\ todo'[2] = c /\ todo'[3] = todo[1] /\ WellStacked(todo')
      BY <1>1, <3>2, <3>6, <3>7, <3>8
    <3>10. todo'[1].op = "_lazy_init" /\ todo'[2].op = "StreamCreate" /\ todo'[3].op = "_lazy_init"
      BY <1>1, <3>1, <3>9
    <3>11. AtTop'
      BY <3>10 DEF AtTop, NeedDevice, DriverCalls
    <3>12. device' # None /\ device' \notin streams'
      BY <1>2, <2>3 DEF state
    <3>13. NearTop'
      BY <3>10, <3>12 DEF NearTop
    <3> QED BY <3>9, <3>11, <3>13
  <2> QED BY <1>1, <2>1, <2>2, <2>3
<1> QED BY <1>2, <1>6, DevicesStay DEF IInv, Typing, TypeOK, state

\* A device is set: none is open, and there is no stream.
LEMMA DriverSetPreserves == ASSUME IInv, DriverSetDevice PROVE IInv'
<1>1. /\ WellStacked(todo) /\ todo # <<>> /\ todo[1].op = "SetDevice" /\ Arg \in Devices /\ Len(todo) \in Nat \ {0}
      /\ todo[1].op \notin Binding /\ todo[1].op \notin Resets /\ todo[1] \in Calls
  BY Topmost, CallArguments DEF DriverSetDevice, Running, IInv, Typing, Binding, Resets, Arg
<1>2. /\ open = {} /\ streams = {} /\ taken = {} /\ Known = {} /\ live = own
      /\ stream \in [Devices -> StreamAddresses \cup {None}]
  BY <1>1 DEF IInv, NearTop, Current, StreamsAreLive, Known, Typing, TypeOK
<1>3. /\ device' = Arg /\ open' = {Arg} /\ UNCHANGED <<backend, lib, allocs, live, memory, own>>
      /\ stream' = [stream EXCEPT ![Arg] = None] /\ taken' = {}
      /\ order' = IF Contains(order, Arg) THEN order ELSE Append(order, Arg)
  BY <1>2 DEF DriverSetDevice
<1>4. todo' = Tail(todo)
  BY <1>1, Returned DEF DriverSetDevice, Continue
<1>5. WellStacked(todo)' /\ AtTop' /\ NearTop'
  BY <1>1, <1>4, PlainReturn
<1>6. order' \in Seq(Devices) /\ IsInjective(order)' /\ ToSet(order)' \subseteq Devices /\ Arg \in ToSet(order)'
  <2>1. order \in Seq(Devices) /\ IsInjective(order) /\ ToSet(order) \subseteq Devices
    BY DEF IInv, Typing, TypeOK
  <2>2. CASE Contains(order, Arg)
    BY <1>3, <2>1, <2>2 DEF Contains, ToSet
  <2>3. CASE ~Contains(order, Arg)
    <3>1. /\ order' \in Seq(Devices) /\ Len(order') = Len(order) + 1 /\ order'[Len(order) + 1] = Arg /\ Len(order) \in Nat
          /\ \A i \in 1 .. Len(order) : order'[i] = order[i] /\ order[i] # Arg
      BY <1>1, <1>3, <2>1, <2>3 DEF Contains
    <3>2. DOMAIN order' = 1 .. Len(order) + 1 /\ DOMAIN order = 1 .. Len(order)
      BY <2>1, <3>1
    <3>3. IsInjective(order')
      BY <2>1, <3>1, <3>2 DEF IsInjective
    <3>4. ToSet(order') \subseteq Devices /\ Arg \in ToSet(order')
      BY <3>1, <3>2 DEF ToSet
    <3> QED BY <3>1, <3>3, <3>4 DEF IsInjective, ToSet
  <2> QED BY <2>2, <2>3
<1>7. streams' = {} /\ Known' = {} /\ stream' \in [Devices -> StreamAddresses \cup {None}]
  BY <1>2, <1>3 DEF streams, Known
<1>8. Typing'
  BY <1>1, <1>2, <1>3, <1>5, <1>6, <1>7 DEF IInv, Typing, TypeOK
<1>9. Current'
  BY <1>2, <1>3, <1>6, <1>7 DEF Current, OneDeviceOpen, StreamsAreLive
<1> QED BY <1>5, <1>8, <1>9 DEF IInv

\* A device is reset: its streams are gone before.
LEMMA DriverResetPreserves == ASSUME IInv, DriverDeviceReset PROVE IInv'
<1>1. /\ WellStacked(todo) /\ todo # <<>> /\ todo[1].op = "DeviceReset" /\ Len(todo) \in Nat \ {0}
      /\ todo[1].op \notin Binding /\ todo[1] \in Calls
  BY Topmost DEF DriverDeviceReset, Running, IInv, Typing, Binding
<1>2. streams = {} /\ Known = {} /\ live = own /\ open \subseteq {device}
  BY <1>1 DEF IInv, AtTop, Current, StreamsAreLive, OneDeviceOpen, Known
<1>3. /\ open' = {} /\ live' = own' /\ live' \subseteq live /\ memory' = {}
      /\ UNCHANGED <<backend, lib, order, stream, allocs, taken>>
      /\ streams' = {} /\ Known' = {}
      /\ device' = IF Last(order) = device THEN None ELSE device
  BY <1>2, KnownStays DEF DriverDeviceReset, NotOf
<1>4. todo' = Tail(todo)
  BY <1>1, Returned DEF DriverDeviceReset, Continue
<1>5. WellStacked(todo)' /\ AtTop' /\ NearTop'
  BY <1>1, <1>2, <1>3, <1>4, PlainReturn
<1>6. Len(order) <= 1 => device' = None
  <2> SUFFICES ASSUME Len(order) <= 1, device # None PROVE Last(order) = device
    BY <1>3
  <2>1. order \in Seq(Devices) /\ device \in ToSet(order)
    BY DEF IInv, Typing, Current
  <2> QED BY <2>1 DEF ToSet, Last
<1>7. Typing'
  BY <1>2, <1>3, <1>5 DEF IInv, Typing, TypeOK
<1>8. Current'
  BY <1>2, <1>3, <1>6 DEF IInv, Current, OneDeviceOpen, StreamsAreLive
<1> QED BY <1>5, <1>7, <1>8 DEF IInv

\* The device in use gets its stream.
LEMMA StreamCreatePreserves == ASSUME IInv, DriverStreamCreate PROVE IInv'
<1>1. /\ WellStacked(todo) /\ todo # <<>> /\ todo[1].op = "StreamCreate" /\ Len(todo) \in Nat \ {0}
      /\ device \in open
  BY Topmost DEF DriverStreamCreate, Running, IInv, Typing
<1>2. UNCHANGED <<backend, lib, device, order, allocs, open, memory, own, taken>>
  BY DEF DriverStreamCreate
<1>3. device \in Devices /\ device # None
  BY <1>1, DeviceAssumption DEF IInv, Typing, TypeOK
<1>4. todo' = Tail(todo)
  BY <1>1, Returned DEF DriverStreamCreate, Continue
<1>5. /\ WellStacked(todo') /\ Len(todo') = Len(todo) - 1
      /\ \A i \in 1 .. Len(todo') : todo'[i] = todo[i + 1]
  BY <1>1, <1>4, Returned
<1>6. Len(todo) >= 2 => todo[2].op = "_lazy_init"
  BY <1>1, Topmost DEF Above, Stream, Call
<1>7. AtTop'
  BY <1>1, <1>5, <1>6 DEF AtTop, NeedDevice, DriverCalls
<1>8. NearTop'
  <2> SUFFICES ASSUME NEW i \in 1 .. Len(todo'), i <= 3
               PROVE  /\ i <= 2 => todo'[i].op \notin {"SetDevice", "StreamCreate", "StreamDestroy"}
                      /\ i \in {2, 3} => (todo'[i].op = "destroy" => todo'[i].arg = 1)
    BY DEF NearTop
  <2>1. todo'[i] = todo[i + 1] /\ i + 1 \in 2 .. Len(todo)
    BY <1>1, <1>5
  <2>2. CASE i = 1
    BY <1>6, <2>1, <2>2
  <2>3. CASE i = 2
    <3>1. todo[3].op \notin {"StreamCreate", "StreamDestroy"} /\ (todo[3].op = "SetDevice" => todo[3 - 2].op \in Resets)
      BY <1>1, <2>1, <2>3 DEF WellStacked
    <3>2. todo[3].op = "destroy" => todo[3].arg = 1
      BY <1>1, <1>6, <2>1, <2>3, Topmost DEF Above
    <3> QED BY <1>1, <2>1, <2>3, <3>1, <3>2 DEF Resets
  <2>4. CASE i = 3
    BY <1>1, <2>1, <2>4 DEF WellStacked
  <2> QED BY <2>2, <2>3, <2>4
<1>9. Typing' /\ Current'
  <2>1. PICK a \in StreamAddresses \ InUse : live' = live \cup {<<a, device>>} /\ stream' = [stream EXCEPT ![device] = a]
    BY DEF DriverStreamCreate
  <2>2. /\ stream \in [Devices -> StreamAddresses \cup {None}] /\ device \notin streams /\ taken = {} /\ streams = {}
        /\ own \subseteq live /\ live \subseteq StreamAddresses \X Devices
    BY <1>1 DEF IInv, NearTop, Typing, TypeOK, Current
  <2>3. streams' = {device} /\ stream'[device] = a /\ stream' \in [Devices -> StreamAddresses \cup {None}]
    BY <1>3, <2>1, <2>2, DeviceAssumption DEF streams
  <2>4. Known = {} /\ Known' = {<<a, device>>}
    BY <1>2, <2>2, <2>3 DEF Known
  <2>5. <<a, device>> \notin live
    BY <2>1, <2>2 DEF InUse
  <2>6. StreamsAreLive'
    BY <1>2, <2>1, <2>2, <2>4, <2>5 DEF IInv, Current, StreamsAreLive
  <2>7. device \in ToSet(order)
    BY <1>3 DEF IInv, Current
  <2>8. Typing'
    BY <1>2, <1>3, <1>5, <2>1, <2>2, <2>3, <2>7 DEF IInv, Typing, TypeOK
  <2> QED BY <1>2, <2>3, <2>6, <2>8 DEF IInv, Current, OneDeviceOpen
<1> QED BY <1>7, <1>8, <1>9 DEF IInv

\* A program gets a stream of its own.
LEMMA CreateOwnPreserves == ASSUME IInv, DriverCreateOwn PROVE IInv'
<1>1. /\ WellStacked(todo) /\ todo # <<>> /\ todo[1].op = "create_stream" /\ device \in Devices
      /\ todo[1].op \notin Binding /\ todo[1].op \notin Resets
  BY Topmost DEF DriverCreateOwn, Running, IInv, Typing, TypeOK, Binding, Resets
<1>2. UNCHANGED <<backend, lib, device, order, stream, allocs, open, memory, taken>> /\ streams' = streams /\ Known' = Known
  BY KnownStays DEF DriverCreateOwn, state
<1>3. todo' = Tail(todo)
  BY <1>1, Returned DEF DriverCreateOwn, Continue
<1>4. WellStacked(todo)' /\ AtTop' /\ NearTop'
  BY <1>1, <1>3, PlainReturn
<1>5. PICK a \in StreamAddresses \ InUse : live' = live \cup {<<a, device>>} /\ own' = own \cup {<<a, device>>}
  BY DEF DriverCreateOwn
<1>6. <<a, device>> \notin live
  BY <1>5 DEF InUse
<1>7. StreamsAreLive' /\ own' \subseteq live' /\ live' \subseteq StreamAddresses \X Devices
  BY <1>1, <1>2, <1>5, <1>6 DEF IInv, Current, StreamsAreLive, Typing, TypeOK
<1> QED BY <1>2, <1>4, <1>7 DEF IInv, Typing, TypeOK, Current, OneDeviceOpen

\* A program destroys a stream, its own or not.
LEMMA DestroyAnyPreserves == ASSUME IInv, DriverDestroyAny PROVE IInv'
<1>1. /\ WellStacked(todo) /\ todo # <<>> /\ todo[1].op = "destroy_stream" /\ Arg = todo[1].arg /\ Arg \in StreamAddresses
      /\ todo[1].op \notin Binding /\ todo[1].op \notin Resets
  BY Topmost, CallArguments DEF DriverDestroyAny, Running, IInv, Typing, TypeOK, Binding, Resets, Arg
<1>2. /\ UNCHANGED <<backend, lib, device, order, stream, allocs, open, memory>> /\ streams' = streams
      /\ live' = {p \in live : p[1] # Arg} /\ own' = {p \in own : p[1] # Arg}
      /\ taken' = taken \cup {d \in Devices : stream[d] = Arg}
  BY DEF DriverDestroyAny, state, streams, Without
<1>3. todo' = Tail(todo)
  BY <1>1, Returned DEF DriverDestroyAny, Continue
<1>4. WellStacked(todo)' /\ AtTop' /\ NearTop'
  BY <1>1, <1>3, PlainReturn
<1>5. taken' \subseteq streams'
  BY <1>1, <1>2, DeviceAssumption DEF streams, IInv, Typing, TypeOK
<1>6. Known' = {p \in Known : p[1] # Arg}
  <2>1. Known' = {<<stream[d], d>> : d \in streams \ taken'}
    BY <1>2 DEF Known
  <2>2. \A d \in streams : d \in streams \ taken' <=> d \in streams \ taken /\ stream[d] # Arg
    BY <1>2 DEF streams
  <2> QED BY <2>1, <2>2 DEF Known
<1>7. StreamsAreLive' /\ own' \subseteq live' /\ live' \subseteq live
  BY <1>2, <1>6 DEF IInv, Current, StreamsAreLive, Typing, TypeOK
<1> QED BY <1>2, <1>4, <1>5, <1>7 DEF IInv, Typing, TypeOK, Current, OneDeviceOpen

\* is_available makes sure of the library, and catches what that raises.
LEMMA AvailablePreserves == ASSUME IInv, IsAvailable PROVE IInv'
<1> DEFINE c == Call("except", None)
<1>1. WellStacked(todo) /\ todo # <<>> /\ todo[1].op = "is_available" /\ Len(todo) \in Nat \ {0} /\ todo \in Seq(Calls)
  BY Topmost DEF IsAvailable, Running, IInv, Typing
<1>2. Len(todo) = 1
  <2>1. ~(Len(todo) >= 2)
    BY <1>1, Topmost DEF Above
  <2> DEFINE n == Len(todo)
  <2>2. n \in Nat \ {0} /\ ~(n >= 2)
    BY <1>1, <2>1
  <2> HIDE DEF n
  <2>3. n = 1
    BY <2>2
  <2> QED BY <2>3 DEF n
<1>3. Tail(todo) = <<>>
  <2>1. Tail(todo) \in Seq(Calls) /\ Len(Tail(todo)) = 0
    BY <1>1, <1>2, Returned
  <2> QED BY <2>1, EmptySeq
<1>4. c \in Calls /\ c.op = "except" /\ Library.op = "_lazy_init" /\ Library \in Calls
  BY CallsMade DEF Library, Call
<1>5. todo' = <<Library, c>> \o Tail(todo)
  BY DEF IsAvailable, Continue
<1> HIDE DEF c
<1>6. <<Library, c>> \in Seq(Calls) /\ Len(<<Library, c>>) = 2 /\ <<Library, c>>[1] = Library /\ <<Library, c>>[2] = c
  BY <1>4
<1>7. todo' = <<Library, c>>
  <2>1. <<Library, c>> \o <<>> = <<Library, c>>
    BY <1>6, ConcatEmptySeq
  <2> QED BY <1>3, <1>5, <2>1
<1>8. /\ \A i \in 1 .. Len(<<Library, c>>) : <<Library, c>>[i].op \in {"_lazy_init", "query", "backend", "set_device", "reset_device", "except", "is_available"}
      /\ \A i \in 1 .. Len(<<Library, c>>) - 1 : <<Library, c>>[i].op \notin {"except", "is_available"}
  BY <1>4, <1>6
<1>9. WellStacked(todo)' /\ AtTop' /\ NearTop'
  BY <1>6, <1>7, <1>8, Independent
<1>10. UNCHANGED <<backend, lib, device, order, stream, allocs, driver>>
  BY DEF IsAvailable, state
<1> QED BY <1>9, <1>10, DevicesStay DEF IInv, Typing, TypeOK

\* The stream the loop has come to is destroyed: the only one.
LEMMA StreamDestroyPreserves == ASSUME IInv, DriverStreamDestroy PROVE IInv'
<1>1. /\ WellStacked(todo) /\ todo # <<>> /\ todo[1].op = "StreamDestroy" /\ Arg = todo[1].arg /\ Len(todo) \in Nat \ {0}
  BY Topmost DEF DriverStreamDestroy, Running, IInv, Typing, Arg
<1>2. /\ Arg = device /\ device \in streams /\ streams = {device} /\ device \in Devices
      /\ stream \in [Devices -> StreamAddresses \cup {None}]
  BY <1>1 DEF IInv, NearTop, Current, streams, Typing, TypeOK
<1>3. /\ UNCHANGED <<backend, lib, device, order, allocs, open, memory>>
      /\ stream' = [stream EXCEPT ![device] = None] /\ taken' = taken \ {device}
      /\ live' = {p \in live : p[1] # stream[device]} /\ own' = {p \in own : p[1] # stream[device]}
  BY <1>2 DEF DriverStreamDestroy, Without
<1>11. /\ streams' = {} /\ taken' = {} /\ Known' = {} /\ stream' \in [Devices -> StreamAddresses \cup {None}]
       /\ Known \subseteq {<<stream[device], device>>}
  <2>1. streams' = {} /\ stream' \in [Devices -> StreamAddresses \cup {None}]
    BY <1>2, <1>3 DEF streams
  <2>2. taken' = {}
    BY <1>2, <1>3 DEF IInv, Typing, TypeOK
  <2> QED BY <1>2, <2>1, <2>2 DEF Known
<1>12. StreamsAreLive' /\ own' \subseteq live' /\ live' \subseteq live
  BY <1>3, <1>11 DEF IInv, Current, StreamsAreLive, Typing, TypeOK
<1>4. device # None
  BY <1>2, DeviceAssumption DEF IInv, Typing, TypeOK, ToSet
<1>5. todo' = Tail(todo)
  BY <1>1, Returned DEF DriverStreamDestroy, Continue
<1>6. /\ WellStacked(todo') /\ Len(todo') = Len(todo) - 1
      /\ \A i \in 1 .. Len(todo') : todo'[i] = todo[i + 1]
  BY <1>1, <1>5, Returned
<1>7. Len(todo) >= 2 => /\ todo[2].op \notin NeedDevice \cup {"DeviceReset", "SetDevice"}
                        /\ todo[2].op = "destroy" => todo[2].arg - 1 \in 1 .. Len(order)
  <2>1. Len(todo) >= 2 => todo[2].op \notin NeedDevice \cup {"DeviceReset", "SetDevice"} /\ (todo[2].op = "destroy" => todo[2].arg # 1)
    BY <1>1, Topmost DEF Above, Library, Device, Stream, Call, NeedDevice, DriverCalls
  <2> QED BY <1>1, <2>1 DEF IInv, NearTop
<1>8. AtTop'
  <2> SUFFICES ASSUME todo' # <<>>
               PROVE  /\ todo'[1].op # "DeviceReset"
                      /\ todo'[1].op = "destroy" => \A j \in 1 .. todo'[1].arg - 1 : j \in 1 .. Len(order)
    BY <1>4, <1>11, <1>3 DEF AtTop
  <2>1. Len(todo) >= 2 /\ todo'[1] = todo[2] /\ todo[2] \in Calls
    BY <1>1, <1>6, Topmost DEF WellStacked
  <2>2. todo[2].op = "destroy" => todo[2].arg \in Nat
    BY <2>1, CallArguments
  <2>3. Len(order) \in Nat
    BY DEF IInv, Typing
  <2> QED BY <1>7, <2>1, <2>2, <2>3
<1>9. NearTop'
  <2> SUFFICES ASSUME NEW i \in 1 .. Len(todo'), i <= 3
               PROVE  /\ i <= 2 => todo'[i].op \notin {"SetDevice", "StreamCreate", "StreamDestroy"}
                      /\ i \in {2, 3} => (todo'[i].op = "destroy" => todo'[i].arg = 1)
    BY DEF NearTop
  <2>1. todo'[i] = todo[i + 1] /\ i + 1 \in 2 .. Len(todo)
    BY <1>1, <1>6
  <2>2. CASE i = 1
    BY <1>7, <2>1, <2>2 DEF NeedDevice, DriverCalls
  <2>3. CASE i = 2
    <3>1. todo[3].op \notin {"StreamCreate", "StreamDestroy"} /\ (todo[3].op = "SetDevice" => todo[3 - 2].op \in Resets)
      BY <1>1, <2>1, <2>3 DEF WellStacked
    <3>2. todo[3].op = "destroy" => todo[3].arg = 1
      BY <1>1, <1>7, <2>1, <2>3, Topmost DEF Above, NeedDevice, DriverCalls
    <3> QED BY <1>1, <2>1, <2>3, <3>1, <3>2 DEF Resets
  <2>4. CASE i = 3
    BY <1>1, <2>1, <2>4 DEF WellStacked
  <2> QED BY <2>2, <2>3, <2>4
<1>10. Typing' /\ Current'
  BY <1>2, <1>3, <1>6, <1>11, <1>12 DEF IInv, Typing, TypeOK, Current, OneDeviceOpen
<1> QED BY <1>8, <1>9, <1>10 DEF IInv

-----------------------------------------------------------------------------

\* The calls in progress and the devices hold together, for any devices.
THEOREM Invariance == Spec => []IInv
<1>1. IInv /\ [Next]_vars => IInv'
  <2> SUFFICES ASSUME IInv, [Next]_vars PROVE IInv'
    OBVIOUS
  <2>1. CASE UNCHANGED vars
    <3>1. UNCHANGED <<backend, device, order, stream, allocs, driver, todo>> /\ lib' \in Backends \cup {None}
      BY <2>1 DEF vars, state, IInv, Typing, TypeOK
    <3>2. WellStacked(todo)' /\ AtTop' /\ NearTop'
      BY <3>1, KnownStays DEF IInv, Typing, AtTop, NearTop, driver
    <3> QED BY <3>1, <3>2, DevicesStay
  <2>2. CASE Begin
    BY <2>2, BeginPreserves
  <2>3. CASE Progress
    BY <2>3, LoadPreserves, LazyInitPreserves, SetDevicePreserves, ResetPreserves, LoopPreserves, FreePreserves,
       ReturnPreserves, DriverFailsPreserves, DriverSetPreserves, DriverResetPreserves, StreamCreatePreserves,
       StreamDestroyPreserves, CreateOwnPreserves, DestroyAnyPreserves, AvailablePreserves, MemoryPreserves DEF Progress
  <2> QED BY <2>1, <2>2, <2>3 DEF Next
<1> QED BY <1>1, InitInv, PTL DEF Spec

\* At most one device is open and it is the current one, and the driver has
\* exactly the streams the library knows and those programs made, whatever is
\* called and whichever call fails (set_device, reset_device, _lazy_init,
\* create_stream, destroy_stream); but for the stream of current_stream() once
\* a program has destroyed it, which the library goes on naming.
THEOREM ProcessAndDriverAgree == Spec => []StateAgrees
<1>1. IInv => StateAgrees
  BY DEF IInv, Typing, Current, StateAgrees
<1> QED BY <1>1, Invariance, PTL

\* As long as a process has used no second device, what needs a device finds
\* the current one open (_lazy_init).
THEOREM CalledOnOpen == Spec => []CalledOnOpenDevice
<1>1. IInv => CalledOnOpenDevice
  <2> SUFFICES ASSUME IInv, todo # <<>>, Head(todo).op \in NeedDevice, Len(order) <= 1 PROVE device \in open
    BY DEF CalledOnOpenDevice
  <2>1. todo[1].op \in NeedDevice
    BY Topmost DEF IInv, Typing
  <2>2. device # None
    BY <2>1 DEF IInv, AtTop
  <2> QED BY <2>2 DEF IInv, Current
<1> QED BY <1>1, Invariance, PTL

-----------------------------------------------------------------------------
(* DeviceMemory: the inductive invariant adds to its properties that the   *)
(* driver's blocks do not overlap.  HandlesApart is not needed in it: two  *)
(* handles lie in their own blocks, and those are apart.                   *)

\* The driver's live blocks never overlap (the driver's promise, Place).
BlocksApart ==
  \A p, q \in DOMAIN blocks : p # q => Apart(p, blocks[p], q, blocks[q])

MemoryInv ==
  /\ MemoryTypeOK
  /\ BlocksApart
  /\ HandleInsideBlock
  /\ EveryBlockKnown

-----------------------------------------------------------------------------

\* Rounding up to a multiple of 512 moves an address by less than 512
\* (interface.py, malloc: the margin it asks for is enough).
LEMMA AlignUpBounds ==
  ASSUME NEW p \in Nat
  PROVE  /\ AlignUp(p) \in Nat
         /\ AlignUp(p) % 512 = 0
         /\ p <= AlignUp(p)
         /\ AlignUp(p) < p + 512
BY DEF AlignUp

LEMMA MemoryInitInv == MemoryInit => MemoryInv
BY DEF MemoryInit, MemoryInv, MemoryTypeOK, BlocksApart, HandleInsideBlock, EveryBlockKnown,
       Empty

\* A new handle is not among the live ones: each of those lies inside its
\* block, and the new block is apart from all of them (malloc).
LEMMA HandleIsNew ==
  ASSUME MemoryInv, NEW n \in Sizes, NEW p \in Addresses, Malloc(n, p)
  PROVE  /\ p \notin DOMAIN blocks
         /\ AlignUp(p) \notin DOMAIN blockOf
<1>1. p \in Nat /\ n \in Nat \ {0}
  BY MemoryAssumption
<1>2. \A q \in DOMAIN blocks : Apart(p, n + 512, q, blocks[q])
  BY DEF Malloc, Place, RealSize
<1>3. p \notin DOMAIN blocks
  <2>1. SUFFICES ASSUME p \in DOMAIN blocks PROVE FALSE
    OBVIOUS
  <2>2. blocks[p] \in Nat \ {0} /\ Apart(p, n + 512, p, blocks[p])
    BY <1>2, <2>1 DEF MemoryInv, MemoryTypeOK
  <2> QED
    BY <1>1, <2>2 DEF Apart
<1>4. ASSUME AlignUp(p) \in DOMAIN blockOf
      PROVE  FALSE
  <2> DEFINE h == AlignUp(p)
             q == blockOf[h]
  <2>1. /\ p <= h
        /\ h < p + 512
        /\ h \in Nat
    BY <1>1, AlignUpBounds
  <2>2. /\ q \in DOMAIN blocks
        /\ q \in Nat
        /\ blocks[q] \in Nat
        /\ asked[h] \in Nat \ {0}
    BY <1>4, MemoryAssumption DEF MemoryInv, MemoryTypeOK
  <2>3. /\ q <= h
        /\ h + asked[h] <= q + blocks[q]
    BY <1>4 DEF MemoryInv, HandleInsideBlock
  <2>4. Apart(p, n + 512, q, blocks[q])
    BY <1>2, <2>2
  <2> HIDE DEF h, q
  <2> QED
    BY <1>1, <2>1, <2>2, <2>3, <2>4 DEF Apart
<1> QED
  BY <1>3, <1>4

\* malloc keeps the invariant.
LEMMA HandleAdded ==
  ASSUME MemoryInv, NEW n \in Sizes, NEW p \in Addresses, Malloc(n, p)
  PROVE  MemoryInv'
<1> DEFINE h == AlignUp(p)
<1>1. /\ p \in Nat
      /\ n \in Nat \ {0}
      /\ n + 512 \in Nat \ {0}
  BY MemoryAssumption
<1>2. /\ h \in Nat
      /\ h % 512 = 0
      /\ p <= h
      /\ h < p + 512
  BY <1>1, AlignUpBounds
<1>3. p \notin DOMAIN blocks /\ h \notin DOMAIN blockOf
  BY HandleIsNew
<1>4. /\ DOMAIN blocks' = DOMAIN blocks \cup {p}
      /\ blocks'[p] = n + 512
      /\ \A q \in DOMAIN blocks : blocks'[q] = blocks[q]
      /\ DOMAIN blockOf' = DOMAIN blockOf \cup {h}
      /\ blockOf'[h] = p
      /\ \A g \in DOMAIN blockOf : blockOf'[g] = blockOf[g]
      /\ DOMAIN asked' = DOMAIN asked \cup {h}
      /\ asked'[h] = n
      /\ \A g \in DOMAIN asked : asked'[g] = asked[g]
  BY <1>3 DEF Malloc, Place, Put, RealSize, MemoryInv, MemoryTypeOK
<1>5. \A q \in DOMAIN blocks : Apart(p, n + 512, q, blocks[q])
  BY DEF Malloc, Place, RealSize
<1> HIDE DEF h
<1>6. MemoryTypeOK'
  BY <1>1, <1>2, <1>4 DEF MemoryInv, MemoryTypeOK
<1>7. BlocksApart'
  <2>1. SUFFICES ASSUME NEW a \in DOMAIN blocks', NEW b \in DOMAIN blocks',
                        a # b
                 PROVE  Apart(a, blocks'[a], b, blocks'[b])
    BY DEF BlocksApart
  <2>2. CASE a \in DOMAIN blocks /\ b \in DOMAIN blocks
    BY <1>4, <2>1, <2>2 DEF MemoryInv, BlocksApart
  <2>3. CASE a = p /\ b \in DOMAIN blocks
    BY <1>4, <1>5, <2>3
  <2>4. CASE a \in DOMAIN blocks /\ b = p
    BY <1>4, <1>5, <2>4 DEF Apart
  <2> QED
    BY <1>4, <2>1, <2>2, <2>3, <2>4
<1>8. HandleInsideBlock'
  <2>1. SUFFICES ASSUME NEW g \in DOMAIN blockOf'
                 PROVE  /\ g % 512 = 0
                        /\ blockOf'[g] <= g
                        /\ g + asked'[g] <= blockOf'[g] + blocks'[blockOf'[g]]
    BY DEF HandleInsideBlock
  <2>2. CASE g \in DOMAIN blockOf
    BY <1>4, <2>2 DEF MemoryInv, MemoryTypeOK, HandleInsideBlock
  <2>3. CASE g = h
    BY <1>1, <1>2, <1>4, <2>3
  <2> QED
    BY <1>4, <2>2, <2>3
<1>9. EveryBlockKnown'
  BY <1>3, <1>4 DEF MemoryInv, MemoryTypeOK, EveryBlockKnown
<1> QED
  BY <1>6, <1>7, <1>8, <1>9 DEF MemoryInv

\* free keeps the invariant.
LEMMA HandleFreed ==
  ASSUME MemoryInv, NEW h \in DOMAIN blockOf, Free(h)
  PROVE  MemoryInv'
<1>1. /\ DOMAIN blocks' = DOMAIN blocks \ {blockOf[h]}
      /\ \A q \in DOMAIN blocks' : blocks'[q] = blocks[q]
      /\ DOMAIN blockOf' = DOMAIN blockOf \ {h}
      /\ \A g \in DOMAIN blockOf' : blockOf'[g] = blockOf[g]
      /\ DOMAIN asked' = DOMAIN asked \ {h}
      /\ \A g \in DOMAIN asked' : asked'[g] = asked[g]
  BY DEF Free, Drop
<1>2. \A g \in DOMAIN blockOf' : blockOf[g] \in DOMAIN blocks'
  BY <1>1 DEF MemoryInv, MemoryTypeOK, EveryBlockKnown
<1>3. MemoryTypeOK'
  BY <1>1, <1>2 DEF MemoryInv, MemoryTypeOK
<1>4. BlocksApart'
  BY <1>1 DEF MemoryInv, BlocksApart
<1>5. HandleInsideBlock'
  BY <1>1, <1>2 DEF MemoryInv, MemoryTypeOK, HandleInsideBlock
<1>6. EveryBlockKnown'
  BY <1>1 DEF MemoryInv, EveryBlockKnown
<1> QED
  BY <1>3, <1>4, <1>5, <1>6 DEF MemoryInv

LEMMA MemoryNextPreserves == MemoryInv /\ [MemoryNext]_memoryVars => MemoryInv'
<1>1. SUFFICES ASSUME MemoryInv, [MemoryNext]_memoryVars PROVE MemoryInv'
  OBVIOUS
<1>2. ASSUME NEW n \in Sizes, NEW p \in Addresses, Malloc(n, p)
      PROVE  MemoryInv'
  BY <1>1, <1>2, HandleAdded
<1>3. ASSUME NEW h \in DOMAIN blockOf, Free(h)
      PROVE  MemoryInv'
  BY <1>1, <1>3, HandleFreed
<1>4. CASE UNCHANGED memoryVars
  BY <1>1, <1>4 DEF memoryVars, MemoryInv, MemoryTypeOK, BlocksApart, HandleInsideBlock,
                    EveryBlockKnown
<1> QED
  BY <1>1, <1>2, <1>3, <1>4 DEF MemoryNext

-----------------------------------------------------------------------------

\* The inductive invariant holds in every state malloc and free can reach.
THEOREM MemoryInvariance == MemorySpec => []MemoryInv
BY MemoryInitInv, MemoryNextPreserves, PTL DEF MemorySpec

\* The memory behind a handle is aligned and inside its block, and the
\* record in state.allocs matches the driver's blocks one to one.
THEOREM HandlesAreBacked == MemorySpec => []HandlesMatchBlocks
<1>1. MemoryInv => HandlesMatchBlocks
  BY DEF MemoryInv, HandlesMatchBlocks
<1> QED
  BY <1>1, MemoryInvariance, PTL

\* state.allocs, the driver's blocks and what was asked for have their types.
THEOREM MemoryTypeCorrect == MemorySpec => []MemoryTypeOK
<1>1. MemoryInv => MemoryTypeOK
  BY DEF MemoryInv
<1> QED
  BY <1>1, MemoryInvariance, PTL

\* Two live handles never share a byte, for every placement the driver may
\* choose and every size (interface.py, malloc and free).
THEOREM HandlesNeverOverlap == MemorySpec => []HandlesApart
<1>1. MemoryInv => HandlesApart
  <2>1. SUFFICES ASSUME MemoryInv, NEW g \in DOMAIN blockOf, NEW h \in DOMAIN blockOf,
                        g # h
                 PROVE  Apart(g, asked[g], h, asked[h])
    BY DEF HandlesApart
  <2> DEFINE p == blockOf[g]
             q == blockOf[h]
  <2>2. /\ p \in DOMAIN blocks /\ q \in DOMAIN blocks
        /\ p \in Nat /\ q \in Nat
        /\ blocks[p] \in Nat /\ blocks[q] \in Nat
        /\ g \in Nat /\ h \in Nat
        /\ asked[g] \in Nat /\ asked[h] \in Nat
    BY <2>1, MemoryAssumption DEF MemoryInv, MemoryTypeOK
  <2>3. p # q /\ Apart(p, blocks[p], q, blocks[q])
    BY <2>1, <2>2 DEF MemoryInv, EveryBlockKnown, BlocksApart
  <2>4. /\ p <= g /\ g + asked[g] <= p + blocks[p]
        /\ q <= h /\ h + asked[h] <= q + blocks[q]
    BY <2>1 DEF MemoryInv, HandleInsideBlock
  <2> HIDE DEF p, q
  <2> QED
    BY <2>2, <2>3, <2>4 DEF Apart
<1> QED
  BY <1>1, MemoryInvariance, PTL

=============================================================================
