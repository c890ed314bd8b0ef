------------------------ MODULE NativeBuild_proofs ------------------------
(***************************************************************************)
(* Proofs about NativeBuild, for any processes, libraries and versions.    *)
(*                                                                         *)
(* The inductive invariant adds how far a process has got: it works for    *)
(* what is installed, what it reads or puts was linked for that, and a     *)
(* file of the cache was made for the key it has.                          *)
(***************************************************************************)
EXTENDS NativeBuild, TLAPS

\* A process that loads a library does so for what is installed, and holds
\* what its step needs.  A file in the package may be torn by another one.
Holds(p) ==
  /\ pc[p] # "idle" => want[p] \in Kinds /\ mine[p] = installed
  /\ pc[p] = "read" => IF InPlace(want[p]) THEN shared[want[p]] \in {Torn, installed}
                       ELSE private[p] = installed
  /\ pc[p] = "put" => bytes[p] \in IF InPlace(want[p]) THEN {Torn, installed} ELSE {installed}
  /\ pc[p] = "load" => cache[KeyOf(p)] # NoFile

\* A file was made for its key: for the version, and by name or by source.
MadeFor(key) ==
  \/ cache[key] = NoFile
  \/ key.kind \in InPackage /\ cache[key] = Torn
  \/ /\ cache[key] \in Install
     /\ Version(cache[key]) = key.toolkit
     /\ key.kind \in InPackage \/ cache[key].src = key.src

IInv ==
  /\ TypeOK
  /\ \A p \in Procs : Holds(p)
  /\ \A key \in Keys : MadeFor(key)
  /\ LoadedIsOwn

-----------------------------------------------------------------------------

\* A key is one of the keys, and says what it is the key of (the key functions
\* of state.py, print_utils.py and loader.py).
LEMMA KeyFacts ==
  ASSUME NEW k \in Kinds, NEW i \in Install
  PROVE  /\ Key(k, i) \in Keys
         /\ Key(k, i).kind = k
         /\ Key(k, i).toolkit = Version(i)
         /\ k \notin InPackage => Key(k, i).src = i.src
BY DEF Key, Keys

LEMMA InitInv == Init => IInv
BY FileAssumption DEF Init, IInv, TypeOK, Holds, MadeFor, LoadedIsOwn, Files, Steps

\* Looking into the cache.
LEMMA LookupPreserves ==
  ASSUME IInv, NEW p \in Procs, NEW k \in Kinds, Lookup(p, k)
  PROVE  IInv'
<1>1. TypeOK'
  BY DEF IInv, TypeOK, Lookup, Goto, Steps
<1>2. ASSUME NEW q \in Procs PROVE Holds(q)'
  <2>1. CASE q = p
    BY <2>1 DEF IInv, TypeOK, Holds, Lookup, Goto, KeyOf
  <2>2. CASE q # p
    BY <2>2 DEF IInv, TypeOK, Holds, Lookup, Goto, KeyOf
  <2> QED BY <2>1, <2>2
<1>3. (\A key \in Keys : MadeFor(key))' /\ LoadedIsOwn'
  BY DEF IInv, MadeFor, LoadedIsOwn, Lookup
<1> QED BY <1>1, <1>2, <1>3 DEF IInv

\* The linker opens its output, and has written it: in the package that may
\* tear what another process is about to read, and no more.
LEMMA LinkPreserves ==
  ASSUME IInv, NEW p \in Procs, LinkBegins(p) \/ LinkEnds(p)
  PROVE  IInv'
<1>1. /\ want[p] \in Kinds /\ mine[p] = installed /\ installed \in Install
      /\ pc[p] \in {"build", "link"}
  BY DEF IInv, TypeOK, Holds, LinkBegins, LinkEnds
<1>2. PICK content \in {Torn, installed} :
        /\ Linked(p, content)
        /\ pc' = [pc EXCEPT ![p] = IF content = Torn THEN "link" ELSE "read"]
  BY <1>1, FileAssumption DEF LinkBegins, LinkEnds, Goto
<1>3. UNCHANGED <<installed, mine, want, bytes, cache, loaded>>
  BY DEF LinkBegins, LinkEnds
<1>4. TypeOK'
  BY <1>1, <1>2, <1>3 DEF IInv, TypeOK, Linked, Files, Steps
<1>5. ASSUME NEW q \in Procs PROVE Holds(q)'
  <2>1. CASE q = p
    BY <1>1, <1>2, <1>3, <2>1 DEF IInv, TypeOK, Holds, Linked, InPlace
  <2>2. CASE q # p
    BY <1>1, <1>2, <1>3, <2>2 DEF IInv, TypeOK, Holds, Linked, KeyOf
  <2> QED BY <2>1, <2>2
<1>6. (\A key \in Keys : MadeFor(key))' /\ LoadedIsOwn'
  BY <1>3 DEF IInv, MadeFor, LoadedIsOwn
<1> QED BY <1>4, <1>5, <1>6 DEF IInv

\* Reading what the linker wrote.
LEMMA ReadPreserves ==
  ASSUME IInv, NEW p \in Procs, Read(p)
  PROVE  IInv'
<1>1. want[p] \in Kinds /\ pc[p] = "read"
  BY DEF IInv, Holds, Read
<1>2. TypeOK'
  BY <1>1 DEF IInv, TypeOK, Read, Goto, Steps, Files
<1>3. ASSUME NEW q \in Procs PROVE Holds(q)'
  <2>1. CASE q = p
    BY <1>1, <2>1 DEF IInv, TypeOK, Holds, Read, Goto
  <2>2. CASE q # p
    BY <2>2 DEF IInv, TypeOK, Holds, Read, Goto, KeyOf
  <2> QED BY <2>1, <2>2
<1>4. (\A key \in Keys : MadeFor(key))' /\ LoadedIsOwn'
  BY DEF IInv, MadeFor, LoadedIsOwn, Read
<1> QED BY <1>2, <1>3, <1>4 DEF IInv

\* put: the file is for the key, since it was linked for what is installed.
LEMMA PutPreserves ==
  ASSUME IInv, NEW p \in Procs, Put(p)
  PROVE  IInv'
<1>1. /\ want[p] \in Kinds /\ mine[p] = installed /\ installed \in Install
      /\ pc[p] = "put"
      /\ bytes[p] \in IF want[p] \in InPackage THEN {Torn, installed} ELSE {installed}
  BY DEF IInv, TypeOK, Holds, Put, InPlace
<1> DEFINE key == KeyOf(p)
<1>2. /\ key \in Keys /\ key.kind = want[p] /\ key.toolkit = Version(installed)
      /\ want[p] \notin InPackage => key.src = installed.src
  BY <1>1, KeyFacts DEF KeyOf
<1>3. cache' = [cache EXCEPT ![key] = bytes[p]] /\ cache'[key] = bytes[p] /\ bytes[p] # NoFile
  BY <1>1, <1>2, FileAssumption DEF Put, IInv, TypeOK
<1> HIDE DEF key
<1>4. TypeOK'
  BY <1>1, <1>2, <1>3, FileAssumption DEF IInv, TypeOK, Put, Goto, Steps, Files
<1>5. ASSUME NEW q \in Procs PROVE Holds(q)'
  <2>1. CASE q = p
    BY <1>1, <1>3, <2>1 DEF IInv, TypeOK, Holds, Put, Goto, KeyOf, key
  <2>2. CASE q # p
    BY <1>1, <1>3, <2>2 DEF IInv, TypeOK, Holds, Put, Goto, KeyOf, key
  <2> QED BY <2>1, <2>2
<1>6. ASSUME NEW k \in Keys PROVE MadeFor(k)'
  <2>1. CASE k = key
    BY <1>1, <1>2, <1>3, <2>1 DEF MadeFor
  <2>2. CASE k # key
    BY <1>3, <2>2 DEF IInv, TypeOK, MadeFor
  <2> QED BY <2>1, <2>2
<1>7. LoadedIsOwn'
  BY DEF IInv, LoadedIsOwn, Put
<1> QED BY <1>4, <1>5, <1>6, <1>7 DEF IInv

\* A call that is over leaves the others what they had.
LEMMA LeaveKeeps ==
  ASSUME IInv, NEW p \in Procs, Leave(p), UNCHANGED <<installed, shared, cache>>
  PROVE  /\ \A q \in Procs : Holds(q)'
         /\ (\A key \in Keys : MadeFor(key))'
         /\ loaded' \in [Procs -> [Kinds -> [lib : Install, for : Install] \cup {NoFile}]] => TypeOK'
<1>1. ASSUME NEW q \in Procs PROVE Holds(q)'
  <2>1. CASE q = p
    BY <2>1 DEF IInv, TypeOK, Holds, Leave, Goto
  <2>2. CASE q # p
    BY <2>2 DEF IInv, TypeOK, Holds, Leave, Goto, KeyOf
  <2> QED BY <2>1, <2>2
<1>2. (\A key \in Keys : MadeFor(key))'
  BY DEF IInv, MadeFor
<1>3. ASSUME loaded' \in [Procs -> [Kinds -> [lib : Install, for : Install] \cup {NoFile}]] PROVE TypeOK'
  BY <1>3 DEF IInv, TypeOK, Leave, Goto, Steps, Files
<1> QED BY <1>1, <1>2, <1>3

\* Loading: the file is there and made for the key, and the key is that of
\* what is installed.
LEMMA LoadPreserves ==
  ASSUME IInv, NEW p \in Procs, Load(p)
  PROVE  IInv'
<1>1. /\ want[p] \in Kinds /\ mine[p] = installed /\ installed \in Install
      /\ cache[KeyOf(p)] # NoFile
      /\ Leave(p) /\ UNCHANGED <<installed, shared, cache>>
  BY DEF IInv, TypeOK, Holds, Load
<1> DEFINE key == KeyOf(p)
           file == cache[key]
           is == [lib |-> file, for |-> installed]
<1>2. /\ key \in Keys /\ key.kind = want[p] /\ key.toolkit = Version(installed)
      /\ want[p] \notin InPackage => key.src = installed.src
  BY <1>1, KeyFacts DEF KeyOf
<1>3. CASE file = Torn
  <2>1. loaded' = loaded
    BY <1>3 DEF Load
  <2> QED BY <1>1, <2>1, LeaveKeeps DEF IInv, TypeOK, LoadedIsOwn
<1>4. CASE file # Torn
  <2>1. loaded' = [loaded EXCEPT ![p][want[p]] = is]
    BY <1>1, <1>4 DEF Load
  <2>2. /\ file \in Install /\ Version(file) = Version(installed)
        /\ want[p] \in InPackage \/ file.src = installed.src
    <3>1. MadeFor(key) /\ file # NoFile
      BY <1>1, <1>2 DEF IInv
    <3> QED BY <1>2, <1>4, <3>1 DEF MadeFor
  <2>6. installed.toolkit \in Versioned => file.toolkit = installed.toolkit
    BY <1>1, <2>2, FileAssumption DEF Version
  <2> HIDE DEF file, key
  <2>3. is \in [lib : Install, for : Install] /\ is.lib = file /\ is.for = installed
    BY <1>1, <2>2
  <2> HIDE DEF is
  <2>4. loaded' \in [Procs -> [Kinds -> [lib : Install, for : Install] \cup {NoFile}]]
    BY <1>1, <2>1, <2>3 DEF IInv, TypeOK
  <2>5. ASSUME NEW q \in Procs, NEW k \in Kinds, loaded'[q][k] # NoFile
        PROVE  /\ loaded'[q][k].for.toolkit \in Versioned => loaded'[q][k].lib.toolkit = loaded'[q][k].for.toolkit
               /\ k \in InPackage \/ loaded'[q][k].lib.src = loaded'[q][k].for.src
    <3>1. CASE q = p /\ k = want[p]
      BY <1>1, <2>1, <2>2, <2>3, <2>6, <3>1 DEF IInv, TypeOK
    <3>2. CASE ~(q = p /\ k = want[p])
      <4>1. loaded'[q][k] = loaded[q][k]
        BY <2>1, <3>2 DEF IInv, TypeOK
      <4> QED BY <2>5, <4>1 DEF IInv, LoadedIsOwn
    <3> QED BY <3>1, <3>2
  <2> QED BY <1>1, <2>4, <2>5, LeaveKeeps DEF IInv, LoadedIsOwn
<1> QED BY <1>3, <1>4

\* A link that fails, and a process that dies, drop what they had.
LEMMA LinkFailsPreserves ==
  ASSUME IInv, NEW p \in Procs, LinkFails(p)
  PROVE  IInv'
<1>1. Leave(p) /\ UNCHANGED <<installed, shared, cache>> /\ loaded' = loaded
  BY DEF LinkFails
<1> QED BY <1>1, LeaveKeeps DEF IInv, TypeOK, LoadedIsOwn

LEMMA RestartPreserves ==
  ASSUME IInv, NEW p \in Procs, Restart(p)
  PROVE  IInv'
<1>1. /\ Leave(p) /\ UNCHANGED <<installed, shared, cache>>
      /\ loaded' = [loaded EXCEPT ![p] = [k \in Kinds |-> NoFile]]
  BY DEF Restart
<1>2. loaded' \in [Procs -> [Kinds -> [lib : Install, for : Install] \cup {NoFile}]]
  BY <1>1 DEF IInv, TypeOK
<1>3. LoadedIsOwn'
  BY <1>1 DEF IInv, TypeOK, LoadedIsOwn
<1> QED BY <1>1, <1>2, <1>3, LeaveKeeps DEF IInv

\* An upgrade finds nobody at work.
LEMMA UpgradePreserves ==
  ASSUME IInv, NEW i \in Install, Upgrade(i)
  PROVE  IInv'
<1>1. TypeOK'
  BY DEF IInv, TypeOK, Upgrade
<1>2. ASSUME NEW q \in Procs PROVE Holds(q)'
  BY DEF IInv, Holds, Upgrade
<1>3. (\A key \in Keys : MadeFor(key))' /\ LoadedIsOwn'
  BY DEF IInv, MadeFor, LoadedIsOwn, Upgrade
<1> QED BY <1>1, <1>2, <1>3 DEF IInv

LEMMA NextPreserves == IInv /\ [Next]_vars => IInv'
<1> SUFFICES ASSUME IInv, [Next]_vars PROVE IInv'
  OBVIOUS
<1>1. CASE UNCHANGED vars
  BY <1>1 DEF vars, IInv, TypeOK, Holds, MadeFor, LoadedIsOwn, KeyOf
<1>2. CASE Next
  BY <1>2, LookupPreserves, LinkPreserves, ReadPreserves, PutPreserves, LoadPreserves,
     LinkFailsPreserves, RestartPreserves, UpgradePreserves DEF Next
<1> QED BY <1>1, <1>2

THEOREM Invariance == Spec => []IInv
<1> QED BY InitInv, NextPreserves, PTL DEF Spec

\* No process puts half a library into the cache of the runtime's libraries,
\* however many build at once and wherever they die (state.py, print_utils.py).
THEOREM LibrariesStayWhole == Spec => []LibrariesAreWhole
<1>1. IInv => LibrariesAreWhole
  BY FileAssumption DEF IInv, MadeFor, LibrariesAreWhole, CacheIsWhole
<1> QED BY <1>1, Invariance, PTL

\* A process loads the library of what was installed, the host library that
\* of its toolkit, as far as a version.cfg tells toolkits apart (the keys of
\* state.py and loader.py).
THEOREM LoadedForWhatIsInstalled == Spec => []LoadedIsOwn
<1>1. IInv => LoadedIsOwn
  BY DEF IInv
<1> QED BY <1>1, Invariance, PTL

=============================================================================
