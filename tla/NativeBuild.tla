----------------------------- MODULE NativeBuild -----------------------------
(***************************************************************************)
(* How the package gets its native libraries: RuntimeInterface and         *)
(* NPUUtils of python/asc/lib/runtime/state.py, PrintInterface of          *)
(* print_utils.py, the host tiling library's Loader of lib/host/loader.py. *)
(*                                                                         *)
(* A process that needs a library looks for it in the cache, and otherwise *)
(* has it compiled and puts what the linker wrote into the cache.  The     *)
(* runtime's libraries are linked in a temporary directory and found by    *)
(* their source; the host library is linked into the package's directory,  *)
(* the same file for all processes, and found by its name.  Both are found *)
(* by the version of the toolkit too, where its version.cfg tells that.    *)
(* The cache's put is one step here: KernelCache shows that a reader never *)
(* sees half of it.                                                        *)
(***************************************************************************)
EXTENDS Naturals

CONSTANTS
  Procs,     \* processes
  Kinds,     \* the libraries, of these:
  InPackage, \* linked into the package and found by name: the host library
  Sources,   \* versions of the package that may be installed
  Toolkits,  \* versions of the toolkit that may be installed
  Versioned, \* those that have a version.cfg
  NoFile,
  Torn       \* a file the linker has not finished

VARIABLES
  installed,  \* the package and the toolkit that are installed
  mine,       \* mine[p]: those that p saw when it began to load, in a call
  pc,         \* pc[p]: the next step of p's loading
  want,       \* want[p]: the library it is loading, in a call
  shared,     \* shared[k]: the file of k in the package's directory
  private,    \* private[p]: the file in p's temporary directory
  bytes,      \* bytes[p]: what p read of the file the linker wrote
  cache,      \* cache[key]: the file in the cache
  loaded      \* loaded[p]: what p has loaded, by library, and what it saw

vars == <<installed, mine, pc, want, shared, private, bytes, cache, loaded>>

Install == [src : Sources, toolkit : Toolkits]

\* No file, half a file, a library and what was loaded are different things.
ASSUME FileAssumption ==
  /\ NoFile # Torn
  /\ {NoFile, Torn} \cap Install = {}
  /\ NoFile \notin [lib : Install, for : Install]
  /\ NoFile \notin Toolkits /\ Versioned \subseteq Toolkits

Steps == {"idle", "build", "link", "read", "put", "load"}

\* The text of version.cfg, if there is one.
Version(i) == IF i.toolkit \in Versioned THEN i.toolkit ELSE NoFile

\* Slip: the runtime's libraries are found by name, too.
KeyByName(k, i) == [kind |-> k, toolkit |-> Version(i), src |-> NoFile]

Key(k, i) == [kind |-> k, toolkit |-> Version(i), src |-> IF k \in InPackage THEN NoFile ELSE i.src]

Keys == {Key(k, i) : k \in Kinds, i \in Install}

Init ==
  /\ installed \in Install
  /\ mine = [p \in Procs |-> NoFile]
  /\ pc = [p \in Procs |-> "idle"]
  /\ want = [p \in Procs |-> NoFile]
  /\ shared = [k \in Kinds |-> NoFile]
  /\ private = [p \in Procs |-> NoFile]
  /\ bytes = [p \in Procs |-> NoFile]
  /\ cache = [key \in Keys |-> NoFile]
  /\ loaded = [p \in Procs |-> [k \in Kinds |-> NoFile]]

Goto(p, step) == pc' = [pc EXCEPT ![p] = step]

\* A call is over, and its variables are gone.
Leave(p) ==
  /\ Goto(p, "idle")
  /\ mine' = [mine EXCEPT ![p] = NoFile]
  /\ want' = [want EXCEPT ![p] = NoFile]
  /\ private' = [private EXCEPT ![p] = NoFile]
  /\ bytes' = [bytes EXCEPT ![p] = NoFile]
KeyOf(p) == Key(want[p], mine[p])

\* A library once loaded is kept (Loader.module, the module's lib).
Lookup(p, k) ==
  /\ pc[p] = "idle" /\ loaded[p][k] = NoFile
  /\ want' = [want EXCEPT ![p] = k]
  /\ mine' = [mine EXCEPT ![p] = installed]
  /\ Goto(p, IF cache[Key(k, installed)] = NoFile THEN "build" ELSE "load")
  /\ UNCHANGED <<installed, shared, private, bytes, cache, loaded>>

\* Slip: every library is linked into the package.
InPlaceAll(k) == TRUE

InPlace(k) == k \in InPackage

\* The linker opens its output, and has written it.
Linked(p, content) ==
  IF InPlace(want[p]) THEN shared' = [shared EXCEPT ![want[p]] = content] /\ UNCHANGED private
  ELSE private' = [private EXCEPT ![p] = content] /\ UNCHANGED shared

LinkBegins(p) ==
  /\ pc[p] = "build"
  /\ Linked(p, Torn)
  /\ Goto(p, "link")
  /\ UNCHANGED <<installed, mine, want, bytes, cache, loaded>>

LinkEnds(p) ==
  /\ pc[p] = "link"
  /\ Linked(p, mine[p])
  /\ Goto(p, "read")
  /\ UNCHANGED <<installed, mine, want, bytes, cache, loaded>>

\* Slip: the linker's return code is not looked at.
LinkFailsUnseen(p) ==
  /\ pc[p] = "link"
  /\ private' = [private EXCEPT ![p] = NoFile]
  /\ Goto(p, "read")
  /\ UNCHANGED <<installed, mine, want, shared, bytes, cache, loaded>>

\* check_call raises; the temporary directory goes, the package's file stays.
LinkFails(p) ==
  /\ pc[p] = "link"
  /\ Leave(p)
  /\ UNCHANGED <<installed, shared, cache, loaded>>

Read(p) ==
  /\ pc[p] = "read"
  /\ bytes' = [bytes EXCEPT ![p] = IF InPlace(want[p]) THEN shared[want[p]] ELSE private[p]]
  /\ Goto(p, "put")
  /\ UNCHANGED <<installed, mine, want, shared, private, cache, loaded>>

Put(p) ==
  /\ pc[p] = "put"
  /\ cache' = [cache EXCEPT ![KeyOf(p)] = bytes[p]]
  /\ private' = [private EXCEPT ![p] = NoFile]
  /\ Goto(p, "load")
  /\ UNCHANGED <<installed, mine, want, shared, bytes, loaded>>

\* The loader refuses half a library; the file stays in the cache.
Load(p) ==
  /\ pc[p] = "load"
  /\ loaded' = IF cache[KeyOf(p)] = Torn THEN loaded
               ELSE [loaded EXCEPT ![p][want[p]] = [lib |-> cache[KeyOf(p)], for |-> mine[p]]]
  /\ Leave(p)
  /\ UNCHANGED <<installed, shared, cache>>

\* A process ends or is killed, and another takes its place.
Restart(p) ==
  /\ loaded' = [loaded EXCEPT ![p] = [k \in Kinds |-> NoFile]]
  /\ Leave(p)
  /\ UNCHANGED <<installed, shared, cache>>

\* Nothing is installed while a library is being built.
Upgrade(i) ==
  /\ \A p \in Procs : pc[p] = "idle"
  /\ installed' = i
  /\ UNCHANGED <<mine, pc, want, shared, private, bytes, cache, loaded>>

Next ==
  \/ \E p \in Procs :
       \/ LinkBegins(p) \/ LinkEnds(p) \/ LinkFails(p) \/ Read(p) \/ Put(p) \/ Load(p) \/ Restart(p)
       \/ \E k \in Kinds : Lookup(p, k)
  \/ \E i \in Install : Upgrade(i)

Spec == Init /\ [][Next]_vars

-----------------------------------------------------------------------------
(* What is checked.                                                        *)

Files == Install \cup {NoFile, Torn}

\* The variables have their types.
TypeOK ==
  /\ installed \in Install /\ mine \in [Procs -> Install \cup {NoFile}]
  /\ pc \in [Procs -> Steps] /\ want \in [Procs -> Kinds \cup {NoFile}]
  /\ shared \in [Kinds -> Files] /\ private \in [Procs -> Files]
  /\ bytes \in [Procs -> Files] /\ cache \in [Keys -> Files]
  /\ loaded \in [Procs -> [Kinds -> [lib : Install, for : Install] \cup {NoFile}]]

\* What gets into the cache is whole.  A torn library would be found, and
\* refused by the loader, in every process from then on.  (The host library,
\* which all processes link to one file, may be torn.)
CacheIsWhole == \A key \in Keys : key.kind \notin InPackage => cache[key] # Torn

\* Libraries are whole, in the cache and where they are loaded.
LibrariesAreWhole == TypeOK /\ CacheIsWhole

\* A process gets the library that the package and the toolkit installed at
\* that time make, not one of before an upgrade.  (The host library is found by
\* its name, and may be that of another version of the package; a toolkit
\* without version.cfg is not told from another one without.)
LoadedIsOwn ==
  \A p \in Procs, k \in Kinds :
    loaded[p][k] # NoFile =>
      /\ loaded[p][k].for.toolkit \in Versioned => loaded[p][k].lib.toolkit = loaded[p][k].for.toolkit
      /\ k \in InPackage \/ loaded[p][k].lib.src = loaded[p][k].for.src
=============================================================================
