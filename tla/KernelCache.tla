---------------------------- MODULE KernelCache ----------------------------
(***************************************************************************)
(* The compilation cache of a JIT function: JITFunction._cache_kernel of   *)
(* python/asc/runtime/jit.py over the FileCacheManager of                  *)
(* python/asc/runtime/cache.py.                                            *)
(*                                                                         *)
(* Several Python processes share one cache directory.  Each one keeps the *)
(* kernels it built itself in a dictionary (kernel_cache); on a miss it    *)
(* looks for the kernel's file under the directory of the kernel's key,    *)
(* and compiles and writes the file when there is none.  Every system call *)
(* of the protocol is an action, so that another process, an exception or  *)
(* the death of the process can come between any two of them.              *)
(*                                                                         *)
(* A kernel is abstracted to what it was built from: the text of the       *)
(* function, the specialisation, and the value a module-level variable of  *)
(* the kernel's module had when its code was generated.                    *)
(***************************************************************************)

CONSTANTS
  Procs,     \* the Python processes
  Sources,   \* texts of the kernel, of the functions it calls and of pyasc
  Globals,   \* values of a module-level variable the kernel's body reads
  Variants,  \* specialisations: options, constexprs, argument types
  NoKernel,  \* no kernel, no file
  NoCall,    \* no call in progress
  Torn       \* a file of which only a part has been written

VARIABLES
  src,      \* src[p]: the text process p imported
  glob,     \* glob[p]: the module-level variable of p, as it is now
  mem,      \* mem[p]: JITFunction.kernel_cache, by specialisation
  pc,       \* pc[p]: the next step of the call in progress
  call,     \* call[p]: the specialisation of that call
  kernel,   \* kernel[p]: the local variable `kernel` of _cache_kernel
  tmp,      \* tmp[p]: the temporary directory of the put in progress
  dirs,     \* the directories <cache>/<key> that exist
  file,     \* file[k]: the kernel file in <cache>/<k>
  orphans,  \* the keys whose directory holds an abandoned temporary directory
  warm      \* history: the kernel's file was there when p's call began

cacheVars == <<dirs, file, orphans>>
procVars == <<src, glob, mem>>
callVars == <<pc, call, kernel, tmp, warm>>
vars == <<src, glob, mem, pc, call, kernel, tmp, dirs, file, orphans, warm>>

\* The factors a specialisation is identified by.  CompileOptions is one of
\* them with all its fields, always_compile included.
Factors == [var : Variants, always : BOOLEAN]

\* get_mem_cache_key sees the factors only, get_file_cache_key also the
\* hashes of pyasc and of the function; neither sees the value of an ordinary
\* module-level variable.  (That of a ConstExpr one is hashed with the function,
\* once for a process; here it is part of the source.)
Keys == [src : Sources, var : Variants, always : BOOLEAN]

\* Slip: the file key forgets the hash of the function.
KeyOfNoSource(s, f) ==
  [src |-> CHOOSE s0 \in Sources : TRUE, var |-> f.var, always |-> f.always]

KeyOf(s, f) == [src |-> s, var |-> f.var, always |-> f.always]

Kernels == [key : Keys, glob : Globals]

Key(p) == KeyOf(src[p], call[p])

\* What codegen and the compiler make for the call in progress of p.
Built(p) ==
  [key  |-> [src |-> src[p], var |-> call[p].var, always |-> call[p].always],
   glob |-> glob[p]]

Steps == {"idle", "lookup", "mkdir", "check", "load", "build", "mktemp",
          "open", "write", "replace", "prune", "store", "return"}

ASSUME SentinelAssumption ==
  /\ NoKernel \notin Kernels
  /\ Torn \notin Kernels
  /\ NoKernel # Torn
  /\ NoCall \notin Factors
  /\ NoCall \notin Keys

-----------------------------------------------------------------------------

Init ==
  /\ src \in [Procs -> Sources]
  /\ glob \in [Procs -> Globals]
  /\ mem = [p \in Procs |-> [f \in Factors |-> NoKernel]]
  /\ pc = [p \in Procs |-> "idle"]
  /\ call = [p \in Procs |-> NoCall]
  /\ kernel = [p \in Procs |-> NoKernel]
  /\ tmp = [p \in Procs |-> "none"]
  /\ dirs = {}
  /\ file = [k \in Keys |-> NoKernel]
  /\ orphans = {}
  /\ warm = [p \in Procs |-> FALSE]

Goto(p, from, to) ==
  /\ pc[p] = from
  /\ pc' = [pc EXCEPT ![p] = to]

\* kernel[core_num](args): JITFunction._run computes the factors.
Call(p, f) ==
  /\ Goto(p, "idle", "lookup")
  /\ call' = [call EXCEPT ![p] = f]
  /\ warm' = [warm EXCEPT ![p] = file[KeyOf(src[p], f)] # NoKernel]
  /\ UNCHANGED <<procVars, kernel, tmp, cacheVars>>

\* self.kernel_cache.get(mem_cache_key, None)
Lookup(p) ==
  /\ pc[p] = "lookup"
  /\ IF ~call[p].always /\ mem[p][call[p]] # NoKernel
       THEN /\ pc' = [pc EXCEPT ![p] = "return"]
            /\ kernel' = [kernel EXCEPT ![p] = mem[p][call[p]]]
       ELSE /\ pc' = [pc EXCEPT ![p] = "mkdir"]
            /\ UNCHANGED kernel
  /\ UNCHANGED <<procVars, call, tmp, warm, cacheVars>>

\* Slip: the directory is named by the function's hash alone.
MakeKeyDirBySource(p) ==
  /\ Goto(p, "mkdir", "check")
  /\ dirs' = dirs \cup {src[p]}
  /\ UNCHANGED <<procVars, call, kernel, tmp, warm, file, orphans>>

\* FileCacheManager.__init__: os.makedirs(self.cache_dir, exist_ok=True)
MakeKeyDir(p) ==
  /\ Goto(p, "mkdir", "check")
  /\ dirs' = dirs \cup {Key(p)}
  /\ UNCHANGED <<procVars, call, kernel, tmp, warm, file, orphans>>

\* Slip: a call trusts a file only when it also has the kernel in memory.
CheckOwnOnly(p) ==
  /\ Goto(p, "check", IF /\ ~call[p].always
                         /\ file[Key(p)] # NoKernel
                         /\ mem[p][call[p]] # NoKernel
                        THEN "load" ELSE "build")
  /\ UNCHANGED <<procVars, call, kernel, tmp, warm, cacheVars>>

\* Slip: a temporary directory is taken for a lock held by its writer.
CheckWaits(p) ==
  /\ pc[p] = "check" => Key(p) \notin orphans
  /\ Goto(p, "check", IF ~call[p].always /\ file[Key(p)] # NoKernel
                        THEN "load" ELSE "build")
  /\ UNCHANGED <<procVars, call, kernel, tmp, warm, cacheVars>>

\* get_file: the answer of os.path.exists decides between load and build;
\* it is never asked again.
Check(p) ==
  /\ Goto(p, "check", IF ~call[p].always /\ file[Key(p)] # NoKernel
                        THEN "load" ELSE "build")
  /\ UNCHANGED <<procVars, call, kernel, tmp, warm, cacheVars>>

\* open and pickle.load; a missing or torn file raises (Fail).
Load(p) ==
  /\ Goto(p, "load", "return")
  /\ file[Key(p)] \in Kernels
  /\ kernel' = [kernel EXCEPT ![p] = file[Key(p)]]
  /\ UNCHANGED <<procVars, call, tmp, warm, cacheVars>>

\* Slip: the dictionary is filled as soon as the kernel is built.
BuildStoresFirst(p) ==
  /\ Goto(p, "build", IF call[p].always THEN "return" ELSE "mktemp")
  /\ kernel' = [kernel EXCEPT ![p] = Built(p)]
  /\ mem' = [mem EXCEPT ![p][call[p]] = Built(p)]
  /\ UNCHANGED <<src, glob, call, tmp, warm, cacheVars>>

\* Slip: a kernel is launched before it is written to the cache.
BuildReturnsFirst(p) ==
  /\ Goto(p, "build", "return")
  /\ kernel' = [kernel EXCEPT ![p] = Built(p)]
  /\ UNCHANGED <<procVars, call, tmp, warm, cacheVars>>

\* _run_codegen (which reads fn.__globals__) and _run_compiler.  A call
\* that is not forced came here because there was no file: it goes on to
\* put().
Build(p) ==
  /\ Goto(p, "build", IF call[p].always THEN "return" ELSE "mktemp")
  /\ kernel' = [kernel EXCEPT ![p] = Built(p)]
  /\ UNCHANGED <<procVars, call, tmp, warm, cacheVars>>

\* put(): os.makedirs(temp_dir), which creates missing parents as well.
\* The name holds a fresh UUID, so it is never another put's directory.
MakeTempDir(p) ==
  /\ Goto(p, "mktemp", "open")
  /\ tmp' = [tmp EXCEPT ![p] = "empty"]
  /\ dirs' = dirs \cup {Key(p)}
  /\ UNCHANGED <<procVars, call, kernel, warm, file, orphans>>

\* Slip: the file is written under its final name.
OpenInPlace(p) ==
  /\ Goto(p, "open", "write")
  /\ tmp' = [tmp EXCEPT ![p] = "torn"]
  /\ file' = [file EXCEPT ![Key(p)] = Torn]
  /\ UNCHANGED <<procVars, call, kernel, warm, dirs, orphans>>

OpenTemp(p) ==
  /\ Goto(p, "open", "write")
  /\ tmp' = [tmp EXCEPT ![p] = "torn"]
  /\ UNCHANGED <<procVars, call, kernel, warm, cacheVars>>

WriteTemp(p) ==
  /\ Goto(p, "write", "replace")
  /\ tmp' = [tmp EXCEPT ![p] = "whole"]
  /\ UNCHANGED <<procVars, call, kernel, warm, cacheVars>>

\* os.replace(temp_path, filepath): what the temporary file holds becomes
\* the kernel file, over whatever another process put there meanwhile.
Replace(p) ==
  /\ Goto(p, "replace", "prune")
  /\ Key(p) \in dirs
  /\ file' = [file EXCEPT ![Key(p)] =
                IF tmp[p] = "whole" THEN kernel[p] ELSE Torn]
  /\ tmp' = [tmp EXCEPT ![p] = "empty"]
  /\ UNCHANGED <<procVars, call, kernel, warm, dirs, orphans>>

\* The directory of key k, seen by a process that has just removed its own
\* temporary directory from it.
IsEmptyDir(p, k) ==
  /\ file[k] = NoKernel
  /\ k \notin orphans
  /\ \A q \in Procs \ {p} : tmp[q] # "none" => Key(q) # k

\* os.removedirs(temp_dir) removes the temporary directory and then every
\* parent that is empty.
Prune(p) ==
  /\ Goto(p, "prune", "store")
  /\ tmp' = [tmp EXCEPT ![p] = "none"]
  /\ dirs' = IF IsEmptyDir(p, Key(p)) THEN dirs \ {Key(p)} ELSE dirs
  /\ UNCHANGED <<procVars, call, kernel, warm, file, orphans>>

\* self.kernel_cache[mem_cache_key] = kernel
StoreMem(p) ==
  /\ Goto(p, "store", "return")
  /\ mem' = [mem EXCEPT ![p][call[p]] = kernel[p]]
  /\ UNCHANGED <<src, glob, call, kernel, tmp, warm, cacheVars>>

\* The call is over and its local variables are gone.
Leave(p) ==
  /\ pc' = [pc EXCEPT ![p] = "idle"]
  /\ call' = [call EXCEPT ![p] = NoCall]
  /\ kernel' = [kernel EXCEPT ![p] = NoKernel]
  /\ warm' = [warm EXCEPT ![p] = FALSE]

\* _run_launcher takes the kernel; it ends or raises, the cache does not
\* care which.
Launch(p) ==
  /\ pc[p] = "return"
  /\ Leave(p)
  /\ UNCHANGED <<procVars, tmp, cacheVars>>

\* What a put that is given up leaves on the disk: put() has no cleanup.
Abandon(p) ==
  /\ orphans' = IF tmp[p] = "none" THEN orphans ELSE orphans \cup {Key(p)}
  /\ tmp' = [tmp EXCEPT ![p] = "none"]
  /\ UNCHANGED <<dirs, file>>

\* Slip: put() cleans up after itself with os.removedirs.
FailPrunes(p) ==
  /\ pc[p] \in Steps \ {"idle", "lookup", "store", "return"}
  /\ dirs' = IF IsEmptyDir(p, Key(p)) THEN dirs \ {Key(p)} ELSE dirs
  /\ tmp' = [tmp EXCEPT ![p] = "none"]
  /\ Leave(p)
  /\ UNCHANGED <<procVars, file, orphans>>

\* Slip: a failed call removes the kernel file, which it takes for corrupt.
FailUnlinks(p) ==
  /\ pc[p] \in Steps \ {"idle", "lookup", "store", "return"}
  /\ file' = [file EXCEPT ![Key(p)] = NoKernel]
  /\ tmp' = [tmp EXCEPT ![p] = "none"]
  /\ Leave(p)
  /\ UNCHANGED <<procVars, dirs, orphans>>

\* An exception leaves _cache_kernel: a system call or the compilation
\* fails.  The other steps only touch local variables.
Fail(p) ==
  /\ pc[p] \in Steps \ {"idle", "lookup", "store", "return"}
  /\ Leave(p)
  /\ Abandon(p)
  /\ UNCHANGED procVars

\* The process dies at any step and another one takes its place, which
\* imports the text the module has by then.
Restart(p, s, g) ==
  /\ src' = [src EXCEPT ![p] = s]
  /\ glob' = [glob EXCEPT ![p] = g]
  /\ mem' = [mem EXCEPT ![p] = [f \in Factors |-> NoKernel]]
  /\ Leave(p)
  /\ Abandon(p)

\* Between two calls the program assigns the module-level variable.
SetGlobal(p, g) ==
  /\ pc[p] = "idle"
  /\ glob' = [glob EXCEPT ![p] = g]
  /\ UNCHANGED <<src, mem, callVars, cacheVars>>

\* The steps of _cache_kernel that follow from its call.
Progress(p) ==
  \/ Lookup(p)
  \/ MakeKeyDir(p)
  \/ Check(p)
  \/ Load(p)
  \/ Build(p)
  \/ MakeTempDir(p)
  \/ OpenTemp(p)
  \/ WriteTemp(p)
  \/ Replace(p)
  \/ Prune(p)
  \/ StoreMem(p)
  \/ Launch(p)

Next ==
  \E p \in Procs :
    \/ \E f \in Factors : Call(p, f)
    \/ Progress(p)
    \/ Fail(p)
    \/ \E s \in Sources, g \in Globals : Restart(p, s, g)
    \/ \E g \in Globals : SetGlobal(p, g)

Spec == Init /\ [][Next]_vars

\* The operating system runs every process, and system calls and the
\* compiler end.  Nothing obliges a program to call the kernel, or a call
\* to fail.
Fairness == \A p \in Procs : WF_vars(Progress(p))

FairSpec == Spec /\ Fairness

-----------------------------------------------------------------------------
(* Properties *)

TypeOK ==
  /\ src \in [Procs -> Sources]
  /\ glob \in [Procs -> Globals]
  /\ mem \in [Procs -> [Factors -> Kernels \cup {NoKernel}]]
  /\ pc \in [Procs -> Steps]
  /\ call \in [Procs -> Factors \cup {NoCall}]
  /\ kernel \in [Procs -> Kernels \cup {NoKernel}]
  /\ tmp \in [Procs -> {"none", "empty", "torn", "whole"}]
  /\ dirs \in SUBSET Keys
  /\ file \in [Keys -> Kernels \cup {NoKernel, Torn}]
  /\ orphans \in SUBSET Keys
  /\ warm \in [Procs -> BOOLEAN]

\* The kernel a call hands to the launcher was built from the text its
\* process runs and for the call's own specialisation, whether it comes
\* from the dictionary, from a file another process wrote, or from the
\* compiler (jit.py, _cache_kernel).
AnswerMatchesCall ==
  \A p \in Procs : pc[p] = "return" =>
    /\ kernel[p] # NoKernel
    /\ kernel[p].key.src = src[p]
    /\ kernel[p].key.var = call[p].var
    /\ kernel[p].key.always = call[p].always

\* Under its final name a kernel file is never seen half-written, and it
\* holds a kernel of the directory's key: two processes that put the same
\* kernel at once, an exception in put() or a death in the middle of it
\* do not show (cache.py, put, its comment on os.replace).
FilesAreWhole ==
  \A k \in Keys : file[k] # NoKernel => file[k] \in Kernels /\ file[k].key = k

\* What a process remembers is on the disk too: no death can leave other
\* processes compiling what this one already launches from its dictionary
\* (jit.py: put() comes before the assignment to kernel_cache).
MemoryIsBacked ==
  \A p \in Procs, f \in Factors :
    mem[p][f] # NoKernel => file[KeyOf(src[p], f)] \in Kernels

\* The answer get_file gave is still true when the file is opened: nobody
\* removes the file between os.path.exists and open (jit.py, _cache_kernel).
CheckedFileIsThere ==
  \A p \in Procs : pc[p] = "load" => file[Key(p)] \in Kernels

\* os.removedirs climbs towards the cache's root and deletes every empty
\* directory it meets; it never takes away the key directory a call has
\* made and still counts on (cache.py, __init__ and put).
KeyDirHeld ==
  \A p \in Procs :
    pc[p] \in Steps \ {"idle", "lookup", "mkdir", "return"} => Key(p) \in dirs

\* Nothing a process counts on goes away: what it remembers is on the disk, a
\* file it has seen stays, and so does the directory it is to write to
\* (_cache_kernel, put, os.removedirs).
NothingIsLost == MemoryIsBacked /\ CheckedFileIsThere /\ KeyDirHeld

\* A call that begins after its kernel has been published does not compile
\* it again, whatever the other processes do meanwhile, unless it forces
\* the compilation (the purpose of the cache in the architecture guide).
WarmNeverBuilds ==
  \A p \in Procs : warm[p] => pc[p] # "build"

\* Every call of _cache_kernel comes to an end, whatever the other
\* processes do and wherever they die: there is no lock to wait for.
CallReturns ==
  \A p \in Procs : pc[p] # "idle" ~> pc[p] = "idle"

\* The value of the module-level variable a launched kernel was built with
\* is the one the variable has at the call.  docs/architecture_introduction.md
\* counts global variables among what the cache depends on; the keys of
\* jit.py and cache.py do not contain them.
GlobalsAreFactors ==
  \A p \in Procs : pc[p] = "return" => kernel[p].glob = glob[p]

-----------------------------------------------------------------------------
(* The cache implements KernelService. *)

Published == {k \in Keys : file[k] \in Kernels}

Want(p) == IF call[p] = NoCall THEN NoCall ELSE Key(p)

Got(p) == IF pc[p] = "return" THEN kernel[p] ELSE NoKernel

Service == INSTANCE KernelService WITH
  want <- [p \in Procs |-> Want(p)],
  got <- [p \in Procs |-> Got(p)],
  published <- Published

\* Whatever the interleaving of system calls, failures and deaths, the
\* processes see a store of kernels in which a call is answered with a
\* kernel of its own key, after it was published (jit.py over cache.py).
ImplementsService == Service!Spec

=============================================================================
