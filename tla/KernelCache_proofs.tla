------------------------ MODULE KernelCache_proofs ------------------------
(***************************************************************************)
(* Proofs about KernelCache for any set of processes, texts, values and    *)
(* specialisations: type correctness, the safety invariants, and that the  *)
(* cache implements KernelService.                                         *)
(***************************************************************************)
EXTENDS KernelCache, TLAPS

\* Where a call keeps a kernel, and where it writes one.
HasKernel == {"mktemp", "open", "write", "replace", "prune", "store", "return"}

Putting == {"mktemp", "open", "write", "replace", "prune", "store"}

\* A call is in progress iff its specialisation is known; its kernel is of
\* its key; only a call that is not forced writes one.
CallInv ==
  \A p \in Procs :
    /\ pc[p] = "idle" <=> call[p] = NoCall
    /\ pc[p] \in HasKernel => kernel[p] \in Kernels /\ kernel[p].key = Key(p)
    /\ pc[p] \notin HasKernel => kernel[p] = NoKernel
    /\ pc[p] \in Putting \cup {"load"} => ~call[p].always

\* The temporary file is whole when it is renamed.
TmpInv ==
  \A p \in Procs :
    /\ pc[p] \notin {"open", "write", "replace", "prune"} => tmp[p] = "none"
    /\ pc[p] = "replace" => tmp[p] = "whole"

\* Files are whole and of their key; a forced compilation publishes none.
FileInv ==
  \A k \in Keys : file[k] # NoKernel =>
    /\ file[k] \in Kernels
    /\ file[k].key = k
    /\ ~k.always

\* Whoever has seen or renamed a file, or remembers a kernel, can count on
\* the file.
SeenInv ==
  \A p \in Procs :
    /\ pc[p] \in {"load", "prune", "store"} => file[Key(p)] \in Kernels
    /\ pc[p] = "return" /\ ~call[p].always => file[Key(p)] \in Kernels
    /\ warm[p] => call[p] # NoCall /\ file[Key(p)] \in Kernels
    /\ pc[p] \in {"build"} \cup Putting => ~warm[p]

MemInv ==
  \A p \in Procs, f \in Factors : mem[p][f] # NoKernel =>
    /\ mem[p][f].key = KeyOf(src[p], f)
    /\ file[KeyOf(src[p], f)] \in Kernels

IInv ==
  /\ TypeOK
  /\ CallInv
  /\ TmpInv
  /\ FileInv
  /\ SeenInv
  /\ MemInv
  /\ KeyDirHeld

-----------------------------------------------------------------------------
(* Keys and kernels. *)

\* The key of a specialisation is a key, and keeps whether it is forced.
LEMMA KeyOfType ==
  ASSUME NEW s \in Sources, NEW f \in Factors
  PROVE  KeyOf(s, f) \in Keys /\ KeyOf(s, f).always = f.always
  BY DEF KeyOf, Keys, Factors

\* A call in progress has a key.
LEMMA KeyType ==
  ASSUME TypeOK, NEW p \in Procs, call[p] # NoCall
  PROVE  Key(p) \in Keys /\ Key(p).always = call[p].always
<1>1. src[p] \in Sources /\ call[p] \in Factors
  BY DEF TypeOK
<1> QED
  BY <1>1, KeyOfType DEF Key

\* What a call builds is a kernel of its key, and not a sentinel.
LEMMA BuiltType ==
  ASSUME TypeOK, NEW p \in Procs, call[p] # NoCall
  PROVE  /\ Built(p) \in Kernels
         /\ Built(p).key = Key(p)
         /\ Built(p) # NoKernel
<1>1. src[p] \in Sources /\ call[p] \in Factors /\ glob[p] \in Globals
  BY DEF TypeOK
<1>2. Built(p) \in Kernels /\ Built(p).key = Key(p)
  BY <1>1 DEF Built, Kernels, Keys, Factors, Key, KeyOf
<1> QED
  BY <1>2, SentinelAssumption

-----------------------------------------------------------------------------
(* The inductive invariant. *)

LEMMA InitInv == Init => IInv
<1> SUFFICES ASSUME Init PROVE IInv
  OBVIOUS
<1>1. TypeOK
  BY DEF Init, TypeOK, Steps
<1>2. CallInv
  BY DEF Init, CallInv, HasKernel, Putting
<1>3. TmpInv
  BY DEF Init, TmpInv
<1>4. FileInv
  BY DEF Init, FileInv
<1>5. SeenInv
  BY DEF Init, SeenInv, Putting
<1>6. MemInv
  BY DEF Init, MemInv
<1>7. KeyDirHeld
  BY DEF Init, KeyDirHeld
<1> QED
  BY <1>1, <1>2, <1>3, <1>4, <1>5, <1>6, <1>7 DEF IInv

\* A call begins: it notes whether its kernel is there already.
LEMMA CallPreserves ==
  ASSUME IInv, NEW p \in Procs, NEW f \in Factors, Call(p, f)
  PROVE  IInv'
<1> USE DEF Call, procVars, callVars, cacheVars
<1>1. TypeOK'
  BY DEF IInv, TypeOK, Goto, Steps
<1>2. CallInv'
  BY SentinelAssumption DEF IInv, TypeOK, CallInv, Goto, Key, HasKernel, Putting
<1>3. TmpInv'
  BY DEF IInv, TypeOK, TmpInv, Goto
<1>4. FileInv'
  BY DEF IInv, FileInv
<1>5. SeenInv'
  <2>1. /\ src[p] \in Sources /\ KeyOf(src[p], f) \in Keys /\ f # NoCall
        /\ pc'[p] = "lookup" /\ call'[p] = f
        /\ warm'[p] => file[KeyOf(src[p], f)] \in Kernels
    BY SentinelAssumption, KeyOfType DEF IInv, TypeOK, FileInv, Goto
  <2>2. \A q \in Procs \ {p} :
          pc'[q] = pc[q] /\ call'[q] = call[q] /\ warm'[q] = warm[q]
    BY DEF IInv, TypeOK, Goto
  <2> QED
    BY <2>1, <2>2 DEF IInv, SeenInv, Key, Putting
<1>6. MemInv'
  BY DEF IInv, MemInv
<1>7. KeyDirHeld'
  BY DEF IInv, TypeOK, KeyDirHeld, Goto, Key, Steps
<1> QED
  BY <1>1, <1>2, <1>3, <1>4, <1>5, <1>6, <1>7 DEF IInv

\* A hit returns a kernel of the call's key whose file is there.
LEMMA LookupPreserves ==
  ASSUME IInv, NEW p \in Procs, Lookup(p)
  PROVE  IInv'
<1> USE DEF Lookup, procVars, callVars, cacheVars
<1>0. call[p] \in Factors
  BY DEF IInv, TypeOK, CallInv
<1>1. TypeOK'
  BY <1>0 DEF IInv, TypeOK, Steps
<1>2. CallInv'
  BY <1>0, SentinelAssumption DEF IInv, TypeOK, CallInv, MemInv, Key, HasKernel, Putting
<1>3. TmpInv'
  BY DEF IInv, TypeOK, TmpInv
<1>4. FileInv'
  BY DEF IInv, FileInv
<1>5. SeenInv'
  BY <1>0 DEF IInv, TypeOK, CallInv, SeenInv, MemInv, Key, Putting
<1>6. MemInv'
  BY DEF IInv, MemInv
<1>7. KeyDirHeld'
  BY DEF IInv, TypeOK, KeyDirHeld, Key, Steps
<1> QED
  BY <1>1, <1>2, <1>3, <1>4, <1>5, <1>6, <1>7 DEF IInv

\* The key directory is there from now on.
LEMMA MakeKeyDirPreserves ==
  ASSUME IInv, NEW p \in Procs, MakeKeyDir(p)
  PROVE  IInv'
<1> USE DEF MakeKeyDir, procVars, callVars, cacheVars
<1>0. Key(p) \in Keys /\ Key(p).always = call[p].always
  BY KeyType DEF IInv, CallInv, Goto
<1>1. TypeOK'
  BY <1>0 DEF IInv, TypeOK, Goto, Steps
<1>2. CallInv'
  BY DEF IInv, TypeOK, CallInv, Goto, Key, HasKernel, Putting
<1>3. TmpInv'
  BY DEF IInv, TypeOK, TmpInv, Goto
<1>4. FileInv'
  BY DEF IInv, FileInv
<1>5. SeenInv'
  BY DEF IInv, TypeOK, CallInv, SeenInv, Goto, Key, Putting
<1>6. MemInv'
  BY DEF IInv, MemInv
<1>7. KeyDirHeld'
  BY DEF IInv, TypeOK, KeyDirHeld, Goto, Key, Steps
<1> QED
  BY <1>1, <1>2, <1>3, <1>4, <1>5, <1>6, <1>7 DEF IInv

\* A call that saw its kernel when it began loads it.
LEMMA CheckPreserves ==
  ASSUME IInv, NEW p \in Procs, Check(p)
  PROVE  IInv'
<1> USE DEF Check, procVars, callVars, cacheVars
<1>0. Key(p) \in Keys /\ Key(p).always = call[p].always
  BY KeyType DEF IInv, CallInv, Goto
<1>1. TypeOK'
  BY DEF IInv, TypeOK, Goto, Steps
<1>2. CallInv'
  BY DEF IInv, TypeOK, CallInv, Goto, Key, HasKernel, Putting
<1>3. TmpInv'
  BY DEF IInv, TypeOK, TmpInv, Goto
<1>4. FileInv'
  BY DEF IInv, FileInv
<1>5. SeenInv'
  BY <1>0, SentinelAssumption DEF IInv, TypeOK, CallInv, FileInv, SeenInv, Goto, Key, Putting
<1>6. MemInv'
  BY DEF IInv, MemInv
<1>7. KeyDirHeld'
  BY DEF IInv, TypeOK, KeyDirHeld, Goto, Key, Steps
<1> QED
  BY <1>1, <1>2, <1>3, <1>4, <1>5, <1>6, <1>7 DEF IInv

\* The file holds a kernel of the call's key.
LEMMA LoadPreserves ==
  ASSUME IInv, NEW p \in Procs, Load(p)
  PROVE  IInv'
<1> USE DEF Load, procVars, callVars, cacheVars
<1>0. Key(p) \in Keys /\ Key(p).always = call[p].always
  BY KeyType DEF IInv, CallInv, Goto
<1>1. TypeOK'
  BY DEF IInv, TypeOK, Goto, Steps
<1>2. CallInv'
  BY <1>0, SentinelAssumption DEF IInv, TypeOK, CallInv, FileInv, Goto, Key, HasKernel, Putting
<1>3. TmpInv'
  BY DEF IInv, TypeOK, TmpInv, Goto
<1>4. FileInv'
  BY DEF IInv, FileInv
<1>5. SeenInv'
  BY DEF IInv, TypeOK, CallInv, SeenInv, Goto, Key, Putting
<1>6. MemInv'
  BY DEF IInv, MemInv
<1>7. KeyDirHeld'
  BY DEF IInv, TypeOK, KeyDirHeld, Goto, Key, Steps
<1> QED
  BY <1>1, <1>2, <1>3, <1>4, <1>5, <1>6, <1>7 DEF IInv

\* The compiler makes a kernel of the call's key.
LEMMA BuildPreserves ==
  ASSUME IInv, NEW p \in Procs, Build(p)
  PROVE  IInv'
<1> USE DEF Build, procVars, callVars, cacheVars
<1>0. Key(p) \in Keys /\ Key(p).always = call[p].always
  BY KeyType DEF IInv, CallInv, Goto
<1>1. TypeOK'
  BY <1>0, BuiltType DEF IInv, TypeOK, CallInv, Goto, Steps
<1>2. CallInv'
  BY <1>0, BuiltType DEF IInv, TypeOK, CallInv, Goto, Key, HasKernel, Putting
<1>3. TmpInv'
  BY DEF IInv, TypeOK, TmpInv, Goto
<1>4. FileInv'
  BY DEF IInv, FileInv
<1>5. SeenInv'
  BY <1>0 DEF IInv, TypeOK, CallInv, SeenInv, Goto, Key, Putting
<1>6. MemInv'
  BY DEF IInv, MemInv
<1>7. KeyDirHeld'
  BY DEF IInv, TypeOK, KeyDirHeld, Goto, Key, Steps
<1> QED
  BY <1>1, <1>2, <1>3, <1>4, <1>5, <1>6, <1>7 DEF IInv

\* Only the temporary directory is new.
LEMMA MakeTempDirPreserves ==
  ASSUME IInv, NEW p \in Procs, MakeTempDir(p)
  PROVE  IInv'
<1> USE DEF MakeTempDir, procVars, callVars, cacheVars
<1>0. Key(p) \in Keys /\ Key(p).always = call[p].always
  BY KeyType DEF IInv, CallInv, Goto
<1>1. TypeOK'
  BY <1>0 DEF IInv, TypeOK, Goto, Steps
<1>2. CallInv'
  BY DEF IInv, TypeOK, CallInv, Goto, Key, HasKernel, Putting
<1>3. TmpInv'
  BY DEF IInv, TypeOK, TmpInv, Goto
<1>4. FileInv'
  BY DEF IInv, FileInv
<1>5. SeenInv'
  BY DEF IInv, TypeOK, CallInv, SeenInv, Goto, Key, Putting
<1>6. MemInv'
  BY DEF IInv, MemInv
<1>7. KeyDirHeld'
  BY DEF IInv, TypeOK, KeyDirHeld, Goto, Key, Steps
<1> QED
  BY <1>1, <1>2, <1>3, <1>4, <1>5, <1>6, <1>7 DEF IInv

\* The temporary file is torn, and nobody sees it.
LEMMA OpenTempPreserves ==
  ASSUME IInv, NEW p \in Procs, OpenTemp(p)
  PROVE  IInv'
<1> USE DEF OpenTemp, procVars, callVars, cacheVars
<1>1. TypeOK'
  BY DEF IInv, TypeOK, Goto, Steps
<1>2. CallInv'
  BY DEF IInv, TypeOK, CallInv, Goto, Key, HasKernel, Putting
<1>3. TmpInv'
  BY DEF IInv, TypeOK, TmpInv, Goto
<1>4. FileInv'
  BY DEF IInv, FileInv
<1>5. SeenInv'
  BY DEF IInv, TypeOK, CallInv, SeenInv, Goto, Key, Putting
<1>6. MemInv'
  BY DEF IInv, MemInv
<1>7. KeyDirHeld'
  BY DEF IInv, TypeOK, KeyDirHeld, Goto, Key, Steps
<1> QED
  BY <1>1, <1>2, <1>3, <1>4, <1>5, <1>6, <1>7 DEF IInv

\* The temporary file is whole before it is renamed.
LEMMA WriteTempPreserves ==
  ASSUME IInv, NEW p \in Procs, WriteTemp(p)
  PROVE  IInv'
<1> USE DEF WriteTemp, procVars, callVars, cacheVars
<1>1. TypeOK'
  BY DEF IInv, TypeOK, Goto, Steps
<1>2. CallInv'
  BY DEF IInv, TypeOK, CallInv, Goto, Key, HasKernel, Putting
<1>3. TmpInv'
  BY DEF IInv, TypeOK, TmpInv, Goto
<1>4. FileInv'
  BY DEF IInv, FileInv
<1>5. SeenInv'
  BY DEF IInv, TypeOK, CallInv, SeenInv, Goto, Key, Putting
<1>6. MemInv'
  BY DEF IInv, MemInv
<1>7. KeyDirHeld'
  BY DEF IInv, TypeOK, KeyDirHeld, Goto, Key, Steps
<1> QED
  BY <1>1, <1>2, <1>3, <1>4, <1>5, <1>6, <1>7 DEF IInv

\* A whole kernel of its key appears in one step; every file that was
\* there stays there.
LEMMA ReplacePreserves ==
  ASSUME IInv, NEW p \in Procs, Replace(p)
  PROVE  IInv'
<1> USE DEF Replace, procVars, callVars, cacheVars
<1>0. Key(p) \in Keys /\ Key(p).always = call[p].always
  BY KeyType DEF IInv, CallInv, Goto
<1>k. kernel[p] \in Kernels /\ kernel[p].key = Key(p) /\ ~call[p].always
  BY DEF IInv, CallInv, Goto, HasKernel, Putting
<1>f. file' = [file EXCEPT ![Key(p)] = kernel[p]] /\ kernel[p] \in Kernels
       /\ kernel[p].key = Key(p) /\ ~call[p].always
  BY <1>k DEF IInv, TmpInv, Goto
<1>g. /\ file'[Key(p)] \in Kernels
      /\ \A x : file[x] \in Kernels => file'[x] \in Kernels
  BY <1>f DEF IInv, TypeOK
<1>1. TypeOK'
  BY <1>0, <1>f DEF IInv, TypeOK, Goto, Steps
<1>2. CallInv'
  BY DEF IInv, TypeOK, CallInv, Goto, Key, HasKernel, Putting
<1>3. TmpInv'
  BY DEF IInv, TypeOK, TmpInv, Goto
<1>4. FileInv'
  BY <1>0, <1>f DEF IInv, TypeOK, FileInv
<1>5. SeenInv'
  BY <1>g DEF IInv, TypeOK, CallInv, SeenInv, Goto, Key, Putting
<1>6. MemInv'
  BY <1>g DEF IInv, MemInv
<1>7. KeyDirHeld'
  BY DEF IInv, TypeOK, KeyDirHeld, Goto, Key, Steps
<1> QED
  BY <1>1, <1>2, <1>3, <1>4, <1>5, <1>6, <1>7 DEF IInv

\* The key directory holds the file this put renamed: it is not empty,
\* and os.removedirs leaves it alone.
LEMMA PrunePreserves ==
  ASSUME IInv, NEW p \in Procs, Prune(p)
  PROVE  IInv'
<1> USE DEF Prune, procVars, callVars, cacheVars
<1>d. dirs' = dirs
  BY SentinelAssumption DEF IInv, SeenInv, Goto, IsEmptyDir
<1>1. TypeOK'
  BY <1>d DEF IInv, TypeOK, Goto, Steps
<1>2. CallInv'
  BY DEF IInv, TypeOK, CallInv, Goto, Key, HasKernel, Putting
<1>3. TmpInv'
  BY DEF IInv, TypeOK, TmpInv, Goto
<1>4. FileInv'
  BY DEF IInv, FileInv
<1>5. SeenInv'
  BY DEF IInv, TypeOK, CallInv, SeenInv, Goto, Key, Putting
<1>6. MemInv'
  BY DEF IInv, MemInv
<1>7. KeyDirHeld'
  BY <1>d DEF IInv, TypeOK, KeyDirHeld, Goto, Key, Steps
<1> QED
  BY <1>1, <1>2, <1>3, <1>4, <1>5, <1>6, <1>7 DEF IInv

\* What is remembered has been renamed.
LEMMA StoreMemPreserves ==
  ASSUME IInv, NEW p \in Procs, StoreMem(p)
  PROVE  IInv'
<1> USE DEF StoreMem, procVars, callVars, cacheVars
<1>0. /\ call[p] \in Factors
      /\ kernel[p] \in Kernels
      /\ kernel[p].key = Key(p)
      /\ file[Key(p)] \in Kernels
  BY DEF IInv, TypeOK, CallInv, SeenInv, Goto, HasKernel
<1>1. TypeOK'
  BY <1>0 DEF IInv, TypeOK, Goto, Steps
<1>2. CallInv'
  BY DEF IInv, TypeOK, CallInv, Goto, Key, HasKernel, Putting
<1>3. TmpInv'
  BY DEF IInv, TypeOK, TmpInv, Goto
<1>4. FileInv'
  BY DEF IInv, FileInv
<1>5. SeenInv'
  BY DEF IInv, TypeOK, CallInv, SeenInv, Goto, Key, Putting
<1>6. MemInv'
  BY <1>0 DEF IInv, TypeOK, MemInv, Key
<1>7. KeyDirHeld'
  BY DEF IInv, TypeOK, KeyDirHeld, Goto, Key, Steps
<1> QED
  BY <1>1, <1>2, <1>3, <1>4, <1>5, <1>6, <1>7 DEF IInv

\* The call leaves nothing behind.
LEMMA LaunchPreserves ==
  ASSUME IInv, NEW p \in Procs, Launch(p)
  PROVE  IInv'
<1> USE DEF Launch, procVars, callVars, cacheVars
<1>1. TypeOK'
  BY DEF IInv, TypeOK, Leave, Steps
<1>2. CallInv'
  BY DEF IInv, TypeOK, CallInv, Leave, Key, HasKernel, Putting
<1>3. TmpInv'
  BY DEF IInv, TypeOK, TmpInv, Leave
<1>4. FileInv'
  BY DEF IInv, FileInv
<1>5. SeenInv'
  BY DEF IInv, TypeOK, CallInv, SeenInv, Leave, Key, Putting
<1>6. MemInv'
  BY DEF IInv, MemInv
<1>7. KeyDirHeld'
  BY DEF IInv, TypeOK, KeyDirHeld, Leave, Key, Steps
<1> QED
  BY <1>1, <1>2, <1>3, <1>4, <1>5, <1>6, <1>7 DEF IInv

\* A failed call leaves at most a temporary directory behind.
LEMMA FailPreserves ==
  ASSUME IInv, NEW p \in Procs, Fail(p)
  PROVE  IInv'
<1> USE DEF Fail, procVars, callVars, cacheVars
<1>0. tmp[p] # "none" => Key(p) \in Keys
  BY KeyType DEF IInv, TypeOK, CallInv, TmpInv
<1>1. TypeOK'
  BY <1>0 DEF IInv, TypeOK, Leave, Abandon, Steps
<1>2. CallInv'
  BY DEF IInv, TypeOK, CallInv, Leave, Abandon, Key, HasKernel, Putting
<1>3. TmpInv'
  BY DEF IInv, TypeOK, TmpInv, Leave, Abandon
<1>4. FileInv'
  BY DEF IInv, FileInv, Abandon
<1>5. SeenInv'
  BY DEF IInv, TypeOK, CallInv, SeenInv, Leave, Abandon, Key, Putting
<1>6. MemInv'
  BY DEF IInv, MemInv, Abandon
<1>7. KeyDirHeld'
  BY DEF IInv, TypeOK, KeyDirHeld, Leave, Abandon, Key, Steps
<1> QED
  BY <1>1, <1>2, <1>3, <1>4, <1>5, <1>6, <1>7 DEF IInv

\* A new process remembers nothing.
LEMMA RestartPreserves ==
  ASSUME IInv, NEW p \in Procs, NEW s \in Sources, NEW g \in Globals, Restart(p, s, g)
  PROVE  IInv'
<1> USE DEF Restart, procVars, callVars, cacheVars
<1>0. tmp[p] # "none" => Key(p) \in Keys
  BY KeyType DEF IInv, TypeOK, CallInv, TmpInv
<1>1. TypeOK'
  BY <1>0 DEF IInv, TypeOK, Leave, Abandon, Steps
<1>2. CallInv'
  BY DEF IInv, TypeOK, CallInv, Leave, Abandon, Key, HasKernel, Putting
<1>3. TmpInv'
  BY DEF IInv, TypeOK, TmpInv, Leave, Abandon
<1>4. FileInv'
  BY DEF IInv, FileInv, Abandon
<1>5. SeenInv'
  BY DEF IInv, TypeOK, CallInv, SeenInv, Leave, Abandon, Key, Putting
<1>6. MemInv'
  BY DEF IInv, TypeOK, MemInv, Abandon
<1>7. KeyDirHeld'
  BY DEF IInv, TypeOK, KeyDirHeld, Leave, Abandon, Key, Steps
<1> QED
  BY <1>1, <1>2, <1>3, <1>4, <1>5, <1>6, <1>7 DEF IInv

\* The global is in no key.
LEMMA SetGlobalPreserves ==
  ASSUME IInv, NEW p \in Procs, NEW g \in Globals, SetGlobal(p, g)
  PROVE  IInv'
<1> USE DEF SetGlobal, procVars, callVars, cacheVars
<1>1. TypeOK'
  BY DEF IInv, TypeOK, Steps
<1>2. CallInv'
  BY DEF IInv, TypeOK, CallInv, Key, HasKernel, Putting
<1>3. TmpInv'
  BY DEF IInv, TypeOK, TmpInv
<1>4. FileInv'
  BY DEF IInv, FileInv
<1>5. SeenInv'
  BY DEF IInv, TypeOK, CallInv, SeenInv, Key, Putting
<1>6. MemInv'
  BY DEF IInv, MemInv
<1>7. KeyDirHeld'
  BY DEF IInv, TypeOK, KeyDirHeld, Key, Steps
<1> QED
  BY <1>1, <1>2, <1>3, <1>4, <1>5, <1>6, <1>7 DEF IInv

\* Every step keeps the invariant.
LEMMA NextPreserves == IInv /\ [Next]_vars => IInv'
<1> SUFFICES ASSUME IInv, [Next]_vars PROVE IInv'
  OBVIOUS
<1>1. CASE UNCHANGED vars
  <2> USE <1>1 DEF vars
  <2>1. TypeOK'
    BY DEF IInv, TypeOK
  <2>2. CallInv'
    BY DEF IInv, CallInv, Key
  <2>3. TmpInv' /\ FileInv' /\ MemInv'
    BY DEF IInv, TmpInv, FileInv, MemInv
  <2>4. SeenInv' /\ KeyDirHeld'
    BY DEF IInv, SeenInv, KeyDirHeld, Key
  <2> QED
    BY <2>1, <2>2, <2>3, <2>4 DEF IInv
<1>2. ASSUME NEW p \in Procs, Progress(p) PROVE IInv'
  BY <1>2, LookupPreserves, MakeKeyDirPreserves, CheckPreserves, LoadPreserves,
     BuildPreserves, MakeTempDirPreserves, OpenTempPreserves,
     WriteTempPreserves, ReplacePreserves, PrunePreserves, StoreMemPreserves,
     LaunchPreserves DEF Progress
<1>3. ASSUME NEW p \in Procs, NEW f \in Factors, Call(p, f) PROVE IInv'
  BY <1>3, CallPreserves
<1>4. ASSUME NEW p \in Procs, Fail(p) PROVE IInv'
  BY <1>4, FailPreserves
<1>5. ASSUME NEW p \in Procs, NEW s \in Sources, NEW g \in Globals,
             Restart(p, s, g)
      PROVE IInv'
  BY <1>5, RestartPreserves
<1>6. ASSUME NEW p \in Procs, NEW g \in Globals, SetGlobal(p, g) PROVE IInv'
  BY <1>6, SetGlobalPreserves
<1> QED
  BY <1>1, <1>2, <1>3, <1>4, <1>5, <1>6 DEF Next

\* The inductive invariant holds in every state the cache can reach.
THEOREM Invariance == Spec => []IInv
<1> QED
  BY InitInv, NextPreserves, PTL DEF Spec

\* Every variable keeps its type.
THEOREM TypeCorrect == Spec => []TypeOK
<1>1. IInv => TypeOK
  BY DEF IInv
<1> QED
  BY <1>1, Invariance, PTL

\* A call is answered with a kernel of its own text and specialisation,
\* however many processes, texts and specialisations share the directory.
THEOREM AnswersAreRight == Spec => []AnswerMatchesCall
<1>1. IInv => AnswerMatchesCall
  <2> SUFFICES ASSUME IInv, NEW p \in Procs, pc[p] = "return"
               PROVE  /\ kernel[p] # NoKernel
                      /\ kernel[p].key.src = src[p]
                      /\ kernel[p].key.var = call[p].var
                      /\ kernel[p].key.always = call[p].always
    BY DEF AnswerMatchesCall
  <2>1. kernel[p] \in Kernels /\ kernel[p].key = KeyOf(src[p], call[p])
    BY DEF IInv, CallInv, HasKernel, Key
  <2> QED
    BY <2>1, SentinelAssumption DEF KeyOf
<1> QED
  BY <1>1, Invariance, PTL

\* No reader ever finds a torn kernel file or one of another key.
THEOREM NoTornFile == Spec => []FilesAreWhole
<1>1. IInv => FilesAreWhole
  BY DEF IInv, FileInv, FilesAreWhole
<1> QED
  BY <1>1, Invariance, PTL

\* What a process remembers, and what it has seen, is on the disk; key
\* directories are never removed under a call (cache.py, put).
THEOREM CacheKeepsWhatItHas == Spec => []NothingIsLost
<1>1. IInv => MemoryIsBacked
  BY DEF IInv, MemInv, MemoryIsBacked
<1>2. IInv => CheckedFileIsThere
  BY DEF IInv, SeenInv, CheckedFileIsThere
<1>3. IInv => KeyDirHeld
  BY DEF IInv
<1>4. IInv => NothingIsLost
  BY <1>1, <1>2, <1>3 DEF NothingIsLost
<1> QED
  BY <1>4, Invariance, PTL

\* A call that found the kernel's file does not compile the kernel again,
\* whatever other processes do (jit.py, _cache_kernel).
THEOREM WarmCallsNeverBuild == Spec => []WarmNeverBuilds
<1>1. IInv => WarmNeverBuilds
  BY DEF IInv, SeenInv, WarmNeverBuilds
<1> QED
  BY <1>1, Invariance, PTL

-----------------------------------------------------------------------------
(* The cache implements KernelService. *)

\* A step that changes no call's key, no answer and no file is a stutter.
LEMMA Unseen ==
  ASSUME UNCHANGED <<src, call, file>>, \A q \in Procs : Got(q)' = Got(q)
  PROVE  UNCHANGED Service!vars
<1>1. \A q \in Procs : Want(q)' = Want(q)
  BY DEF Want, Key
<1>2. Published' = Published
  BY DEF Published
<1> QED
  BY <1>1, <1>2 DEF Service!vars

\* A step that hands p a kernel of its key that every process can find, or
\* whose compilation it forced, is an Answer.
LEMMA Answers ==
  ASSUME IInv, IInv', NEW p \in Procs,
         UNCHANGED <<src, call, file>>,
         pc[p] \notin {"idle", "return"},
         pc' = [pc EXCEPT ![p] = "return"],
         \A q \in Procs \ {p} : kernel'[q] = kernel[q]
  PROVE  \E g \in Globals : Service!Answer(p, g)
<1>1. /\ call[p] # NoCall /\ Key(p) \in Keys /\ Key(p).always = call[p].always
      /\ Want(p) = Key(p) /\ Want(p) # NoCall
  BY KeyType, SentinelAssumption DEF IInv, CallInv, Want
<1>2. pc'[p] = "return" /\ \A q \in Procs \ {p} : pc'[q] = pc[q]
  BY DEF IInv, TypeOK
<1>3. kernel'[p] \in Kernels /\ kernel'[p].key = Key(p)
  BY <1>2 DEF IInv, CallInv, HasKernel, Key
<1>4. PICK g \in Globals : kernel'[p] = [key |-> Key(p), glob |-> g]
  BY <1>3 DEF Kernels
<1>5. call[p].always \/ Key(p) \in Published
  BY <1>1, <1>2 DEF IInv, SeenInv, Published, Key
<1>6. Got(p) = NoKernel /\ Got(p)' = kernel'[p]
  BY <1>2 DEF Got
<1>7. \A q \in Procs \ {p} : Got(q)' = Got(q)
  BY <1>2 DEF Got
<1>8. \A q \in Procs : Want(q)' = Want(q)
  BY DEF Want, Key
<1>9. Published' = Published
  BY DEF Published
<1>10. [q \in Procs |-> Got(q)]' =
         [[q \in Procs |-> Got(q)] EXCEPT ![p] = [key |-> Want(p), glob |-> g]]
  BY <1>1, <1>4, <1>6, <1>7
<1>11. Service!Answer(p, g)
  BY <1>1, <1>5, <1>6, <1>8, <1>9, <1>10 DEF Service!Answer
<1> QED
  BY <1>11

\* A step that ends p's call, or finds none, is a Leave or a stutter.
LEMMA Leaves ==
  ASSUME IInv, NEW p \in Procs, Leave(p), UNCHANGED file,
         \A q \in Procs \ {p} : src'[q] = src[q]
  PROVE  Service!Leave(p) \/ UNCHANGED Service!vars
<1>1. /\ Want(p)' = NoCall /\ Got(p)' = NoKernel
      /\ \A q \in Procs \ {p} : Want(q)' = Want(q) /\ Got(q)' = Got(q)
  BY DEF IInv, TypeOK, Leave, Want, Got, Key
<1>2. Published' = Published
  BY DEF Published
<1>3. CASE Want(p) # NoCall
  BY <1>1, <1>2, <1>3 DEF Service!Leave
<1>4. CASE Want(p) = NoCall
  <2>1. Got(p) = NoKernel
    BY <1>4, KeyType, SentinelAssumption DEF IInv, CallInv, Want, Got
  <2> QED
    BY <1>1, <1>2, <1>4, <2>1 DEF Service!vars
<1> QED
  BY <1>3, <1>4

\* A call asks for the key of its specialisation.
LEMMA CallAsks ==
  ASSUME IInv, NEW p \in Procs, NEW f \in Factors, Call(p, f)
  PROVE  \E k \in Keys : Service!Ask(p, k)
<1>1. /\ KeyOf(src[p], f) \in Keys /\ f # NoCall
      /\ call[p] = NoCall
  BY KeyOfType, SentinelAssumption DEF IInv, TypeOK, CallInv, Call, Goto
<1>2. /\ Want(p) = NoCall /\ Want(p)' = KeyOf(src[p], f)
      /\ \A q \in Procs \ {p} : Want(q)' = Want(q)
  BY <1>1 DEF IInv, TypeOK, Call, Want, Key, procVars
<1>3. \A q \in Procs : Got(q)' = Got(q)
  BY DEF IInv, TypeOK, Call, Goto, Got
<1>4. Published' = Published
  BY DEF Published, Call, cacheVars
<1>5. Service!Ask(p, KeyOf(src[p], f))
  BY <1>2, <1>3, <1>4 DEF Service!Ask
<1> QED
  BY <1>1, <1>5

\* os.replace publishes the key of its call.
LEMMA ReplacePublishes ==
  ASSUME IInv, IInv', NEW p \in Procs, Replace(p)
  PROVE  Service!Publish(p)
<1>1. /\ call[p] # NoCall /\ ~call[p].always
      /\ Key(p) \in Keys /\ Key(p).always = call[p].always
  BY KeyType DEF IInv, CallInv, Replace, Goto, Putting
<1>2. Want(p) = Key(p) /\ Want(p) # NoCall
  BY <1>1, SentinelAssumption DEF Want
<1>3. \A q \in Procs : Want(q)' = Want(q) /\ Got(q)' = Got(q)
  BY DEF IInv, TypeOK, Replace, Goto, Want, Got, Key, procVars
<1>4. file'[Key(p)] \in Kernels
  BY <1>1 DEF IInv, SeenInv, TypeOK, Replace, Goto, Key, procVars
<1>5. Published' = Published \cup {Key(p)}
  BY <1>1, <1>4 DEF IInv, TypeOK, Published, Replace
<1> QED
  BY <1>1, <1>2, <1>3, <1>5 DEF Service!Publish

\* Every step of the cache is a step or a stutter of the service.
LEMMA StepSimulation ==
  IInv /\ IInv' /\ [Next]_vars => [Service!Next]_(Service!vars)
<1> SUFFICES ASSUME IInv, IInv', [Next]_vars
             PROVE  Service!Next \/ UNCHANGED Service!vars
  OBVIOUS
<1>1. CASE UNCHANGED vars
  BY <1>1, Unseen DEF vars, Got
<1>2. ASSUME NEW p \in Procs, NEW f \in Factors, Call(p, f)
      PROVE  Service!Next
  BY <1>2, CallAsks DEF Service!Next, Service!Keys, Keys
<1>3. ASSUME NEW p \in Procs, Lookup(p) \/ Load(p) \/ Build(p) \/ StoreMem(p),
             pc'[p] = "return"
      PROVE  Service!Next
  <2>1. /\ UNCHANGED <<src, call, file>>
        /\ pc[p] \notin {"idle", "return"}
        /\ pc' = [pc EXCEPT ![p] = "return"]
        /\ \A q \in Procs \ {p} : kernel'[q] = kernel[q]
    BY <1>3 DEF IInv, TypeOK, Lookup, Load, Build, StoreMem, Goto, procVars, cacheVars
  <2> QED
    BY <2>1, Answers DEF Service!Next
<1>4. ASSUME NEW p \in Procs, Lookup(p) \/ Build(p), pc'[p] # "return"
      PROVE  UNCHANGED Service!vars
  <2>1. UNCHANGED <<src, call, file>> /\ \A q \in Procs : Got(q)' = Got(q)
    BY <1>4 DEF IInv, TypeOK, Lookup, Build, Goto, Got, procVars, cacheVars
  <2> QED
    BY <2>1, Unseen
<1>5. ASSUME NEW p \in Procs,
             \/ MakeKeyDir(p) \/ Check(p) \/ MakeTempDir(p)
             \/ OpenTemp(p) \/ WriteTemp(p) \/ Prune(p)
      PROVE  UNCHANGED Service!vars
  <2>1. UNCHANGED <<src, call, file, kernel>>
    BY <1>5 DEF MakeKeyDir, Check, MakeTempDir, OpenTemp, WriteTemp, Prune,
                procVars, cacheVars
  <2>2. \A q \in Procs : pc'[q] = "return" <=> pc[q] = "return"
    BY <1>5 DEF IInv, TypeOK, MakeKeyDir, Check, MakeTempDir, OpenTemp,
                WriteTemp, Prune, Goto
  <2> QED
    BY <2>1, <2>2, Unseen DEF Got
<1>6. ASSUME NEW p \in Procs, Replace(p)
      PROVE  Service!Next
  BY <1>6, ReplacePublishes DEF Service!Next
<1>7. ASSUME NEW p \in Procs,
             Launch(p) \/ Fail(p) \/ \E s \in Sources, g \in Globals : Restart(p, s, g)
      PROVE  Service!Next \/ UNCHANGED Service!vars
  <2>1. Leave(p) /\ UNCHANGED file /\ \A q \in Procs \ {p} : src'[q] = src[q]
    BY <1>7 DEF IInv, TypeOK, Launch, Fail, Restart, Abandon, procVars, cacheVars
  <2> QED
    BY <2>1, Leaves DEF Service!Next
<1>8. ASSUME NEW p \in Procs, NEW g \in Globals, SetGlobal(p, g)
      PROVE  UNCHANGED Service!vars
  BY <1>8, Unseen DEF SetGlobal, callVars, cacheVars, Got
<1>9. ASSUME NEW p \in Procs, Load(p) \/ StoreMem(p) PROVE pc'[p] = "return"
  BY <1>9 DEF IInv, TypeOK, Load, StoreMem, Goto
<1> QED
  BY <1>1, <1>2, <1>3, <1>4, <1>5, <1>6, <1>7, <1>8, <1>9 DEF Next, Progress

\* The initial states of the cache are those of the service.
LEMMA InitSimulation == Init => Service!Init
<1> SUFFICES ASSUME Init PROVE Service!Init
  OBVIOUS
<1>1. \A q \in Procs : Want(q) = NoCall /\ Got(q) = NoKernel
  BY DEF Init, Want, Got
<1>2. Published = {}
  BY SentinelAssumption DEF Init, Published
<1> QED
  BY <1>1, <1>2 DEF Service!Init

\* For any number of processes, whatever fails or dies between any two
\* system calls, the cache is a KernelService.
THEOREM Refinement == Spec => ImplementsService
<1> QED
  BY InitSimulation, StepSimulation, Invariance, PTL
     DEF Spec, ImplementsService, Service!Spec


=============================================================================
