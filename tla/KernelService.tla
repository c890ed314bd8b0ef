--------------------------- MODULE KernelService ---------------------------
(***************************************************************************)
(* What the compilation cache of a JIT function promises to the code that  *)
(* launches kernels, with no word about files, directories or processes'   *)
(* memory: a call asks for the kernel of a key, and is answered with a     *)
(* kernel that was built for exactly that key.  Unless the caller forces a *)
(* compilation, the kernel it is answered with has been published first,   *)
(* and what was published stays published, whoever crashes later.          *)
(*                                                                         *)
(* KernelCache.tla implements this specification.                          *)
(***************************************************************************)

CONSTANTS
  Procs,     \* the Python processes that call the JIT function
  Sources,   \* texts of the kernel function (and of pyasc itself)
  Globals,   \* values of a module-level variable the kernel's body reads
  Variants,  \* specialisations: options, constexprs and argument types
  NoKernel,  \* "no kernel yet"
  NoCall     \* "no call in progress"

VARIABLES
  want,       \* want[p]: the key p's call in progress asks for, or NoCall
  got,        \* got[p]: the kernel that call has been answered with
  published   \* the keys whose kernel any process can find

vars == <<want, got, published>>

Keys == [src : Sources, var : Variants, always : BOOLEAN]

Kernels == [key : Keys, glob : Globals]

Init ==
  /\ want = [p \in Procs |-> NoCall]
  /\ got = [p \in Procs |-> NoKernel]
  /\ published = {}

Ask(p, k) ==
  /\ want[p] = NoCall
  /\ want' = [want EXCEPT ![p] = k]
  /\ UNCHANGED <<got, published>>

\* A kernel is published on behalf of a call that asked for it, and not
\* for a call that forces the compilation.
Publish(p) ==
  /\ want[p] # NoCall
  /\ ~want[p].always
  /\ published' = published \cup {want[p]}
  /\ UNCHANGED <<want, got>>

Answer(p, g) ==
  /\ want[p] # NoCall
  /\ got[p] = NoKernel
  /\ want[p].always \/ want[p] \in published
  /\ got' = [got EXCEPT ![p] = [key |-> want[p], glob |-> g]]
  /\ UNCHANGED <<want, published>>

\* The call ends: the kernel is launched, the call raises, or its process
\* dies.
Leave(p) ==
  /\ want[p] # NoCall
  /\ want' = [want EXCEPT ![p] = NoCall]
  /\ got' = [got EXCEPT ![p] = NoKernel]
  /\ UNCHANGED published

Next ==
  \E p \in Procs :
    \/ \E k \in Keys : Ask(p, k)
    \/ Publish(p)
    \/ \E g \in Globals : Answer(p, g)
    \/ Leave(p)

Spec == Init /\ [][Next]_vars

=============================================================================
