---------------------------- MODULE MCDeviceCalls ----------------------------
(* Instances of DeviceCalls for TLC. *)
EXTENDS DeviceCalls, TLC
CONSTANTS f, g, a, b, t, u, m

\* Functions, specifications and types are interchangeable; what the kernel is
\* specialised to is not looked at.
Symmetry == Permutations({f, g}) \cup Permutations({t, u})
=============================================================================
