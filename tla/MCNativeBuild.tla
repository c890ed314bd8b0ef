---------------------------- MODULE MCNativeBuild ----------------------------
(* Instances of NativeBuild for TLC. *)
EXTENDS NativeBuild, TLC
CONSTANTS p1, p2, host, runtime
Symmetry == Permutations({p1, p2})
=============================================================================
