--------------------------- MODULE MCKernelLaunch ---------------------------
(* Small instances of KernelLaunch for TLC. *)
EXTENDS KernelLaunch, TLC

\* An array of two cells and a view of its second one; the third cell
\* belongs to no array.
Contiguous == {<<1, 2>>, <<2>>}

\* A view of every other cell, as x[::2] is.
Strided == {<<1, 3>>}

\* One array of two cells.
Single == {<<1, 2>>}

Symmetry == Permutations(Buffers) \cup Permutations(Binaries)

=============================================================================
