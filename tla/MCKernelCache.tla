--------------------------- MODULE MCKernelCache ---------------------------
(* KernelCache for TLC: its constants are model values, given in the cfg.  *)
EXTENDS KernelCache

=============================================================================
