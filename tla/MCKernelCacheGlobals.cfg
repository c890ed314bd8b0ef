\* One process calls the kernel, assigns the global and calls it again.
CONSTANTS
  Procs = {p1}
  Sources = {s1}
  Globals = {g1, g2}
  Variants = {v1}
  NoKernel = NoKernel
  NoCall = NoCall
  Torn = Torn
SPECIFICATION Spec
INVARIANT GlobalsAreFactors
