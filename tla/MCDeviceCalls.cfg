\* Two functions that call one another in any way; code generation ends.
CONSTANTS
  Kernel = Kernel
  f = f
  g = g
  a = a
  b = b
  t = t
  u = u
  m = m
  Functions = {f, g}
  Specs = {a}
  Types = {t, u}
  NoValue = NoValue
  Masks = {m}
  MaxBlocks = 4
  MaxOps = 4
SYMMETRY Symmetry
SPECIFICATION Spec
CHECK_DEADLOCK FALSE
INVARIANTS
  InsertionFollows
  ModuleWellFormed
  ResultsAsDeclared
