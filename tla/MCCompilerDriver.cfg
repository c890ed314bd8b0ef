\* All kernel types; a compilation ends.
CONSTANTS
  None = None
  Types = {None, "AIV_ONLY", "AIC_ONLY", "MIX_AIV_HARD_SYNC", "MIX_AIC_HARD_SYNC", "MIX_AIV_1_0", "MIX_AIC_1_0", "MIX_AIC_1_1", "MIX_AIC_1_2"}
  OptLevels = {1, 2, 3, 4}
SPECIFICATION Spec
CHECK_DEADLOCK FALSE
INVARIANTS
  BinaryAsTold
  DerivedFits
