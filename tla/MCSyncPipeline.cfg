\* A kernel ends.
CONSTANTS
  t1 = t1
  t2 = t2
  t3 = t3
  Queues = {t1, t2, t3}
  Plans <- Mixed
  MaxOps = 40
SPECIFICATION PipelineSpec
CHECK_DEADLOCK FALSE
INVARIANTS
  ModuleIsValid
  QueueNeverBlocks
  AccessesOrdered
  WarningsAreRight
  InsertedIsAccepted
