\* One thread that calls what it subscripted before it subscripts again; the program ends.
CONSTANTS
  Threads = {t1}
  Fns = {f, g}
  Options = {o1, o2}
  NoOptions = NoOptions
  None = None
  MaxHandles = 1
  MaxCalls = 3
SPECIFICATION Spec
CHECK_DEADLOCK FALSE
INVARIANTS
  LaunchesAreRight
  NothingLeft
PROPERTY CallEnds
