\* Two processes over two texts of the kernel.  No symmetry: CallReturns tells
\* one process from another.
CONSTANTS
  Procs = {p1, p2}
  Sources = {s1, s2}
  Globals = {g1}
  Variants = {v1}
  NoKernel = NoKernel
  NoCall = NoCall
  Torn = Torn
SPECIFICATION FairSpec
INVARIANTS
  TypeOK
  AnswerMatchesCall
  FilesAreWhole
  NothingIsLost
  WarmNeverBuilds
PROPERTIES
  ImplementsService
  CallReturns
