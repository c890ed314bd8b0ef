\* Every run uses the current stream.  A failed run leaves buffers behind,
\* so that a later one meets them.  Neither the fairness nor RunEnds names a
\* buffer or a binary, so that the symmetry is sound for RunEnds too.
CONSTANTS
  NCells = 3
  Layouts <- Contiguous
  MaxArgs = 2
  Buffers = {b1, b2, b3}
  Binaries = {k1, k2}
  Streams = {cur}
  Current = cur
  NoBinary = NoBinary
SYMMETRY Symmetry
SPECIFICATION FairSpec
INVARIANTS
  TypeOK
  ResultsComeBack
  KernelOnLiveMemory
  OwnBuffersHeld
  NothingLeaks
PROPERTY RunEnds
