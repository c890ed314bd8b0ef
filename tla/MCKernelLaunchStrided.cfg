\* The array is a view of every other cell.
CONSTANTS
  NCells = 3
  Layouts <- Strided
  MaxArgs = 1
  Buffers = {b1, b2}
  Binaries = {k1}
  Streams = {cur}
  Current = cur
  NoBinary = NoBinary
SPECIFICATION Spec
INVARIANT OutputsComeBack
