\* The program also launches on a stream of its own.
CONSTANTS
  NCells = 3
  Layouts <- Single
  MaxArgs = 1
  Buffers = {b1, b2}
  Binaries = {k1}
  Streams = {cur, user}
  Current = cur
  NoBinary = NoBinary
SPECIFICATION Spec
INVARIANT OutputsComeBack
