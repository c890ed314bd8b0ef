\* An array may be passed twice, the second time to be read only.
CONSTANTS
  NCells = 3
  Layouts <- Single
  MaxArgs = 2
  Buffers = {b1, b2}
  Binaries = {k1}
  Streams = {cur}
  Current = cur
  NoBinary = NoBinary
SPECIFICATION Spec
INVARIANT OutputsComeBack
