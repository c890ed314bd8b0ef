\* Addresses on either side of multiples of 512, and sizes on either side of
\* the margin: neighbouring blocks that touch are among the states.
CONSTANTS
  Addresses = {1, 511, 512, 513, 514, 1024, 1025, 1026, 1536, 1537, 2048, 2049, 2561}
  Sizes = {1, 512, 513}
SPECIFICATION MemorySpec
INVARIANTS
  MemoryTypeOK
  HandlesMatchBlocks
  HandlesApart
