\* Two devices, and two streams at once at most: every operation, with the driver
\* failing anywhere.
CONSTANTS
  Devices = {0, 1}
  Handles = {h1, h2}
  StreamAddresses = {a1, a2}
  None = None
SPECIFICATION Spec
INVARIANTS
  StateAgrees
  CalledOnOpenDevice
PROPERTY CallReturns
