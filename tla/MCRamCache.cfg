CONSTANTS
  Paths = {pak0, pak1}
  Buffers = {b1, b2, b3}
  Files = {f1, f2, f3}
  None = None
SPECIFICATION Spec
INVARIANT BuffersLive
