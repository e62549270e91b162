CONSTANTS
  ValueBits = 2
  Lsbs = {0, 1}
  MaxListLen = 2
  Beyond = 2
SPECIFICATION Spec
INVARIANT AcceptedWithinField
