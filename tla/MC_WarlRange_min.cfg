CONSTANTS
  ValueBits = 3
  Lsbs = {0}
  MaxListLen = 3
SPECIFICATION Spec
INVARIANT MinIsLeast
