CONSTANTS
  ValueBits = 4
  Lsbs = {0}
  MaxListLen = 3
SPECIFICATION Spec
INVARIANT NextUpNearestAbove
