CONSTANTS
  W = 4
  Splits <- SplitsOf4
  FieldModes = {"Largest", "Smallest", "Unchanged"}
  MaxListLen = 2
  ShiftedNotIn = FALSE
SPECIFICATION Spec
INVARIANT StoredLegal
