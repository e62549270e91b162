CONSTANTS
  W = 4
  Splits <- SplitsOf4
  FieldModes = {"Nextup"}
  MaxListLen = 2
  ShiftedNotIn = FALSE
SPECIFICATION Spec
INVARIANT StoredLegal
