CONSTANTS
  Regs <- MCRegs
  Order <- MCOrder
  Desc <- MCDesc
  ResetValue <- MCResetValue
  Legalize <- MCLegalize
  Legal <- MCLegal
SPECIFICATION Spec
INVARIANTS StoredLegal
PROPERTIES AbstractSpec LegalWritesKept
