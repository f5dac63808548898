SPECIFICATION Spec
CONSTANTS
  Tables <- AllTables
  Byte <- Bytes
  Lower <- LowerCase
  Hex <- HexByte
  Digit = {"1", "2"}
  MAX_STATES = 100
  MAX_TERMS = 5
INVARIANTS
  WithinAllocation
  AutomatonExact
  VerdictIsReference
