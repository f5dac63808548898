SPECIFICATION Spec
CONSTANTS
  Piece <- AllPieces
  Requests <- AllRequests
  Skips <- SkipSets
  MaxBodies = {0, 2, 4}
  MAX_RANGES = 10
INVARIANTS
  CleanIsClean
  HitIsThere
  CollectedIsStart
