SPECIFICATION Spec
CONSTANTS
  UNSET = UNSET
  NULL = NULL
  BAD = BAD
  Histories <- AllHistories
  MinSize = 8
INVARIANTS
  EffectiveIsNearest
  PolicyIsWhole
  ReloadKeepsBans
