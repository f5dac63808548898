SPECIFICATION Spec
CONSTANTS
  l1 = l1
  l2 = l2
  l3 = l3
  Worker = {w1, w2}
  Location = {l1, l2, l3}
  Sink <- EverySink
  ALERT = 1
  MaxRecords = 3
  MaxClock = 4
SYMMETRY Symmetry
INVARIANTS
  LossAnnounced
  SkipHasCause
  AlertsApart
