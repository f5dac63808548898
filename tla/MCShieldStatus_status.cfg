SPECIFICATION StatusSpec
CONSTANTS
  Slot = {s1, s2}
  Sentinel = Sentinel
  Addr = {a1, a2}
  NoAddr = NoAddr
  Proc = {p1, p2}
  NoProc = NoProc
  NoReq = NoReq
  Cat = {c1}
  Policies <- PolicyMixed
  SCAN = 2
  EVICT = 1
  CounterMod = 4
  TimeMax = 5
  MaxClock = 2
  SLACK = 0
  MaxRequests = 3
SYMMETRY Symmetry
INVARIANTS
  TotalsLagByFlight
  BansCoverList
  CutOnlyIfOutgrown
  ListedBansRun
PROPERTIES
  HitInItsWindow
