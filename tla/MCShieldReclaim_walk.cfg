SPECIFICATION FairReclaimSpec
CONSTANTS
  Slot = {s1, s2, s3}
  Sentinel = Sentinel
  Addr = {a1, a2, a3, a4}
  NoAddr = NoAddr
  Proc = {p1}
  NoProc = NoProc
  NoReq = NoReq
  Cat = {c1}
  Policies <- PolicyOne
  SCAN = 2
  EVICT = 2
  CounterMod = 1
  TimeMax = 5
  MaxClock = 3
INVARIANTS
  CursorSafe
  ExaminedWhileStill
PROPERTIES
  DropOnlyAfterLiveWalk
  MutexReleased
