SPECIFICATION ForwardSpec
CONSTANTS
  Slot = {s1, s2}
  Sentinel = Sentinel
  Addr = {a1, a2, a3}
  NoAddr = NoAddr
  Absent = Absent
  Proc = {p1, p2}
  NoProc = NoProc
  NoReq = NoReq
  Cat = {c1}
  Policies <- PolicyTwo
  SCAN = 2
  EVICT = 1
  CounterMod = 2
  TimeMax = 4
  MaxClock = 3
SYMMETRY Symmetry
INVARIANTS
  TypeOK
  ZoneConsistent
  StillAbsent
  BelowThreshold
PROPERTIES
  ImplementsPolicy
  LiveBanKept
  ArmedBanIsLive
