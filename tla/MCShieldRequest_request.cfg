SPECIFICATION FairSpec
CONSTANTS
  Addr = {a1}
  Absent = Absent
  Request = {p1}
  NoRequest = NoRequest
  Locations <- AllLocations
  MaxChanges = 2
  MaxClock = 3
  TimeMax = 3
INVARIANTS
  TypeOK
  AttackNotServed
  EndedForCause
  BlockedIsDenied
  OneHitPerPass
PROPERTIES
  Answered
