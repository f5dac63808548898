SPECIFICATION Spec
CONSTANTS
  Ip = {a1, a2}
  Junk = Junk
  NoFile = NoFile
  window_s = 2
  daily_cap = 2
  Day = 3
  SAVE_EVERY = 2
  BACKOFF_BASE = 1
  BACKOFF_MAX = 1
  RETRY_AFTER_MAX = 1
  RetryAfter <- RetryAfterAny
  MaxFiles = 2
  MaxLines = 2
  MaxTorn = 1
  MaxTime = 3
  MaxFailures = 1
  MaxTruncations = 1
  MaxUnsaved = 1
  MaxRestarts = 1
SYMMETRY Symmetry
INVARIANTS
  PassedIsSettled
  SuppressionKept
PROPERTIES
  LeavesDrained
  RepostHasCause
