SPECIFICATION Spec
CONSTANTS
  Ip = {a1, a2}
  Junk = Junk
  NoFile = NoFile
  window_s = 2
  daily_cap = 2
  Day = 3
  SAVE_EVERY = 2
  BACKOFF_BASE = 1
  BACKOFF_MAX = 1
  RETRY_AFTER_MAX = 1
  RetryAfter <- RetryAfterAny
  MaxFiles = 1
  MaxLines = 2
  MaxTorn = 0
  MaxTime = 3
  MaxFailures = 0
  MaxTruncations = 0
  MaxUnsaved = 0
  MaxRestarts = 1
SYMMETRY Symmetry
PROPERTIES
  NeverReplayed
