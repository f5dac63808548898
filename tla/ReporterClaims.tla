---------------------------- MODULE ReporterClaims ----------------------------
(* What the reporter says of itself and does not keep.                       *)
EXTENDS Reporter

\* The docstring of abuseipdb-reporter.py: it "persists a byte offset in a state
\* file so a restart never re-reports lines it already processed".  A line that
\* was reported and recorded is not posted again.
NeverReplayed ==
  [][Take => verdict[fh][Current] # "reported"]_vars
==============================================================================
