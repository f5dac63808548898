------------------------------- MODULE Reporter -------------------------------
(***************************************************************************)
(* The AbuseIPDB reporter, reporter/abuseipdb-reporter.py: it follows the  *)
(* hit log through rotations and truncations, suppresses what it may not   *)
(* or need not send, posts the rest one at a time and keeps two files, the *)
(* offset and the suppression state, to go on from after a restart.        *)
(*                                                                         *)
(* A line takes two units of its file, since a reader may see the first    *)
(* part of a write before the rest; offsets count units.                   *)
(***************************************************************************)
EXTENDS Integers, Sequences, FiniteSets, Functions

CONSTANTS
  Ip,       \* the reportable addresses
  Junk,     \* a line without one, or that is no record
  NoFile,
  window_s, daily_cap,
  Day,            \* seconds of a UTC day
  SAVE_EVERY,     \* seconds between checkpoints (2)
  BACKOFF_BASE, BACKOFF_MAX, RETRY_AFTER_MAX,
  RetryAfter,     \* the delays a server may ask for
  MaxFiles, MaxLines, MaxTorn, MaxTime,             \* bounds of the log
  MaxFailures, MaxTruncations, MaxUnsaved, MaxRestarts  \* bounds of the faults

ASSUME ReporterAssumption ==
  /\ {window_s, daily_cap, Day, SAVE_EVERY, MaxFiles} \subseteq Nat \ {0}
  /\ {BACKOFF_BASE, BACKOFF_MAX, RETRY_AFTER_MAX} \subseteq Nat
  /\ RetryAfter \subseteq Int
  /\ NoFile \notin 1..MaxFiles
  /\ {MaxLines, MaxTorn, MaxTime, MaxFailures, MaxTruncations,
    MaxUnsaved, MaxRestarts} \subseteq Nat

VARIABLES
  clock,
  log,     \* the lines of each file, by inode
  torn,    \* the files whose last line is written in part
  path,    \* the file at the path of the log
  nginx,   \* the file nginx writes to
  pc,      \* what the daemon does next
  fh, offset, saved_inode, rotation_eofs, last_save,   \* locals of follow
  sup,                                                 \* the Suppressor
  cooldown_until, fail_streak,                         \* of the Reporter
  item,    \* the address process_line is sending, and since when
  offset_file, sup_file,                               \* the state files
  (* history *)
  verdict,    \* what became of each line
  renamed,    \* how many lines a file had when it lost the path
  truncated,  \* the files that were truncated
  recorded,   \* the reports recorded in the suppression file
  used        \* how much of the bounds is used up

disk == <<clock, log, torn, path, nginx>>
position == <<fh, offset, saved_inode, rotation_eofs>>
backoff == <<cooldown_until, fail_streak>>
files == <<offset_file, sup_file>>
past == <<renamed, truncated>>
vars == <<disk, pc, position, last_save, sup, backoff, item, files,
          verdict, past, recorded, used>>

File == 1..MaxFiles

NoState == [day |-> -1, count |-> 0, last |-> <<>>]

NoItem == [ip |-> Junk, at |-> 0]

Bound == [lines |-> MaxLines, torn |-> MaxTorn, failures |-> MaxFailures,
          truncations |-> MaxTruncations, unsaved |-> MaxUnsaved,
          restarts |-> MaxRestarts]

\* One more of each of the kinds, within their bounds.
Uses(kinds) ==
  /\ \A k \in kinds : used[k] < Bound[k]
  /\ used' = [k \in DOMAIN used |-> IF k \in kinds THEN used[k] + 1 ELSE used[k]]

Init ==
  /\ clock = 0
  /\ log = [f \in File |-> <<>>] /\ torn = {}
  /\ path = 1 /\ nginx = 1
  /\ pc = "open"
  /\ fh = NoFile /\ offset = 0 /\ saved_inode = NoFile
  /\ rotation_eofs = 0 /\ last_save = -SAVE_EVERY
  /\ sup = NoState
  /\ cooldown_until = 0 /\ fail_streak = 0
  /\ item = NoItem
  /\ offset_file = [offset |-> 0, inode |-> NoFile] /\ sup_file = NoState
  /\ verdict = [f \in File |-> <<>>]
  /\ renamed = [f \in {} |-> 0] /\ truncated = {}
  /\ recorded = {}
  /\ used = [k \in DOMAIN Bound |-> 0]

\* A mapping with one key set anew.
Bind(f, key, value) ==
  [k \in DOMAIN f \union {key} |-> IF k = key THEN value ELSE f[k]]

------------------------------------------------------------------------------
(* nginx and logrotate. *)

Size(f) == 2 * Len(log[f]) - (IF f \in torn THEN 1 ELSE 0)

daemon == <<pc, position, last_save, sup, backoff, item, files, recorded>>

\* A hit is written as one line; a reader may see the start of it first.
Write ==
  /\ nginx \notin torn
  /\ \E line \in Ip \union {Junk} : log' = [log EXCEPT ![nginx] = Append(@, line)]
  /\ verdict' = [verdict EXCEPT ![nginx] = Append(@, "unread")]
  /\ \/ UNCHANGED torn /\ Uses({"lines"})
     \/ torn' = torn \union {nginx} /\ Uses({"lines", "torn"})
  /\ UNCHANGED <<clock, path, nginx, daemon, past>>

WriteRest ==
  /\ nginx \in torn
  /\ torn' = torn \ {nginx}
  /\ UNCHANGED <<clock, log, path, nginx, daemon, verdict, past, used>>

\* logrotate renames the file; nginx goes on writing to it.
Rename ==
  /\ path # NoFile
  /\ Cardinality(DOMAIN renamed) + 1 < MaxFiles
  /\ renamed' = Bind(renamed, path, Len(log[path]))
  /\ path' = NoFile
  /\ UNCHANGED <<clock, log, torn, nginx, daemon, verdict, truncated, used>>

\* A new file at the path, from logrotate (create) or from nginx (SIGUSR1).
Create ==
  /\ path = NoFile
  /\ path' = Cardinality(DOMAIN renamed) + 1
  /\ UNCHANGED <<clock, log, torn, nginx, daemon, verdict, past, used>>

Reopen ==
  /\ path # NoFile /\ nginx # path /\ nginx \notin torn
  /\ nginx' = path
  /\ UNCHANGED <<clock, log, torn, path, daemon, verdict, past, used>>

\* logrotate empties the file in place (copytruncate).
Truncate ==
  /\ path # NoFile /\ log[path] # <<>> /\ path \notin torn
  /\ Uses({"truncations"})
  /\ log' = [log EXCEPT ![path] = <<>>]
  /\ verdict' = [verdict EXCEPT ![path] = <<>>]
  /\ truncated' = truncated \union {path}
  /\ UNCHANGED <<clock, torn, path, nginx, daemon, renamed>>

Tick ==
  /\ clock < MaxTime
  /\ clock' = clock + 1
  /\ UNCHANGED <<log, torn, path, nginx, daemon, verdict, past, used>>

------------------------------------------------------------------------------
(* Suppressor. *)

\* The first look of a new UTC day forgets the count and the addresses.
RollDay(s, now) ==
  IF s.day = now \div Day THEN s
  ELSE [day |-> now \div Day, count |-> 0, last |-> <<>>]

Allowed(s, ip, now) ==
  /\ s.count < daily_cap
  /\ ip \in DOMAIN s.last => now - s.last[ip] >= window_s

Prune(last, now) ==
  Restrict(last, {ip \in DOMAIN last : last[ip] >= now - window_s})

Recorded(s, ip, now) ==
  LET today == RollDay(s, now)
  IN  [today EXCEPT !.count = @ + 1,
                    !.last = Prune(Bind(@, ip, now), now)]

------------------------------------------------------------------------------
(* follow: the loop of the daemon. *)

\* The file is opened where the daemon left it, if it is that file.
Open ==
  /\ pc = "open" /\ path # NoFile
  /\ fh' = path /\ saved_inode' = path
  /\ offset' = IF path = saved_inode /\ offset <= Size(path) THEN offset ELSE 0
  /\ pc' = "read"
  /\ UNCHANGED <<disk, rotation_eofs, last_save, sup, backoff, item, files,
                 verdict, past, recorded, used>>

\* The offset is written at most every SAVE_EVERY seconds.
Checkpoint ==
  IF clock - last_save >= SAVE_EVERY
    THEN /\ offset_file' = [offset |-> offset', inode |-> fh]
         /\ last_save' = clock
    ELSE UNCHANGED <<offset_file, last_save>>

Reading == pc = "read" /\ clock >= cooldown_until

\* The line at the offset, and where a read of it ends.
Current == offset \div 2 + 1
LineEnd == IF 2 * Current <= Size(fh) THEN 2 * Current ELSE Size(fh)
Whole == offset % 2 = 0 /\ LineEnd = 2 * Current

\* A line that was truncated meanwhile has no verdict.
Judge(what) ==
  verdict' = IF Current \in DOMAIN verdict[fh]
               THEN [verdict EXCEPT ![fh][Current] = what] ELSE verdict

\* The line is done with: the offset passes it.
Pass(end) ==
  /\ offset' = end
  /\ Checkpoint
  /\ pc' = "read"
  /\ UNCHANGED <<fh, saved_inode>>

\* A line that is not to be sent: no record or not reportable, or suppressed.
Skip ==
  /\ Reading /\ offset < Size(fh) /\ Whole
  /\ LET ip == log[fh][Current]
     IN  \/ ip = Junk /\ UNCHANGED sup
         \/ /\ ip # Junk
            /\ sup' = RollDay(sup, clock)
            /\ ~Allowed(sup', ip, clock)
  /\ rotation_eofs' = 0
  /\ Judge("skipped")
  /\ Pass(2 * Current)
  /\ UNCHANGED <<disk, backoff, item, sup_file, past, recorded, used>>

\* Either part of a line read in two is no record.
SkipTorn ==
  /\ Reading /\ offset < Size(fh) /\ ~Whole
  /\ rotation_eofs' = 0
  /\ Judge("torn")
  /\ Pass(LineEnd)
  /\ UNCHANGED <<disk, sup, backoff, item, sup_file, past, recorded, used>>

\* The first or another try to send the line.
Take ==
  /\ Reading /\ offset < Size(fh) /\ Whole
  /\ LET ip == log[fh][Current]
     IN  /\ ip # Junk
         /\ sup' = RollDay(sup, clock)
         /\ Allowed(sup', ip, clock)
         /\ item' = [ip |-> ip, at |-> clock]
  /\ rotation_eofs' = 0
  /\ Judge("posted")
  /\ pc' = "post"
  /\ UNCHANGED <<disk, fh, offset, saved_inode, last_save, backoff, files,
                 past, recorded, used>>

\* The API accepts the report.
Accept ==
  /\ pc = "post"
  /\ pc' = "record"
  /\ cooldown_until' = 0 /\ fail_streak' = 0
  /\ UNCHANGED <<disk, position, last_save, sup, item, files,
                 verdict, past, recorded, used>>

\* Mutant: a refusal is tried again at once.
DropRetried ==
  /\ pc = "post" /\ pc' = "read" /\ item' = NoItem
  /\ UNCHANGED <<disk, position, last_save, sup, backoff, files,
                 verdict, past, recorded, used>>

\* It refuses it for good: the line is done with.
Drop ==
  /\ pc = "post"
  /\ Judge("dropped")
  /\ item' = NoItem
  /\ Pass(2 * Current)
  /\ UNCHANGED <<disk, rotation_eofs, sup, backoff, sup_file,
                 past, recorded, used>>

Least(a, b) == IF a < b THEN a ELSE b

\* How long a failure stops the reading: as asked by the server, or twice as
\* long as the last time.
Delays ==
  {Least(BACKOFF_MAX, BACKOFF_BASE * 2^fail_streak)}
    \union {IF r < 0 THEN 0 ELSE Least(r, RETRY_AFTER_MAX) : r \in RetryAfter}

\* Mutant: a failed line is passed.
RetryPasses ==
  /\ pc = "post" /\ Uses({"failures"})
  /\ \E delay \in Delays :
       item.at + delay <= MaxTime /\ cooldown_until' = item.at + delay
  /\ fail_streak' = fail_streak + 1
  /\ Judge("failed")
  /\ item' = NoItem
  /\ Pass(2 * Current)
  /\ UNCHANGED <<disk, rotation_eofs, sup, sup_file, past, recorded>>

\* It is busy, or the network fails, before or after it accepted the report: the
\* line stays, and nothing is read until the cooldown ends, which counts from
\* the time before the request (and ends within MaxTime: bound).
Retry ==
  /\ pc = "post" /\ Uses({"failures"})
  /\ \E delay \in Delays :
       item.at + delay <= MaxTime /\ cooldown_until' = item.at + delay
  /\ fail_streak' = fail_streak + 1
  /\ Judge("failed")
  /\ pc' = "read" /\ item' = NoItem
  /\ UNCHANGED <<disk, position, last_save, sup, files, past, recorded>>

\* A confirmed report is recorded and saved; a save that fails says nothing.
Record ==
  /\ pc = "record"
  /\ sup' = Recorded(sup, item.ip, item.at)
  /\ \/ /\ sup_file' = sup' /\ recorded' = recorded \union {item}
        /\ UNCHANGED used
     \/ Uses({"unsaved"}) /\ UNCHANGED <<sup_file, recorded>>
  /\ pc' = "advance"
  /\ UNCHANGED <<disk, position, last_save, backoff, item, offset_file,
                 verdict, past>>

Advance ==
  /\ pc = "advance"
  /\ Judge("reported")
  /\ item' = NoItem
  /\ Pass(2 * Current)
  /\ UNCHANGED <<disk, rotation_eofs, sup, backoff, sup_file,
                 past, recorded, used>>

\* Nothing to read: a checkpoint, then a look at the path.
AtEof ==
  /\ Reading /\ offset >= Size(fh)
  /\ pc' = "stat"
  /\ IF clock - last_save >= SAVE_EVERY
       THEN /\ offset_file' = [offset |-> offset, inode |-> fh]
            /\ last_save' = clock
       ELSE UNCHANGED <<offset_file, last_save>>
  /\ UNCHANGED <<disk, position, sup, backoff, item, sup_file,
                 verdict, past, recorded, used>>

Close ==
  /\ fh' = NoFile /\ offset' = 0 /\ saved_inode' = NoFile /\ rotation_eofs' = 0
  /\ pc' = "open"

StatSame ==
  /\ pc = "stat" /\ path = fh /\ Size(fh) >= offset
  /\ pc' = "read"
  /\ UNCHANGED <<disk, position, last_save, sup, backoff, item, files,
                 verdict, past, recorded, used>>

StatTruncated ==
  /\ pc = "stat" /\ path = fh /\ Size(fh) < offset
  /\ fh' = NoFile /\ offset' = 0 /\ saved_inode' = NoFile
  /\ pc' = "open"
  /\ UNCHANGED <<disk, rotation_eofs, last_save, sup, backoff, item, files,
                 verdict, past, recorded, used>>

\* Mutant: the old file is left at the first look that finds it rotated.
NO_GRACE == 1

\* The empty reads in a row, after which the old file counts as drained.
ROTATION_EOF_GRACE == 2

\* The path is gone or another file: the old one is read until it stays empty.
StatRotated ==
  /\ pc = "stat" /\ path # fh
  /\ IF rotation_eofs + 1 < ROTATION_EOF_GRACE
       THEN /\ rotation_eofs' = rotation_eofs + 1
            /\ pc' = "read"
            /\ UNCHANGED <<fh, offset, saved_inode, offset_file>>
       ELSE /\ offset_file' = [offset |-> offset, inode |-> fh]
            /\ Close
  /\ UNCHANGED <<disk, last_save, sup, backoff, item, sup_file,
                 verdict, past, recorded, used>>

------------------------------------------------------------------------------
(* The end of the daemon and its next start. *)

Down ==
  /\ pc' = "down"
  /\ fh' = NoFile /\ offset' = 0 /\ saved_inode' = NoFile /\ rotation_eofs' = 0
  /\ last_save' = -SAVE_EVERY
  /\ sup' = NoState /\ item' = NoItem
  /\ cooldown_until' = 0 /\ fail_streak' = 0

\* A signal ends the loop, which saves the offset.
Stop ==
  /\ pc \in {"open", "read"} /\ Uses({"restarts"})
  /\ IF fh = NoFile THEN UNCHANGED offset_file
     ELSE offset_file' = [offset |-> offset, inode |-> fh]
  /\ Down
  /\ UNCHANGED <<disk, sup_file, verdict, past, recorded>>

\* It may die anywhere: killed, by an offset that cannot be saved, or by a reply
\* that breaks off.
Crash ==
  /\ pc # "down" /\ Uses({"restarts"})
  /\ Down
  /\ UNCHANGED <<disk, files, verdict, past, recorded>>

\* Mutant: the suppression state is not loaded.
LoadNothing == NoState

LoadState == sup_file

\* The state files are read; there is no pause left from before.
Start ==
  /\ pc = "down"
  /\ offset' = offset_file.offset /\ saved_inode' = offset_file.inode
  /\ sup' = LoadState
  /\ pc' = "open"
  /\ UNCHANGED <<disk, fh, rotation_eofs, last_save, backoff, item, files,
                 verdict, past, recorded, used>>

DaemonStep ==
  \/ Open \/ Skip \/ SkipTorn \/ Take \/ Accept \/ Drop \/ Retry
  \/ Record \/ Advance \/ AtEof \/ StatSame \/ StatTruncated \/ StatRotated
  \/ Start

Next ==
  \/ Write \/ WriteRest \/ Rename \/ Create \/ Reopen \/ Truncate \/ Tick
  \/ DaemonStep \/ Stop \/ Crash

Spec == Init /\ [][Next]_vars

------------------------------------------------------------------------------
(* Properties. *)

Settled == {"skipped", "torn", "dropped", "reported"}

\* The lines of a file up to a position have been dealt with.
SettledUpTo(f, end) ==
  f \in File \ truncated =>
    \A i \in DOMAIN verdict[f] : 2 * i <= end => verdict[f][i] \in Settled

\* No line is passed before it is settled: neither the daemon's offset nor the
\* saved one is ever past a line that was not sent, refused for good or
\* suppressed, whatever fails, stops or crashes (at-least-once, as long as the
\* file is not truncated).
PassedIsSettled ==
  /\ SettledUpTo(fh, offset)
  /\ SettledUpTo(offset_file.inode, offset_file.offset)

\* A daemon that leaves a file because of a rotation has got to every line that
\* was in it when it was renamed, however renaming, reopening and writing fall
\* between its read and its look at the path (the second empty read).
LeavesDrained ==
  [][\A f \in DOMAIN renamed \ truncated :
       (StatRotated /\ fh = f /\ fh' # f) => offset >= 2 * renamed[f] - 1]_vars

\* The reports of one UTC day, by the time their line was read, are at most
\* daily_cap, and those of one address window_s apart, over any number of stops
\* and crashes: all but the reports the daemon could not record.
SuppressionKept ==
  /\ \A r \in recorded :
       Cardinality({q \in recorded : q.at \div Day = r.at \div Day}) <= daily_cap
  /\ \A q, r \in recorded :
       (q # r /\ q.ip = r.ip /\ q.at \div Day = r.at \div Day)
         => q.at - r.at >= window_s \/ r.at - q.at >= window_s

\* As long as the daemon runs, a line is posted again only after a failure of its
\* own that may pass: a refusal for good, a save that failed, another line's
\* failure or a rotation never brings one back.
RepostHasCause ==
  [][Take /\ fh \notin truncated =>
       \/ verdict[fh][Current] \in {"unread", "failed"}
       \/ used.restarts > 0]_vars
==============================================================================
