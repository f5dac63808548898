------------------------------- MODULE ShieldLog -------------------------------
(***************************************************************************)
(* The hit log of ngx_http_shield_module.c (shield_write_log): one record  *)
(* a hit, to a file that the workers share or to a syslog server.  The log *)
(* never fails a request, so what it knows of its failures is two times a  *)
(* location keeps in each worker: that of the last full disk, after which  *)
(* the rest of the second is skipped, and that of the last alert.  Both    *)
(* are compared with the wall clock, which may be set back.                *)
(***************************************************************************)
EXTENDS Integers, Sequences

CONSTANTS
  Worker,
  Location,   \* location configurations
  Sink,       \* what shield_log says at each of them
  ALERT,      \* no alert follows another within so many seconds (59)
  MaxRecords, \* bound: the hits of a behaviour
  MaxClock    \* bound: the last second of a behaviour

\* The directive leaves a location with at most one sink.
ASSUME LogAssumption ==
  /\ Sink \in [Location -> {"off", "file", "syslog"}]
  /\ ALERT \in Nat /\ MaxRecords \in Nat /\ MaxClock \in Nat

VARIABLES
  clock,     \* the wall clock; the epoch stays more than ALERT ago
  time,      \* the cached time of each worker
  disk_full, \* log_disk_full_time
  alerted,   \* log_error_time
  fate       \* history: what became of each hit

vars == <<clock, time, disk_full, alerted, fate>>

Never == [w \in Worker |-> [l \in Location |-> 0]]

Init ==
  /\ clock = ALERT + 1
  /\ time = [w \in Worker |-> clock]
  /\ disk_full = Never
  /\ alerted = Never
  /\ fate = <<>>

------------------------------------------------------------------------------
\* The hit ends up as told; announced: an alert was logged with it.
Settle(w, l, what, announced) ==
  fate' = Append(fate, [fate |-> what, worker |-> w, loc |-> l,
                        at |-> time[w], announced |-> announced])

\* A failed write is announced, unless an alert was recently.
Alerts(w, l) == time[w] - alerted[w][l] > ALERT

\* Mutant: the time of the alert is not kept.
AlertForgets(w, l) == UNCHANGED alerted

Alert(w, l) ==
  alerted' = [alerted EXCEPT ![w][l] = IF Alerts(w, l) THEN time[w] ELSE @]

\* Mutant: the back-off lasts as long as the alert is recent.
BacksOffLong(w, l) == time[w] - disk_full[w][l] <= ALERT

\* The rest of the second after a full disk is skipped.
BacksOff(w, l) == disk_full[w][l] = time[w]

\* shield_log is off, or the buffer of the record could not be allocated.
NotLogged(w, l) ==
  /\ UNCHANGED <<alerted, disk_full>>
  /\ Settle(w, l, IF Sink[l] = "off" THEN "off" ELSE "dropped", FALSE)

Skip(w, l) ==
  /\ Sink[l] = "file" /\ BacksOff(w, l)
  /\ UNCHANGED <<alerted, disk_full>>
  /\ Settle(w, l, "skipped", FALSE)

Write(w, l) ==
  /\ Sink[l] = "file" /\ ~BacksOff(w, l)
  /\ UNCHANGED <<alerted, disk_full>>
  /\ Settle(w, l, "written", FALSE)

\* Mutant: with a full disk there is no alert.
FullUnannounced(w, l) ==
  /\ Sink[l] = "file" /\ ~BacksOff(w, l)
  /\ disk_full' = [disk_full EXCEPT ![w][l] = time[w]]
  /\ UNCHANGED alerted
  /\ Settle(w, l, "full", FALSE)

\* The write fails: with a full disk the location backs off.
WriteFails(w, l) ==
  /\ Sink[l] = "file" /\ ~BacksOff(w, l)
  /\ Alert(w, l)
  /\ \/ /\ disk_full' = [disk_full EXCEPT ![w][l] = time[w]]
        /\ Settle(w, l, "full", Alerts(w, l))
     \/ /\ UNCHANGED disk_full
        /\ Settle(w, l, "lost", Alerts(w, l))

\* Only a part of the record is written.
WriteShort(w, l) ==
  /\ Sink[l] = "file" /\ ~BacksOff(w, l)
  /\ Alert(w, l)
  /\ UNCHANGED disk_full
  /\ Settle(w, l, "short", Alerts(w, l))

\* One datagram, or none when there is no buffer or the frame has no room for
\* the whole record.  What the send returns is ignored.
Syslog(w, l) ==
  /\ Sink[l] = "syslog"
  /\ UNCHANGED <<alerted, disk_full>>
  /\ \E what \in {"sent", "dropped"} : Settle(w, l, what, FALSE)

write_log(w, l) ==
  \/ NotLogged(w, l) \/ Skip(w, l) \/ Write(w, l) \/ WriteFails(w, l)
  \/ WriteShort(w, l) \/ Syslog(w, l)

Hit ==
  /\ Len(fate) < MaxRecords
  /\ \E w \in Worker, l \in Location : write_log(w, l)
  /\ UNCHANGED <<clock, time>>

Tick ==
  /\ clock < MaxClock
  /\ clock' = clock + 1
  /\ UNCHANGED <<time, disk_full, alerted, fate>>

\* The wall clock is set back.
StepBack ==
  /\ clock' \in (ALERT + 1)..(clock - 1)
  /\ UNCHANGED <<time, disk_full, alerted, fate>>

\* The event loop of a worker updates its cached time.
UpdateTime(w) ==
  /\ time[w] # clock
  /\ time' = [time EXCEPT ![w] = clock]
  /\ UNCHANGED <<clock, disk_full, alerted, fate>>

\* The bounds are reached.
Ended == Len(fate) = MaxRecords /\ clock = MaxClock /\ UNCHANGED vars

Next == Hit \/ Tick \/ StepBack \/ Ended \/ \E w \in Worker : UpdateTime(w)

Spec == Init /\ [][Next]_vars

------------------------------------------------------------------------------
(* Properties. *)

\* "instead of records vanishing unnoticed": for a record whose write fails, is short
\* or is skipped, its own location and worker alerted with it or before, at a time no
\* more than the limit behind its own.  That time may lie ahead when the clock was set
\* back: until the clock passes it again, losses are not announced.  Records dropped
\* for want of memory, or by the syslog, are never announced.
LossAnnounced ==
  \A i \in DOMAIN fate :
    fate[i].fate \in {"skipped", "lost", "full", "short"} =>
      \E j \in 1..i :
        /\ fate[j].announced
        /\ fate[j].worker = fate[i].worker /\ fate[j].loc = fate[i].loc
        /\ fate[i].at <= fate[j].at + ALERT

\* "a rate-limited ALERT": of one location, a worker logs no two alerts within the
\* limit, however its writes fail and wherever the clock is set in between.
AlertsApart ==
  \A i, j \in DOMAIN fate :
    ( /\ i < j /\ fate[i].announced /\ fate[j].announced
      /\ fate[i].worker = fate[j].worker /\ fate[i].loc = fate[j].loc ) =>
      fate[j].at - fate[i].at > ALERT

\* A record is skipped only in the second in which its own worker and location
\* met a full disk: the back-off ends with the second and is not another's.
SkipHasCause ==
  \A i \in DOMAIN fate :
    fate[i].fate = "skipped" =>
      \E j \in 1..(i - 1) :
        /\ fate[j].fate = "full"
        /\ <<fate[j].worker, fate[j].loc, fate[j].at>>
             = <<fate[i].worker, fate[i].loc, fate[i].at>>
==============================================================================
