---------------------------- MODULE ShieldRequest ----------------------------
(***************************************************************************)
(* A request on its way through the phase handler of                       *)
(* ngx_http_shield_module.c: the ban check, the inspection of target and   *)
(* headers, the asynchronous read and inspection of the body, the verdict  *)
(* kept in the request context until the phases resume, and the hits       *)
(* recorded on the way.                                                    *)
(*                                                                         *)
(* Around it is nginx, as the handler meets it: an internal redirect or an *)
(* error page clears the context and runs the phases again, at another     *)
(* location, for the same target, headers and buffered body.  The ban zone *)
(* is BanPolicy, one entry per address, which ShieldBan implements.        *)
(***************************************************************************)
EXTENDS BanNode

CONSTANTS
  Addr,       \* client addresses
  Absent,     \* the entry of an address the zone does not hold
  Request,    \* requests in flight
  NoRequest,  \* the state of a free slot of Request
  Locations,  \* location configurations; locations with a ban share a zone
  MaxChanges, \* the internal redirects nginx allows a request
  MaxClock    \* bound: the last second of a behaviour

ASSUME LocationAssumption ==
  \A l \in Locations :
    /\ l.mode \in {"off", "detect", "block"}
    /\ l.body \in BOOLEAN  \* shield_body
    /\ l.ban \in BOOLEAN   \* has a shield_ban
    /\ l.policy.count \in Nat \ {0}
    /\ l.policy.window \in Nat \ {0}
    /\ l.policy.ban_time \in Nat \ {0}

ASSUME RequestBoundAssumption ==
  MaxChanges \in Nat /\ MaxClock \in 1..TimeMax

VARIABLES
  entry, \* the zone: the entry of each address, or Absent
  clock, \* the wall clock
  pc,    \* what each request does next
  st     \* what each request carries

vars == <<entry, clock, pc, st>>

Zone == INSTANCE BanPolicy WITH Policies <- {l.policy : l \in Locations}

\* What becomes of a request, and what its context holds: nothing, or the
\* verdict on its body.
Verdicts == {"none", "declined", "denied", "failed"}
Answers ==
  {"none", "served", "denied", "banned", "failed", "error", "refused", "closed",
   "aborted"}

\* The bound of the per-request tallies: one, or more than one.
TallyMax == 2
Tally(n) == IF n < TallyMax THEN n + 1 ELSE n

------------------------------------------------------------------------------
Init ==
  /\ Zone!Init
  /\ pc = [p \in Request |-> "free"]
  /\ st = [p \in Request |-> NoRequest]

Goto(p, label) == pc' = [pc EXCEPT ![p] = label]

\* The phase handler lets the request pass, or ends it with a status.
Conclude(p, verdict) ==
  IF verdict = "declined"
    THEN Goto(p, "content") /\ UNCHANGED st
    ELSE Goto(p, "special") /\ st' = [st EXCEPT ![p].status = verdict]

\* The body callback keeps its verdict and resumes the phases.
Keep(p, verdict) ==
  /\ st' = [st EXCEPT ![p].ctx = verdict, ![p].buffered = TRUE]
  /\ Goto(p, "handler")

\* Mutant: a detected attack is denied.
DenyAlways(l) == "denied"

\* What a hit means at a location.
Act(l) == IF l.mode = "block" THEN "denied" ELSE "declined"

\* Mutant: an inspection that failed counts as clean.
FailOpen(l) == "declined"

\* What an inspection that could not be made means at a location.
Fail(l) == IF l.mode = "block" THEN "failed" ELSE "declined"

\* Mutant: the context is not looked at.
ForgetsVerdict(p) == FALSE

\* The location asks for the body of a request that has one to scan.
InspectsBody(l) == l.mode # "off" /\ l.body

\* The phases were resumed after the body callback.
HasVerdict(p) == st[p].ctx # "none"

------------------------------------------------------------------------------
\* A request reaches the phase at some location.  pre: its target or headers
\* hold an attack; body: there is none to scan, or what shield_max_body
\* admits of it is clean or holds an attack.
Arrive(p) ==
  /\ pc[p] = "free"
  /\ \E a \in Addr, pre \in BOOLEAN, body \in {"none", "clean", "attack"},
        l \in Locations :
       st' = [st EXCEPT ![p] =
         [addr |-> a, pre |-> pre, body |-> body, loc |-> l, now |-> 0,
          ctx |-> "none", buffered |-> FALSE, where |-> "pre",
          changes |-> 0, paged |-> FALSE,
          blocking |-> l.mode = "block", bodied |-> InspectsBody(l),
          hits |-> 0, denials |-> 0, status |-> "none", answer |-> "none"]]
  /\ Goto(p, "handler")
  /\ UNCHANGED <<entry, clock>>

\* The module is off at this location.
Off(p) ==
  /\ pc[p] = "handler" /\ st[p].loc.mode = "off"
  /\ Conclude(p, "declined")
  /\ UNCHANGED <<entry, clock>>

\* Re-entry after the body: the verdict is there.
Resume(p) ==
  /\ pc[p] = "handler" /\ st[p].loc.mode # "off"
  /\ HasVerdict(p)
  /\ Conclude(p, st[p].ctx)
  /\ UNCHANGED <<entry, clock>>

\* The first entry at a location: the clock is read for the ban check.
Check(p) ==
  /\ pc[p] = "handler" /\ st[p].loc.mode # "off"
  /\ ~HasVerdict(p)
  /\ st' = [st EXCEPT ![p].now = clock]
  /\ Goto(p, IF st[p].loc.ban THEN "check" ELSE "inspect")
  /\ UNCHANGED <<entry, clock>>

Banned(p) ==
  LET e == entry[st[p].addr] IN e # Absent /\ LiveBan(e, st[p].now)

Refuse(p) ==
  /\ pc[p] = "check" /\ Banned(p)
  /\ Conclude(p, "banned")
  /\ UNCHANGED <<entry, clock>>

Admit(p) ==
  /\ pc[p] = "check" /\ ~Banned(p)
  /\ Goto(p, "inspect")
  /\ UNCHANGED <<entry, clock, st>>

------------------------------------------------------------------------------
(* The inspection of target and headers: structural checks, then scans.    *)

\* After a hit: recorded first where there is a zone, then acted upon.
AfterHit(p) == Goto(p, IF st[p].loc.ban THEN "record" ELSE "act")

PreHit(p) ==
  /\ pc[p] = "inspect" /\ st[p].pre
  /\ st' = [st EXCEPT ![p].where = "pre"]
  /\ AfterHit(p)
  /\ UNCHANGED <<entry, clock>>

\* A buffer could not be allocated before an attack was found.
PreFails(p) ==
  /\ pc[p] = "inspect"
  /\ Conclude(p, Fail(st[p].loc))
  /\ UNCHANGED <<entry, clock>>

PreClean(p) ==
  /\ pc[p] = "inspect" /\ ~st[p].pre
  /\ Goto(p, IF st[p].loc.body /\ st[p].body # "none"
               THEN "context" ELSE "content")
  /\ UNCHANGED <<entry, clock, st>>

\* The context could not be allocated: NGX_ERROR whatever the mode, and nginx
\* closes the connection.
ContextFails(p) ==
  /\ pc[p] = "context"
  /\ st' = [st EXCEPT ![p].answer = "closed"]
  /\ Goto(p, "done")
  /\ UNCHANGED <<entry, clock>>

\* The body is asked for, and may take its time.
ReadBody(p) ==
  /\ pc[p] = "context"
  /\ st' = [st EXCEPT ![p].ctx = "declined"]
  /\ Goto(p, "reading")
  /\ UNCHANGED <<entry, clock>>

\* The client went away or was too slow.
ReadAborted(p) ==
  /\ pc[p] = "reading" /\ ~st[p].buffered
  /\ st' = [st EXCEPT ![p].answer = "aborted"]
  /\ Goto(p, "done")
  /\ UNCHANGED <<entry, clock>>

\* nginx refuses the body (too large, malformed, no room for it); what it has
\* read so far stays buffered.
ReadRefused(p) ==
  /\ pc[p] = "reading" /\ ~st[p].buffered
  /\ \E got \in {"clean", st[p].body} :
       st' = [st EXCEPT ![p].status = "refused", ![p].body = got,
                        ![p].buffered = TRUE]
  /\ Goto(p, "special")
  /\ UNCHANGED <<entry, clock>>

\* The body is there: the callback inspects it, with the time of its worker.
BodyHit(p) ==
  /\ pc[p] = "reading" /\ st[p].body = "attack"
  /\ \E t \in st[p].now..clock :
       st' = [st EXCEPT ![p].where = "body", ![p].now = t,
                        ![p].buffered = TRUE]
  /\ AfterHit(p)
  /\ UNCHANGED <<entry, clock>>

\* No memory, or the file that holds the body could not be read in full.
BodyFails(p) ==
  /\ pc[p] = "reading"
  /\ Keep(p, Fail(st[p].loc))
  /\ UNCHANGED <<entry, clock>>

BodyClean(p) ==
  /\ pc[p] = "reading" /\ st[p].body # "attack"
  /\ Keep(p, "declined")
  /\ UNCHANGED <<entry, clock>>

------------------------------------------------------------------------------
(* The hit: recorded, counted and acted upon, in this order.               *)

\* What the lookup finds, or the node created for a new address.
Before(p) ==
  IF entry[st[p].addr] = Absent
    THEN FreshNode(st[p].addr, st[p].now)
    ELSE entry[st[p].addr]

\* The entry after the hit.
Counted(p) == Count(Before(p), st[p].now, st[p].loc.policy)

Record(p) ==
  /\ pc[p] = "record"
  /\ entry' = [entry EXCEPT ![st[p].addr] = Counted(p)]
  /\ Goto(p, "count")
  /\ UNCHANGED <<clock, st>>

\* The zone is full: the hit is not recorded.
RecordDropped(p) ==
  /\ pc[p] = "record" /\ entry[st[p].addr] = Absent
  /\ Goto(p, "count")
  /\ UNCHANGED <<entry, clock, st>>

\* Mutant: a hit that is only detected counts as blocked.
CountAsBlocked(p) ==
  /\ pc[p] = "count"
  /\ st' = [st EXCEPT ![p].hits = Tally(@), ![p].denials = Tally(@)]
  /\ Goto(p, "act")
  /\ UNCHANGED <<entry, clock>>

\* The totals of the status endpoint: here, what this request adds to them.
CountHit(p) ==
  /\ pc[p] = "count"
  /\ st' = [st EXCEPT ![p].hits = Tally(@),
                      ![p].denials =
                        IF st[p].loc.mode = "block" THEN Tally(@) ELSE @]
  /\ Goto(p, "act")
  /\ UNCHANGED <<entry, clock>>

ActOnHit(p) ==
  /\ pc[p] = "act"
  /\ IF st[p].where = "pre"
       THEN Conclude(p, Act(st[p].loc))
       ELSE Keep(p, Act(st[p].loc))
  /\ UNCHANGED <<entry, clock>>

------------------------------------------------------------------------------
(* What follows in nginx.                                                  *)

\* The phases start again at location l, with an empty context.
Enter(p, l) ==
  [st[p] EXCEPT !.loc = l, !.ctx = "none", !.changes = @ + 1, !.hits = 0,
                !.blocking = @ \/ l.mode = "block", !.bodied = @ \/ InspectsBody(l)]

\* The content of the location is the answer, or that of the error page.
Serve(p) ==
  /\ pc[p] = "content"
  /\ st' = [st EXCEPT ![p].answer =
              IF st[p].status = "none" THEN "served" ELSE st[p].status]
  /\ Goto(p, "done")
  /\ UNCHANGED <<entry, clock>>

\* A later handler redirects internally (try_files, index, X-Accel-Redirect).
Redirect(p) ==
  /\ pc[p] = "content" /\ st[p].changes < MaxChanges
  /\ \E l \in Locations : st' = [st EXCEPT ![p] = Enter(p, l)]
  /\ Goto(p, "handler")
  /\ UNCHANGED <<entry, clock>>

\* A later handler fails, or has used up the redirects.
ContentFails(p) ==
  /\ pc[p] = "content"
  /\ Conclude(p, "error")
  /\ UNCHANGED <<entry, clock>>

\* The error status has an error page, which is served from some location;
\* an error on the way to it has none (recursive_error_pages is off).
ErrorPage(p) ==
  /\ pc[p] = "special" /\ ~st[p].paged /\ st[p].changes < MaxChanges
  /\ \E l \in Locations :
       st' = [st EXCEPT ![p] = [Enter(p, l) EXCEPT !.paged = TRUE]]
  /\ Goto(p, "handler")
  /\ UNCHANGED <<entry, clock>>

\* The error status is answered with the standard page.
Reply(p) ==
  /\ pc[p] = "special"
  /\ st' = [st EXCEPT ![p].answer = st[p].status]
  /\ Goto(p, "done")
  /\ UNCHANGED <<entry, clock>>

\* The slot serves another request.
Leave(p) ==
  /\ pc[p] = "done"
  /\ st' = [st EXCEPT ![p] = NoRequest]
  /\ Goto(p, "free")
  /\ UNCHANGED <<entry, clock>>

\* What the zone does on its own, for other clients and other requests.
ZoneStep ==
  /\ Zone!Tick \/ \E a \in Addr : Zone!Forget(a)
  /\ UNCHANGED <<pc, st>>

------------------------------------------------------------------------------
Handler(p) ==
  Off(p) \/ Resume(p) \/ Check(p) \/ Refuse(p) \/ Admit(p)

Inspect(p) ==
  \/ PreHit(p) \/ PreFails(p) \/ PreClean(p)
  \/ ContextFails(p) \/ ReadBody(p) \/ ReadAborted(p) \/ ReadRefused(p)
  \/ BodyHit(p) \/ BodyFails(p) \/ BodyClean(p)

Hit(p) == Record(p) \/ RecordDropped(p) \/ CountHit(p) \/ ActOnHit(p)

Outcome(p) ==
  Serve(p) \/ Redirect(p) \/ ContentFails(p) \/ ErrorPage(p) \/ Reply(p)

Advance(p) == Handler(p) \/ Inspect(p) \/ Hit(p) \/ Outcome(p)

Next == ZoneStep \/ \E p \in Request : Arrive(p) \/ Advance(p) \/ Leave(p)

Spec == Init /\ [][Next]_vars

\* A request in progress goes on: its worker is scheduled, the sections of the
\* zone end, and a body arrives, is refused or times out.
FairSpec == Spec /\ \A p \in Request : WF_vars(Advance(p))

------------------------------------------------------------------------------
(* Properties.  All of them relate what a request carries to how far it is, *)
(* so they read a request only where there is one.                          *)

Labels == {"handler", "check", "inspect", "context", "reading", "record",
           "count", "act", "content", "special", "done"}

\* Verdicts, tallies and times of a request are of their kinds; a slot is free
\* exactly if it holds no request; an entry is that of its address and its times
\* are representable.
TypeOK ==
  /\ \A a \in Addr :
       \/ entry[a] = Absent
       \/ /\ entry[a].addr = a
          /\ entry[a].hits \in Nat
          /\ entry[a].window_start \in Time /\ entry[a].banned_until \in Time
  /\ \A p \in Request :
       \/ pc[p] = "free" /\ st[p] = NoRequest
       \/ /\ pc[p] \in Labels
          /\ st[p].loc \in Locations
          /\ st[p].now \in 0..clock
          /\ st[p].ctx \in Verdicts
          /\ st[p].changes \in 0..MaxChanges
          /\ st[p].hits \in 0..TallyMax /\ st[p].denials \in 0..TallyMax
          /\ st[p].status \in Answers /\ st[p].answer \in Answers

\* The content of a location in block mode is not reached by a request with an
\* attack in what the location inspects: not after a failed allocation or read,
\* not when the phases are resumed, and not with the verdict of another
\* location (handler, body_handler, fail).
AttackNotServed ==
  \A p \in Request :
    (pc[p] = "content" /\ st[p].loc.mode = "block") =>
      /\ ~st[p].pre
      /\ ~(st[p].loc.body /\ st[p].body = "attack")

\* A request is denied only for an attack that it holds, and denied or failed
\* only by a location in block mode that it went through: detect mode alone never
\* turns a hit or a failed inspection into an error (act, fail).  Apart from a ban
\* it changes the response in one way, against the comment on fail and the README:
\* of a request with a body to scan and nothing found before it, the connection may
\* be closed for want of a context, and the read of the body may be refused or end.
EndedForCause ==
  \A p \in Request :
    pc[p] # "free" =>
      /\ st[p].status = "denied" =>
           st[p].blocking /\ (st[p].pre \/ st[p].body = "attack")
      /\ st[p].status = "failed" => st[p].blocking
      /\ st[p].status = "refused" \/ st[p].answer \in {"closed", "aborted"} =>
           st[p].bodied /\ ~st[p].pre /\ st[p].body # "none"

\* Each pass over a location counts at most one hit, although the handler runs
\* twice when a body was read: the context tells the second run from the first
\* (handler's re-entry).
OneHitPerPass == \A p \in Request : pc[p] # "free" => st[p].hits <= 1

\* "`blocked` counts requests actually denied": it is counted with the hit, for a
\* body in the callback, before the phases are resumed and see the verdict; still no
\* request that was counted is served what it asked for, and none is denied at a
\* location with a zone without being counted (act, body_handler).
BlockedIsDenied ==
  \A p \in Request :
    pc[p] # "free" =>
      /\ st[p].answer = "served" => st[p].denials = 0
      /\ pc[p] = "special" /\ st[p].status = "denied" /\ st[p].loc.ban =>
           st[p].denials > 0

\* Every request is answered or its connection ends: the handler, run again
\* after the body and after each redirect, does not go round for ever.
Answered == \A p \in Request : (pc[p] # "free") ~> (pc[p] = "done")
==============================================================================
