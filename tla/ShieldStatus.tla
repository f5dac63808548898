----------------------------- MODULE ShieldStatus -----------------------------
(***************************************************************************)
(* The status endpoint of a ban zone: shield_ban_status_handler of         *)
(* ngx_http_shield_module.c over the zone of ShieldBan.                    *)
(*                                                                         *)
(* The document is put together from two locked sections.  The first takes *)
(* the totals and the number of nodes; between the two a buffer for that   *)
(* many entries is allocated; the second writes the ban list into it.      *)
(* Requests hit, arm, evict and count before, between and after.           *)
(***************************************************************************)
EXTENDS ShieldBan

CONSTANTS
  SLACK,      \* entries the fixed part of the buffer has room for: it reserves
              \* more for the categories than they take
  MaxRequests \* bound: the requests of a behaviour

\* The counters do not wrap within a behaviour; the categories are an enumeration.
ASSUME StatusAssumption ==
  SLACK \in Nat /\ MaxRequests \in 0..(CounterMod - 1) /\ IsFiniteSet(Cat)

VARIABLES
  doc,     \* the document a scrape is working on; before and after are
           \* history: what the two sections found
  arrived, \* the requests so far (bound)
  latest   \* history: the latest second the clock has shown

svars == <<vars, doc, arrived, latest>>

NoDoc ==
  [at |-> "idle", now |-> 0, nodes |-> 0, room |-> 0,
   blocked |-> 0, bans |-> 0, cat_hits |-> [c \in Cat |-> 0],
   banned |-> <<>>, cut |-> FALSE,
   before |-> [nodes |-> 0, flight |-> 0],
   after |-> [nodes |-> 0, bans |-> 0, latest |-> 0]]

StatusInit == Init /\ doc = NoDoc /\ arrived = 0 /\ latest = clock

DocGoto(phase) == doc' = [doc EXCEPT !.at = phase]

------------------------------------------------------------------------------
\* A scrape arrives: any method but GET and HEAD is refused, so is a zone this
\* worker has not initialised; then the time is read, before any section.
Scrape ==
  /\ doc.at = "idle"
  /\ \/ DocGoto("failed")
     \/ doc' = [NoDoc EXCEPT !.at = "totals", !.now = clock]

\* Mutant: only banned nodes are counted.
CountBanned == Cardinality({s \in tree : LiveBan(node[s], doc.now)})

\* The nodes the walk of the first section counts.
CountNodes == Len(queue)

\* The requests between the record's section and the counter's.
InFlight == {p \in Proc : pc[p] = "count"}

\* The first section: counters and node count.
TakeTotals ==
  /\ doc.at = "totals" /\ lock = NoProc
  /\ doc' = [doc EXCEPT !.at = "buffer", !.nodes = CountNodes,
                        !.blocked = blocked, !.bans = bans,
                        !.cat_hits = cat_hits,
                        !.before = [nodes |-> Len(queue),
                                    flight |-> Cardinality(InFlight)]]

\* The buffer, sized for the nodes counted; without it, an error.
Allocate ==
  /\ doc.at = "buffer"
  /\ \/ DocGoto("failed")
     \/ doc' = [doc EXCEPT !.at = "list", !.room = doc.nodes + SLACK]

\* Mutant: an armed node is listed whether its ban has lapsed or not.
ListsArmed(s) == node[s].banned_until # 0

\* A node of the ban list: the others only count hits.
Lists(s) == LiveBan(node[s], doc.now)

\* Their places in the queue, from the head on.
Listed == {i \in DOMAIN queue : Lists(queue[i])}

InOrder(places) ==
  {f \in [1..Cardinality(places) -> places] : \A i, j \in DOMAIN f : i < j => f[i] < f[j]}

\* The second section: the ban list from the head of the queue, until the
\* buffer has no room for one more entry.
TakeList ==
  /\ doc.at = "list" /\ lock = NoProc
  /\ LET found == Cardinality(Listed)
         fits == IF found <= doc.room THEN found ELSE doc.room
     IN  \E listed \in InOrder(Listed) :
           doc' = [doc EXCEPT
             !.at = "header",
             !.banned =
               [i \in 1..fits |->
                  [addr |-> node[queue[listed[i]]].addr,
                   expires |-> node[queue[listed[i]]].banned_until - doc.now]],
             !.cut = fits < found,
             !.after = [nodes |-> Len(queue), bans |-> bans, latest |-> latest]]

\* The header is sent and, unless the method is HEAD, the body; either may fail.
Send ==
  /\ doc.at = "header"
  /\ \/ DocGoto("failed")
     \/ DocGoto("sent")
     \/ doc' = [doc EXCEPT !.at = "sent", !.banned = <<>>]

Answered == doc.at \in {"sent", "failed"} /\ doc' = NoDoc

StatusStep ==
  /\ Scrape \/ TakeTotals \/ Allocate \/ TakeList \/ Send \/ Answered
  /\ UNCHANGED <<vars, arrived, latest>>

\* What the requests and the clock do meanwhile.
ZoneStep ==
  /\ ForwardNext
  /\ arrived' = arrived + Cardinality({p \in Proc : pc[p] = "idle"
                                                    /\ pc'[p] # "idle"})
  /\ arrived' <= MaxRequests
  /\ latest' = IF clock' > latest THEN clock' ELSE latest
  /\ UNCHANGED doc

ClockStepsBack == StepBack /\ UNCHANGED <<doc, arrived, latest>>

StatusNext == StatusStep \/ ZoneStep \/ ClockStepsBack

StatusSpec == StatusInit /\ [][StatusNext]_svars

------------------------------------------------------------------------------
(* Properties of a document, from its second section on. *)

Written == doc.at \in {"header", "sent"}

Total(f) == FoldFunction(+, 0, f)

\* The totals of a document agree with each other: no request is blocked that is
\* not a hit of some category, and an armed ban is missing from the categories
\* only while the request that armed it is on its way from the record's section
\* to the counter's (ban_record, ban_count, the first section).
TotalsLagByFlight ==
  Written =>
    /\ doc.blocked <= Total(doc.cat_hits)
    /\ doc.bans <= Total(doc.cat_hits) + doc.before.flight

\* A document never lists more bans than have been armed by its second section,
\* and what its own total lacks of them was armed between the two sections.
BansCoverList ==
  Written => /\ Len(doc.banned) <= doc.after.bans
             /\ doc.bans <= doc.after.bans

\* The list is cut short only if the zone has grown by more nodes than the
\* buffer has to spare: it is outgrown, never undersized, however many counting
\* nodes became bans in between (the reservation for every node).
CutOnlyIfOutgrown ==
  (Written /\ doc.cut) => doc.after.nodes > doc.before.nodes + SLACK

\* Each client is listed once, with a ban still running at the time of the
\* document and for at most a bantime after the latest second any clock has
\* shown by the second section, however the clock was stepped meanwhile.
ListedBansRun ==
  Written =>
    /\ \A i, j \in DOMAIN doc.banned :
         doc.banned[i].addr = doc.banned[j].addr => i = j
    /\ \A i \in DOMAIN doc.banned :
         /\ doc.banned[i].expires >= 1
         /\ \E pol \in Policies :
              doc.now + doc.banned[i].expires
                <= TimeAddClamp(doc.after.latest, pol.ban_time)
==============================================================================
