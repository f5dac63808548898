------------------------------- MODULE BanNode -------------------------------
(***************************************************************************)
(* One entry of a shield_ban zone and what a hit does to it: the time      *)
(* arithmetic, the two liveness clocks and the counting of                 *)
(* ngx_http_shield_ban.c, as operators on a node record.                   *)
(***************************************************************************)
EXTENDS Integers

CONSTANT TimeMax  \* the largest time_t

ASSUME TimeMaxAssumption == TimeMax \in Nat \ {0}

\* Seconds since the epoch.  0 doubles as "not banned" in banned_until.
Time == 0..TimeMax

\* Mutant: the sum wraps as a signed time_t does.
TimeAddWraps(now, delta) ==
  IF delta > TimeMax - now THEN now + delta - 2 * (TimeMax + 1) ELSE now + delta

\* `now + delta', saturated at the largest time_t.
TimeAddClamp(now, delta) ==
  IF delta > TimeMax - now THEN TimeMax ELSE now + delta

\* The node refuses its client at time now.
LiveBan(n, now) == n.banned_until > now

\* The node is unarmed and its counting window is open at time now.  The end
\* of the window derives from the caller's window, not from the node.
LiveWindow(n, now, window) ==
  /\ n.banned_until = 0
  /\ n.window_start <= now
  /\ TimeAddClamp(n.window_start, window) > now

\* What the eviction walk skips: every node is under exactly one of the clocks.
Live(n, now, window) == LiveBan(n, now) \/ LiveWindow(n, now, window)

\* A node as it is filled in before it is linked.
FreshNode(a, now) ==
  [addr |-> a, hits |-> 0, window_start |-> now, banned_until |-> 0]

\* Mutant: a live ban is cleared too.
RetireLive(n, now) == [n EXCEPT !.banned_until = 0]

\* A lapsed ban is cleared as soon as a hit sees it.
Retire(n, now) ==
  IF n.banned_until <= now THEN [n EXCEPT !.banned_until = 0] ELSE n

\* Mutant: a window that starts in the future is kept.
RollElapsed(n, now, window) ==
  IF now - n.window_start >= window
    THEN [n EXCEPT !.window_start = now, !.hits = 0]
    ELSE n

\* A window that has elapsed, or starts in the future, restarts at now.
RollWindow(n, now, window) ==
  IF now < n.window_start \/ now - n.window_start >= window
    THEN [n EXCEPT !.window_start = now, !.hits = 0]
    ELSE n

\* Mutant: one hit late.
ArmsLate(n, now, pol) == RollWindow(n, now, pol.window).hits + 1 > pol.count

\* Does a hit at time now bring the node to the threshold of the policy?
Arms(n, now, pol) == RollWindow(n, now, pol.window).hits + 1 >= pol.count

\* The node after one more hit at time now.
Count(n, now, pol) ==
  LET m == RollWindow(Retire(n, now), now, pol.window)
  IN  IF Arms(n, now, pol)
        THEN [m EXCEPT !.hits = 0,
                       !.window_start = now,
                       !.banned_until = TimeAddClamp(now, pol.ban_time)]
        ELSE [m EXCEPT !.hits = @ + 1]
==============================================================================
