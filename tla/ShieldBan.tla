------------------------------ MODULE ShieldBan ------------------------------
(***************************************************************************)
(* The shared-memory ban zone of ngx_http_shield_ban.c and the requests    *)
(* that use it (ngx_http_shield_module.c).                                 *)
(*                                                                         *)
(* The zone is a slab of node slots.  A node in use is linked into a tree, *)
(* searched by address, and into an LRU queue, whose first element is the  *)
(* one touched last.  When a hit needs a new node, an eviction walk goes   *)
(* from the cursor towards the head of the queue and frees stale nodes.    *)
(*                                                                         *)
(* A request is a slot of Proc: an in-flight request of some worker.  It   *)
(* reads the clock, THEN takes the zone's mutex, so it may act on a time   *)
(* older than that of a request served before it.  A section that neither  *)
(* loops nor allocates is one action; the section that does is one action  *)
(* per loop turn, with the mutex held by the request.                      *)
(***************************************************************************)
EXTENDS BanNode, LruQueue, FiniteSets

CONSTANTS
  Slot,          \* the nodes the slab has room for
  Addr,          \* client addresses (the ban keys)
  NoAddr,        \* the address field of a node never filled in
  Proc,          \* in-flight requests
  NoProc,        \* nobody holds the mutex
  NoReq,         \* the request of an idle process
  Policies,      \* shield_ban policies the locations and their reloads use
  Cat,           \* hit categories
  SCAN,          \* NGX_HTTP_SHIELD_BAN_EXPIRE_SCAN
  EVICT,         \* NGX_HTTP_SHIELD_BAN_EXPIRE_EVICT
  CounterMod,    \* the counters are unsigned: they wrap at this value (2^64)
  MaxClock       \* bound: the last second of a behaviour

\* What the directive accepts: a positive count, window and bantime.
ASSUME PolicyAssumption ==
  \A pol \in Policies :
    /\ pol.count \in Nat \ {0}
    /\ pol.window \in Nat \ {0}
    /\ pol.ban_time \in Nat \ {0}
    /\ pol.block \in BOOLEAN

ASSUME BoundAssumption ==
  /\ SCAN \in Nat \ {0}
  /\ EVICT \in Nat \ {0}
  /\ CounterMod \in Nat \ {0}
  /\ MaxClock \in 1..TimeMax

ASSUME NullAssumption ==
  Sentinel \notin Slot /\ NoAddr \notin Addr /\ NoProc \notin Proc

VARIABLES
  node,     \* slab memory: the contents of every slot, used or free
  free,     \* the slots the slab can hand out
  tree,     \* the slots linked into the rbtree
  queue,    \* the LRU list, most recently touched first
  cursor,   \* where the next eviction walk starts
  bans,     \* bans armed
  blocked,  \* requests denied for a hit
  cat_hits, \* hits of each category
  lock,     \* the holder of the slab mutex
  clock,    \* the wall clock
  pc,       \* what each request does next
  req,      \* its key, its location's policy and the last time it read
  walk      \* the locals of the eviction walk, which the mutex protects

zone == <<node, free, tree, queue, cursor>>
stats == <<bans, blocked, cat_hits>>
vars == <<zone, stats, lock, clock, pc, req, walk>>

NoWalk == [q |-> Sentinel, scanned |-> 0, evicted |-> 0, wrapped |-> FALSE]

------------------------------------------------------------------------------
(* The lookup: finds the node of an address and moves it to the LRU head. *)

Found(a) == \E s \in tree : node[s].addr = a

SlotOf(a) == CHOOSE s \in tree : node[s].addr = a

Touch(a) ==
  queue' = IF Found(a)
             THEN QueueTouch(queue, SlotOf(a))
             ELSE queue

------------------------------------------------------------------------------
Init ==
  /\ node = [s \in Slot |-> FreshNode(NoAddr, 0)]
  /\ free = Slot
  /\ tree = {}
  /\ queue = <<>>
  /\ cursor = Sentinel
  /\ bans = 0
  /\ blocked = 0
  /\ cat_hits = [c \in Cat |-> 0]
  /\ lock = NoProc
  /\ clock = 1
  /\ pc = [p \in Proc |-> "idle"]
  /\ req = [p \in Proc |-> NoReq]
  /\ walk = NoWalk

Goto(p, label) == pc' = [pc EXCEPT ![p] = label]

Finish(p) == Goto(p, "idle") /\ req' = [req EXCEPT ![p] = NoReq]

\* A request enters the handler and reads the clock for the ban check.
Start(p) ==
  /\ pc[p] = "idle"
  /\ \E a \in Addr, pol \in Policies :
       req' = [req EXCEPT ![p] = [addr |-> a, pol |-> pol, now |-> clock]]
  /\ Goto(p, "check")
  /\ UNCHANGED <<zone, stats, lock, clock, walk>>

Banned(p) ==
  Found(req[p].addr) /\ LiveBan(node[SlotOf(req[p].addr)], req[p].now)

\* The client is banned: refused before any inspection.
Refuse(p) ==
  /\ pc[p] = "check" /\ lock = NoProc
  /\ Banned(p)
  /\ Touch(req[p].addr)
  /\ Finish(p)
  /\ UNCHANGED <<node, free, tree, cursor, stats, lock, clock, walk>>

\* The client is not banned: its request is inspected.
Admit(p) ==
  /\ pc[p] = "check" /\ lock = NoProc
  /\ ~Banned(p)
  /\ Touch(req[p].addr)
  /\ Goto(p, "inspect")
  /\ UNCHANGED <<node, free, tree, cursor, stats, lock, clock, req, walk>>

\* The inspection, which may wait for the body, finds nothing to count.
InspectClean(p) ==
  /\ pc[p] = "inspect"
  /\ Finish(p)
  /\ UNCHANGED <<zone, stats, lock, clock, walk>>

\* The worker's cached time: not older than what it read before, unless the
\* clock went back, and not newer than the clock.
CachedTimes(p) == {t \in Time : t \in req[p].now..clock \/ t = clock}

\* The inspection finds a hit; the time is read before the mutex is taken.
InspectHit(p) ==
  /\ pc[p] = "inspect"
  /\ \E t \in CachedTimes(p) : req' = [req EXCEPT ![p].now = t]
  /\ Goto(p, "record")
  /\ UNCHANGED <<zone, stats, lock, clock, walk>>

\* Store the hit of p in slot s, whose node was n.
StoreHit(p, s, n) ==
  /\ node' = [node EXCEPT ![s] = Count(n, req[p].now, req[p].pol)]
  /\ bans' = IF Arms(n, req[p].now, req[p].pol)
               THEN (bans + 1) % CounterMod ELSE bans

\* The client has a node: count the hit there.
RecordKnown(p) ==
  /\ pc[p] = "record" /\ lock = NoProc
  /\ Found(req[p].addr)
  /\ Touch(req[p].addr)
  /\ StoreHit(p, SlotOf(req[p].addr), node[SlotOf(req[p].addr)])
  /\ Goto(p, "count")
  /\ UNCHANGED <<free, tree, cursor, blocked, cat_hits, lock, clock, req, walk>>

\* Mutant: the mutex is dropped while room is made.
RecordUnlocked(p) ==
  /\ pc[p] = "record" /\ lock = NoProc
  /\ ~Found(req[p].addr)
  /\ walk' = [NoWalk EXCEPT !.q = QueueLast(queue), !.wrapped = TRUE]
  /\ Goto(p, "expire")
  /\ UNCHANGED <<zone, stats, lock, clock, req>>

\* The client has none: take the mutex and start the walk at the cursor, or
\* at the tail when the cursor is the sentinel.
RecordUnknown(p) ==
  /\ pc[p] = "record" /\ lock = NoProc
  /\ ~Found(req[p].addr)
  /\ walk' = IF cursor = Sentinel
               THEN [NoWalk EXCEPT !.q = QueueLast(queue), !.wrapped = TRUE]
               ELSE [NoWalk EXCEPT !.q = cursor]
  /\ lock' = p
  /\ Goto(p, "expire")
  /\ UNCHANGED <<zone, stats, clock, req>>

InBudget == walk.scanned < SCAN /\ walk.evicted < EVICT

\* Ran off the head for the first time: go on from the tail.
ExpireWrap(p) ==
  /\ pc[p] = "expire" /\ InBudget
  /\ walk.q = Sentinel /\ ~walk.wrapped
  /\ walk' = [walk EXCEPT !.q = QueueLast(queue), !.wrapped = TRUE]
  /\ UNCHANGED <<zone, stats, lock, clock, pc, req>>

\* Mutant: the walk does not move on.
SkipInPlace(p) ==
  /\ pc[p] = "expire" /\ InBudget
  /\ walk.q # Sentinel
  /\ Live(node[walk.q], req[p].now, req[p].pol.window)
  /\ UNCHANGED vars

\* A live node is skipped.
ExpireSkip(p) ==
  /\ pc[p] = "expire" /\ InBudget
  /\ walk.q # Sentinel
  /\ Live(node[walk.q], req[p].now, req[p].pol.window)
  /\ walk' = [walk EXCEPT !.q = QueuePrev(queue, walk.q), !.scanned = @ + 1]
  /\ UNCHANGED <<zone, stats, lock, clock, pc, req>>

\* Mutant: the node is freed but not deleted from the tree.
EvictFromQueueOnly(p) ==
  /\ pc[p] = "expire" /\ InBudget
  /\ walk.q # Sentinel
  /\ ~Live(node[walk.q], req[p].now, req[p].pol.window)
  /\ queue' = QueueRemove(queue, walk.q)
  /\ free' = free \union {walk.q}
  /\ walk' = [walk EXCEPT !.q = QueuePrev(queue, walk.q),
                          !.scanned = @ + 1, !.evicted = @ + 1]
  /\ UNCHANGED <<node, tree, cursor, stats, lock, clock, pc, req>>

\* A stale node is unlinked and freed, after the walk has moved off it.
ExpireEvict(p) ==
  /\ pc[p] = "expire" /\ InBudget
  /\ walk.q # Sentinel
  /\ ~Live(node[walk.q], req[p].now, req[p].pol.window)
  /\ queue' = QueueRemove(queue, walk.q)
  /\ tree' = tree \ {walk.q}
  /\ free' = free \union {walk.q}
  /\ walk' = [walk EXCEPT !.q = QueuePrev(queue, walk.q),
                          !.scanned = @ + 1, !.evicted = @ + 1]
  /\ UNCHANGED <<node, cursor, stats, lock, clock, pc, req>>

\* Mutant: only a walk that freed nothing parks the cursor.
DoneUnparked(p) ==
  /\ pc[p] = "expire"
  /\ InBudget => walk.q = Sentinel /\ walk.wrapped
  /\ cursor' = IF walk.evicted = 0 THEN walk.q ELSE cursor
  /\ walk' = NoWalk
  /\ Goto(p, "alloc")
  /\ UNCHANGED <<node, free, tree, queue, stats, lock, clock, req>>

\* Mutant: every walk restarts at the tail.
DoneAtTail(p) ==
  /\ pc[p] = "expire"
  /\ InBudget => walk.q = Sentinel /\ walk.wrapped
  /\ cursor' = Sentinel
  /\ walk' = NoWalk
  /\ Goto(p, "alloc")
  /\ UNCHANGED <<node, free, tree, queue, stats, lock, clock, req>>

\* Mutant: the walk ends at the head and does not wrap.
DoneAtHead(p) ==
  /\ pc[p] = "expire"
  /\ InBudget => walk.q = Sentinel
  /\ cursor' = walk.q
  /\ walk' = NoWalk
  /\ Goto(p, "alloc")
  /\ UNCHANGED <<node, free, tree, queue, stats, lock, clock, req>>

\* A budget is spent, or the queue ended after one lap: park the cursor.
ExpireDone(p) ==
  /\ pc[p] = "expire"
  /\ InBudget => walk.q = Sentinel /\ walk.wrapped
  /\ cursor' = walk.q
  /\ walk' = NoWalk
  /\ Goto(p, "alloc")
  /\ UNCHANGED <<node, free, tree, queue, stats, lock, clock, req>>

\* Mutant: the fields of a reused slot are taken for zeroed memory.
InsertUnset(p) ==
  /\ pc[p] = "alloc"
  /\ \E s \in free :
       /\ free' = free \ {s}
       /\ tree' = tree \union {s}
       /\ queue' = QueueInsertHead(queue, s)
       /\ StoreHit(p, s, [node[s] EXCEPT !.addr = req[p].addr])
  /\ lock' = NoProc
  /\ Goto(p, "count")
  /\ UNCHANGED <<cursor, blocked, cat_hits, clock, req, walk>>

\* Mutant: an arming at the first hit of a client is not counted.
InsertUncounted(p) ==
  /\ pc[p] = "alloc"
  /\ \E s \in free :
       /\ free' = free \ {s}
       /\ tree' = tree \union {s}
       /\ queue' = QueueInsertHead(queue, s)
       /\ node' = [node EXCEPT ![s] =
            Count(FreshNode(req[p].addr, req[p].now), req[p].now, req[p].pol)]
  /\ lock' = NoProc
  /\ Goto(p, "count")
  /\ UNCHANGED <<stats, cursor, clock, req, walk>>

\* The slab has a slot: fill it in, link it, count the hit, unlock.
Insert(p) ==
  /\ pc[p] = "alloc"
  /\ \E s \in free :
       /\ free' = free \ {s}
       /\ tree' = tree \union {s}
       /\ queue' = QueueInsertHead(queue, s)
       /\ StoreHit(p, s, FreshNode(req[p].addr, req[p].now))
  /\ lock' = NoProc
  /\ Goto(p, "count")
  /\ UNCHANGED <<cursor, blocked, cat_hits, clock, req, walk>>

\* The slab is full: the hit is dropped.
ZoneFull(p) ==
  /\ pc[p] = "alloc"
  /\ free = {}
  /\ lock' = NoProc
  /\ Goto(p, "count")
  /\ UNCHANGED <<zone, stats, clock, req, walk>>

\* Mutant: a hit that is only detected is not counted for its category.
DetectUncounted(p) ==
  /\ pc[p] = "count" /\ lock = NoProc
  /\ \E c \in Cat :
       cat_hits' = IF req[p].pol.block
                     THEN [cat_hits EXCEPT ![c] = (@ + 1) % CounterMod]
                     ELSE cat_hits
  /\ blocked' = IF req[p].pol.block THEN (blocked + 1) % CounterMod ELSE blocked
  /\ Finish(p)
  /\ UNCHANGED <<zone, bans, lock, clock, walk>>

\* The report counters, in a locked section of their own.
CountHit(p) ==
  /\ pc[p] = "count" /\ lock = NoProc
  /\ \E c \in Cat : cat_hits' = [cat_hits EXCEPT ![c] = (@ + 1) % CounterMod]
  /\ blocked' = IF req[p].pol.block THEN (blocked + 1) % CounterMod ELSE blocked
  /\ Finish(p)
  /\ UNCHANGED <<zone, bans, lock, clock, walk>>

Tick ==
  /\ clock < MaxClock
  /\ clock' = clock + 1
  /\ UNCHANGED <<zone, stats, lock, pc, req, walk>>

\* The operator or NTP steps the wall clock backward.
StepBack ==
  /\ \E t \in 1..(clock - 1) : clock' = t
  /\ UNCHANGED <<zone, stats, lock, pc, req, walk>>

\* The steps of a request while it holds the mutex.
HolderStep(p) ==
  \/ ExpireWrap(p) \/ ExpireSkip(p) \/ ExpireEvict(p) \/ ExpireDone(p)
  \/ Insert(p) \/ ZoneFull(p)

RequestStep(p) ==
  \/ Start(p) \/ Refuse(p) \/ Admit(p) \/ InspectClean(p) \/ InspectHit(p)
  \/ RecordKnown(p) \/ RecordUnknown(p) \/ CountHit(p)

\* While the wall clock only moves forward.
ForwardNext ==
  \/ \E p \in Proc : RequestStep(p) \/ HolderStep(p)
  \/ Tick

Next == ForwardNext \/ StepBack

Spec == Init /\ [][Next]_vars

ForwardSpec == Init /\ [][ForwardNext]_vars

\* A worker that holds the mutex runs on: nothing in the section waits.
FairSpec == Spec /\ \A p \in Proc : WF_vars(HolderStep(p))
------------------------------------------------------------------------------
(* Type invariant. *)

Node == [addr : Addr \union {NoAddr}, hits : Nat,
         window_start : Time, banned_until : Time]

Request == [addr : Addr, pol : Policies, now : Time]

Walk == [q : Slot \union {Sentinel}, scanned : 0..SCAN, evicted : 0..EVICT,
         wrapped : BOOLEAN]

Counter == 0..(CounterMod - 1)

Labels == {"idle", "check", "inspect", "record", "expire", "alloc", "count"}

\* The type of every variable; a time never leaves time_t, and a hit counter
\* never goes negative (time_add_clamp, the record fields of ban.h).
TypeOK ==
  /\ node \in [Slot -> Node]
  /\ free \subseteq Slot
  /\ tree \subseteq Slot
  /\ queue \in Seq(Slot)
  /\ cursor \in Slot \union {Sentinel}
  /\ bans \in Counter
  /\ blocked \in Counter
  /\ cat_hits \in [Cat -> Counter]
  /\ lock \in Proc \union {NoProc}
  /\ clock \in 1..MaxClock
  /\ pc \in [Proc -> Labels]
  /\ req \in [Proc -> Request \union {NoReq}]
  /\ walk \in Walk

------------------------------------------------------------------------------
(* Safety. *)

InSection(p) == pc[p] \in {"expire", "alloc"}

\* The zone's three structures agree: the queue lists every node of the tree
\* exactly once, the slab owns the rest, and no address has two nodes (the
\* "lookup-before-insert" comment of record_locked).  It must survive every
\* interleaving of walks, inserts and lookups.
ZoneConsistent ==
  /\ free = Slot \ tree
  /\ ToSet(queue) = tree
  /\ IsInjective(queue)
  /\ \A s, t \in tree : node[s].addr = node[t].addr => s = t

\* The cursor invariant of ban.h: outside a walk the cursor is the sentinel or
\* a node in use, although walks of other requests, inserts and lookups come
\* between two uses of it.  Inside a walk the same holds of its position.
CursorSafe ==
  /\ (\A p \in Proc : pc[p] # "expire") => cursor \in tree \union {Sentinel}
  /\ walk.q \in tree \union {Sentinel}

\* While a request makes room for its address, no other request gives that
\* address a node: the lookup that missed still holds at the insert.
StillAbsent == \A p \in Proc : InSection(p) => ~Found(req[p].addr)

\* No node is at the threshold of every policy in use without being armed: a
\* hit that reaches it arms the ban and restarts the count, on every path.
BelowThreshold ==
  \A s \in tree : \E pol \in Policies : node[s].hits < pol.count

\* A ban that is live by the wall clock is never forgotten: no walk, whatever
\* time its request read, evicts the node, no hit retires the ban, and the only
\* thing that changes its end is a hit of the same client that arms it again.
LiveBanKept ==
  [][\A s \in tree :
       LiveBan(node[s], clock) =>
         /\ s \in tree'
         /\ node'[s].addr = node[s].addr
         /\ \/ node'[s].banned_until = node[s].banned_until
            \/ \E p \in Proc :
                 /\ pc[p] = "record" /\ req[p].addr = node[s].addr
                 /\ node'[s].banned_until =
                      TimeAddClamp(req[p].now, req[p].pol.ban_time)]_vars

\* The step in which p has its hit stored.
Stored(p) == RecordKnown(p) \/ Insert(p)

\* A stored hit counts in a window that contains its own time: never in one
\* that elapsed, nor in one that starts later, whatever the wall clock did and
\* whichever policy opened the window.
HitInItsWindow ==
  [][\A p \in Proc : Stored(p) =>
       \E s \in tree' :
         /\ node'[s].addr = req[p].addr
         /\ node'[s].window_start <= req[p].now
         /\ req[p].now - node'[s].window_start < req[p].pol.window]_vars

\* Arming a ban makes it live, at the last representable second too: the
\* deadline saturates and never wraps into the past (time_add_clamp).
ArmedBanIsLive ==
  [][\A p \in Proc : Stored(p) /\ bans' # bans =>
       \E s \in tree' :
         /\ node'[s].addr = req[p].addr
         /\ node'[s].banned_until > req[p].now \/ req[p].now = TimeMax]_vars

\* How many places before the cursor a node came, on the way of the walk: from the
\* tail to the head, and from the tail again.
Back(s) ==
  LET k == IF cursor = Sentinel THEN 0 ELSE Position(queue, cursor)
      i == Position(queue, s)
  IN  IF i > k THEN i - k ELSE i + Len(queue) - k

\* A hit is dropped for want of room only after a walk that used its whole scan
\* budget on live nodes: the SCAN nodes before the cursor are live, which are all of
\* them in a zone that holds no more, wherever the cursor stood and however the
\* queue was reordered since.  In a larger zone others may be stale, although
\* expire and record_locked speak of "nothing reclaimable".
DropOnlyAfterLiveWalk ==
  [][\A p \in Proc : ZoneFull(p) =>
       \A s \in tree :
         Back(s) <= SCAN => Live(node[s], req[p].now, req[p].pol.window)]_vars

------------------------------------------------------------------------------
(* The inductive invariant. *)

\* The mutex is held exactly by the request inside the allocating section.
MutexHeld == \A p \in Proc : InSection(p) <=> lock = p

\* A request that is not idle has a key, a policy and a time.
RequestKnown == \A p \in Proc : pc[p] # "idle" => req[p] \in Request

IInv ==
  /\ TypeOK
  /\ ZoneConsistent
  /\ CursorSafe
  /\ StillAbsent
  /\ MutexHeld
  /\ RequestKnown

------------------------------------------------------------------------------
(* Liveness. *)

\* The walk ends and the mutex is released, an empty queue and a queue of live
\* nodes included.
MutexReleased == lock # NoProc ~> lock = NoProc
==============================================================================
