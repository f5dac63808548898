---------------------------- MODULE ShieldBanProof ----------------------------
(***************************************************************************)
(* The safety of the ban zone for every number of slots, requests and      *)
(* addresses, every policy and every budget of the walk.                   *)
(*                                                                         *)
(* IInv is inductive.  TypeOK alone is not: the step of the walk is a      *)
(* queue member only because the walk stands on one (CursorSafe), which    *)
(* holds only because tree and queue agree (ZoneConsistent) and no other   *)
(* request is inside the section (MutexHeld).                              *)
(*                                                                         *)
(* What the stored hits mean for the ban of their client comes after it:   *)
(* the threshold, the window, the deadline, and that a live ban is kept.   *)
(* All that rests on IInv and on what counting a hit does to one node      *)
(* (CountTyped); the last of it, and the refinement, also need that no     *)
(* request carries a time after the clock, which holds unless the clock is *)
(* stepped back.                                                           *)
(*                                                                         *)
(* Last come the specifications that follow this zone over time, where     *)
(* IInv holds too: ShieldStatus, what every status document tells whatever *)
(* happens between its two sections, and ShieldReclaim, how soon the       *)
(* eviction walk gets round the queue.  Each needs an invariant of its own *)
(* besides.                                                                *)
(***************************************************************************)
EXTENDS ShieldBanRefines, ShieldStatus, ShieldReclaim, TLAPS,
        SequenceTheorems, FiniteSetTheorems

------------------------------------------------------------------------------
(* What a hit does to a node, for every node, time and policy. *)

\* The nodes whose key is in A.
NodeOf(A) ==
  [addr : A, hits : Nat, window_start : Time, banned_until : Time]

Positive == Nat \ {0}

\* A node whose window restarts, field by field.
LEMMA RestartedFields ==
  ASSUME NEW A, NEW n \in NodeOf(A), NEW t \in Time
  PROVE  [n EXCEPT !.window_start = t, !.hits = 0] =
           [addr |-> n.addr, hits |-> 0, window_start |-> t,
            banned_until |-> n.banned_until]
<1> DEFINE m == [n EXCEPT !.window_start = t]
<1>1. /\ m \in NodeOf(A) /\ m.addr = n.addr /\ m.hits = n.hits
      /\ m.banned_until = n.banned_until /\ m.window_start = t
  BY DEF NodeOf
<1>2. [n EXCEPT !.window_start = t, !.hits = 0] = [m EXCEPT !.hits = 0]
  OBVIOUS
<1> HIDE DEF m
<1>3. [m EXCEPT !.hits = 0] =
        [addr |-> m.addr, hits |-> 0, window_start |-> m.window_start,
         banned_until |-> m.banned_until]
  BY <1>1 DEF NodeOf
<1> QED
  BY <1>1, <1>2, <1>3

\* A node that is armed, field by field.
LEMMA ArmedFields ==
  ASSUME NEW A, NEW n \in NodeOf(A), NEW t \in Time, NEW u \in Time
  PROVE  [n EXCEPT !.hits = 0, !.window_start = t, !.banned_until = u] =
           [addr |-> n.addr, hits |-> 0, window_start |-> t,
            banned_until |-> u]
<1> DEFINE m == [n EXCEPT !.hits = 0, !.window_start = t]
           k == [n EXCEPT !.hits = 0]
<1>1. k \in NodeOf(A) /\ k.addr = n.addr /\ k.hits = 0
  BY DEF NodeOf
<1>2. m = [k EXCEPT !.window_start = t]
  OBVIOUS
<1> HIDE DEF k
<1>3. m \in NodeOf(A) /\ m.addr = n.addr /\ m.hits = 0 /\ m.window_start = t
  <2> HIDE DEF m
  <2> QED
    BY <1>1, <1>2 DEF NodeOf
<1>4. [n EXCEPT !.hits = 0, !.window_start = t, !.banned_until = u]
        = [m EXCEPT !.banned_until = u]
  OBVIOUS
<1> HIDE DEF m
<1>5. [m EXCEPT !.banned_until = u] =
        [addr |-> m.addr, hits |-> m.hits, window_start |-> m.window_start,
         banned_until |-> u]
  BY <1>3 DEF NodeOf
<1> QED
  BY <1>3, <1>4, <1>5

\* A deadline is a representable time, and later than now unless now is the
\* last one: adding to the clock never wraps (time_add_clamp).
LEMMA TimeAddClampSaturates ==
  ASSUME NEW now \in Time, NEW delta \in Positive
  PROVE  /\ TimeAddClamp(now, delta) \in Time
         /\ TimeAddClamp(now, delta) > now \/ now = TimeMax
BY TimeMaxAssumption DEF TimeAddClamp, Time, Positive

\* Retiring a lapsed ban leaves the other fields.
LEMMA RetireTyped ==
  ASSUME NEW A, NEW n \in NodeOf(A), NEW now \in Time
  PROVE  /\ Retire(n, now) \in NodeOf(A)
         /\ Retire(n, now).addr = n.addr
         /\ Retire(n, now).hits = n.hits
         /\ Retire(n, now).window_start = n.window_start
         /\ LiveBan(n, now) => Retire(n, now) = n
         /\ Retire(n, now).banned_until \in {0, n.banned_until}
BY TimeMaxAssumption DEF Retire, NodeOf, Time, LiveBan

\* Rolling the window leaves it open at now, and the rest of the node alone.
LEMMA RollWindowTyped ==
  ASSUME NEW A, NEW n \in NodeOf(A), NEW now \in Time, NEW window \in Positive
  PROVE  LET m == RollWindow(n, now, window)
         IN  /\ m \in NodeOf(A)
             /\ m.addr = n.addr
             /\ m.banned_until = n.banned_until
             /\ m.window_start <= now
             /\ now - m.window_start < window
<1> DEFINE m == RollWindow(n, now, window)
           z == [n EXCEPT !.window_start = now, !.hits = 0]
           late == now < n.window_start \/ now - n.window_start >= window
<1>1. CASE late
  <2>1. m = z
    BY <1>1 DEF RollWindow
  <2>2. z = [addr |-> n.addr, hits |-> 0, window_start |-> now,
             banned_until |-> n.banned_until]
    BY RestartedFields
  <2> HIDE DEF z, m
  <2>3. m = [addr |-> n.addr, hits |-> 0, window_start |-> now,
             banned_until |-> n.banned_until]
    BY <2>1, <2>2
  <2> QED
    BY <2>3, TimeMaxAssumption DEF NodeOf, Time, Positive, m
<1>2. CASE ~late
  <2>1. m = n
    BY <1>2 DEF RollWindow
  <2> HIDE DEF m
  <2> QED
    BY <1>2, <2>1, TimeMaxAssumption DEF NodeOf, Time, Positive, m
<1> QED
  BY <1>1, <1>2

\* A hit leaves a node of the same address, counting in a window that contains
\* the hit, below the threshold, and banned if the threshold was reached.
LEMMA CountTyped ==
  ASSUME NEW A, NEW n \in NodeOf(A), NEW now \in Time, NEW pol,
         pol.count \in Positive, pol.window \in Positive,
         pol.ban_time \in Positive
  PROVE  LET m == Count(n, now, pol)
         IN  /\ m \in NodeOf(A)
             /\ m.addr = n.addr
             /\ m.hits < pol.count
             /\ m.window_start <= now
             /\ now - m.window_start < pol.window
             /\ Arms(n, now, pol) =>
                  m.banned_until = TimeAddClamp(now, pol.ban_time)
             /\ ~Arms(n, now, pol) /\ LiveBan(n, now) =>
                  m.banned_until = n.banned_until
             /\ ~Arms(n, now, pol) => m.banned_until \in {0, n.banned_until}
<1> DEFINE r == Retire(n, now)
           w == RollWindow(r, now, pol.window)
           m == Count(n, now, pol)
<1>1. /\ r \in NodeOf(A) /\ r.addr = n.addr /\ r.hits = n.hits
      /\ r.window_start = n.window_start
      /\ LiveBan(n, now) => r = n
      /\ r.banned_until \in {0, n.banned_until}
  BY RetireTyped
<1>2. /\ w \in NodeOf(A) /\ w.addr = r.addr
      /\ w.banned_until = r.banned_until
      /\ w.window_start <= now
      /\ now - w.window_start < pol.window
  <2> HIDE DEF r
  <2> QED
    BY <1>1, RollWindowTyped
<1>3. w.hits = RollWindow(n, now, pol.window).hits
  BY <1>1 DEF RollWindow, NodeOf
<1>4. m = IF w.hits + 1 >= pol.count
            THEN [w EXCEPT !.hits = 0, !.window_start = now,
                           !.banned_until = TimeAddClamp(now, pol.ban_time)]
            ELSE [w EXCEPT !.hits = @ + 1]
  BY <1>3 DEF Count, Arms
<1>5. Arms(n, now, pol) <=> w.hits + 1 >= pol.count
  BY <1>3 DEF Arms
<1>6. TimeAddClamp(now, pol.ban_time) \in Time
  BY TimeAddClampSaturates
<1>7. now - now < pol.window /\ 0 < pol.count /\ now <= now
  BY TimeMaxAssumption DEF Positive, Time
<1> HIDE DEF r, w, m
<1>8. CASE w.hits + 1 >= pol.count
  <2> DEFINE until == TimeAddClamp(now, pol.ban_time)
  <2>1. m = [w EXCEPT !.hits = 0, !.window_start = now, !.banned_until = until]
    BY <1>4, <1>8
  <2> HIDE DEF until
  <2>2. m = [addr |-> w.addr, hits |-> 0, window_start |-> now,
             banned_until |-> until]
    <3>1. until \in Time /\ now \in Time
      BY <1>6 DEF until
    <3> QED
      BY <1>2, <2>1, <3>1, ArmedFields, ZenonT(60)
  <2>3. /\ m.addr = n.addr /\ m.hits = 0 /\ m.window_start = now
        /\ m.banned_until = TimeAddClamp(now, pol.ban_time)
    BY <1>1, <1>2, <2>2 DEF until
  <2>4. m \in NodeOf(A)
    BY <1>2, <1>6, <2>2 DEF NodeOf, until
  <2> QED
    BY <1>5, <1>7, <1>8, <2>3, <2>4 DEF m
<1>9. CASE ~(w.hits + 1 >= pol.count)
  <2>1. w.hits + 1 \in Nat /\ w.hits + 1 < pol.count
    BY <1>2, <1>9 DEF NodeOf, Positive
  <2> QED
    BY <1>1, <1>2, <1>4, <1>5, <1>9, <2>1 DEF NodeOf, m
<1> QED
  BY <1>8, <1>9

------------------------------------------------------------------------------
(* What the list operations do to a list without repetition. *)

\* An element of the list is found at its position.
LEMMA PositionFound ==
  ASSUME NEW S, NEW q \in Seq(S), NEW s \in ToSet(q)
  PROVE  Position(q, s) \in 1..Len(q) /\ q[Position(q, s)] = s
<1>1. \E i \in DOMAIN q : q[i] = s
  BY DEF ToSet
<1>2. DOMAIN q = 1..Len(q)
  OBVIOUS
<1> QED
  BY <1>1, <1>2 DEF Position

\* Dropping the k-th element shifts those after it by one.
LEMMA RemoveAtShifts ==
  ASSUME NEW S, NEW q \in Seq(S), NEW k \in 1..Len(q)
  PROVE  /\ RemoveAt(q, k) \in Seq(S)
         /\ Len(RemoveAt(q, k)) = Len(q) - 1
         /\ \A j \in 1..(Len(q) - 1) :
              RemoveAt(q, k)[j] = IF j < k THEN q[j] ELSE q[j + 1]
<1> DEFINE front == SubSeq(q, 1, k - 1)
           back == SubSeq(q, k + 1, Len(q))
<1>1. /\ front \in Seq(S) /\ Len(front) = k - 1
      /\ \A j \in 1..(k - 1) : front[j] = q[j]
  OBVIOUS
<1>2. /\ back \in Seq(S) /\ Len(back) = Len(q) - k
      /\ \A j \in 1..(Len(q) - k) : back[j] = q[k + j]
  OBVIOUS
<1>3. RemoveAt(q, k) = front \o back
  BY DEF RemoveAt
<1>4. Len(q) \in Nat
  OBVIOUS
<1> HIDE DEF front, back
<1>5. /\ front \o back \in Seq(S)
      /\ Len(front \o back) = Len(front) + Len(back)
      /\ \A j \in 1..(Len(front) + Len(back)) :
           (front \o back)[j] =
             IF j <= Len(front) THEN front[j] ELSE back[j - Len(front)]
  BY <1>1, <1>2, ConcatProperties
<1>6. ASSUME NEW j \in 1..(Len(q) - 1)
      PROVE  (front \o back)[j] = IF j < k THEN q[j] ELSE q[j + 1]
  <2>1. j \in 1..(Len(front) + Len(back))
    BY <1>1, <1>2, <1>4
  <2>2. CASE j < k
    BY <1>1, <1>5, <2>1, <2>2
  <2>3. CASE ~(j < k)
    <3>1. (front \o back)[j] = back[j - (k - 1)]
      BY <1>1, <1>5, <2>1, <2>3
    <3>2. j - (k - 1) \in 1..(Len(q) - k)
      BY <1>4, <2>3
    <3>3. k + (j - (k - 1)) = j + 1
      OBVIOUS
    <3> QED
      BY <1>2, <2>3, <3>1, <3>2, <3>3
  <2> QED
    BY <2>2, <2>3
<1> QED
  BY <1>1, <1>2, <1>3, <1>4, <1>5, <1>6

\* Unlinking a member leaves the others, once each.
LEMMA QueueRemoveKeeps ==
  ASSUME NEW S, NEW q \in Seq(S), IsInjective(q), NEW s \in ToSet(q)
  PROVE  /\ QueueRemove(q, s) \in Seq(S)
         /\ IsInjective(QueueRemove(q, s))
         /\ ToSet(QueueRemove(q, s)) = ToSet(q) \ {s}
<1> DEFINE k == Position(q, s)
           r == QueueRemove(q, s)
<1>1. k \in 1..Len(q) /\ q[k] = s
  BY PositionFound
<1>2. r = RemoveAt(q, k)
  BY DEF QueueRemove
<1> HIDE DEF k, r
<1>3. /\ r \in Seq(S) /\ Len(r) = Len(q) - 1
      /\ \A j \in 1..(Len(q) - 1) : r[j] = IF j < k THEN q[j] ELSE q[j + 1]
  BY <1>1, <1>2, RemoveAtShifts
<1>4. Len(q) \in Nat /\ DOMAIN q = 1..Len(q) /\ DOMAIN r = 1..(Len(q) - 1)
  BY <1>3
<1>5. \A i, j \in 1..Len(q) : q[i] = q[j] => i = j
  BY <1>4 DEF IsInjective
<1>6. IsInjective(r)
  <2> SUFFICES ASSUME NEW i \in 1..(Len(q) - 1), NEW j \in 1..(Len(q) - 1),
                      r[i] = r[j]
               PROVE  i = j
    BY <1>4 DEF IsInjective
  <2> DEFINE from(x) == IF x < k THEN x ELSE x + 1
  <2>1. /\ from(i) \in 1..Len(q) /\ r[i] = q[from(i)]
        /\ from(j) \in 1..Len(q) /\ r[j] = q[from(j)]
    BY <1>1, <1>3, <1>4
  <2>2. from(i) = from(j)
    <3> HIDE DEF from
    <3> QED
      BY <1>5, <2>1
  <2> QED
    BY <1>1, <1>4, <2>2
<1>7. ToSet(r) \subseteq ToSet(q) \ {s}
  <2> SUFFICES ASSUME NEW j \in 1..(Len(q) - 1)
               PROVE  r[j] \in ToSet(q) \ {s}
    BY <1>4 DEF ToSet
  <2>1. \E m \in 1..Len(q) : r[j] = q[m] /\ m # k
    BY <1>1, <1>3, <1>4
  <2> QED
    BY <1>1, <1>4, <1>5, <2>1 DEF ToSet
<1>8. ToSet(q) \ {s} \subseteq ToSet(r)
  <2> SUFFICES ASSUME NEW i \in 1..Len(q), q[i] # s
               PROVE  \E j \in 1..(Len(q) - 1) : r[j] = q[i]
    BY <1>4 DEF ToSet
  <2>1. CASE i < k
    BY <1>1, <1>3, <1>4, <2>1
  <2>2. CASE i > k
    <3>1. i - 1 \in 1..(Len(q) - 1) /\ ~(i - 1 < k) /\ (i - 1) + 1 = i
      BY <1>1, <1>4, <2>2
    <3>2. r[i - 1] = q[i]
      BY <1>3, <3>1
    <3> QED
      BY <3>1, <3>2
  <2> QED
    BY <1>1, <1>4, <2>1, <2>2
<1> QED
  BY <1>3, <1>6, <1>7, <1>8 DEF r

\* Linking a new member at the head adds it, once.
LEMMA QueueInsertHeadAdds ==
  ASSUME NEW S, NEW q \in Seq(S), IsInjective(q), NEW s \in S \ ToSet(q)
  PROVE  /\ QueueInsertHead(q, s) \in Seq(S)
         /\ IsInjective(QueueInsertHead(q, s))
         /\ ToSet(QueueInsertHead(q, s)) = ToSet(q) \union {s}
<1> DEFINE r == QueueInsertHead(q, s)
<1>1. <<s>> \in Seq(S) /\ Len(<<s>>) = 1 /\ <<s>>[1] = s
  OBVIOUS
<1>2. r = <<s>> \o q
  BY DEF QueueInsertHead
<1> HIDE DEF r
<1>3. /\ r \in Seq(S) /\ Len(r) = 1 + Len(q)
      /\ \A i \in 1..(1 + Len(q)) : r[i] = IF i <= 1 THEN <<s>>[i] ELSE q[i - 1]
  BY <1>1, <1>2, ConcatProperties
<1>4. /\ Len(q) \in Nat
      /\ DOMAIN q = 1..Len(q)
      /\ DOMAIN r = 1..(1 + Len(q))
  BY <1>3
<1>5. r[1] = s
  BY <1>1, <1>3, <1>4
<1>6. \A i \in 1..(1 + Len(q)) : i # 1 => i - 1 \in 1..Len(q) /\ r[i] = q[i - 1]
  BY <1>3, <1>4
<1>7. \A i \in 1..Len(q) : q[i] # s
  BY <1>4 DEF ToSet
<1>8. IsInjective(r)
  <2> SUFFICES ASSUME NEW i \in 1..(1 + Len(q)), NEW j \in 1..(1 + Len(q)),
                      r[i] = r[j]
               PROVE  i = j
    BY <1>4 DEF IsInjective
  <2>1. CASE i = 1 \/ j = 1
    BY <1>5, <1>6, <1>7, <2>1
  <2>2. CASE i # 1 /\ j # 1
    <3>1. q[i - 1] = q[j - 1] /\ i - 1 \in 1..Len(q) /\ j - 1 \in 1..Len(q)
      BY <1>6, <2>2
    <3>2. i - 1 = j - 1
      BY <1>4, <3>1 DEF IsInjective
    <3> QED
      BY <3>2
  <2> QED
    BY <2>1, <2>2
<1>9. ToSet(r) \subseteq ToSet(q) \union {s}
  BY <1>4, <1>5, <1>6 DEF ToSet
<1>10. ToSet(q) \union {s} \subseteq ToSet(r)
  <2>1. s \in ToSet(r)
    BY <1>4, <1>5 DEF ToSet
  <2>2. ASSUME NEW i \in 1..Len(q) PROVE q[i] \in ToSet(r)
    <3>1. i + 1 \in 1..(1 + Len(q)) /\ i + 1 # 1 /\ (i + 1) - 1 = i
      BY <1>4
    <3> QED
      BY <1>4, <1>6, <3>1 DEF ToSet
  <2> QED
    BY <1>4, <2>1, <2>2 DEF ToSet
<1> QED
  BY <1>3, <1>8, <1>9, <1>10 DEF r

\* Moving a member to the head changes the order only.
LEMMA QueueTouchKeeps ==
  ASSUME NEW S, NEW q \in Seq(S), IsInjective(q), NEW s \in ToSet(q)
  PROVE  /\ QueueTouch(q, s) \in Seq(S)
         /\ IsInjective(QueueTouch(q, s))
         /\ ToSet(QueueTouch(q, s)) = ToSet(q)
<1> DEFINE r == QueueRemove(q, s)
<1>1. /\ r \in Seq(S) /\ IsInjective(r) /\ ToSet(r) = ToSet(q) \ {s}
  BY QueueRemoveKeeps
<1>2. s \in S
  BY DEF ToSet
<1> HIDE DEF r
<1>3. s \in S \ ToSet(r)
  BY <1>1, <1>2
<1>4. /\ QueueInsertHead(r, s) \in Seq(S)
      /\ IsInjective(QueueInsertHead(r, s))
      /\ ToSet(QueueInsertHead(r, s)) = ToSet(r) \union {s}
  BY <1>1, <1>3, QueueInsertHeadAdds
<1>5. QueueTouch(q, s) = QueueInsertHead(r, s)
  BY DEF QueueTouch, r
<1> QED
  BY <1>1, <1>4, <1>5

\* The neighbour of a member is another member, or the list head.
LEMMA QueuePrevIsMember ==
  ASSUME NEW S, NEW q \in Seq(S), IsInjective(q), NEW s \in ToSet(q)
  PROVE  QueuePrev(q, s) \in (ToSet(q) \ {s}) \union {Sentinel}
<1> DEFINE k == Position(q, s)
<1>1. k \in 1..Len(q) /\ q[k] = s
  BY PositionFound
<1>2. QueuePrev(q, s) = IF k = 1 THEN Sentinel ELSE q[k - 1]
  BY DEF QueuePrev
<1> HIDE DEF k
<1>3. Len(q) \in Nat /\ DOMAIN q = 1..Len(q)
  OBVIOUS
<1>4. CASE k # 1
  <2>1. k - 1 \in 1..Len(q) /\ k - 1 # k
    BY <1>1, <1>3, <1>4
  <2>2. q[k - 1] # s
    BY <1>1, <1>3, <2>1 DEF IsInjective
  <2> QED
    BY <1>2, <1>3, <1>4, <2>1, <2>2 DEF ToSet
<1> QED
  BY <1>2, <1>4

\* The last element is a member, or the list is empty.
LEMMA QueueLastIsMember ==
  ASSUME NEW S, NEW q \in Seq(S)
  PROVE  QueueLast(q) \in ToSet(q) \union {Sentinel}
<1>1. CASE q = <<>>
  BY <1>1 DEF QueueLast
<1>2. CASE q # <<>>
  <2>1. Len(q) \in 1..Len(q) /\ DOMAIN q = 1..Len(q)
    BY <1>2, EmptySeq
  <2> QED
    BY <1>2, <2>1 DEF QueueLast, Last, ToSet
<1> QED
  BY <1>1, <1>2

------------------------------------------------------------------------------
(* The operators of the zone. *)

\* The constants' assumptions, in the form the steps use.
LEMMA PolicyPositive ==
  ASSUME NEW pol \in Policies
  PROVE  /\ pol.count \in Positive
         /\ pol.window \in Positive
         /\ pol.ban_time \in Positive
BY PolicyAssumption DEF Positive

LEMMA CounterTyped ==
  ASSUME NEW n \in Counter
  PROVE  (n + 1) % CounterMod \in Counter
BY BoundAssumption DEF Counter

\* A lookup that finds an address returns a node in use that holds it.
LEMMA SlotFound ==
  ASSUME NEW a, Found(a)
  PROVE  SlotOf(a) \in tree /\ node[SlotOf(a)].addr = a
BY DEF Found, SlotOf

\* A lookup reorders the queue and changes nothing else.
LEMMA TouchKeeps ==
  ASSUME TypeOK, ZoneConsistent, NEW a, Touch(a)
  PROVE  /\ queue' \in Seq(Slot)
         /\ IsInjective(queue')
         /\ ToSet(queue') = tree
<1>1. queue \in Seq(Slot) /\ IsInjective(queue) /\ ToSet(queue) = tree
  BY DEF TypeOK, ZoneConsistent
<1>2. CASE Found(a)
  <2>1. SlotOf(a) \in ToSet(queue)
    BY <1>1, <1>2, SlotFound
  <2>2. queue' = QueueTouch(queue, SlotOf(a))
    BY <1>2 DEF Touch
  <2> QED
    BY <1>1, <2>1, <2>2, QueueTouchKeeps
<1>3. CASE ~Found(a)
  BY <1>1, <1>3 DEF Touch
<1> QED
  BY <1>2, <1>3

\* A hit stored on a node leaves a node of the same address.
LEMMA StoredTyped ==
  ASSUME NEW n \in Node, NEW r \in Request
  PROVE  /\ Count(n, r.now, r.pol) \in Node
         /\ Count(n, r.now, r.pol).addr = n.addr
<1>1. r.pol \in Policies /\ r.now \in Time
  BY DEF Request
<1>2. n \in NodeOf(Addr \union {NoAddr})
  BY DEF Node, NodeOf
<1>3. /\ Count(n, r.now, r.pol) \in NodeOf(Addr \union {NoAddr})
      /\ Count(n, r.now, r.pol).addr = n.addr
  BY <1>1, <1>2, CountTyped, PolicyPositive
<1> QED
  BY <1>3 DEF Node, NodeOf

LEMMA FreshTyped ==
  ASSUME NEW r \in Request
  PROVE  FreshNode(r.addr, r.now) \in Node /\ FreshNode(r.addr, r.now).addr = r.addr
BY TimeMaxAssumption DEF FreshNode, Node, Request, Time

------------------------------------------------------------------------------
LEMMA InitIInv == Init => IInv
<1> SUFFICES ASSUME Init PROVE IInv
  OBVIOUS
<1> USE DEF Init
<1>1. TypeOK
  <2>1. FreshNode(NoAddr, 0) \in Node
    BY TimeMaxAssumption DEF FreshNode, Node, Time
  <2>2. NoWalk \in Walk
    BY BoundAssumption DEF NoWalk, Walk
  <2>3. 0 \in Counter /\ clock \in 1..MaxClock
    BY BoundAssumption DEF Counter
  <2> QED
    BY <2>1, <2>2, <2>3, EmptySeq DEF TypeOK, Labels
<1>2. ZoneConsistent
  BY DEF ZoneConsistent, ToSet, IsInjective
<1>3. CursorSafe
  BY DEF CursorSafe, NoWalk
<1>4. StillAbsent /\ MutexHeld /\ RequestKnown
  BY NullAssumption DEF StillAbsent, MutexHeld, RequestKnown, InSection
<1> QED
  BY <1>1, <1>2, <1>3, <1>4 DEF IInv

------------------------------------------------------------------------------
(* Steps outside the allocating section. *)

\* A step of p that stays outside the section, and leaves the tree, the keys of
\* its nodes, the cursor and the other requests alone, disturbs no walk.
LEMMA OutsideSection ==
  ASSUME IInv, NEW p \in Proc, ~InSection(p),
         NEW label \in Labels \ {"expire", "alloc"}, Goto(p, label),
         \A q \in Proc \ {p} : req'[q] = req[q],
         \A s \in tree : node'[s].addr = node[s].addr,
         UNCHANGED <<tree, cursor, lock, walk>>
  PROVE  CursorSafe' /\ StillAbsent' /\ MutexHeld'
<1>1. \A q \in Proc : pc'[q] = IF q = p THEN label ELSE pc[q]
  BY DEF IInv, TypeOK, Goto
<1>2. \A q \in Proc : InSection(q)' <=> InSection(q)
  BY <1>1 DEF InSection
<1>3. \A q \in Proc : pc'[q] # "expire" <=> pc[q] # "expire"
  BY <1>1 DEF InSection
<1>4. CursorSafe'
  BY <1>3 DEF IInv, CursorSafe
<1>5. StillAbsent'
  <2> SUFFICES ASSUME NEW q \in Proc, InSection(q)' PROVE ~Found(req[q].addr)'
    BY DEF StillAbsent
  <2>1. InSection(q) /\ q # p
    BY <1>2
  <2>2. ~Found(req[q].addr)
    BY <2>1 DEF IInv, StillAbsent
  <2> QED
    BY <2>1, <2>2 DEF Found
<1>6. MutexHeld'
  BY <1>2 DEF IInv, MutexHeld
<1> QED
  BY <1>4, <1>5, <1>6

\* A request leaves for idle, without its key.
LEMMA FinishKeeps ==
  ASSUME TypeOK, RequestKnown, NEW p \in Proc, Finish(p)
  PROVE  /\ pc' \in [Proc -> Labels]
         /\ req' \in [Proc -> Request \union {NoReq}]
         /\ \A q \in Proc \ {p} : req'[q] = req[q]
         /\ RequestKnown'
BY DEF TypeOK, RequestKnown, Finish, Goto, Labels

\* A request moves on with a key, a policy and a time.
LEMMA MoveKeeps ==
  ASSUME TypeOK, RequestKnown, NEW p \in Proc, NEW label \in Labels,
         Goto(p, label), NEW r \in Request, req' = [req EXCEPT ![p] = r]
  PROVE  /\ pc' \in [Proc -> Labels]
         /\ req' \in [Proc -> Request \union {NoReq}]
         /\ \A q \in Proc \ {p} : req'[q] = req[q]
         /\ RequestKnown'
BY DEF TypeOK, RequestKnown, Goto, Labels

\* A request moves on as it is.
LEMMA GotoKeeps ==
  ASSUME TypeOK, RequestKnown, NEW p \in Proc, NEW label \in Labels,
         Goto(p, label), pc[p] # "idle", UNCHANGED req
  PROVE  /\ pc' \in [Proc -> Labels]
         /\ req' \in [Proc -> Request \union {NoReq}]
         /\ RequestKnown'
BY DEF TypeOK, RequestKnown, Goto, Labels

\* A time read from the clock is representable.
LEMMA ClockTyped == TypeOK => clock \in Time
BY BoundAssumption, TimeMaxAssumption DEF TypeOK, Time

LEMMA StartKeeps ==
  ASSUME IInv, NEW p \in Proc, Start(p)
  PROVE  IInv'
<1> USE DEF IInv
<1>1. PICK a \in Addr, pol \in Policies :
        req' = [req EXCEPT ![p] = [addr |-> a, pol |-> pol, now |-> clock]]
  BY DEF Start
<1>2. [addr |-> a, pol |-> pol, now |-> clock] \in Request
  BY ClockTyped DEF Request
<1>3. Goto(p, "check") /\ "check" \in Labels \ {"expire", "alloc"}
  BY DEF Start, Labels
<1>4. /\ pc' \in [Proc -> Labels]
      /\ req' \in [Proc -> Request \union {NoReq}]
      /\ \A q \in Proc \ {p} : req'[q] = req[q]
      /\ RequestKnown'
  BY <1>1, <1>2, <1>3, MoveKeeps
<1>5. TypeOK'
  BY <1>4 DEF TypeOK, Start, zone, stats
<1>6. ZoneConsistent'
  BY DEF ZoneConsistent, Start, zone
<1>7. CursorSafe' /\ StillAbsent' /\ MutexHeld'
  BY <1>3, <1>4, OutsideSection DEF Start, InSection, zone
<1> QED
  BY <1>4, <1>5, <1>6, <1>7

LEMMA RefuseKeeps ==
  ASSUME IInv, NEW p \in Proc, Refuse(p)
  PROVE  IInv'
<1> USE DEF IInv
<1>1. queue' \in Seq(Slot) /\ IsInjective(queue') /\ ToSet(queue') = tree
  BY TouchKeeps DEF Refuse
<1>2. /\ pc' \in [Proc -> Labels]
      /\ req' \in [Proc -> Request \union {NoReq}]
      /\ \A q \in Proc \ {p} : req'[q] = req[q]
      /\ RequestKnown'
  BY FinishKeeps DEF Refuse
<1>3. Goto(p, "idle") /\ "idle" \in Labels \ {"expire", "alloc"}
  BY DEF Refuse, Finish, Labels
<1>4. TypeOK'
  BY <1>1, <1>2 DEF TypeOK, Refuse, stats
<1>5. ZoneConsistent'
  BY <1>1 DEF ZoneConsistent, Refuse
<1>6. CursorSafe' /\ StillAbsent' /\ MutexHeld'
  BY <1>2, <1>3, OutsideSection DEF Refuse, InSection
<1> QED
  BY <1>2, <1>4, <1>5, <1>6

LEMMA AdmitKeeps ==
  ASSUME IInv, NEW p \in Proc, Admit(p)
  PROVE  IInv'
<1> USE DEF IInv
<1>1. queue' \in Seq(Slot) /\ IsInjective(queue') /\ ToSet(queue') = tree
  BY TouchKeeps DEF Admit
<1>2. Goto(p, "inspect") /\ "inspect" \in Labels \ {"expire", "alloc"}
  BY DEF Admit, Labels
<1>3. /\ pc' \in [Proc -> Labels]
      /\ req' \in [Proc -> Request \union {NoReq}]
      /\ RequestKnown'
  BY <1>2, GotoKeeps DEF Admit
<1>4. TypeOK'
  BY <1>1, <1>3 DEF TypeOK, Admit, stats
<1>5. ZoneConsistent'
  BY <1>1 DEF ZoneConsistent, Admit
<1>6. CursorSafe' /\ StillAbsent' /\ MutexHeld'
  BY <1>2, OutsideSection DEF Admit, InSection
<1> QED
  BY <1>3, <1>4, <1>5, <1>6

LEMMA InspectCleanKeeps ==
  ASSUME IInv, NEW p \in Proc, InspectClean(p)
  PROVE  IInv'
<1> USE DEF IInv
<1>1. /\ pc' \in [Proc -> Labels]
      /\ req' \in [Proc -> Request \union {NoReq}]
      /\ \A q \in Proc \ {p} : req'[q] = req[q]
      /\ RequestKnown'
  BY FinishKeeps DEF InspectClean
<1>2. Goto(p, "idle") /\ "idle" \in Labels \ {"expire", "alloc"}
  BY DEF InspectClean, Finish, Labels
<1>3. TypeOK'
  BY <1>1 DEF TypeOK, InspectClean, zone, stats
<1>4. ZoneConsistent'
  BY DEF ZoneConsistent, InspectClean, zone
<1>5. CursorSafe' /\ StillAbsent' /\ MutexHeld'
  BY <1>1, <1>2, OutsideSection DEF InspectClean, InSection, zone
<1> QED
  BY <1>1, <1>3, <1>4, <1>5

LEMMA InspectHitKeeps ==
  ASSUME IInv, NEW p \in Proc, InspectHit(p)
  PROVE  IInv'
<1> USE DEF IInv
<1>1. PICK t \in Time : req' = [req EXCEPT ![p].now = t]
  BY DEF InspectHit, CachedTimes
<1>2. req[p] \in Request
  BY DEF InspectHit, RequestKnown
<1> DEFINE r == [req[p] EXCEPT !.now = t]
<1>4. r \in Request
  BY <1>2 DEF Request
<1>5. req' = [req EXCEPT ![p] = r]
  BY <1>1
<1>6. Goto(p, "record") /\ "record" \in Labels \ {"expire", "alloc"}
  BY DEF InspectHit, Labels
<1> HIDE DEF r
<1>7. /\ pc' \in [Proc -> Labels]
      /\ req' \in [Proc -> Request \union {NoReq}]
      /\ \A q \in Proc \ {p} : req'[q] = req[q]
      /\ RequestKnown'
  BY <1>4, <1>5, <1>6, MoveKeeps
<1>8. TypeOK'
  BY <1>7 DEF TypeOK, InspectHit, zone, stats
<1>9. ZoneConsistent'
  BY DEF ZoneConsistent, InspectHit, zone
<1>10. CursorSafe' /\ StillAbsent' /\ MutexHeld'
  BY <1>6, <1>7, OutsideSection DEF InspectHit, InSection, zone
<1> QED
  BY <1>7, <1>8, <1>9, <1>10

LEMMA CountHitKeeps ==
  ASSUME IInv, NEW p \in Proc, CountHit(p)
  PROVE  IInv'
<1> USE DEF IInv
<1>1. /\ pc' \in [Proc -> Labels]
      /\ req' \in [Proc -> Request \union {NoReq}]
      /\ \A q \in Proc \ {p} : req'[q] = req[q]
      /\ RequestKnown'
  BY FinishKeeps DEF CountHit
<1>2. Goto(p, "idle") /\ "idle" \in Labels \ {"expire", "alloc"}
  BY DEF CountHit, Finish, Labels
<1>3. cat_hits' \in [Cat -> Counter] /\ blocked' \in Counter
  <2>1. PICK c \in Cat :
          cat_hits' = [cat_hits EXCEPT ![c] = (@ + 1) % CounterMod]
    BY DEF CountHit
  <2>2. (cat_hits[c] + 1) % CounterMod \in Counter
    BY CounterTyped DEF TypeOK
  <2>3. (blocked + 1) % CounterMod \in Counter
    BY CounterTyped DEF TypeOK
  <2> QED
    BY <2>1, <2>2, <2>3 DEF TypeOK, CountHit
<1>4. TypeOK'
  BY <1>1, <1>3 DEF TypeOK, CountHit, zone
<1>5. ZoneConsistent'
  BY DEF ZoneConsistent, CountHit, zone
<1>6. CursorSafe' /\ StillAbsent' /\ MutexHeld'
  BY <1>1, <1>2, OutsideSection DEF CountHit, InSection, zone
<1> QED
  BY <1>1, <1>4, <1>5, <1>6

LEMMA RecordKnownKeeps ==
  ASSUME IInv, NEW p \in Proc, RecordKnown(p)
  PROVE  IInv'
<1> USE DEF IInv
<1> DEFINE s == SlotOf(req[p].addr)
<1>1. req[p] \in Request
  BY DEF RecordKnown, RequestKnown
<1>2. s \in tree /\ s \in Slot /\ node[s] \in Node
  BY SlotFound DEF RecordKnown, TypeOK
<1>3. /\ node' = [node EXCEPT ![s] = Count(node[s], req[p].now, req[p].pol)]
      /\ bans' \in {bans, (bans + 1) % CounterMod}
  BY DEF RecordKnown, StoreHit
<1> HIDE DEF s
<1>4. /\ node' \in [Slot -> Node]
      /\ \A t \in Slot : node'[t].addr = node[t].addr
  BY <1>1, <1>2, <1>3, StoredTyped DEF TypeOK
<1>5. bans' \in Counter
  BY <1>3, CounterTyped DEF TypeOK
<1>6. queue' \in Seq(Slot) /\ IsInjective(queue') /\ ToSet(queue') = tree
  BY TouchKeeps DEF RecordKnown
<1>7. Goto(p, "count") /\ "count" \in Labels \ {"expire", "alloc"}
  BY DEF RecordKnown, Labels
<1>8. /\ pc' \in [Proc -> Labels]
      /\ req' \in [Proc -> Request \union {NoReq}]
      /\ RequestKnown'
  BY <1>7, GotoKeeps DEF RecordKnown
<1>9. TypeOK'
  BY <1>4, <1>5, <1>6, <1>8 DEF TypeOK, RecordKnown
<1>10. ZoneConsistent'
  BY <1>4, <1>6 DEF ZoneConsistent, RecordKnown, TypeOK
<1>11. CursorSafe' /\ StillAbsent' /\ MutexHeld'
  <2>1. \A t \in tree : node'[t].addr = node[t].addr
    BY <1>4 DEF TypeOK
  <2> QED
    BY <1>7, <2>1, OutsideSection DEF RecordKnown, InSection
<1> QED
  BY <1>8, <1>9, <1>10, <1>11

------------------------------------------------------------------------------
(* Steps of the allocating section. *)

\* The position of the walk moves, field by field.
LEMMA WalkMoves ==
  ASSUME NEW w \in Walk, NEW x \in Slot \union {Sentinel}, NEW b
  PROVE  /\ [w EXCEPT !.q = x, !.wrapped = b] =
              [q |-> x, scanned |-> w.scanned, evicted |-> w.evicted,
               wrapped |-> b]
         /\ [w EXCEPT !.q = x, !.scanned = @ + 1] =
              [q |-> x, scanned |-> w.scanned + 1, evicted |-> w.evicted,
               wrapped |-> w.wrapped]
         /\ [w EXCEPT !.q = x, !.scanned = @ + 1, !.evicted = @ + 1] =
              [q |-> x, scanned |-> w.scanned + 1, evicted |-> w.evicted + 1,
               wrapped |-> w.wrapped]
<1> DEFINE u == [w EXCEPT !.q = x]
           v == [u EXCEPT !.scanned = w.scanned + 1]
<1>1. u = [q |-> x, scanned |-> w.scanned, evicted |-> w.evicted,
           wrapped |-> w.wrapped]
  BY DEF Walk
<1>2. /\ [w EXCEPT !.q = x, !.wrapped = b] = [u EXCEPT !.wrapped = b]
      /\ [w EXCEPT !.q = x, !.scanned = @ + 1] = v
      /\ [w EXCEPT !.q = x, !.scanned = @ + 1, !.evicted = @ + 1]
           = [v EXCEPT !.evicted = w.evicted + 1]
  BY <1>1
<1> HIDE DEF u
<1>3. v = [q |-> x, scanned |-> w.scanned + 1, evicted |-> w.evicted,
           wrapped |-> w.wrapped]
  BY <1>1
<1>4. [u EXCEPT !.wrapped = b] =
        [q |-> x, scanned |-> w.scanned, evicted |-> w.evicted,
         wrapped |-> b]
  BY <1>1
<1> HIDE DEF v
<1>5. [v EXCEPT !.evicted = w.evicted + 1] =
        [q |-> x, scanned |-> w.scanned + 1, evicted |-> w.evicted + 1,
         wrapped |-> w.wrapped]
  BY <1>3
<1> QED
  BY <1>2, <1>3, <1>4, <1>5

\* While the mutex is free no request is inside the section.
LEMMA SectionEmpty ==
  ASSUME MutexHeld, lock = NoProc
  PROVE  \A p \in Proc : ~InSection(p)
BY NullAssumption DEF MutexHeld

\* One request at a time is inside the section.
LEMMA SectionExclusive ==
  ASSUME MutexHeld, NEW p \in Proc, NEW q \in Proc, InSection(p), InSection(q)
  PROVE  p = q
BY DEF MutexHeld

\* The tail of the queue is a node in use, or the queue is empty.
LEMMA LastInTree ==
  ASSUME TypeOK, ZoneConsistent
  PROVE  QueueLast(queue) \in tree \union {Sentinel}
BY QueueLastIsMember DEF TypeOK, ZoneConsistent

\* So is the neighbour of a node in use, and it is another node.
LEMMA PrevInTree ==
  ASSUME TypeOK, ZoneConsistent, NEW s \in tree
  PROVE  QueuePrev(queue, s) \in (tree \ {s}) \union {Sentinel}
BY QueuePrevIsMember DEF TypeOK, ZoneConsistent

LEMMA RecordUnknownKeeps ==
  ASSUME IInv, NEW p \in Proc, RecordUnknown(p)
  PROVE  IInv'
<1> USE DEF IInv
<1>1. \A q \in Proc : ~InSection(q)
  BY SectionEmpty DEF RecordUnknown
<1>2. \A q \in Proc : pc[q] # "expire"
  BY <1>1 DEF InSection
<1>3. cursor \in tree \union {Sentinel}
  BY <1>2 DEF CursorSafe
<1>4. NoWalk \in Walk
  BY BoundAssumption DEF NoWalk, Walk
<1>5. QueueLast(queue) \in tree \union {Sentinel}
  BY LastInTree
<1>6. walk' \in Walk /\ walk'.q \in tree \union {Sentinel}
  <2>1. CASE cursor = Sentinel
    <3>1. walk' = [NoWalk EXCEPT !.q = QueueLast(queue), !.wrapped = TRUE]
      BY <2>1 DEF RecordUnknown
    <3>2. walk' = [q |-> QueueLast(queue), scanned |-> NoWalk.scanned,
                   evicted |-> NoWalk.evicted, wrapped |-> TRUE]
      BY <1>4, <1>5, <3>1, WalkMoves DEF TypeOK
    <3> QED
      BY <1>4, <1>5, <3>2 DEF Walk, TypeOK
  <2>2. CASE cursor # Sentinel
    <3>1. walk' = [NoWalk EXCEPT !.q = cursor]
      BY <2>2 DEF RecordUnknown
    <3> QED
      BY <1>3, <1>4, <3>1 DEF Walk, TypeOK
  <2> QED
    BY <2>1, <2>2
<1>7. Goto(p, "expire") /\ "expire" \in Labels
  BY DEF RecordUnknown, Labels
<1>8. /\ pc' \in [Proc -> Labels]
      /\ req' \in [Proc -> Request \union {NoReq}]
      /\ RequestKnown'
  BY <1>7, GotoKeeps DEF RecordUnknown
<1>9. \A q \in Proc : InSection(q)' <=> q = p
  BY <1>1, <1>7 DEF InSection, Goto, TypeOK
<1>10. TypeOK'
  BY <1>6, <1>8 DEF TypeOK, RecordUnknown, zone, stats
<1>11. ZoneConsistent'
  BY DEF ZoneConsistent, RecordUnknown, zone
<1>12. CursorSafe'
  <2>1. pc'[p] = "expire"
    BY <1>7 DEF Goto, TypeOK
  <2> QED
    BY <1>6, <2>1 DEF CursorSafe, RecordUnknown, zone
<1>13. StillAbsent'
  BY <1>9 DEF StillAbsent, RecordUnknown, Found, zone
<1>14. MutexHeld'
  BY <1>9 DEF MutexHeld, RecordUnknown
<1> QED
  BY <1>8, <1>10, <1>11, <1>12, <1>13, <1>14

LEMMA ExpireWrapKeeps ==
  ASSUME IInv, NEW p \in Proc, ExpireWrap(p)
  PROVE  IInv'
<1> USE DEF IInv
<1>1. QueueLast(queue) \in tree \union {Sentinel}
  BY LastInTree
<1>2. walk' = [q |-> QueueLast(queue), scanned |-> walk.scanned,
               evicted |-> walk.evicted, wrapped |-> TRUE]
  <2>1. walk \in Walk /\ QueueLast(queue) \in Slot \union {Sentinel}
    BY <1>1 DEF TypeOK
  <2>2. walk' = [walk EXCEPT !.q = QueueLast(queue), !.wrapped = TRUE]
    BY DEF ExpireWrap
  <2> QED
    BY <2>1, <2>2, WalkMoves
<1>3. walk' \in Walk /\ walk'.q \in tree \union {Sentinel}
  BY <1>1, <1>2 DEF Walk, TypeOK
<1>4. UNCHANGED <<zone, stats, lock, clock, pc, req>>
  BY DEF ExpireWrap
<1> QED
  BY <1>3, <1>4 DEF TypeOK, ZoneConsistent, CursorSafe, StillAbsent, MutexHeld,
                    RequestKnown, InSection, Found, zone, stats

LEMMA ExpireSkipKeeps ==
  ASSUME IInv, NEW p \in Proc, ExpireSkip(p)
  PROVE  IInv'
<1> USE DEF IInv
<1>1. walk.q \in tree
  BY DEF ExpireSkip, CursorSafe
<1>2. QueuePrev(queue, walk.q) \in tree \union {Sentinel}
  BY <1>1, PrevInTree
<1>3. walk' = [q |-> QueuePrev(queue, walk.q), scanned |-> walk.scanned + 1,
               evicted |-> walk.evicted, wrapped |-> walk.wrapped]
  BY <1>2, WalkMoves DEF ExpireSkip, TypeOK
<1>4. walk.scanned + 1 \in 0..SCAN
  BY BoundAssumption DEF ExpireSkip, InBudget, TypeOK, Walk
<1>5. walk' \in Walk /\ walk'.q \in tree \union {Sentinel}
  BY <1>2, <1>3, <1>4 DEF Walk, TypeOK
<1>6. UNCHANGED <<zone, stats, lock, clock, pc, req>>
  BY DEF ExpireSkip
<1> QED
  BY <1>5, <1>6 DEF TypeOK, ZoneConsistent, CursorSafe, StillAbsent, MutexHeld,
                    RequestKnown, InSection, Found, zone, stats

\* The one step that frees a node: the walk is off it before, and the cursor,
\* which may be left on it, is parked again before the mutex is released.
LEMMA ExpireEvictKeeps ==
  ASSUME IInv, NEW p \in Proc, ExpireEvict(p)
  PROVE  IInv'
<1> USE DEF IInv
<1> DEFINE s == walk.q
<1>1. s \in tree /\ s \in ToSet(queue) /\ queue \in Seq(Slot)
  BY DEF ExpireEvict, CursorSafe, ZoneConsistent, TypeOK
<1>2. /\ queue' \in Seq(Slot)
      /\ IsInjective(queue')
      /\ ToSet(queue') = tree'
  BY <1>1, QueueRemoveKeeps DEF ExpireEvict, ZoneConsistent
<1>3. QueuePrev(queue, s) \in tree' \union {Sentinel}
  BY <1>1, PrevInTree DEF ExpireEvict
<1>4. walk' = [q |-> QueuePrev(queue, s), scanned |-> walk.scanned + 1,
               evicted |-> walk.evicted + 1, wrapped |-> walk.wrapped]
  <2>1. QueuePrev(queue, s) \in Slot \union {Sentinel}
    BY <1>1, PrevInTree DEF TypeOK
  <2> QED
    BY <2>1, WalkMoves DEF ExpireEvict, TypeOK
<1>5. walk.scanned + 1 \in 0..SCAN /\ walk.evicted + 1 \in 0..EVICT
  BY BoundAssumption DEF ExpireEvict, InBudget, TypeOK, Walk
<1>6. tree' \subseteq tree /\ tree' \subseteq Slot /\ free' = Slot \ tree'
  BY <1>1 DEF ExpireEvict, ZoneConsistent, TypeOK
<1> HIDE DEF s
<1>7. walk' \in Walk /\ walk'.q \in tree' \union {Sentinel}
  BY <1>3, <1>4, <1>5, <1>6 DEF Walk, TypeOK
<1>8. UNCHANGED <<node, cursor, stats, lock, clock, pc, req>>
  BY DEF ExpireEvict
<1>9. TypeOK'
  BY <1>2, <1>6, <1>7, <1>8 DEF TypeOK, stats
<1>10. ZoneConsistent'
  BY <1>2, <1>6, <1>8 DEF ZoneConsistent
<1>11. CursorSafe'
  BY <1>7, <1>8 DEF CursorSafe, ExpireEvict
<1>12. StillAbsent'
  BY <1>6, <1>8 DEF StillAbsent, InSection, Found
<1>13. MutexHeld' /\ RequestKnown'
  BY <1>8 DEF MutexHeld, RequestKnown, InSection
<1> QED
  BY <1>9, <1>10, <1>11, <1>12, <1>13

LEMMA ExpireDoneKeeps ==
  ASSUME IInv, NEW p \in Proc, ExpireDone(p)
  PROVE  IInv'
<1> USE DEF IInv
<1>1. InSection(p)
  BY DEF ExpireDone, InSection
<1>2. Goto(p, "alloc") /\ "alloc" \in Labels
  BY DEF ExpireDone, Labels
<1>3. /\ pc' \in [Proc -> Labels]
      /\ req' \in [Proc -> Request \union {NoReq}]
      /\ RequestKnown'
  BY <1>2, GotoKeeps DEF ExpireDone
<1>4. \A q \in Proc : InSection(q)' <=> InSection(q)
  BY <1>1, <1>2 DEF InSection, Goto, TypeOK
<1>5. cursor' \in tree \union {Sentinel}
  BY DEF ExpireDone, CursorSafe
<1>6. NoWalk \in Walk
  BY BoundAssumption DEF NoWalk, Walk
<1>7. UNCHANGED <<node, free, tree, queue, stats, lock, clock, req>>
  BY DEF ExpireDone
<1>8. TypeOK'
  BY <1>3, <1>5, <1>6, <1>7 DEF TypeOK, ExpireDone, stats
<1>9. ZoneConsistent'
  BY <1>7 DEF ZoneConsistent
<1>10. CursorSafe'
  BY <1>5, <1>7 DEF CursorSafe, ExpireDone, NoWalk
<1>11. StillAbsent'
  BY <1>4, <1>7 DEF StillAbsent, Found
<1>12. MutexHeld'
  BY <1>4, <1>7 DEF MutexHeld
<1> QED
  BY <1>3, <1>8, <1>9, <1>10, <1>11, <1>12

\* Leaving the section releases the mutex, and the section is empty.
LEMMA UnlockKeeps ==
  ASSUME IInv, NEW p \in Proc, pc[p] = "alloc", Goto(p, "count"),
         lock' = NoProc, UNCHANGED req
  PROVE  /\ pc' \in [Proc -> Labels]
         /\ req' \in [Proc -> Request \union {NoReq}]
         /\ RequestKnown' /\ StillAbsent' /\ MutexHeld'
         /\ \A q \in Proc : pc[q] # "expire"
<1> USE DEF IInv
<1>1. "count" \in Labels /\ pc[p] # "idle" /\ InSection(p)
  BY DEF Labels, InSection
<1>2. /\ pc' \in [Proc -> Labels]
      /\ req' \in [Proc -> Request \union {NoReq}]
      /\ RequestKnown'
  BY <1>1, GotoKeeps
<1>3. \A q \in Proc : q # p => ~InSection(q)
  BY <1>1, SectionExclusive
<1>4. \A q \in Proc : ~InSection(q)'
  BY <1>3 DEF InSection, Goto, TypeOK
<1>5. StillAbsent' /\ MutexHeld'
  BY <1>4, NullAssumption DEF StillAbsent, MutexHeld
<1>6. \A q \in Proc : pc[q] # "expire"
  BY <1>3 DEF InSection
<1> QED
  BY <1>2, <1>5, <1>6

LEMMA InsertKeeps ==
  ASSUME IInv, NEW p \in Proc, Insert(p)
  PROVE  IInv'
<1> USE DEF IInv
<1> DEFINE n == FreshNode(req[p].addr, req[p].now)
<1>1. PICK s \in free :
        /\ free' = free \ {s}
        /\ tree' = tree \union {s}
        /\ queue' = QueueInsertHead(queue, s)
        /\ StoreHit(p, s, n)
  BY DEF Insert
<1>2. req[p] \in Request
  BY DEF Insert, RequestKnown
<1>3. s \in Slot \ tree
  BY DEF ZoneConsistent
<1>4. n \in Node /\ n.addr = req[p].addr
  BY <1>2, FreshTyped
<1> HIDE DEF n
<1>5. /\ node' = [node EXCEPT ![s] = Count(n, req[p].now, req[p].pol)]
      /\ bans' \in {bans, (bans + 1) % CounterMod}
  BY <1>1 DEF StoreHit
<1>6. /\ Count(n, req[p].now, req[p].pol) \in Node
      /\ Count(n, req[p].now, req[p].pol).addr = req[p].addr
  BY <1>2, <1>4, StoredTyped
<1>7. /\ node' \in [Slot -> Node]
      /\ node'[s].addr = req[p].addr
      /\ \A t \in tree : node'[t] = node[t]
  BY <1>3, <1>5, <1>6 DEF TypeOK
<1>8. bans' \in Counter
  BY <1>5, CounterTyped DEF TypeOK
<1>9. /\ queue' \in Seq(Slot)
      /\ IsInjective(queue')
      /\ ToSet(queue') = tree'
  BY <1>1, <1>3, QueueInsertHeadAdds DEF TypeOK, ZoneConsistent
<1>10. /\ pc' \in [Proc -> Labels]
       /\ req' \in [Proc -> Request \union {NoReq}]
       /\ RequestKnown' /\ StillAbsent' /\ MutexHeld'
       /\ \A q \in Proc : pc[q] # "expire"
  BY UnlockKeeps DEF Insert
<1>11. TypeOK'
  BY <1>1, <1>3, <1>7, <1>8, <1>9, <1>10 DEF TypeOK, Insert
<1>12. ZoneConsistent'
  <2>1. \A t \in tree : node[t].addr # req[p].addr
    BY DEF Insert, StillAbsent, InSection, Found
  <2>2. free' = Slot \ tree'
    BY <1>1, <1>3 DEF ZoneConsistent
  <2>3. \A t, u \in tree' : node'[t].addr = node'[u].addr => t = u
    BY <1>1, <1>7, <2>1 DEF ZoneConsistent
  <2> QED
    BY <1>9, <2>2, <2>3 DEF ZoneConsistent
<1>13. CursorSafe'
  BY <1>1, <1>10 DEF CursorSafe, Insert
<1> QED
  BY <1>10, <1>11, <1>12, <1>13

LEMMA ZoneFullKeeps ==
  ASSUME IInv, NEW p \in Proc, ZoneFull(p)
  PROVE  IInv'
<1> USE DEF IInv
<1>1. /\ pc' \in [Proc -> Labels]
      /\ req' \in [Proc -> Request \union {NoReq}]
      /\ RequestKnown' /\ StillAbsent' /\ MutexHeld'
      /\ \A q \in Proc : pc[q] # "expire"
  BY UnlockKeeps DEF ZoneFull
<1>2. UNCHANGED <<zone, stats, clock, req, walk>> /\ lock' = NoProc
  BY DEF ZoneFull
<1>3. TypeOK'
  BY <1>1, <1>2 DEF TypeOK, zone, stats
<1>4. ZoneConsistent' /\ CursorSafe'
  BY <1>1, <1>2 DEF ZoneConsistent, CursorSafe, zone
<1> QED
  BY <1>1, <1>3, <1>4

\* The clock, whichever way it goes, touches nothing but itself.
LEMMA ClockKeeps ==
  ASSUME IInv, Tick \/ StepBack
  PROVE  IInv'
<1> USE DEF IInv
<1>1. clock' \in 1..MaxClock
  BY BoundAssumption DEF TypeOK, Tick, StepBack
<1>2. UNCHANGED <<zone, stats, lock, pc, req, walk>>
  BY DEF Tick, StepBack
<1> QED
  BY <1>1, <1>2 DEF TypeOK, ZoneConsistent, CursorSafe, StillAbsent, MutexHeld,
                    RequestKnown, InSection, Found, zone, stats

------------------------------------------------------------------------------
\* Every step preserves the inductive invariant.
LEMMA StepIInv == IInv /\ [Next]_vars => IInv'
<1> SUFFICES ASSUME IInv, [Next]_vars PROVE IInv'
  OBVIOUS
<1>1. ASSUME NEW p \in Proc, RequestStep(p) PROVE IInv'
  BY <1>1, StartKeeps, RefuseKeeps, AdmitKeeps, InspectCleanKeeps,
     InspectHitKeeps, RecordKnownKeeps, RecordUnknownKeeps, CountHitKeeps
     DEF RequestStep
<1>2. ASSUME NEW p \in Proc, HolderStep(p) PROVE IInv'
  BY <1>2, ExpireWrapKeeps, ExpireSkipKeeps, ExpireEvictKeeps, ExpireDoneKeeps,
     InsertKeeps, ZoneFullKeeps DEF HolderStep
<1>3. CASE Tick \/ StepBack
  BY <1>3, ClockKeeps
<1>4. CASE UNCHANGED vars
  BY <1>4 DEF IInv, TypeOK, ZoneConsistent, CursorSafe, StillAbsent, MutexHeld,
              RequestKnown, InSection, Found, vars, zone, stats
<1> QED
  BY <1>1, <1>2, <1>3, <1>4 DEF Next, ForwardNext

\* The inductive invariant holds of every behaviour of the zone.
THEOREM InductiveInvariant == Spec => []IInv
BY InitIInv, StepIInv, PTL DEF Spec

\* Type correctness of the zone and its requests, for every instance.
THEOREM TypeCorrect == Spec => []TypeOK
<1>1. IInv => TypeOK
  BY DEF IInv
<1> QED
  BY <1>1, InductiveInvariant, PTL

\* The tree, the queue and the slab always agree, and no address has two nodes
\* (record_locked's lookup-before-insert), whatever the interleaving.
THEOREM ZoneAlwaysConsistent == Spec => []ZoneConsistent
<1>1. IInv => ZoneConsistent
  BY DEF IInv
<1> QED
  BY <1>1, InductiveInvariant, PTL

\* The cursor never outlives the node it points at (the invariant of ban.h).
THEOREM CursorAlwaysSafe == Spec => []CursorSafe
<1>1. IInv => CursorSafe
  BY DEF IInv
<1> QED
  BY <1>1, InductiveInvariant, PTL

\* A lookup that missed under the mutex still misses at the insert.
THEOREM AbsentUntilInsert == Spec => []StillAbsent
<1>1. IInv => StillAbsent
  BY DEF IInv
<1> QED
  BY <1>1, InductiveInvariant, PTL
------------------------------------------------------------------------------
(* One lap of the walk. *)

\* The place of a node in the queue; the list head stands before the first.
Place(q, s) == IF s = Sentinel THEN 0 ELSE Position(q, s)

LEMMA PlaceOfMembers ==
  ASSUME NEW S, Sentinel \notin S, NEW q \in Seq(S), IsInjective(q)
  PROVE  /\ Len(q) \in Nat /\ Place(q, Sentinel) = 0
         /\ Place(q, QueueLast(q)) = Len(q)
         /\ \A s \in ToSet(q) :
              /\ Place(q, s) \in 1..Len(q) /\ q[Place(q, s)] = s
              /\ Place(q, QueuePrev(q, s)) = Place(q, s) - 1
<1>1. Len(q) \in Nat /\ DOMAIN q = 1..Len(q) /\ \A i \in 1..Len(q) : q[i] \in S
  OBVIOUS
<1>2. ASSUME NEW s \in ToSet(q)
      PROVE  /\ Place(q, s) = Position(q, s)
             /\ Position(q, s) \in 1..Len(q) /\ q[Position(q, s)] = s
  <2>1. s \in S
    BY <1>1 DEF ToSet
  <2> QED
    BY <2>1, PositionFound DEF Place
<1>3. ASSUME NEW i \in 1..Len(q) PROVE Place(q, q[i]) = i
  <2>1. q[i] \in ToSet(q)
    BY <1>1 DEF ToSet
  <2>2. q[Position(q, q[i])] = q[i] /\ Position(q, q[i]) \in 1..Len(q)
    BY <2>1, <1>2
  <2> QED
    BY <1>1, <1>2, <2>1, <2>2 DEF IsInjective
<1>4. Place(q, QueueLast(q)) = Len(q)
  <2>1. CASE q = <<>>
    BY <2>1 DEF QueueLast, Place
  <2>2. CASE q # <<>>
    <3>1. Len(q) \in 1..Len(q)
      BY <1>1, <2>2, EmptySeq
    <3>2. QueueLast(q) = q[Len(q)]
      BY <2>2 DEF QueueLast, Last
    <3> QED
      BY <1>3, <3>1, <3>2
  <2> QED
    BY <2>1, <2>2
<1>5. ASSUME NEW s \in ToSet(q)
      PROVE  Place(q, QueuePrev(q, s)) = Position(q, s) - 1
  <2> DEFINE k == Position(q, s)
  <2> SUFFICES Place(q, QueuePrev(q, s)) = k - 1
    OBVIOUS
  <2>1. k \in 1..Len(q)
    BY <1>2
  <2>2. QueuePrev(q, s) = IF k = 1 THEN Sentinel ELSE q[k - 1]
    BY DEF QueuePrev
  <2> HIDE DEF k
  <2>3. CASE k = 1
    BY <2>2, <2>3 DEF Place
  <2>4. CASE k # 1
    <3>1. k - 1 \in 1..Len(q)
      BY <1>1, <2>1, <2>4
    <3> QED
      BY <1>3, <2>2, <2>4, <3>1
  <2> QED
    BY <2>3, <2>4
<1> QED
  BY <1>1, <1>2, <1>4, <1>5 DEF Place

\* A queue without repetition is as long as the set of its members is large.
LEMMA InjectiveLen ==
  ASSUME NEW S, NEW q \in Seq(S), IsInjective(q)
  PROVE  Cardinality(ToSet(q)) = Len(q)
<1>1. Len(q) \in Nat /\ DOMAIN q = 1..Len(q)
  OBVIOUS
<1>2. q \in Bijection(1..Len(q), ToSet(q))
  BY <1>1 DEF Bijection, Injection, Surjection, IsInjective, ToSet
<1>3. ExistsBijection(1..Len(q), ToSet(q))
  BY <1>2 DEF ExistsBijection
<1> QED
  BY <1>1, <1>3, FS_CountingElements

\* The i-th node of the queue is live for the request p.
LiveAt(p, i) == Live(node[queue[i]], req[p].now, req[p].pol.window)

\* A walk that has freed nothing has gone from the cursor to the head, and then
\* from the tail, over live nodes only, and has counted them.
Lap(p) ==
  /\ cursor \in tree \union {Sentinel}
  /\ walk.evicted = 0
  /\ ~walk.wrapped =>
       /\ walk.scanned = Place(queue, cursor) - Place(queue, walk.q)
       /\ \A i \in DOMAIN queue :
            Place(queue, walk.q) < i /\ i <= Place(queue, cursor) => LiveAt(p, i)
  /\ walk.wrapped =>
       /\ walk.scanned = Place(queue, cursor) + Len(queue) - Place(queue, walk.q)
       /\ \A i \in DOMAIN queue :
            Place(queue, walk.q) < i \/ i <= Place(queue, cursor) => LiveAt(p, i)

\* How far place i lies before place k, in a queue of n nodes.
Before(k, i, n) == IF i > k THEN i - k ELSE i + n - k

\* What a walk through a full zone knows, while it lasts and after it.
WalkCovers ==
  \A p \in Proc :
    /\ pc[p] = "expire" /\ free = {} => Lap(p)
    /\ pc[p] = "alloc" /\ free = {} =>
         \A i \in DOMAIN queue :
           Before(Place(queue, cursor), i, Len(queue)) <= SCAN => LiveAt(p, i)

\* While a request is in the section, the others leave the zone and it alone.
LEMMA SectionAlone ==
  ASSUME IInv, [Next]_vars, NEW p \in Proc, InSection(p), ~HolderStep(p)
  PROVE  UNCHANGED <<node, free, tree, queue, cursor, walk, pc[p], req[p]>>
<1> USE DEF IInv
<1>1. lock # NoProc /\ pc \in [Proc -> Labels] /\ req \in [Proc -> Request \union {NoReq}]
  BY NullAssumption DEF MutexHeld, TypeOK
<1>2. ASSUME NEW q \in Proc, HolderStep(q) PROVE q = p
  <2>1. InSection(q)
    BY <1>2 DEF HolderStep, ExpireWrap, ExpireSkip, ExpireEvict, ExpireDone, Insert,
                ZoneFull, InSection
  <2> QED
    BY <2>1, SectionExclusive
<1>3. ASSUME NEW q \in Proc, RequestStep(q)
      PROVE  UNCHANGED <<node, free, tree, queue, cursor, walk, pc[p], req[p]>>
  <2>1. Start(q) \/ InspectClean(q) \/ InspectHit(q)
    BY <1>1, <1>3 DEF RequestStep, Refuse, Admit, RecordKnown, RecordUnknown, CountHit
  <2>2. q # p
    BY <2>1 DEF Start, InspectClean, InspectHit, InSection
  <2> QED
    BY <1>1, <2>1, <2>2 DEF Start, InspectClean, InspectHit, Finish, Goto, zone
<1> QED
  BY <1>2, <1>3 DEF Next, ForwardNext, Tick, StepBack, vars, zone

LEMMA WalkCoversStep ==
  ASSUME IInv, WalkCovers, [Next]_vars
  PROVE  WalkCovers'
<1> USE DEF IInv
<1> SUFFICES ASSUME NEW p \in Proc, free' = {}
             PROVE  /\ pc'[p] = "expire" => Lap(p)'
                    /\ pc'[p] = "alloc" =>
                         \A i \in DOMAIN queue' :
                           Before(Place(queue', cursor'), i, Len(queue')) <= SCAN =>
                             LiveAt(p, i)'
  BY DEF WalkCovers
<1>1. /\ queue \in Seq(Slot) /\ IsInjective(queue) /\ ToSet(queue) = tree
      /\ Sentinel \notin Slot /\ pc \in [Proc -> Labels] /\ tree \subseteq Slot
  BY NullAssumption DEF ZoneConsistent, TypeOK
<1>2. /\ Len(queue) \in Nat /\ DOMAIN queue = 1..Len(queue) /\ Place(queue, Sentinel) = 0
      /\ Place(queue, QueueLast(queue)) = Len(queue)
      /\ \A s \in tree : /\ Place(queue, s) \in 1..Len(queue) /\ queue[Place(queue, s)] = s
                         /\ Place(queue, QueuePrev(queue, s)) = Place(queue, s) - 1
  BY <1>1, PlaceOfMembers
<1>3. walk \in Walk /\ walk.scanned \in Nat /\ walk.q \in tree \union {Sentinel}
  BY DEF TypeOK, Walk, CursorSafe
<1>4. CASE InSection(p) /\ ~HolderStep(p)
  <2>1. UNCHANGED <<node, free, tree, queue, cursor, walk, pc[p], req[p]>>
    BY <1>4, SectionAlone
  <2> QED
    BY <2>1 DEF WalkCovers, Lap, LiveAt
<1>5. CASE ExpireWrap(p)
  <2>1. /\ UNCHANGED <<node, free, tree, queue, cursor, pc, req>> /\ pc[p] = "expire"
        /\ walk.q = Sentinel /\ ~walk.wrapped
        /\ walk' = [walk EXCEPT !.q = QueueLast(queue), !.wrapped = TRUE]
    BY <1>5 DEF ExpireWrap, zone
  <2>2. /\ walk'.q = QueueLast(queue) /\ walk'.wrapped = TRUE
        /\ walk'.scanned = walk.scanned /\ walk'.evicted = walk.evicted
    BY <1>3, <2>1 DEF Walk
  <2>3. Lap(p) /\ \A i : LiveAt(p, i)' = LiveAt(p, i)
    BY <2>1 DEF WalkCovers, LiveAt
  <2>4. Place(queue, cursor) \in Nat
    BY <1>2, <2>3 DEF Lap
  <2>5. Lap(p)'
    BY <1>2, <2>1, <2>2, <2>3, <2>4 DEF Lap
  <2> QED
    BY <2>1, <2>5
<1>6. CASE ExpireSkip(p)
  <2>1. /\ UNCHANGED <<node, free, tree, queue, cursor, pc, req>> /\ pc[p] = "expire"
        /\ walk.q # Sentinel /\ Live(node[walk.q], req[p].now, req[p].pol.window)
        /\ walk' = [walk EXCEPT !.q = QueuePrev(queue, walk.q), !.scanned = @ + 1]
    BY <1>6 DEF ExpireSkip, zone
  <2>2. /\ walk'.q = QueuePrev(queue, walk.q) /\ walk'.wrapped = walk.wrapped
        /\ walk'.scanned = walk.scanned + 1 /\ walk'.evicted = walk.evicted
    BY <1>3, <2>1 DEF Walk
  <2>3. Lap(p) /\ \A i : LiveAt(p, i)' = LiveAt(p, i)
    BY <2>1 DEF WalkCovers, LiveAt
  <2>4. Place(queue, cursor) \in Nat
    BY <1>2, <2>3 DEF Lap
  <2> DEFINE k == Place(queue, walk.q)
  <2>5. k \in 1..Len(queue) /\ LiveAt(p, k) /\ Place(queue, walk'.q) = k - 1
    BY <1>2, <1>3, <2>1, <2>2 DEF LiveAt
  <2>6. \A i \in DOMAIN queue : k - 1 < i => i = k \/ k < i
    BY <1>2, <2>5
  <2> HIDE DEF k
  <2>7. /\ ~walk.wrapped =>
             /\ walk.scanned = Place(queue, cursor) - k
             /\ \A i \in DOMAIN queue : k < i /\ i <= Place(queue, cursor) => LiveAt(p, i)
        /\ walk.wrapped =>
             /\ walk.scanned = Place(queue, cursor) + Len(queue) - k
             /\ \A i \in DOMAIN queue : k < i \/ i <= Place(queue, cursor) => LiveAt(p, i)
        /\ cursor \in tree \union {Sentinel} /\ walk.evicted = 0
    BY <2>3 DEF Lap, k
  <2>8. Lap(p)'
    BY <1>2, <2>1, <2>2, <2>3, <2>4, <2>5, <2>6, <2>7 DEF Lap
  <2> QED
    BY <2>1, <2>8
<1>7. CASE ExpireEvict(p)
  BY <1>7 DEF ExpireEvict
<1>8. CASE ExpireDone(p)
  <2>1. /\ UNCHANGED <<node, free, tree, queue, req>> /\ pc[p] = "expire" /\ pc'[p] = "alloc"
        /\ cursor' = walk.q
        /\ InBudget => walk.q = Sentinel /\ walk.wrapped
    BY <1>1, <1>8 DEF ExpireDone, Goto
  <2>2. Lap(p) /\ \A i : LiveAt(p, i)' = LiveAt(p, i)
    BY <2>1 DEF WalkCovers, LiveAt
  <2> DEFINE k == Place(queue, walk.q)
             c == Place(queue, cursor)
  <2>3. c \in 0..Len(queue) /\ k \in Nat
    BY <1>2, <1>3, <2>2 DEF Lap
  <2> SUFFICES ASSUME NEW i \in DOMAIN queue, Before(k, i, Len(queue)) <= SCAN
               PROVE  LiveAt(p, i)
    BY <2>1, <2>2
  <2>4. CASE InBudget
    BY <1>2, <2>1, <2>2, <2>4 DEF Lap
  <2>5. CASE ~InBudget
    <3>1. walk.scanned >= SCAN /\ SCAN \in Nat
      BY <1>3, <2>2, <2>5, BoundAssumption DEF InBudget, Lap
    <3>2. /\ walk.scanned = IF walk.wrapped THEN c + Len(queue) - k ELSE c - k
          /\ walk.wrapped => (k < i \/ i <= c => LiveAt(p, i))
          /\ ~walk.wrapped => (k < i /\ i <= c => LiveAt(p, i))
      BY <1>3, <2>2 DEF Lap, Walk
    <3> HIDE DEF k, c
    <3> QED
      BY <1>2, <2>3, <3>1, <3>2 DEF Before
  <2> QED
    BY <2>4, <2>5
<1>9. CASE Insert(p) \/ ZoneFull(p)
  BY <1>1, <1>9 DEF Insert, ZoneFull, Goto
<1>10. CASE RecordUnknown(p)
  <2>1. /\ UNCHANGED <<node, free, tree, queue, cursor, req>> /\ pc'[p] = "expire"
        /\ lock = NoProc
        /\ walk' = IF cursor = Sentinel
                     THEN [NoWalk EXCEPT !.q = QueueLast(queue), !.wrapped = TRUE]
                     ELSE [NoWalk EXCEPT !.q = cursor]
    BY <1>1, <1>10 DEF RecordUnknown, zone, Goto
  <2>2. cursor \in tree \union {Sentinel}
    BY <2>1, SectionEmpty DEF CursorSafe, InSection
  <2>3. /\ walk'.scanned = 0 /\ walk'.evicted = 0
        /\ walk'.wrapped = (cursor = Sentinel)
        /\ walk'.q = IF cursor = Sentinel THEN QueueLast(queue) ELSE cursor
    BY <2>1 DEF NoWalk
  <2>4. Place(queue, cursor) \in 0..Len(queue)
    BY <1>2, <2>2
  <2>5. CASE cursor = Sentinel
    <3>1. walk'.wrapped /\ Place(queue, walk'.q) = Len(queue) /\ Place(queue, cursor) = 0
      BY <1>2, <2>3, <2>5
    <3>2. \A i \in DOMAIN queue : ~(Len(queue) < i) /\ ~(i <= 0)
      BY <1>2
    <3> QED
      BY <1>2, <2>1, <2>2, <2>3, <3>1, <3>2 DEF Lap
  <2>6. CASE cursor # Sentinel
    <3>1. ~walk'.wrapped /\ walk'.q = cursor
      BY <2>3, <2>6
    <3>2. \A i \in DOMAIN queue : ~(Place(queue, cursor) < i /\ i <= Place(queue, cursor))
      BY <1>2, <2>4
    <3> QED
      BY <1>2, <2>1, <2>2, <2>3, <2>4, <3>1, <3>2 DEF Lap
  <2> QED
    BY <2>1, <2>5, <2>6
<1>11. CASE ~InSection(p) /\ ~RecordUnknown(p)
  <2>1. ~InSection(p)'
    <3>1. ASSUME NEW q \in Proc, RequestStep(q), q # p \/ ~RecordUnknown(q)
          PROVE  pc'[p] \notin {"expire", "alloc"}
      BY <1>1, <1>11, <3>1
        DEF RequestStep, Start, Refuse, Admit, InspectClean, InspectHit, RecordKnown,
            RecordUnknown, CountHit, Finish, Goto, InSection
    <3>2. ASSUME NEW q \in Proc, HolderStep(q)
          PROVE  pc'[p] \notin {"expire", "alloc"}
      BY <1>1, <1>11, <3>2
        DEF HolderStep, ExpireWrap, ExpireSkip, ExpireEvict, ExpireDone, Insert,
            ZoneFull, Goto, InSection
    <3> QED
      BY <1>11, <3>1, <3>2 DEF Next, ForwardNext, Tick, StepBack, vars, InSection
  <2> QED
    BY <2>1 DEF InSection
<1> QED
  BY <1>4, <1>5, <1>6, <1>7, <1>8, <1>9, <1>10, <1>11 DEF HolderStep

\* A hit is dropped only after a walk that spent its scan budget on live nodes, or
\* looked at every node: the walk resumes at the cursor, wraps once, and no lookup,
\* insert or eviction of another request comes between (expire, and the section's
\* mutex).
THEOREM DropsFollowLiveWalk == Spec => DropOnlyAfterLiveWalk
<1>1. Init => WalkCovers
  BY DEF Init, WalkCovers
<1>2. IInv /\ WalkCovers /\ [Next]_vars => WalkCovers'
  BY WalkCoversStep
<1>3. IInv /\ WalkCovers /\ [Next]_vars =>
        [\A p \in Proc : ZoneFull(p) =>
           \A s \in tree :
             Back(s) <= SCAN => Live(node[s], req[p].now, req[p].pol.window)]_vars
  <2> SUFFICES ASSUME IInv, WalkCovers, NEW p \in Proc, ZoneFull(p), NEW s \in tree,
                      Back(s) <= SCAN
               PROVE  Live(node[s], req[p].now, req[p].pol.window)
    OBVIOUS
  <2>1. /\ queue \in Seq(Slot) /\ IsInjective(queue) /\ ToSet(queue) = tree
        /\ Sentinel \notin Slot /\ tree \subseteq Slot
    BY NullAssumption DEF IInv, ZoneConsistent, TypeOK
  <2>2. Place(queue, s) \in 1..Len(queue) /\ queue[Place(queue, s)] = s
    BY <2>1, PlaceOfMembers
  <2>3. Before(Place(queue, cursor), Place(queue, s), Len(queue)) = Back(s)
    BY <2>1 DEF Place, Before, Back
  <2>4. Place(queue, s) \in DOMAIN queue
    BY <2>1, <2>2
  <2>5. LiveAt(p, Place(queue, s))
    BY <2>3, <2>4 DEF ZoneFull, WalkCovers
  <2> QED
    BY <2>2, <2>5 DEF LiveAt
<1> QED
  BY <1>1, <1>2, <1>3, InductiveInvariant, PTL DEF Spec, DropOnlyAfterLiveWalk

------------------------------------------------------------------------------
(* The hits. *)

\* CountTyped for a request of the zone.
LEMMA StoredCounts ==
  ASSUME NEW n \in Node, NEW r \in Request
  PROVE  LET m == Count(n, r.now, r.pol)
         IN  /\ m.addr = n.addr
             /\ m.hits < r.pol.count
             /\ m.window_start <= r.now
             /\ r.now - m.window_start < r.pol.window
             /\ Arms(n, r.now, r.pol) =>
                  m.banned_until = TimeAddClamp(r.now, r.pol.ban_time)
             /\ ~Arms(n, r.now, r.pol) /\ LiveBan(n, r.now) =>
                  m.banned_until = n.banned_until
             /\ ~Arms(n, r.now, r.pol) => m.banned_until \in {0, n.banned_until}
<1>1. r.pol \in Policies /\ r.now \in Time
  BY DEF Request
<1>2. n \in NodeOf(Addr \union {NoAddr})
  BY DEF Node, NodeOf
<1> QED
  BY <1>1, <1>2, CountTyped, PolicyPositive

\* Where a stored hit goes: to the node of its address, or to a fresh node in a
\* slot that was not in use; no other node changes.
LEMMA StoredAt ==
  ASSUME IInv, NEW p \in Proc, Stored(p)
  PROVE  /\ req[p] \in Request
         /\ \E s \in Slot, n \in Node :
              /\ tree' = tree \union {s}
              /\ n.addr = req[p].addr
              /\ node' = [node EXCEPT ![s] = Count(n, req[p].now, req[p].pol)]
              /\ bans' = IF Arms(n, req[p].now, req[p].pol)
                           THEN (bans + 1) % CounterMod ELSE bans
              /\ s \in tree => n = node[s] /\ pc[p] = "record"
              /\ s \notin tree => /\ n = FreshNode(req[p].addr, req[p].now)
                                 /\ ~Found(req[p].addr)
<1> USE DEF IInv
<1>1. req[p] \in Request
  BY DEF Stored, RecordKnown, Insert, RequestKnown
<1>2. CASE RecordKnown(p)
  <2> DEFINE s == SlotOf(req[p].addr)
  <2>1. s \in tree /\ s \in Slot /\ node[s] \in Node /\ node[s].addr = req[p].addr
    BY <1>2, SlotFound DEF RecordKnown, TypeOK
  <2>2. StoreHit(p, s, node[s]) /\ tree' = tree /\ pc[p] = "record"
    BY <1>2 DEF RecordKnown
  <2> HIDE DEF s
  <2>3. tree' = tree \union {s}
    BY <2>1, <2>2
  <2> QED
    BY <1>1, <2>1, <2>2, <2>3 DEF StoreHit
<1>3. CASE Insert(p)
  <2> DEFINE n == FreshNode(req[p].addr, req[p].now)
  <2>1. PICK s \in free : tree' = tree \union {s} /\ StoreHit(p, s, n)
    BY <1>3 DEF Insert
  <2>2. s \in Slot /\ s \notin tree
    BY DEF ZoneConsistent
  <2>3. n \in Node /\ n.addr = req[p].addr /\ n = FreshNode(req[p].addr, req[p].now)
    BY <1>1, FreshTyped
  <2>4. ~Found(req[p].addr)
    BY <1>3 DEF Insert, StillAbsent, InSection
  <2> HIDE DEF n
  <2> QED
    BY <1>1, <2>1, <2>2, <2>3, <2>4 DEF StoreHit
<1> QED
  BY <1>2, <1>3 DEF Stored

\* Only a stored hit changes a node in use, only an eviction unlinks one.
LEMMA StepKinds ==
  ASSUME [Next]_vars
  PROVE  \/ \E p \in Proc : Stored(p)
         \/ \E p \in Proc : ExpireEvict(p)
         \/ UNCHANGED <<node, tree>>
BY DEF Next, ForwardNext, RequestStep, HolderStep, Stored, Start, Refuse, Admit, InspectClean,
       InspectHit, RecordUnknown, CountHit, ExpireWrap, ExpireSkip, ExpireDone,
       ZoneFull, Tick, StepBack, vars, zone

------------------------------------------------------------------------------
\* No node reaches the threshold of every policy without being armed.
THEOREM BelowThresholdAlways == Spec => []BelowThreshold
<1>1. Init => BelowThreshold
  BY DEF Init, BelowThreshold
<1>2. IInv /\ BelowThreshold /\ [Next]_vars => BelowThreshold'
  <2> SUFFICES ASSUME IInv, BelowThreshold, [Next]_vars, NEW s \in tree'
               PROVE  \E pol \in Policies : node'[s].hits < pol.count
    BY DEF BelowThreshold
  <2>1. CASE \E p \in Proc : Stored(p)
    <3>1. PICK p \in Proc : Stored(p)
      BY <2>1
    <3>2. PICK t \in Slot, n \in Node :
            /\ tree' = tree \union {t}
            /\ node' = [node EXCEPT ![t] = Count(n, req[p].now, req[p].pol)]
      BY <3>1, StoredAt
    <3>3. req[p] \in Request /\ req[p].pol \in Policies
      BY <3>1, StoredAt DEF Request
    <3>4. Count(n, req[p].now, req[p].pol).hits < req[p].pol.count
      BY <3>3, StoredCounts
    <3>5. CASE s = t
      BY <3>2, <3>3, <3>4, <3>5 DEF IInv, TypeOK
    <3>6. CASE s # t
      BY <3>2, <3>6 DEF IInv, TypeOK, BelowThreshold
    <3> QED
      BY <3>5, <3>6
  <2>2. CASE \E p \in Proc : ExpireEvict(p)
    BY <2>2 DEF ExpireEvict, BelowThreshold
  <2>3. CASE UNCHANGED <<node, tree>>
    BY <2>3 DEF BelowThreshold
  <2> QED
    BY <2>1, <2>2, <2>3, StepKinds
<1> QED
  BY <1>1, <1>2, InductiveInvariant, PTL DEF Spec

\* A stored hit counts in a window that contains it, backward steps of the
\* clock and changes of policy included.
THEOREM HitAlwaysInItsWindow == Spec => HitInItsWindow
<1>1. IInv /\ [Next]_vars =>
        [\A p \in Proc : Stored(p) =>
           \E s \in tree' :
             /\ node'[s].addr = req[p].addr
             /\ node'[s].window_start <= req[p].now
             /\ req[p].now - node'[s].window_start < req[p].pol.window]_vars
  <2> SUFFICES ASSUME IInv, NEW p \in Proc, Stored(p)
               PROVE  \E s \in tree' :
                        /\ node'[s].addr = req[p].addr
                        /\ node'[s].window_start <= req[p].now
                        /\ req[p].now - node'[s].window_start < req[p].pol.window
    OBVIOUS
  <2>1. PICK s \in Slot, n \in Node :
          /\ tree' = tree \union {s}
          /\ n.addr = req[p].addr
          /\ node' = [node EXCEPT ![s] = Count(n, req[p].now, req[p].pol)]
    BY StoredAt
  <2>2. req[p] \in Request
    BY StoredAt
  <2>3. node'[s] = Count(n, req[p].now, req[p].pol) /\ s \in tree'
    BY <2>1 DEF IInv, TypeOK
  <2> QED
    BY <2>1, <2>2, <2>3, StoredCounts
<1> QED
  BY <1>1, InductiveInvariant, PTL DEF Spec, HitInItsWindow

\* Arming a ban makes it live, whatever the clock and the ban time: the
\* deadline saturates at the last representable second.
THEOREM ArmedBanAlwaysLive == Spec => ArmedBanIsLive
<1>1. IInv /\ [Next]_vars =>
        [\A p \in Proc : Stored(p) /\ bans' # bans =>
           \E s \in tree' :
             /\ node'[s].addr = req[p].addr
             /\ node'[s].banned_until > req[p].now \/ req[p].now = TimeMax]_vars
  <2> SUFFICES ASSUME IInv, NEW p \in Proc, Stored(p), bans' # bans
               PROVE  \E s \in tree' :
                        /\ node'[s].addr = req[p].addr
                        /\ \/ node'[s].banned_until > req[p].now
                           \/ req[p].now = TimeMax
    OBVIOUS
  <2>1. PICK s \in Slot, n \in Node :
          /\ tree' = tree \union {s}
          /\ n.addr = req[p].addr
          /\ node' = [node EXCEPT ![s] = Count(n, req[p].now, req[p].pol)]
          /\ Arms(n, req[p].now, req[p].pol)
    BY StoredAt
  <2>2. req[p] \in Request /\ req[p].now \in Time /\ req[p].pol \in Policies
    BY StoredAt DEF Request
  <2>3. node'[s] = Count(n, req[p].now, req[p].pol) /\ s \in tree'
    BY <2>1 DEF IInv, TypeOK
  <2>4. /\ node'[s].addr = req[p].addr
        /\ node'[s].banned_until = TimeAddClamp(req[p].now, req[p].pol.ban_time)
    BY <2>1, <2>2, <2>3, StoredCounts
  <2>5. TimeAddClamp(req[p].now, req[p].pol.ban_time) > req[p].now
          \/ req[p].now = TimeMax
    BY <2>2, PolicyPositive, TimeAddClampSaturates
  <2> QED
    BY <2>3, <2>4, <2>5
<1> QED
  BY <1>1, InductiveInvariant, PTL DEF Spec, ArmedBanIsLive

------------------------------------------------------------------------------
(* A live ban is kept. *)

\* A clock that only moves forward is one of those allowed.
LEMMA ForwardStep == [ForwardNext]_vars => [Next]_vars
BY DEF Next

LEMMA ForwardIsSpec == ForwardSpec => Spec
BY ForwardStep, PTL DEF ForwardSpec, Spec

\* Every request carries a time that the wall clock has shown.
TimeShown == \A p \in Proc : pc[p] # "idle" => req[p].now \in 1..clock

\* A request that moves on keeps its time or takes one the clock has shown.
LEMMA TimeShownStep ==
  ASSUME IInv, TimeShown, [ForwardNext]_vars
  PROVE  TimeShown'
<1> USE DEF IInv
<1>0. clock \in Nat \ {0}
  BY BoundAssumption DEF TypeOK
<1>1. ASSUME NEW p \in Proc, Start(p) PROVE TimeShown'
  BY <1>0, <1>1 DEF Start, Goto, TimeShown, TypeOK
<1>2. ASSUME NEW p \in Proc, InspectHit(p) PROVE TimeShown'
  <2>1. PICK t \in CachedTimes(p) : req' = [req EXCEPT ![p].now = t]
    BY <1>2 DEF InspectHit
  <2>2. req[p] \in Request /\ req[p].now \in 1..clock
    BY <1>2 DEF InspectHit, RequestKnown, TimeShown
  <2>3. t \in 1..clock
    BY <1>0, <2>2, TimeMaxAssumption DEF CachedTimes, Time
  <2>4. \A q \in Proc : req'[q].now = IF q = p THEN t ELSE req[q].now
    BY <2>1, <2>2 DEF TypeOK, Request
  <2>5. \A q \in Proc : pc'[q] # "idle" => q = p \/ pc[q] # "idle"
    BY <1>2 DEF InspectHit, Goto, TypeOK
  <2> QED
    BY <1>2, <2>3, <2>4, <2>5 DEF InspectHit, TimeShown
<1>3. ASSUME NEW p \in Proc,
             \/ Refuse(p) \/ Admit(p) \/ InspectClean(p) \/ RecordKnown(p)
             \/ RecordUnknown(p) \/ CountHit(p) \/ HolderStep(p)
      PROVE  TimeShown'
  <2>1. clock' = clock
    BY <1>3 DEF Refuse, Admit, InspectClean, RecordKnown, RecordUnknown, CountHit,
                HolderStep, ExpireWrap, ExpireSkip, ExpireEvict, ExpireDone, Insert,
                ZoneFull
  <2>2. \/ req' = req /\ pc[p] # "idle" /\ \E label \in Labels : Goto(p, label)
        \/ req' = req /\ pc' = pc
        \/ Finish(p)
    BY <1>3 DEF Refuse, Admit, InspectClean, RecordKnown, RecordUnknown, CountHit,
                HolderStep, ExpireWrap, ExpireSkip, ExpireEvict, ExpireDone, Insert,
                ZoneFull, Labels
  <2>3. CASE Finish(p)
    BY <2>1, <2>3 DEF Finish, Goto, TimeShown, TypeOK
  <2> QED
    BY <2>1, <2>2, <2>3 DEF Goto, TimeShown, TypeOK
<1>4. CASE Tick
  BY <1>0, <1>4 DEF Tick, TimeShown
<1>5. CASE UNCHANGED vars
  BY <1>5 DEF TimeShown, vars
<1> QED
  BY <1>1, <1>2, <1>3, <1>4, <1>5 DEF ForwardNext, RequestStep

\* The times requests carry, for every behaviour on a clock that goes forward.
LEMMA TimeAlwaysShown == ForwardSpec => []TimeShown
<1>1. Init => TimeShown
  BY DEF Init, TimeShown
<1>2. IInv /\ TimeShown /\ [ForwardNext]_vars => TimeShown'
  BY TimeShownStep
<1> QED
  BY <1>1, <1>2, ForwardIsSpec, InductiveInvariant, PTL DEF ForwardSpec

\* A ban that is live by the wall clock keeps its node, its client and its end;
\* only a hit of the client that arms it again moves the end.
THEOREM LiveBanAlwaysKept == ForwardSpec => LiveBanKept
<1>1. IInv /\ TimeShown /\ [Next]_vars =>
        [\A s \in tree :
           LiveBan(node[s], clock) =>
             /\ s \in tree'
             /\ node'[s].addr = node[s].addr
             /\ \/ node'[s].banned_until = node[s].banned_until
                \/ \E p \in Proc :
                     /\ pc[p] = "record" /\ req[p].addr = node[s].addr
                     /\ node'[s].banned_until =
                          TimeAddClamp(req[p].now, req[p].pol.ban_time)]_vars
  <2> SUFFICES ASSUME IInv, TimeShown, [Next]_vars,
                      NEW s \in tree, LiveBan(node[s], clock)
               PROVE  /\ s \in tree'
                      /\ node'[s].addr = node[s].addr
                      /\ \/ node'[s].banned_until = node[s].banned_until
                         \/ \E p \in Proc :
                              /\ pc[p] = "record" /\ req[p].addr = node[s].addr
                              /\ node'[s].banned_until =
                                   TimeAddClamp(req[p].now, req[p].pol.ban_time)
    OBVIOUS
  <2> USE DEF IInv
  <2>1. s \in Slot /\ node[s] \in Node /\ clock \in Int
    BY BoundAssumption DEF TypeOK
  <2>2. ASSUME NEW p \in Proc, req[p] \in Request, pc[p] # "idle"
        PROVE  LiveBan(node[s], req[p].now)
    BY <2>1, <2>2, TimeMaxAssumption DEF TimeShown, LiveBan, Request, Node, Time
  <2>3. CASE \E p \in Proc : Stored(p)
    <3>1. PICK p \in Proc : Stored(p)
      BY <2>3
    <3>2. PICK t \in Slot, n \in Node :
            /\ tree' = tree \union {t}
            /\ n.addr = req[p].addr
            /\ node' = [node EXCEPT ![t] = Count(n, req[p].now, req[p].pol)]
            /\ t \in tree => n = node[t] /\ pc[p] = "record"
      BY <3>1, StoredAt
    <3>3. req[p] \in Request /\ pc[p] # "idle"
      BY <3>1, StoredAt DEF Stored, RecordKnown, Insert
    <3>4. CASE s = t
      <4>1. node'[s] = Count(node[s], req[p].now, req[p].pol)
        BY <2>1, <3>2, <3>4 DEF TypeOK
      <4>2. LiveBan(node[s], req[p].now)
        BY <2>2, <3>3
      <4> QED
        BY <2>1, <3>2, <3>3, <3>4, <4>1, <4>2, StoredCounts
    <3>5. CASE s # t
      BY <2>1, <3>2, <3>5 DEF TypeOK
    <3> QED
      BY <3>4, <3>5
  <2>4. CASE \E p \in Proc : ExpireEvict(p)
    <3>1. PICK p \in Proc : ExpireEvict(p)
      BY <2>4
    <3>2. req[p] \in Request /\ pc[p] # "idle"
      BY <3>1 DEF ExpireEvict, RequestKnown
    <3>3. walk.q # s
      BY <2>2, <3>1, <3>2 DEF ExpireEvict, Live
    <3> QED
      BY <3>1, <3>3 DEF ExpireEvict
  <2>5. CASE UNCHANGED <<node, tree>>
    BY <2>5
  <2> QED
    BY <2>3, <2>4, <2>5, StepKinds
<1> QED
  BY <1>1, ForwardIsSpec, TimeAlwaysShown, InductiveInvariant, PTL DEF Spec, LiveBanKept

------------------------------------------------------------------------------
(***************************************************************************)
(* The zone implements the per-address policy, for every instance whose    *)
(* clock goes forward.  A stored hit is the policy's Hit of its address,   *)
(* an eviction its Forget, a tick its Tick; every other step of the zone   *)
(* leaves the entries alone.  That an entry is one node, and changes with  *)
(* no other, is ZoneConsistent; that a node in use has a client's address  *)
(* is KeysKnown.                                                           *)
(***************************************************************************)

\* The nodes in use hold addresses of clients.
KeysKnown == \A s \in tree : node[s].addr \in Addr

LEMMA KeysKnownStep ==
  ASSUME IInv, KeysKnown, [Next]_vars
  PROVE  KeysKnown'
<1> USE DEF IInv
<1>1. CASE \E p \in Proc : Stored(p)
  <2>1. PICK p \in Proc : Stored(p)
    BY <1>1
  <2>2. PICK s \in Slot, n \in Node :
          /\ tree' = tree \union {s}
          /\ n.addr = req[p].addr
          /\ node' = [node EXCEPT ![s] = Count(n, req[p].now, req[p].pol)]
    BY <2>1, StoredAt
  <2>3. req[p] \in Request /\ req[p].addr \in Addr
    BY <2>1, StoredAt DEF Request
  <2>4. node'[s].addr \in Addr
    BY <2>2, <2>3, StoredCounts DEF TypeOK
  <2> QED
    BY <2>2, <2>4 DEF KeysKnown, TypeOK
<1>2. CASE \E p \in Proc : ExpireEvict(p)
  BY <1>2 DEF ExpireEvict, KeysKnown
<1>3. CASE UNCHANGED <<node, tree>>
  BY <1>3 DEF KeysKnown
<1> QED
  BY <1>1, <1>2, <1>3, StepKinds

LEMMA KeysAlwaysKnown == Spec => []KeysKnown
<1>1. Init => KeysKnown
  BY DEF Init, KeysKnown
<1>2. IInv /\ KeysKnown /\ [Next]_vars => KeysKnown'
  BY KeysKnownStep
<1> QED
  BY <1>1, <1>2, InductiveInvariant, PTL DEF Spec

------------------------------------------------------------------------------
\* The entry of an address is the one node in use that holds it.
LEMMA EntryIsNode ==
  ASSUME ZoneConsistent, NEW s \in tree
  PROVE  Found(node[s].addr) /\ SlotOf(node[s].addr) = s
         /\ EntryOf(node[s].addr) = node[s]
<1>1. Found(node[s].addr)
  BY DEF Found
<1>2. SlotOf(node[s].addr) = s
  BY <1>1, SlotFound DEF ZoneConsistent
<1> QED
  BY <1>1, <1>2 DEF EntryOf

\* The entries in the next state.
LEMMA EntryNext ==
  ASSUME ZoneConsistent', NEW a
  PROVE  /\ \A s \in tree' : node'[s].addr = a => EntryOf(a)' = node'[s]
         /\ (\A s \in tree' : node'[s].addr # a) => EntryOf(a)' = Absent
<1>1. ASSUME NEW s \in tree', node'[s].addr = a PROVE EntryOf(a)' = node'[s]
  <2>1. Found(a)'
    BY <1>1 DEF Found
  <2>2. SlotOf(a)' \in tree' /\ node'[SlotOf(a)'].addr = a
    BY <2>1 DEF Found, SlotOf
  <2>3. SlotOf(a)' = s
    BY <1>1, <2>2 DEF ZoneConsistent
  <2> QED
    BY <2>1, <2>3 DEF EntryOf
<1>2. ASSUME \A s \in tree' : node'[s].addr # a PROVE EntryOf(a)' = Absent
  BY <1>2 DEF EntryOf, Found
<1> QED
  BY <1>1, <1>2

\* A node in use that a step leaves alone keeps its entry.
LEMMA EntryKept ==
  ASSUME IInv, IInv', NEW a,
         \A s \in Slot : /\ s \in tree /\ node[s].addr = a =>
                              s \in tree' /\ node'[s] = node[s]
                         /\ s \in tree' /\ node'[s].addr = a =>
                              s \in tree /\ node[s].addr = a
  PROVE  EntryOf(a)' = EntryOf(a)
<1>1. ZoneConsistent /\ ZoneConsistent' /\ tree \subseteq Slot /\ tree' \subseteq Slot
  BY DEF IInv, TypeOK
<1>2. CASE Found(a)
  <2>1. PICK s \in tree : node[s].addr = a
    BY <1>2 DEF Found
  <2> QED
    BY <1>1, <2>1, EntryIsNode, EntryNext
<1>3. CASE ~Found(a)
  <2>1. \A s \in tree' : node'[s].addr # a
    BY <1>1, <1>3 DEF Found
  <2> QED
    BY <1>1, <1>3, <2>1, EntryNext DEF EntryOf
<1> QED
  BY <1>2, <1>3

------------------------------------------------------------------------------

\* The policy's operators on a node are those of the zone.
LEMMA SameCounting ==
  /\ \A n, t, pol : Policy!Count(n, t, pol) = Count(n, t, pol)
  /\ \A a, t : Policy!FreshNode(a, t) = FreshNode(a, t)
  /\ \A n, t, w : Policy!Live(n, t, w) <=> Live(n, t, w)
<1>1. \A t, d : Policy!TimeAddClamp(t, d) = TimeAddClamp(t, d)
  BY DEF Policy!TimeAddClamp, TimeAddClamp
<1>2. \A n, t : Policy!Retire(n, t) = Retire(n, t)
  BY DEF Policy!Retire, Retire
<1>3. \A n, t, w : Policy!RollWindow(n, t, w) = RollWindow(n, t, w)
  BY DEF Policy!RollWindow, RollWindow
<1>4. \A n, t, pol : Policy!Arms(n, t, pol) = Arms(n, t, pol)
  BY <1>3 DEF Policy!Arms, Arms
<1>5. \A n, t, pol : Policy!Count(n, t, pol) = Count(n, t, pol)
  <2> SUFFICES ASSUME NEW n, NEW t, NEW pol
               PROVE  Policy!Count(n, t, pol) = Count(n, t, pol)
    OBVIOUS
  <2>1. Policy!RollWindow(Policy!Retire(n, t), t, pol.window) =
          RollWindow(Retire(n, t), t, pol.window)
    BY <1>2, <1>3
  <2> QED
    BY <1>1, <1>4, <2>1 DEF Policy!Count, Count
<1>6. \A n, t, w : Policy!Live(n, t, w) <=> Live(n, t, w)
  <2>1. \A n, t : Policy!LiveBan(n, t) <=> LiveBan(n, t)
    BY DEF Policy!LiveBan, LiveBan
  <2>2. \A n, t, w : Policy!LiveWindow(n, t, w) <=> LiveWindow(n, t, w)
    BY <1>1 DEF Policy!LiveWindow, LiveWindow
  <2> QED
    BY <2>1, <2>2 DEF Policy!Live, Live
<1> QED
  BY <1>5, <1>6 DEF Policy!FreshNode, FreshNode

\* A stored hit is the policy's hit of its address.
LEMMA StoredIsHit ==
  ASSUME IInv, IInv', TimeShown, NEW p \in Proc, Stored(p)
  PROVE  Policy!Next
<1>1. /\ req[p] \in Request /\ req[p].addr \in Addr
      /\ req[p].pol \in Policies /\ req[p].now \in 1..clock
  BY StoredAt DEF Stored, RecordKnown, Insert, TimeShown, Request
<1>2. PICK r \in Request : r = req[p]
  BY <1>1
<1>3. PICK a \in Addr : a = r.addr
  BY <1>1, <1>2
<1>4. PICK s \in Slot, n \in Node :
        /\ tree' = tree \union {s}
        /\ n.addr = a
        /\ node' = [node EXCEPT ![s] = Count(n, r.now, r.pol)]
        /\ s \in tree => n = node[s]
        /\ s \notin tree => n = FreshNode(a, r.now) /\ ~Found(a)
  BY <1>2, <1>3, StoredAt
<1>5. node'[s] = Count(n, r.now, r.pol) /\ node'[s].addr = a
  BY <1>4, StoredCounts DEF IInv, TypeOK
<1>6. EntryOf(a)' = Count(n, r.now, r.pol)
  BY <1>4, <1>5, EntryNext DEF IInv
<1>7. \A b \in Addr \ {a} : EntryOf(b)' = EntryOf(b)
  <2> SUFFICES ASSUME NEW b \in Addr \ {a} PROVE EntryOf(b)' = EntryOf(b)
    OBVIOUS
  <2>1. ASSUME NEW t \in Slot, t # s
        PROVE  node'[t] = node[t] /\ (t \in tree' <=> t \in tree)
    BY <1>4, <2>1 DEF IInv, TypeOK
  <2>2. s \in tree => node[s].addr = a
    BY <1>4
  <2> QED
    BY <1>5, <2>1, <2>2, EntryKept
<1>8. n = IF EntryOf(a) = Absent THEN FreshNode(a, r.now) ELSE EntryOf(a)
  <2>1. CASE s \in tree
    <3>1. EntryOf(a) = n /\ n # Absent
      BY <1>4, <2>1, EntryIsNode, AbsentAssumption DEF IInv
    <3> QED
      BY <3>1
  <2>2. CASE s \notin tree
    BY <1>4, <2>2 DEF EntryOf
  <2> QED
    BY <2>1, <2>2
<1>9. [b \in Addr |-> EntryOf(b)]' =
        [[b \in Addr |-> EntryOf(b)] EXCEPT ![a] = Count(n, r.now, r.pol)]
  BY <1>6, <1>7
<1>10. [b \in Addr |-> EntryOf(b)]' =
         [[b \in Addr |-> EntryOf(b)] EXCEPT ![a] =
            Policy!Count(IF @ = Absent THEN Policy!FreshNode(a, r.now) ELSE @,
                         r.now, r.pol)]
  BY <1>8, <1>9, SameCounting
<1>11. clock' = clock
  BY DEF Stored, RecordKnown, Insert
<1>12. Policy!Hit(a)
  BY <1>1, <1>2, <1>10, <1>11 DEF Policy!Hit
<1> QED
  BY <1>12 DEF Policy!Next

\* An eviction is the policy's forgetting of a stale entry.
LEMMA EvictionIsForget ==
  ASSUME IInv, IInv', TimeShown, KeysKnown, NEW p \in Proc, ExpireEvict(p)
  PROVE  Policy!Next
<1>1. PICK s \in tree :
        /\ tree' = tree \ {s} /\ node' = node /\ clock' = clock
        /\ ~Live(node[s], req[p].now, req[p].pol.window)
  BY DEF ExpireEvict, IInv, CursorSafe
<1>2. PICK a \in Addr : a = node[s].addr
  BY DEF KeysKnown
<1>3. node[s] \in Node
  BY DEF IInv, TypeOK
<1>4. /\ req[p].now \in 1..clock /\ req[p].pol \in Policies
  BY DEF ExpireEvict, TimeShown, IInv, RequestKnown, Request
<1>5. EntryOf(a) = node[s] /\ EntryOf(a) # Absent
  BY <1>2, <1>3, EntryIsNode, AbsentAssumption DEF IInv
<1>6. \A t \in tree' : node'[t].addr # a
  BY <1>1, <1>2 DEF IInv, ZoneConsistent
<1>7. EntryOf(a)' = Absent
  BY <1>6, EntryNext DEF IInv
<1>8. \A b \in Addr \ {a} : EntryOf(b)' = EntryOf(b)
  BY <1>1, <1>2, EntryKept
<1>9. [b \in Addr |-> EntryOf(b)]' = [[b \in Addr |-> EntryOf(b)] EXCEPT ![a] = Absent]
  BY <1>7, <1>8
<1>10. ~Policy!Live([b \in Addr |-> EntryOf(b)][a], req[p].now, req[p].pol.window)
  BY <1>1, <1>5, SameCounting
<1>11. Policy!Forget(a)
  BY <1>1, <1>4, <1>5, <1>9, <1>10 DEF Policy!Forget
<1> QED
  BY <1>11 DEF Policy!Next

\* Every step of the zone is a step of the policy or leaves it alone.
LEMMA StepRefines ==
  ASSUME IInv, IInv', TimeShown, KeysKnown, [ForwardNext]_vars
  PROVE  [Policy!Next]_(Policy!policyVars)
<1>0. [Next]_vars
  BY ForwardStep
<1>1. CASE \E p \in Proc : Stored(p)
  BY <1>1, StoredIsHit
<1>2. CASE \E p \in Proc : ExpireEvict(p)
  BY <1>2, EvictionIsForget
<1>3. CASE UNCHANGED <<node, tree>>
  <2>1. [b \in Addr |-> EntryOf(b)]' = [b \in Addr |-> EntryOf(b)]
    BY <1>3 DEF EntryOf, Found, SlotOf
  <2>2. Tick \/ clock' = clock
    BY DEF ForwardNext, RequestStep, HolderStep, Start, Refuse, Admit, InspectClean,
           InspectHit, RecordKnown, RecordUnknown, CountHit, ExpireWrap, ExpireSkip,
           ExpireEvict, ExpireDone, Insert, ZoneFull, vars
  <2>3. CASE Tick
    BY <2>1, <2>3 DEF Tick, Policy!Next, Policy!Tick
  <2>4. CASE clock' = clock
    BY <2>1, <2>4 DEF Policy!policyVars
  <2> QED
    BY <2>2, <2>3, <2>4
<1> QED
  BY <1>0, <1>1, <1>2, <1>3, StepKinds

\* The zone implements the per-address policy, whatever the slots, the order of
\* the queue, the cursor and the interleaving of requests.
THEOREM ZoneImplementsPolicy == ForwardSpec => ImplementsPolicy
<1>1. Init => Policy!Init
  BY DEF Init, Policy!Init, EntryOf, Found
<1>2. IInv /\ IInv' /\ TimeShown /\ KeysKnown /\ [ForwardNext]_vars
        => [Policy!Next]_(Policy!policyVars)
  BY StepRefines
<1> QED
  BY <1>1, <1>2, ForwardIsSpec, InductiveInvariant, TimeAlwaysShown, KeysAlwaysKnown,
     PTL DEF ForwardSpec, ImplementsPolicy, Policy!Spec

------------------------------------------------------------------------------
(* The status document. *)

\* A request that may still arm a ban.
Coming == {p \in Proc : pc[p] \in {"check", "inspect", "record", "expire", "alloc"}}

\* A request on its way.
Unfinished == {p \in Proc : pc[p] # "idle"}

Armed == {s \in tree : node[s].banned_until # 0}

EndsBy(until, t) == \E pol \in Policies : until <= TimeAddClamp(t, pol.ban_time)

\* No time in use is after the latest second the clock has shown.
TimesPast ==
  /\ latest \in Time /\ clock <= latest
  /\ \A p \in Proc : pc[p] # "idle" => req[p].now <= latest
  /\ \A s \in Armed : EndsBy(node[s].banned_until, latest)

\* Every request arms one ban at most, and an armed node is one of those bans.
BansCounted ==
  /\ arrived \in 0..MaxRequests
  /\ IsFiniteSet(Coming) /\ bans + Cardinality(Coming) <= arrived
  /\ IsFiniteSet(Armed) /\ Cardinality(Armed) <= bans

\* The counters that the categories lag behind, and how far they may.
TotalsCounted ==
  /\ Total(cat_hits) \in Nat /\ blocked <= Total(cat_hits)
  /\ IsFiniteSet(InFlight) /\ bans <= Total(cat_hits) + Cardinality(InFlight)
  /\ IsFiniteSet(Unfinished) /\ Total(cat_hits) + Cardinality(Unfinished) <= arrived

\* What a scrape has taken so far.
DocInv ==
  /\ DOMAIN doc = DOMAIN NoDoc
  /\ doc.now \in Time
  /\ doc.at \in {"buffer", "list"} =>
       doc.nodes \in Nat /\ doc.before.nodes = doc.nodes /\ doc.bans \in 0..bans
  /\ doc.at = "list" => doc.room = doc.nodes + SLACK
  /\ Written => doc.after.bans \in Nat

\* The totals a scrape has taken, and keeps.
TotalsTaken ==
  doc.at \in {"buffer", "list", "header", "sent"} =>
    /\ doc.blocked <= Total(doc.cat_hits)
    /\ doc.bans <= Total(doc.cat_hits) + doc.before.flight

DocumentsSound == BansCoverList /\ CutOnlyIfOutgrown /\ ListedBansRun

StatusInv ==
  TimesPast /\ BansCounted /\ TotalsCounted /\ DocInv /\ TotalsTaken /\ DocumentsSound

------------------------------------------------------------------------------
(* The zone, as the status document sees it. *)

\* The status endpoint only reads the zone.
LEMMA StatusIsSpec == StatusSpec => Spec
<1>1. StatusInit => Init
  BY DEF StatusInit
<1>2. [StatusNext]_svars => [Next]_vars
  BY DEF StatusNext, StatusStep, ZoneStep, ClockStepsBack, Next, svars
<1> QED
  BY <1>1, <1>2, PTL DEF StatusSpec, Spec

LEMMA CounterBounds ==
  /\ MaxRequests \in Nat /\ CounterMod \in Nat \ {0} /\ MaxRequests < CounterMod
  /\ SLACK \in Nat /\ TimeMax \in Nat \ {0} /\ MaxClock \in 1..TimeMax
BY StatusAssumption, BoundAssumption, TimeMaxAssumption

\* A later time makes a later deadline.
LEMMA EndsLater ==
  ASSUME NEW t \in Time, NEW u \in Time, t <= u, NEW until \in Int, EndsBy(until, t)
  PROVE  EndsBy(until, u)
<1>1. PICK pol \in Policies : until <= TimeAddClamp(t, pol.ban_time)
  BY DEF EndsBy
<1>2. pol.ban_time \in Nat
  BY PolicyPositive DEF Positive
<1>3. TimeAddClamp(t, pol.ban_time) <= TimeAddClamp(u, pol.ban_time)
  BY <1>2, TimeMaxAssumption DEF TimeAddClamp, Time
<1>4. TimeAddClamp(t, pol.ban_time) \in Int /\ TimeAddClamp(u, pol.ban_time) \in Int
  BY <1>2, TimeMaxAssumption DEF TimeAddClamp, Time
<1> QED
  BY <1>1, <1>3, <1>4 DEF EndsBy

\* The latest second moves with the clock.
LEMMA LatestMoves ==
  ASSUME IInv, IInv', TimesPast, ZoneStep
  PROVE  /\ latest' \in Time /\ latest <= latest' /\ clock' <= latest'
         /\ clock \in Nat /\ clock' \in Nat /\ clock \in Time
<1>1. clock' \in 1..MaxClock /\ clock \in 1..MaxClock
  BY DEF IInv, TypeOK
<1> QED
  BY <1>1, CounterBounds DEF TimesPast, ZoneStep, Time

LEMMA RequestTimesPast ==
  ASSUME IInv, IInv', TimesPast, ZoneStep
  PROVE  \A p \in Proc : pc'[p] # "idle" => req'[p].now <= latest'
<1> USE DEF IInv
<1>0. /\ latest' \in Time /\ latest <= latest' /\ clock' <= latest' /\ latest \in Time
      /\ clock \in Nat /\ clock' \in Nat
  BY LatestMoves DEF TimesPast
<1>1. ASSUME NEW p \in Proc, pc[p] # "idle"
      PROVE  req[p].now <= latest' /\ req[p] \in Request /\ req[p].now \in Time
  <2>1. req[p] \in Request /\ req[p].now \in Time
    BY <1>1 DEF RequestKnown, Request
  <2> QED
    BY <1>0, <1>1, <2>1, TimeMaxAssumption DEF TimesPast, Time
<1>2. ASSUME NEW p \in Proc, Start(p)
      PROVE  \A q \in Proc : pc'[q] # "idle" => req'[q].now <= latest'
  BY <1>0, <1>1, <1>2 DEF Start, Goto, TypeOK
<1>3. ASSUME NEW p \in Proc, InspectHit(p)
      PROVE  \A q \in Proc : pc'[q] # "idle" => req'[q].now <= latest'
  <2>1. PICK t \in CachedTimes(p) : req' = [req EXCEPT ![p].now = t]
    BY <1>3 DEF InspectHit
  <2>2. req[p] \in Request /\ pc[p] = "inspect" /\ clock' = clock
    BY <1>3 DEF InspectHit, RequestKnown
  <2>3. t <= latest'
    BY <1>0, <2>2, TimeMaxAssumption DEF CachedTimes, Time, Request
  <2>4. \A q \in Proc : req'[q].now = IF q = p THEN t ELSE req[q].now
    BY <2>1, <2>2 DEF TypeOK, Request
  <2>5. \A q \in Proc : pc'[q] # "idle" => q = p \/ pc[q] # "idle"
    BY <1>3 DEF InspectHit, Goto, TypeOK
  <2> QED
    BY <1>1, <2>3, <2>4, <2>5
<1>4. ASSUME NEW p \in Proc,
             \/ Refuse(p) \/ Admit(p) \/ InspectClean(p) \/ RecordKnown(p)
             \/ RecordUnknown(p) \/ CountHit(p) \/ HolderStep(p)
      PROVE  \A q \in Proc : pc'[q] # "idle" => req'[q].now <= latest'
  <2>1. \/ req' = req /\ pc[p] # "idle" /\ \E label \in Labels : Goto(p, label)
        \/ req' = req /\ pc' = pc
        \/ Finish(p)
    BY <1>4 DEF Refuse, Admit, InspectClean, RecordKnown, RecordUnknown, CountHit,
                HolderStep, ExpireWrap, ExpireSkip, ExpireEvict, ExpireDone, Insert,
                ZoneFull, Labels
  <2>2. CASE Finish(p)
    BY <1>1, <2>2 DEF Finish, Goto, TypeOK
  <2> QED
    BY <1>1, <2>1, <2>2 DEF Goto, TypeOK
<1>5. CASE Tick
  BY <1>1, <1>5 DEF Tick
<1> QED
  BY <1>2, <1>3, <1>4, <1>5 DEF ZoneStep, ForwardNext, RequestStep

\* Where a ban can come from: it was there, or the stored hit arms it.
LEMMA ArmedNext ==
  ASSUME IInv, [Next]_vars
  PROVE  \/ /\ \A s \in Armed' : s \in Armed /\ node'[s].banned_until = node[s].banned_until
            /\ bans' = bans
         \/ \E p \in Proc, s \in Slot :
              /\ Stored(p) /\ bans' = (bans + 1) % CounterMod
              /\ Armed' \subseteq Armed \union {s}
              /\ node'[s].banned_until = TimeAddClamp(req[p].now, req[p].pol.ban_time)
              /\ \A t \in Armed' \ {s} : node'[t].banned_until = node[t].banned_until
<1> USE DEF IInv
<1>1. CASE \E p \in Proc : Stored(p)
  <2>1. PICK p \in Proc : Stored(p)
    BY <1>1
  <2>2. PICK s \in Slot, n \in Node :
          /\ tree' = tree \union {s}
          /\ node' = [node EXCEPT ![s] = Count(n, req[p].now, req[p].pol)]
          /\ bans' = IF Arms(n, req[p].now, req[p].pol)
                       THEN (bans + 1) % CounterMod ELSE bans
          /\ s \in tree => n = node[s]
          /\ s \notin tree => n = FreshNode(req[p].addr, req[p].now)
    BY <2>1, StoredAt
  <2>3. req[p] \in Request
    BY <2>1, StoredAt
  <2> DEFINE m == Count(n, req[p].now, req[p].pol)
  <2>4. /\ Arms(n, req[p].now, req[p].pol) =>
             m.banned_until = TimeAddClamp(req[p].now, req[p].pol.ban_time)
        /\ ~Arms(n, req[p].now, req[p].pol) => m.banned_until \in {0, n.banned_until}
    BY <2>3, StoredCounts
  <2>5. node'[s] = m /\ \A t \in Slot \ {s} : node'[t] = node[t]
    BY <2>2 DEF TypeOK
  <2>6. tree \subseteq Slot /\ Armed' \subseteq tree \union {s}
    BY <2>2 DEF TypeOK, Armed
  <2> HIDE DEF m
  <2>7. \A t \in Armed' \ {s} : t \in Armed /\ node'[t].banned_until = node[t].banned_until
    BY <2>5, <2>6 DEF Armed
  <2>8. CASE Arms(n, req[p].now, req[p].pol)
    BY <2>1, <2>2, <2>4, <2>5, <2>7, <2>8
  <2>9. CASE ~Arms(n, req[p].now, req[p].pol)
    <3>1. ASSUME s \in Armed'
          PROVE  s \in Armed /\ node'[s].banned_until = node[s].banned_until
      <4>1. m.banned_until # 0 /\ m.banned_until = n.banned_until
        BY <2>4, <2>5, <2>9, <3>1 DEF Armed
      <4>2. s \in tree
        BY <2>2, <4>1 DEF FreshNode
      <4> QED
        BY <2>2, <2>5, <4>1, <4>2 DEF Armed
    <3> QED
      BY <2>2, <2>7, <2>9, <3>1
  <2> QED
    BY <2>8, <2>9
<1>2. CASE ~\E p \in Proc : Stored(p)
  <2>1. bans' = bans
    BY <1>2 DEF Next, ForwardNext, RequestStep, HolderStep, Stored, Start, Refuse, Admit,
                InspectClean, InspectHit, RecordUnknown, CountHit, ExpireWrap, ExpireSkip,
                ExpireEvict, ExpireDone, ZoneFull, Tick, StepBack, vars, stats
  <2>2. tree' \subseteq tree /\ node' = node
    <3>1. CASE \E p \in Proc : ExpireEvict(p)
      BY <3>1 DEF ExpireEvict
    <3> QED
      BY <1>2, <3>1, StepKinds
  <2> QED
    BY <2>1, <2>2 DEF Armed
<1> QED
  BY <1>1, <1>2

LEMMA TimesStayPast ==
  ASSUME IInv, IInv', TimesPast, ZoneStep
  PROVE  TimesPast'
<1> USE DEF IInv
<1>1. /\ latest' \in Time /\ latest <= latest' /\ clock' <= latest' /\ latest \in Time
  BY LatestMoves DEF TimesPast
<1>2. [Next]_vars
  BY DEF ZoneStep, Next
<1>3. \A s \in tree : node[s].banned_until \in Int
  BY TimeMaxAssumption DEF TypeOK, Node, Time
<1>4. ASSUME NEW s \in Armed
      PROVE  EndsBy(node[s].banned_until, latest')
  BY <1>1, <1>3, EndsLater DEF TimesPast, Armed
<1>5. ASSUME NEW p \in Proc, Stored(p)
      PROVE  EndsBy(TimeAddClamp(req[p].now, req[p].pol.ban_time), latest')
  <2>1. req[p] \in Request /\ pc[p] # "idle"
    BY <1>5, StoredAt DEF Stored, RecordKnown, Insert
  <2>2. req[p].now \in Time /\ req[p].pol \in Policies /\ req[p].now <= latest'
    BY <1>1, <2>1, TimeMaxAssumption DEF Request, TimesPast, Time
  <2>3. TimeAddClamp(req[p].now, req[p].pol.ban_time) \in Int
    BY <2>2, PolicyPositive, TimeMaxAssumption DEF TimeAddClamp, Time, Positive
  <2>4. EndsBy(TimeAddClamp(req[p].now, req[p].pol.ban_time), req[p].now)
    BY <2>2, <2>3 DEF EndsBy
  <2> QED
    BY <1>1, <2>2, <2>3, <2>4, EndsLater
<1>6. \A s \in Armed' : EndsBy(node'[s].banned_until, latest')
  BY <1>2, <1>4, <1>5, ArmedNext
<1> QED
  BY <1>1, <1>6, RequestTimesPast DEF TimesPast, EndsBy
------------------------------------------------------------------------------
(* The count of the bans. *)

\* Who arrives, and who can no longer arm a ban.
LEMMA ArrivalsCounted ==
  ASSUME IInv, NEW p \in Proc, Start(p), ZoneStep, arrived \in Nat
  PROVE  /\ Coming' = Coming \union {p} /\ arrived' = arrived + 1
         /\ p \notin Coming /\ bans' = bans /\ Armed' = Armed
<1> USE DEF IInv
<1>1. pc' = [pc EXCEPT ![p] = "check"] /\ pc[p] = "idle"
  BY DEF Start, Goto
<1>2. \A q \in Proc : pc'[q] = IF q = p THEN "check" ELSE pc[q]
  BY <1>1 DEF TypeOK
<1>3. {q \in Proc : pc[q] = "idle" /\ pc'[q] # "idle"} = {p}
  BY <1>1, <1>2
<1>4. arrived' = arrived + 1
  BY <1>3, FS_Singleton DEF ZoneStep
<1>5. Coming' = Coming \union {p} /\ p \notin Coming
  BY <1>1, <1>2 DEF Coming
<1> QED
  BY <1>4, <1>5 DEF Start, zone, stats, Armed

LEMMA NoArrival ==
  ASSUME IInv, ZoneStep, ~\E p \in Proc : Start(p), arrived \in Nat
  PROVE  /\ Coming' \subseteq Coming /\ arrived' = arrived
         /\ Unfinished' \subseteq Unfinished
         /\ \A p \in Proc : Stored(p) => p \in Coming /\ p \notin Coming'
<1> USE DEF IInv
<1>1. \A p \in Proc : /\ p \in Coming' => p \in Coming
                      /\ pc[p] = "idle" => pc'[p] = "idle"
  <2>1. ASSUME NEW p \in Proc,
               \/ Refuse(p) \/ Admit(p) \/ InspectClean(p) \/ InspectHit(p)
               \/ RecordKnown(p) \/ RecordUnknown(p) \/ CountHit(p)
               \/ ExpireDone(p) \/ Insert(p) \/ ZoneFull(p)
        PROVE  /\ pc[p] # "idle"
               /\ \E label \in Labels :
                    /\ pc' = [pc EXCEPT ![p] = label]
                    /\ label \in {"idle", "count"} \/ p \in Coming
    BY <2>1 DEF Refuse, Admit, InspectClean, InspectHit, RecordKnown, RecordUnknown,
                CountHit, ExpireDone, Insert, ZoneFull, Finish, Goto, Labels, Coming
  <2>2. ASSUME NEW p \in Proc,
               \/ Refuse(p) \/ Admit(p) \/ InspectClean(p) \/ InspectHit(p)
               \/ RecordKnown(p) \/ RecordUnknown(p) \/ CountHit(p)
               \/ ExpireDone(p) \/ Insert(p) \/ ZoneFull(p)
        PROVE  \A q \in Proc : /\ q \in Coming' => q \in Coming
                               /\ pc[q] = "idle" => pc'[q] = "idle"
    <3>1. PICK label \in Labels : /\ pc' = [pc EXCEPT ![p] = label]
                                  /\ label \in {"idle", "count"} \/ p \in Coming
      BY <2>1, <2>2
    <3>2. pc[p] # "idle"
      BY <2>1, <2>2
    <3>3. \A q \in Proc : pc'[q] = IF q = p THEN label ELSE pc[q]
      BY <3>1 DEF TypeOK
    <3> QED
      BY <3>1, <3>2, <3>3 DEF Coming
  <2>3. CASE UNCHANGED pc
    BY <2>3 DEF Coming
  <2>4. (\E p \in Proc : ExpireWrap(p) \/ ExpireSkip(p) \/ ExpireEvict(p)) \/ Tick
          => UNCHANGED pc
    BY DEF ExpireWrap, ExpireSkip, ExpireEvict, Tick
  <2> QED
    BY <2>2, <2>3, <2>4 DEF ZoneStep, ForwardNext, RequestStep, HolderStep
<1>2. {p \in Proc : pc[p] = "idle" /\ pc'[p] # "idle"} = {}
  BY <1>1
<1>3. arrived' = arrived
  BY <1>2, FS_EmptySet DEF ZoneStep
<1>4. ASSUME NEW p \in Proc, Stored(p)
      PROVE  p \in Coming /\ p \notin Coming'
  BY <1>4 DEF Stored, RecordKnown, Insert, Goto, Coming, TypeOK
<1> QED
  BY <1>1, <1>3, <1>4 DEF Coming, Unfinished

LEMMA BansStayCounted ==
  ASSUME IInv, BansCounted, ZoneStep
  PROVE  BansCounted' /\ bans <= bans'
<1>0. /\ arrived \in Nat /\ arrived' <= MaxRequests /\ bans \in Nat
      /\ Cardinality(Coming) \in Nat /\ Cardinality(Armed) \in Nat
  BY CounterBounds, FS_CardinalityType DEF BansCounted, ZoneStep, IInv, TypeOK, Counter
<1>1. CASE \E p \in Proc : Start(p)
  <2>1. PICK p \in Proc : Start(p)
    BY <1>1
  <2>2. /\ Coming' = Coming \union {p} /\ arrived' = arrived + 1
        /\ p \notin Coming /\ bans' = bans /\ Armed' = Armed
    BY <1>0, <2>1, ArrivalsCounted
  <2>3. /\ IsFiniteSet(Coming')
        /\ Cardinality(Coming') = Cardinality(Coming) + 1
    BY <2>2, FS_AddElement DEF BansCounted
  <2> QED
    BY <1>0, <2>2, <2>3, CounterBounds DEF BansCounted
<1>2. CASE ~\E p \in Proc : Start(p)
  <2>1. /\ Coming' \subseteq Coming /\ arrived' = arrived
        /\ \A p \in Proc : Stored(p) => p \in Coming /\ p \notin Coming'
    BY <1>0, <1>2, NoArrival
  <2>2. /\ IsFiniteSet(Coming') /\ Cardinality(Coming') \in Nat
        /\ Cardinality(Coming') <= Cardinality(Coming)
    BY <2>1, FS_Subset, FS_CardinalityType DEF BansCounted
  <2>3. [Next]_vars
    BY DEF ZoneStep, Next
  <2>4. CASE Armed' \subseteq Armed /\ bans' = bans
    <3>1. IsFiniteSet(Armed') /\ Cardinality(Armed') \in Nat
          /\ Cardinality(Armed') <= Cardinality(Armed)
      BY <2>4, FS_Subset, FS_CardinalityType DEF BansCounted
    <3> QED
      BY <1>0, <2>1, <2>2, <2>4, <3>1 DEF BansCounted
  <2>5. ASSUME NEW p \in Proc, NEW s \in Slot, Stored(p),
               bans' = (bans + 1) % CounterMod, Armed' \subseteq Armed \union {s}
        PROVE  BansCounted' /\ bans <= bans'
    <3>1. /\ IsFiniteSet(Coming \ {p})
          /\ Cardinality(Coming \ {p}) = Cardinality(Coming) - 1
      BY <2>1, <2>5, FS_RemoveElement DEF BansCounted
    <3>2. Coming' \subseteq Coming \ {p}
      BY <2>1, <2>5
    <3>3. Cardinality(Coming') <= Cardinality(Coming) - 1
      BY <3>1, <3>2, FS_Subset
    <3>4. bans + 1 < CounterMod
      BY <1>0, <2>2, <3>3, CounterBounds DEF BansCounted
    <3>5. bans' = bans + 1
      BY <1>0, <2>5, <3>4, CounterBounds
    <3>6. /\ IsFiniteSet(Armed \union {s})
          /\ Cardinality(Armed \union {s}) <= Cardinality(Armed) + 1
          /\ Cardinality(Armed \union {s}) \in Nat
      <4>1. /\ IsFiniteSet(Armed \union {s})
            /\ Cardinality(Armed \union {s}) =
                 IF s \in Armed THEN Cardinality(Armed) ELSE Cardinality(Armed) + 1
        BY FS_AddElement, Zenon DEF BansCounted
      <4> QED
        BY <1>0, <4>1
    <3>7. /\ IsFiniteSet(Armed') /\ Cardinality(Armed') \in Nat
          /\ Cardinality(Armed') <= Cardinality(Armed \union {s})
      BY <2>5, <3>6, FS_Subset, FS_CardinalityType
    <3> QED
      BY <1>0, <2>1, <2>2, <3>3, <3>5, <3>6, <3>7 DEF BansCounted
  <2> QED
    BY <2>3, <2>4, <2>5, ArmedNext
<1> QED
  BY <1>1, <1>2
------------------------------------------------------------------------------
(* The sum over the categories.  The fold takes the elements of a set in an
   order of its own; the sums it forms on the way exist for every finite set,
   and a statement about them holds if it holds of a set whenever it holds of
   the set without any of its elements. *)

\* The least number for which a statement fails.
LEMMA LeastBad ==
  ASSUME NEW Bad \in SUBSET Nat, Bad # {}
  PROVE  \E m \in Bad : \A k \in Nat : k < m => k \notin Bad
<1> DEFINE R == {ss \in Nat \X Nat : ss[1] < ss[2]}
<1>1. IsWellFoundedOn(R, Nat)
  BY NatLessThanWellFounded DEF OpToRel
<1>2. \A j, k \in Nat : j < k => <<j, k>> \in R
  OBVIOUS
<1> HIDE DEF R
<1>3. PICK m \in Bad : \A k \in Bad : ~(<<k, m>> \in R)
  BY <1>1, WFMin, Zenon
<1> QED
  BY <1>2, <1>3

\* Whichever element the fold takes out of a set first.
Taken(s) == CHOOSE x \in s : TRUE

SumOf(f, h, s) == IF s = {} THEN 0 ELSE f[Taken(s)] + h[s \ {Taken(s)}]

\* The sums of f over the sets of its arguments.
Sums(f, h) == h = [s \in SUBSET DOMAIN f |-> SumOf(f, h, s)]

LEMMA TakenIn == \A s : s # {} => Taken(s) \in s
BY DEF Taken

LEMMA SumsExist ==
  ASSUME NEW f, IsFiniteSet(DOMAIN f)
  PROVE  \E h : Sums(f, h)
<1> DEFINE D == DOMAIN f
           UpTo(n, h) == \A s \in SUBSET D : Cardinality(s) <= n => h[s] = SumOf(f, h, s)
           Bad == {n \in Nat : ~\E h : UpTo(n, h)}
<1>1. \A s \in SUBSET D : IsFiniteSet(s) /\ Cardinality(s) \in Nat
                          /\ Cardinality(s) <= Cardinality(D)
  BY FS_Subset, FS_CardinalityType
<1>2. \A s \in SUBSET D : s # {} => /\ s \ {Taken(s)} \in SUBSET D
                                    /\ Cardinality(s \ {Taken(s)}) = Cardinality(s) - 1
  BY <1>1, TakenIn, FS_RemoveElement
<1>3. \A s \in SUBSET D : Cardinality(s) = 0 => s = {}
  BY <1>1, FS_EmptySet
<1> HIDE DEF D
<1>4. Bad = {}
  <2> SUFFICES ASSUME Bad # {} PROVE FALSE
    OBVIOUS
  <2>1. Bad \in SUBSET Nat
    OBVIOUS
  <2>2. PICK m \in Bad : \A k \in Nat : k < m => k \notin Bad
    <3> HIDE DEF Bad
    <3> QED
      BY <2>1, LeastBad
  <2>3. CASE m = 0
    <3> DEFINE h == [s \in SUBSET D |-> 0]
    <3>1. UpTo(0, h)
      BY <1>1, <1>3 DEF SumOf
    <3> QED
      BY <2>2, <2>3, <3>1
  <2>4. CASE m # 0
    <3>1. m \in Nat /\ m - 1 \in Nat /\ m - 1 < m
      BY <2>4
    <3>2. PICK g : UpTo(m - 1, g)
      BY <2>2, <3>1
    <3> DEFINE h == [s \in SUBSET D |-> IF Cardinality(s) = m THEN SumOf(f, g, s) ELSE g[s]]
    <3>3. ASSUME NEW s \in SUBSET D, Cardinality(s) <= m
          PROVE  h[s] = SumOf(f, h, s)
      <4>1. CASE s = {}
        <5>1. Cardinality(s) = 0
          BY <4>1, FS_EmptySet
        <5>2. h[s] = g[s] /\ g[s] = SumOf(f, g, s)
          BY <3>1, <3>2, <2>4, <5>1
        <5> QED
          BY <4>1, <5>2 DEF SumOf
      <4>2. CASE s # {}
        <5>1. h[s \ {Taken(s)}] = g[s \ {Taken(s)}]
          BY <1>1, <1>2, <3>1, <3>3, <4>2
        <5>2. h[s] = SumOf(f, g, s)
          BY <1>1, <3>1, <3>2, <3>3
        <5> QED
          BY <4>2, <5>1, <5>2 DEF SumOf
      <4> QED
        BY <4>1, <4>2
    <3> HIDE DEF h
    <3>4. UpTo(m, h)
      BY <3>3
    <3> QED
      BY <2>2, <3>4
  <2> QED
    BY <2>3, <2>4
<1>5. Cardinality(D) \in Nat
  BY <1>1
<1>6. PICK g : UpTo(Cardinality(D), g)
  BY <1>4, <1>5
<1> DEFINE h == [s \in SUBSET D |-> g[s]]
<1>7. \A s \in SUBSET D : h[s] = SumOf(f, h, s)
  <2> SUFFICES ASSUME NEW s \in SUBSET D PROVE h[s] = SumOf(f, h, s)
    OBVIOUS
  <2>1. g[s] = SumOf(f, g, s)
    BY <1>1, <1>6
  <2> QED
    BY <1>2, <2>1 DEF SumOf
<1>8. h = [s \in SUBSET D |-> h[s]]
  OBVIOUS
<1> HIDE DEF h
<1> QED
  BY <1>7, <1>8 DEF Sums, D

LEMMA TotalUnfolds ==
  ASSUME NEW f, IsFiniteSet(DOMAIN f)
  PROVE  \E h : Sums(f, h) /\ Total(f) = h[DOMAIN f]
<1> DEFINE h == CHOOSE g : Sums(f, g)
<1>1. Sums(f, h)
  BY SumsExist
<1>2. Total(f) = h[DOMAIN f]
  BY DEF Total, FoldFunction, FoldFunctionOnSet, MapThenFoldSet, Sums, SumOf, Taken
<1> QED
  BY <1>1, <1>2

LEMMA SmallestSet ==
  ASSUME NEW D, IsFiniteSet(D), NEW Bad \in SUBSET (SUBSET D), Bad # {}
  PROVE  \E s \in Bad : \A x \in s : s \ {x} \notin Bad
<1> DEFINE Sizes == {Cardinality(s) : s \in Bad}
<1>1. \A s \in SUBSET D : IsFiniteSet(s) /\ Cardinality(s) \in Nat
  BY FS_Subset, FS_CardinalityType
<1>2. Sizes \in SUBSET Nat /\ Sizes # {}
  BY <1>1
<1>3. PICK m \in Sizes : \A k \in Nat : k < m => k \notin Sizes
  <2> HIDE DEF Sizes
  <2> QED
    BY <1>2, LeastBad
<1>4. PICK s \in Bad : Cardinality(s) = m
  BY <1>3
<1>5. ASSUME NEW x \in s, s \ {x} \in Bad
      PROVE  FALSE
  <2>1. Cardinality(s \ {x}) = Cardinality(s) - 1 /\ Cardinality(s \ {x}) \in Nat
    BY <1>1, <1>4, <1>5, FS_RemoveElement
  <2>2. Cardinality(s \ {x}) \in Sizes
    BY <1>5
  <2> HIDE DEF Sizes
  <2>3. Cardinality(s \ {x}) < m
    BY <1>1, <1>4, <2>1
  <2> QED
    BY <1>3, <2>1, <2>2, <2>3
<1> QED
  BY <1>4, <1>5

\* A total grows with each of its parts, and none is above it.
LEMMA TotalGrows ==
  ASSUME NEW D, IsFiniteSet(D), NEW f \in [D -> Nat], NEW c \in D
  PROVE  /\ Total(f) \in Nat /\ f[c] <= Total(f)
         /\ Total([f EXCEPT ![c] = @ + 1]) = Total(f) + 1
<1> DEFINE g == [f EXCEPT ![c] = @ + 1]
<1>1. DOMAIN f = D /\ DOMAIN g = D
  OBVIOUS
<1>2. PICK hf : Sums(f, hf) /\ Total(f) = hf[D]
  BY <1>1, TotalUnfolds
<1>3. PICK hg : Sums(g, hg) /\ Total(g) = hg[D]
  <2> HIDE DEF g
  <2> QED
    BY <1>1, TotalUnfolds
<1>4. /\ \A x \in D : f[x] \in Nat
      /\ \A x \in D : g[x] = IF x = c THEN f[x] + 1 ELSE f[x]
  OBVIOUS
<1> HIDE DEF g
<1> DEFINE Good(s) == /\ hf[s] \in Nat /\ (c \in s => f[c] <= hf[s])
                      /\ hg[s] = IF c \in s THEN hf[s] + 1 ELSE hf[s]
           Bad == {s \in SUBSET D : ~Good(s)}
<1>5. Bad = {}
  <2> SUFFICES ASSUME Bad # {} PROVE FALSE
    OBVIOUS
  <2>1. Bad \in SUBSET (SUBSET D)
    OBVIOUS
  <2>2. PICK s \in Bad : \A x \in s : s \ {x} \notin Bad
    <3> HIDE DEF Bad
    <3> QED
      BY <2>1, SmallestSet
  <2>3. hf[s] = SumOf(f, hf, s) /\ hg[s] = SumOf(g, hg, s) /\ s \in SUBSET D
    BY <1>1, <1>2, <1>3 DEF Sums
  <2>4. CASE s = {}
    BY <2>2, <2>3, <2>4 DEF SumOf
  <2>5. CASE s # {}
    <3> DEFINE x == Taken(s)
               r == s \ {x}
    <3>1. x \in s /\ x \in D /\ r \in SUBSET D
      BY <2>3, <2>5, TakenIn
    <3>2. Good(r)
      BY <2>2, <3>1
    <3>3. hf[s] = f[x] + hf[r] /\ hg[s] = g[x] + hg[r]
      BY <2>3, <2>5 DEF SumOf
    <3>4. c \in s <=> x = c \/ c \in r
      BY <3>1
    <3>5. x = c => c \notin r
      OBVIOUS
    <3> HIDE DEF x, r
    <3>6. Good(s)
      BY <1>4, <3>1, <3>2, <3>3, <3>4, <3>5
    <3> QED
      BY <2>2, <3>6
  <2> QED
    BY <2>4, <2>5
<1>6. Good(D)
  BY <1>5
<1> QED
  BY <1>2, <1>3, <1>6 DEF g

\* Nothing adds up to nothing.
LEMMA TotalOfNone ==
  ASSUME NEW D, IsFiniteSet(D)
  PROVE  Total([c \in D |-> 0]) = 0
<1> DEFINE f == [c \in D |-> 0]
<1>1. DOMAIN f = D /\ \A x \in D : f[x] = 0
  OBVIOUS
<1> HIDE DEF f
<1>2. PICK h : Sums(f, h) /\ Total(f) = h[D]
  BY <1>1, TotalUnfolds
<1> DEFINE Bad == {s \in SUBSET D : h[s] # 0}
<1>3. Bad = {}
  <2> SUFFICES ASSUME Bad # {} PROVE FALSE
    OBVIOUS
  <2>1. PICK s \in Bad : \A x \in s : s \ {x} \notin Bad
    <3>1. Bad \in SUBSET (SUBSET D)
      OBVIOUS
    <3> HIDE DEF Bad
    <3> QED
      BY <3>1, SmallestSet
  <2>2. h[s] = SumOf(f, h, s) /\ s \in SUBSET D
    BY <1>1, <1>2 DEF Sums
  <2> QED
    BY <1>1, <2>1, <2>2, TakenIn DEF SumOf
<1> QED
  BY <1>2, <1>3 DEF f

------------------------------------------------------------------------------
(* The totals. *)

\* How a request moves between the two sets, and what it counts.
LEMMA FlightMoves ==
  ASSUME IInv, ZoneStep, ~\E p \in Proc : Start(p) \/ CountHit(p)
  PROVE  /\ UNCHANGED <<blocked, cat_hits>>
         /\ \/ InFlight' = InFlight /\ bans' = bans
            \/ \E p \in Proc : /\ p \notin InFlight /\ InFlight' = InFlight \union {p}
                             /\ bans' \in {bans, (bans + 1) % CounterMod}
<1> USE DEF IInv
<1>1. ASSUME NEW p \in Proc,
             Refuse(p) \/ Admit(p) \/ InspectClean(p) \/ InspectHit(p)
               \/ RecordUnknown(p) \/ ExpireDone(p)
      PROVE  /\ UNCHANGED <<blocked, cat_hits, bans>>
             /\ \E label \in {"idle", "inspect", "record", "expire", "alloc"} :
                  pc' = [pc EXCEPT ![p] = label]
             /\ pc[p] # "count"
  BY <1>1 DEF Refuse, Admit, InspectClean, InspectHit, RecordUnknown, ExpireDone,
              Finish, Goto, stats
<1>2. ASSUME NEW p \in Proc,
             Refuse(p) \/ Admit(p) \/ InspectClean(p) \/ InspectHit(p)
               \/ RecordUnknown(p) \/ ExpireDone(p)
      PROVE  UNCHANGED <<blocked, cat_hits, bans>> /\ InFlight' = InFlight
  <2>1. PICK label \in {"idle", "inspect", "record", "expire", "alloc"} :
          pc' = [pc EXCEPT ![p] = label]
    BY <1>1, <1>2
  <2>2. pc[p] # "count"
    BY <1>1, <1>2
  <2>3. \A q \in Proc : pc'[q] = IF q = p THEN label ELSE pc[q]
    BY <2>1 DEF TypeOK
  <2>4. \A q \in Proc : pc'[q] = "count" <=> pc[q] = "count"
    BY <2>2, <2>3
  <2> QED
    BY <1>1, <1>2, <2>4 DEF InFlight
<1>3. ASSUME NEW p \in Proc, RecordKnown(p) \/ Insert(p) \/ ZoneFull(p)
      PROVE  /\ UNCHANGED <<blocked, cat_hits>> /\ bans' \in {bans, (bans + 1) % CounterMod}
             /\ p \notin InFlight /\ InFlight' = InFlight \union {p}
  <2>1. /\ UNCHANGED <<blocked, cat_hits>> /\ bans' \in {bans, (bans + 1) % CounterMod}
        /\ pc' = [pc EXCEPT ![p] = "count"] /\ pc[p] # "count"
    BY <1>3 DEF RecordKnown, Insert, ZoneFull, StoreHit, Goto, stats
  <2>2. \A q \in Proc : pc'[q] = "count" <=> pc[q] = "count" \/ q = p
    BY <2>1 DEF TypeOK
  <2> QED
    BY <2>1, <2>2 DEF InFlight
<1>4. (\E p \in Proc : ExpireWrap(p) \/ ExpireSkip(p) \/ ExpireEvict(p)) \/ Tick
        => UNCHANGED <<pc, blocked, cat_hits, bans>>
  BY DEF ExpireWrap, ExpireSkip, ExpireEvict, Tick, stats
<1>5. CASE UNCHANGED <<pc, blocked, cat_hits, bans>>
  BY <1>5 DEF InFlight
<1> QED
  BY <1>2, <1>3, <1>4, <1>5 DEF ZoneStep, ForwardNext, RequestStep, HolderStep

\* A hit that is counted leaves the request's place to the category's counter.
LEMMA CountedHit ==
  ASSUME IInv, TotalsCounted, arrived \in 0..MaxRequests, NEW p \in Proc, CountHit(p)
  PROVE  /\ Total(cat_hits)' = Total(cat_hits) + 1 /\ bans' = bans
         /\ blocked' \in {blocked, blocked + 1}
         /\ p \in InFlight /\ InFlight' = InFlight \ {p}
         /\ p \in Unfinished /\ Unfinished' = Unfinished \ {p}
<1> USE DEF IInv
<1>1. PICK c \in Cat : cat_hits' = [cat_hits EXCEPT ![c] = (@ + 1) % CounterMod]
  BY DEF CountHit
<1>2. cat_hits \in [Cat -> Nat] /\ blocked \in Nat /\ IsFiniteSet(Cat)
  BY CounterBounds, StatusAssumption DEF TypeOK, Counter
<1>3. p \in Unfinished /\ p \in InFlight
  BY DEF CountHit, Unfinished, InFlight
<1>4. Cardinality(Unfinished) \in Nat /\ Cardinality(Unfinished) >= 1
  <2>1. Cardinality(Unfinished) \in Nat
    BY FS_CardinalityType DEF TotalsCounted
  <2>2. Cardinality(Unfinished) # 0
    BY <1>3, FS_EmptySet DEF TotalsCounted
  <2> QED
    BY <2>1, <2>2
<1>5. /\ Total(cat_hits) \in Nat /\ cat_hits[c] <= Total(cat_hits)
      /\ Total([cat_hits EXCEPT ![c] = @ + 1]) = Total(cat_hits) + 1
  BY <1>2, TotalGrows
<1>6. Total(cat_hits) + 1 < CounterMod
  BY <1>4, <1>5, CounterBounds DEF TotalsCounted
<1>7. (cat_hits[c] + 1) % CounterMod = cat_hits[c] + 1
  <2>1. cat_hits[c] \in Nat
    BY <1>2
  <2> QED
    BY <1>5, <1>6, <2>1, CounterBounds
<1>8. cat_hits' = [cat_hits EXCEPT ![c] = @ + 1]
  BY <1>1, <1>2, <1>7
<1>9. blocked' \in {blocked, blocked + 1}
  <2>1. (blocked + 1) % CounterMod = blocked + 1
    BY <1>2, <1>5, <1>6, CounterBounds DEF TotalsCounted
  <2> QED
    BY <2>1 DEF CountHit
<1>10. pc' = [pc EXCEPT ![p] = "idle"] /\ bans' = bans
  BY DEF CountHit, Finish, Goto
<1>11. \A q \in Proc : pc'[q] = IF q = p THEN "idle" ELSE pc[q]
  BY <1>10 DEF TypeOK
<1>12. InFlight' = InFlight \ {p} /\ Unfinished' = Unfinished \ {p}
  BY <1>11 DEF InFlight, Unfinished
<1>13. Total(cat_hits)' = Total(cat_hits')
  OBVIOUS
<1> QED
  BY <1>3, <1>5, <1>8, <1>9, <1>10, <1>12, <1>13

LEMMA TotalsStayCounted ==
  ASSUME IInv, TotalsCounted, BansCounted, ZoneStep
  PROVE  TotalsCounted'
<1>0. /\ arrived \in Nat /\ bans \in Nat /\ blocked \in Nat /\ bans < CounterMod
      /\ Cardinality(InFlight) \in Nat /\ Cardinality(Unfinished) \in Nat
      /\ cat_hits \in [Cat -> Nat]
  BY CounterBounds, FS_CardinalityType DEF BansCounted, TotalsCounted, IInv, TypeOK, Counter
<1>1. CASE \E p \in Proc : Start(p)
  <2>1. PICK p \in Proc : Start(p)
    BY <1>1
  <2>2. arrived' = arrived + 1 /\ bans' = bans
    BY <1>0, <2>1, ArrivalsCounted
  <2>3. pc' = [pc EXCEPT ![p] = "check"] /\ pc[p] = "idle" /\ UNCHANGED <<blocked, cat_hits>>
    BY <2>1 DEF Start, Goto, stats
  <2>4. \A q \in Proc : pc'[q] = IF q = p THEN "check" ELSE pc[q]
    BY <2>3 DEF IInv, TypeOK
  <2>5. InFlight' = InFlight /\ Unfinished' = Unfinished \union {p} /\ p \notin Unfinished
    BY <2>3, <2>4 DEF InFlight, Unfinished
  <2>6. /\ IsFiniteSet(Unfinished')
        /\ Cardinality(Unfinished') = Cardinality(Unfinished) + 1
    BY <2>5, FS_AddElement DEF TotalsCounted
  <2> QED
    BY <1>0, <2>2, <2>3, <2>5, <2>6 DEF TotalsCounted
<1>2. CASE \E p \in Proc : CountHit(p)
  <2>1. PICK p \in Proc : CountHit(p)
    BY <1>2
  <2>2. /\ Total(cat_hits)' = Total(cat_hits) + 1 /\ bans' = bans
        /\ blocked' \in {blocked, blocked + 1}
        /\ p \in InFlight /\ InFlight' = InFlight \ {p}
        /\ p \in Unfinished /\ Unfinished' = Unfinished \ {p}
    BY <2>1, CountedHit DEF BansCounted
  <2>3. /\ IsFiniteSet(InFlight') /\ Cardinality(InFlight') = Cardinality(InFlight) - 1
        /\ IsFiniteSet(Unfinished') /\ Cardinality(Unfinished') = Cardinality(Unfinished) - 1
    BY <2>2, FS_RemoveElement DEF TotalsCounted
  <2>4. arrived' = arrived
    <3>1. ~\E q \in Proc : Start(q)
      BY <2>1 DEF Start, CountHit, Finish, Goto, IInv, TypeOK
    <3> QED
      BY <1>0, <3>1, NoArrival
  <2> QED
    BY <1>0, <2>2, <2>3, <2>4 DEF TotalsCounted
<1>3. CASE ~\E p \in Proc : Start(p) \/ CountHit(p)
  <2>1. /\ UNCHANGED <<blocked, cat_hits>>
        /\ \/ InFlight' = InFlight /\ bans' = bans
           \/ \E p \in Proc : /\ p \notin InFlight /\ InFlight' = InFlight \union {p}
                            /\ bans' \in {bans, (bans + 1) % CounterMod}
    BY <1>3, FlightMoves
  <2>2. Unfinished' \subseteq Unfinished /\ arrived' = arrived
    BY <1>0, <1>3, NoArrival
  <2>3. /\ IsFiniteSet(Unfinished') /\ Cardinality(Unfinished') \in Nat
        /\ Cardinality(Unfinished') <= Cardinality(Unfinished)
    BY <2>2, FS_Subset, FS_CardinalityType DEF TotalsCounted
  <2>4. CASE InFlight' = InFlight /\ bans' = bans
    BY <1>0, <2>1, <2>2, <2>3, <2>4 DEF TotalsCounted
  <2>5. ASSUME NEW p \in Proc, p \notin InFlight, InFlight' = InFlight \union {p},
               bans' \in {bans, (bans + 1) % CounterMod}
        PROVE  TotalsCounted'
    <3>1. IsFiniteSet(InFlight') /\ Cardinality(InFlight') = Cardinality(InFlight) + 1
      BY <2>5, FS_AddElement DEF TotalsCounted
    <3>2. bans' <= bans + 1
      BY <1>0, <2>5, CounterBounds
    <3>3. bans' \in Nat
      BY <1>0, <2>5, CounterBounds
    <3> QED
      BY <1>0, <2>1, <2>2, <2>3, <3>1, <3>2, <3>3 DEF TotalsCounted
  <2> QED
    BY <2>1, <2>4, <2>5
<1> QED
  BY <1>1, <1>2, <1>3
------------------------------------------------------------------------------
(* The document. *)

LEMMA DocFields ==
  DOMAIN NoDoc = {"at", "now", "nodes", "room", "blocked", "bans", "cat_hits", "banned",
                  "cut", "before", "after"}
BY DEF NoDoc

\* A scrape takes the totals once, in one section.
LEMMA TotalsStayTaken ==
  ASSUME DocInv, TotalsCounted, TotalsTaken, StatusStep
  PROVE  TotalsTaken'
<1>1. CASE TakeTotals
  <2>1. /\ doc'.blocked = blocked /\ doc'.bans = bans /\ doc'.cat_hits = cat_hits
        /\ doc'.before.flight = Cardinality(InFlight)
    BY <1>1, DocFields DEF TakeTotals, DocInv
  <2> QED
    BY <2>1 DEF TotalsTaken, TotalsCounted
<1>2. CASE Allocate \/ TakeList \/ Send
  <2>0. DOMAIN doc = DOMAIN NoDoc
    BY DEF DocInv
  <2>1. /\ doc'.blocked = doc.blocked /\ doc'.bans = doc.bans
        /\ doc'.cat_hits = doc.cat_hits /\ doc'.before = doc.before
        /\ doc.at \in {"buffer", "list", "header"}
    <3>1. CASE Allocate
      BY <2>0, <3>1, DocFields DEF Allocate, DocGoto
    <3>2. CASE TakeList
      BY <2>0, <3>2, DocFields DEF TakeList
    <3>3. CASE Send
      BY <2>0, <3>3, DocFields DEF Send, DocGoto
    <3> QED
      BY <1>2, <3>1, <3>2, <3>3
  <2> QED
    BY <2>1 DEF TotalsTaken
<1>3. CASE Scrape \/ Answered
  <2>1. CASE doc' = [NoDoc EXCEPT !.at = "totals", !.now = clock]
    BY <2>1, DocFields DEF TotalsTaken
  <2>2. CASE DocGoto("failed")
    BY <2>2, DocFields DEF TotalsTaken, DocInv, DocGoto
  <2>3. CASE doc' = NoDoc
    BY <2>3 DEF TotalsTaken, NoDoc
  <2> QED
    BY <1>3, <2>1, <2>2, <2>3 DEF Scrape, Answered
<1> QED
  BY <1>1, <1>2, <1>3 DEF StatusStep

\* While the list is not written, there is nothing to claim of it.
LEMMA UnwrittenIsSound ==
  ASSUME doc'.at \notin {"header", "sent"}
  PROVE  DocumentsSound'
BY DEF DocumentsSound, BansCoverList, CutOnlyIfOutgrown, ListedBansRun, Written

LEMMA ScrapeSound ==
  ASSUME IInv, DocInv, Scrape \/ Answered
  PROVE  DocInv' /\ DocumentsSound'
<1>1. clock \in Time /\ 0 \in Time
  BY BoundAssumption, TimeMaxAssumption DEF IInv, TypeOK, Time
<1>2. /\ DOMAIN doc' = DOMAIN NoDoc /\ doc'.now \in Time
      /\ doc'.at \in {"failed", "totals", "idle"}
  <2>1. CASE Scrape /\ doc' = [NoDoc EXCEPT !.at = "totals", !.now = clock]
    BY <1>1, <2>1, DocFields
  <2>2. CASE DocGoto("failed")
    BY <2>2, DocFields DEF DocInv, DocGoto
  <2>3. CASE Answered
    BY <1>1, <2>3 DEF Answered, NoDoc
  <2> QED
    BY <2>1, <2>2, <2>3 DEF Scrape
<1>3. DocumentsSound'
  BY <1>2, UnwrittenIsSound
<1> QED
  BY <1>2, <1>3 DEF DocInv, Written

LEMMA TotalsSound ==
  ASSUME IInv, DocInv, TakeTotals, UNCHANGED bans
  PROVE  DocInv' /\ DocumentsSound'
<1>1. /\ doc'.at = "buffer" /\ doc'.nodes = Len(queue) /\ doc'.bans = bans
      /\ doc'.before.nodes = Len(queue) /\ doc'.now = doc.now
      /\ DOMAIN doc' = DOMAIN doc
  BY DocFields DEF TakeTotals, DocInv, CountNodes
<1>2. Len(queue) \in Nat /\ bans \in Nat
  BY BoundAssumption, LenProperties DEF IInv, TypeOK, Counter
<1>3. DocumentsSound'
  BY <1>1, UnwrittenIsSound
<1> QED
  BY <1>1, <1>2, <1>3 DEF DocInv, Written

LEMMA AllocateSound ==
  ASSUME DocInv, Allocate, UNCHANGED bans
  PROVE  DocInv' /\ DocumentsSound'
<1>1. /\ DOMAIN doc' = DOMAIN doc /\ doc'.now = doc.now /\ doc.at = "buffer"
      /\ doc'.nodes = doc.nodes /\ doc'.before = doc.before /\ doc'.bans = doc.bans
      /\ \/ doc'.at = "failed"
         \/ doc'.at = "list" /\ doc'.room = doc.nodes + SLACK
  BY DocFields DEF Allocate, DocInv, DocGoto
<1>2. DocumentsSound'
  BY <1>1, UnwrittenIsSound
<1> QED
  BY <1>1, <1>2 DEF DocInv, Written

\* The ban list: as many distinct nodes as there are armed ones at most.
LEMMA ListedBounds ==
  ASSUME IInv, BansCounted, doc.now \in Time
  PROVE  /\ Cardinality(Listed) \in Nat
         /\ Cardinality(Listed) <= Len(queue) /\ Len(queue) \in Nat
         /\ Cardinality(Listed) <= bans /\ bans \in Nat
         /\ \A i \in Listed : queue[i] \in Armed /\ LiveBan(node[queue[i]], doc.now)
         /\ \A i, j \in Listed : queue[i] = queue[j] => i = j
<1>1. queue \in Seq(Slot) /\ Len(queue) \in Nat /\ DOMAIN queue = 1..Len(queue)
      /\ bans \in Nat
  BY BoundAssumption, LenProperties DEF IInv, TypeOK, Counter
<1>2. \A i \in Listed : queue[i] \in Armed /\ LiveBan(node[queue[i]], doc.now)
  <2> SUFFICES ASSUME NEW i \in Listed
               PROVE  queue[i] \in Armed /\ LiveBan(node[queue[i]], doc.now)
    OBVIOUS
  <2>1. i \in DOMAIN queue /\ LiveBan(node[queue[i]], doc.now)
    BY DEF Listed, Lists
  <2>2. queue[i] \in tree
    BY <2>1 DEF IInv, ZoneConsistent, ToSet
  <2>3. node[queue[i]].banned_until \in Int /\ node[queue[i]].banned_until > doc.now
    BY <2>1, <2>2, TimeMaxAssumption DEF IInv, TypeOK, Node, Time, LiveBan
  <2>4. node[queue[i]].banned_until # 0
    BY <2>3 DEF Time
  <2> QED
    BY <2>1, <2>2, <2>4 DEF Armed
<1>3. \A i, j \in Listed : queue[i] = queue[j] => i = j
  BY DEF IInv, ZoneConsistent, IsInjective, Listed
<1>4. Cardinality(Listed) \in Nat /\ Cardinality(Listed) <= Len(queue)
  <2>1. Listed \subseteq 1..Len(queue)
    BY <1>1 DEF Listed
  <2>2. IsFiniteSet(1..Len(queue)) /\ Cardinality(1..Len(queue)) = Len(queue)
    BY <1>1, FS_Interval
  <2> QED
    BY <2>1, <2>2, FS_Subset, FS_CardinalityType
<1>5. Cardinality(Listed) <= Cardinality(Armed)
  <2> DEFINE f == [i \in Listed |-> queue[i]]
  <2>1. f \in Injection(Listed, Armed)
    BY <1>2, <1>3 DEF Injection, IsInjective
  <2> HIDE DEF f
  <2> QED
    BY <2>1, FS_Injection DEF BansCounted
<1>6. Cardinality(Armed) \in Nat /\ Cardinality(Armed) <= bans
  BY FS_CardinalityType DEF BansCounted
<1> QED
  BY <1>1, <1>2, <1>3, <1>4, <1>5, <1>6

LEMMA ListSound ==
  ASSUME IInv, StatusInv, TakeList, UNCHANGED bans
  PROVE  DocInv' /\ DocumentsSound'
<1> USE DEF IInv, StatusInv
<1> DEFINE found == Cardinality(Listed)
           fits == IF found <= doc.room THEN found ELSE doc.room
<1>0. /\ doc.at = "list" /\ doc.now \in Time /\ DOMAIN doc = DOMAIN NoDoc
      /\ doc.nodes \in Nat /\ doc.before.nodes = doc.nodes /\ doc.bans \in 0..bans
      /\ doc.room = doc.nodes + SLACK /\ doc.room \in Nat
  BY CounterBounds DEF TakeList, DocInv
<1>1. /\ found \in Nat /\ found <= Len(queue) /\ Len(queue) \in Nat
      /\ found <= bans /\ bans \in Nat
      /\ \A i \in Listed : queue[i] \in Armed /\ LiveBan(node[queue[i]], doc.now)
      /\ \A i, j \in Listed : queue[i] = queue[j] => i = j
  BY <1>0, ListedBounds
<1> DEFINE Entry(i) == [addr |-> node[queue[i]].addr,
                        expires |-> node[queue[i]].banned_until - doc.now]
<1>2. PICK listed \in InOrder(Listed) :
        doc' = [doc EXCEPT
          !.at = "header",
          !.banned = [i \in 1..fits |-> Entry(listed[i])],
          !.cut = fits < found,
          !.after = [nodes |-> Len(queue), bans |-> bans, latest |-> latest]]
  BY DEF TakeList
<1> HIDE DEF found
<1>3. fits \in Nat /\ fits <= found /\ (fits < found => found > doc.room)
  BY <1>0, <1>1
<1> HIDE DEF fits, Entry
<1>4. /\ DOMAIN doc' = DOMAIN NoDoc /\ doc'.at = "header" /\ doc'.now = doc.now
      /\ doc'.banned = [i \in 1..fits |-> Entry(listed[i])]
      /\ doc'.cut = (fits < found) /\ doc'.bans = doc.bans /\ doc'.before = doc.before
      /\ doc'.after = [nodes |-> Len(queue), bans |-> bans, latest |-> latest]
  BY <1>0, <1>2, DocFields
<1>5. /\ \A i \in 1..fits : listed[i] \in Listed
      /\ \A i, j \in 1..fits : listed[i] = listed[j] => i = j
  <2>1. /\ listed \in [1..found -> Listed]
        /\ \A i, j \in 1..found : i < j => listed[i] < listed[j]
    BY <1>2 DEF InOrder, found
  <2>2. Listed \subseteq Int
    BY LenProperties DEF Listed, TypeOK
  <2>3. 1..fits \subseteq 1..found /\ 1..fits \subseteq Int
    BY <1>1, <1>3
  <2>4. \A i \in 1..fits : listed[i] \in Listed /\ listed[i] \in Int
    BY <2>1, <2>2, <2>3
  <2>5. ASSUME NEW i \in 1..fits, NEW j \in 1..fits, listed[i] = listed[j]
        PROVE  i = j
    <3>1. ~(listed[i] < listed[j]) /\ ~(listed[j] < listed[i])
      BY <2>4, <2>5
    <3>2. ~(i < j) /\ ~(j < i)
      BY <2>1, <2>3, <3>1
    <3> QED
      BY <2>3, <3>2
  <2> QED
    BY <2>4, <2>5
<1>6. BansCoverList'
  <2>1. Len(doc'.banned) = fits
    BY <1>3, <1>4
  <2> QED
    BY <1>0, <1>1, <1>3, <1>4, <2>1 DEF BansCoverList
<1>7. CutOnlyIfOutgrown'
  <2>1. doc'.cut => fits < found
    BY <1>4
  <2>2. doc'.after.nodes = Len(queue) /\ doc'.before.nodes = doc.nodes
    BY <1>0, <1>4
  <2>3. fits < found => Len(queue) > doc.nodes + SLACK
    BY <1>0, <1>1, <1>3, CounterBounds
  <2> QED
    BY <2>1, <2>2, <2>3 DEF CutOnlyIfOutgrown
<1>8. ListedBansRun'
  <2>1. DOMAIN doc'.banned = 1..fits /\ doc'.after.latest = latest
    BY <1>4
  <2>2. ASSUME NEW i \in 1..fits
        PROVE  /\ doc'.banned[i].addr = node[queue[listed[i]]].addr
               /\ doc'.banned[i].expires = node[queue[listed[i]]].banned_until - doc.now
               /\ queue[listed[i]] \in Armed /\ queue[listed[i]] \in tree
               /\ LiveBan(node[queue[listed[i]]], doc.now)
               /\ node[queue[listed[i]]].banned_until \in Int
    <3>1. queue[listed[i]] \in Armed /\ LiveBan(node[queue[listed[i]]], doc.now)
      BY <1>1, <1>5
    <3>2. queue[listed[i]] \in tree /\ node[queue[listed[i]]].banned_until \in Int
      BY <3>1, TimeMaxAssumption, SMTT(30) DEF Armed, TypeOK, Node, Time
    <3>3. doc'.banned[i] = Entry(listed[i])
      BY <1>4
    <3> QED
      BY <3>1, <3>2, <3>3 DEF Entry
  <2>3. \A i, j \in 1..fits : doc'.banned[i].addr = doc'.banned[j].addr => i = j
    <3> SUFFICES ASSUME NEW i \in 1..fits, NEW j \in 1..fits,
                        doc'.banned[i].addr = doc'.banned[j].addr
                 PROVE  i = j
      OBVIOUS
    <3>1. queue[listed[i]] = queue[listed[j]]
      BY <2>2 DEF ZoneConsistent
    <3> QED
      BY <1>1, <1>5, <3>1
  <2>4. ASSUME NEW i \in 1..fits
        PROVE  /\ doc'.banned[i].expires >= 1
               /\ EndsBy(doc.now + doc'.banned[i].expires, latest)
    <3>1. EndsBy(node[queue[listed[i]]].banned_until, latest)
      BY <2>2 DEF TimesPast
    <3>2. doc.now \in Int
      BY <1>0 DEF Time
    <3>3. doc.now + doc'.banned[i].expires = node[queue[listed[i]]].banned_until
      BY <2>2, <3>2
    <3> QED
      BY <2>2, <3>1, <3>2, <3>3 DEF LiveBan
  <2> QED
    BY <1>4, <2>1, <2>3, <2>4 DEF ListedBansRun, EndsBy
<1>9. DocInv'
  BY <1>0, <1>1, <1>4 DEF DocInv
<1> QED
  BY <1>6, <1>7, <1>8, <1>9 DEF DocumentsSound

\* The body of a HEAD request is left out; its header is the same.
LEMMA SendSound ==
  ASSUME DocInv, DocumentsSound, Send, bans \in Nat
  PROVE  DocInv' /\ DocumentsSound'
<1>0. doc.at = "header" /\ doc.after.bans \in Nat
  BY DEF Send, DocInv, Written
<1>1. /\ DOMAIN doc' = DOMAIN NoDoc /\ doc.at = "header" /\ doc'.now = doc.now
      /\ doc'.cut = doc.cut /\ doc'.bans = doc.bans /\ doc'.before = doc.before
      /\ doc'.after = doc.after /\ doc'.at \in {"failed", "sent"}
      /\ doc'.banned = doc.banned \/ doc'.banned = <<>>
  BY DocFields, ZenonT(60) DEF Send, DocInv, DocGoto
<1>2. DocInv'
  BY <1>0, <1>1 DEF DocInv
<1>3. CutOnlyIfOutgrown'
  BY <1>1 DEF DocumentsSound, CutOnlyIfOutgrown, Written
<1>4. CASE doc'.banned = doc.banned
  BY <1>1, <1>2, <1>3, <1>4
  DEF DocumentsSound, BansCoverList, ListedBansRun, Written
<1>5. CASE doc'.banned = <<>>
  <2>1. Len(doc'.banned) = 0 /\ DOMAIN doc'.banned = {}
    BY <1>5, EmptySeq
  <2>2. BansCoverList'
    BY <1>0, <1>1, <2>1 DEF DocumentsSound, BansCoverList, Written
  <2>3. ListedBansRun'
    BY <2>1 DEF ListedBansRun
  <2> QED
    BY <1>2, <1>3, <2>2, <2>3 DEF DocumentsSound
<1> QED
  BY <1>1, <1>4, <1>5
------------------------------------------------------------------------------
(* The steps, and the theorems. *)

LEMMA StatusInvInit == StatusInit => StatusInv
<1> SUFFICES ASSUME StatusInit PROVE StatusInv
  OBVIOUS
<1> USE DEF StatusInit
<1>1. clock = 1 /\ latest = 1 /\ 1 \in Time /\ 0 \in Time
  BY BoundAssumption, TimeMaxAssumption DEF Init, Time
<1>2. Armed = {} /\ Coming = {} /\ bans = 0
  BY DEF Init, Armed, Coming
<1>3. TimesPast
  BY <1>1, <1>2 DEF Init, TimesPast
<1>4. BansCounted
  BY <1>2, FS_EmptySet, CounterBounds DEF BansCounted
<1>5. doc = NoDoc /\ NoDoc.at = "idle" /\ NoDoc.now = 0
  BY DEF NoDoc
<1>6. DocInv /\ DocumentsSound
  BY <1>1, <1>5
  DEF DocInv, DocumentsSound, BansCoverList, CutOnlyIfOutgrown, ListedBansRun, Written
<1>7. TotalsCounted
  <2>1. Total(cat_hits) = 0
    BY StatusAssumption, TotalOfNone DEF Init
  <2>2. InFlight = {} /\ Unfinished = {} /\ blocked = 0 /\ arrived = 0
    BY DEF Init, InFlight, Unfinished
  <2> QED
    BY <1>2, <2>1, <2>2, FS_EmptySet DEF TotalsCounted
<1>8. TotalsTaken
  BY <1>5 DEF TotalsTaken
<1> QED
  BY <1>3, <1>4, <1>6, <1>7, <1>8 DEF StatusInv

LEMMA StatusInvStep ==
  ASSUME IInv, IInv', StatusInv, [StatusNext]_svars
  PROVE  StatusInv'
<1> USE DEF StatusInv
<1>1. CASE ZoneStep
  <2>1. TimesPast' /\ BansCounted' /\ bans <= bans'
    BY <1>1, TimesStayPast, BansStayCounted
  <2>2. doc' = doc
    BY <1>1 DEF ZoneStep
  <2>3. DocInv'
    <3>1. bans \in Int /\ bans' \in Int
      BY BoundAssumption DEF IInv, TypeOK, Counter
    <3>2. doc.at \in {"buffer", "list"} => doc.bans \in 0..bans
      BY DEF DocInv
    <3> QED
      BY <2>1, <2>2, <3>1, <3>2 DEF DocInv, Written
  <2>4. DocumentsSound'
    BY <2>2 DEF DocumentsSound, BansCoverList, CutOnlyIfOutgrown, ListedBansRun, Written
  <2>5. TotalsCounted' /\ TotalsTaken'
    BY <1>1, <2>2, TotalsStayCounted DEF TotalsTaken
  <2> QED
    BY <2>1, <2>3, <2>4, <2>5
<1>2. CASE ClockStepsBack
  <2>1. /\ UNCHANGED <<node, tree, bans, blocked, cat_hits, pc, req, doc, arrived, latest>>
        /\ clock' \in 1..(clock - 1)
    BY <1>2 DEF ClockStepsBack, StepBack, zone, stats
  <2>2. clock \in Int /\ latest \in Int /\ clock <= latest
    BY BoundAssumption, TimeMaxAssumption DEF IInv, TypeOK, TimesPast, Time
  <2>3. TimesPast'
    BY <2>1, <2>2 DEF TimesPast, Armed, EndsBy
  <2>4. BansCounted'
    BY <2>1 DEF BansCounted, Coming, Armed
  <2>5. DocInv' /\ DocumentsSound'
    BY <2>1
    DEF DocInv, DocumentsSound, BansCoverList, CutOnlyIfOutgrown, ListedBansRun, Written
  <2>6. TotalsCounted' /\ TotalsTaken'
    BY <2>1 DEF TotalsCounted, InFlight, Unfinished, TotalsTaken
  <2> QED
    BY <2>3, <2>4, <2>5, <2>6
<1>3. CASE StatusStep
  <2>1. UNCHANGED <<node, tree, bans, blocked, cat_hits, clock, pc, req, arrived, latest>>
    BY <1>3 DEF StatusStep, vars, zone, stats
  <2>2. TimesPast'
    BY <2>1 DEF TimesPast, Armed, EndsBy
  <2>3. BansCounted'
    BY <2>1 DEF BansCounted, Coming, Armed
  <2>4. bans \in Nat
    BY BoundAssumption DEF IInv, TypeOK, Counter
  <2>5. DocInv' /\ DocumentsSound'
    BY <1>3, <2>1, <2>4, ScrapeSound, TotalsSound, AllocateSound, ListSound, SendSound
    DEF StatusStep
  <2>6. TotalsCounted' /\ TotalsTaken'
    BY <1>3, <2>1, TotalsStayTaken DEF TotalsCounted, InFlight, Unfinished
  <2> QED
    BY <2>2, <2>3, <2>5, <2>6
<1>4. CASE UNCHANGED svars
  <2>1. UNCHANGED <<node, tree, bans, blocked, cat_hits, clock, pc, req, doc, arrived, latest>>
    BY <1>4 DEF svars, vars, zone, stats
  <2>2. TimesPast' /\ BansCounted'
    BY <2>1 DEF TimesPast, BansCounted, Coming, Armed, EndsBy
  <2>3. DocInv' /\ DocumentsSound'
    BY <2>1
    DEF DocInv, DocumentsSound, BansCoverList, CutOnlyIfOutgrown, ListedBansRun, Written
  <2>4. TotalsCounted' /\ TotalsTaken'
    BY <2>1 DEF TotalsCounted, InFlight, Unfinished, TotalsTaken
  <2> QED
    BY <2>2, <2>3, <2>4
<1> QED
  BY <1>1, <1>2, <1>3, <1>4 DEF StatusNext

LEMMA StatusAlwaysSound == StatusSpec => []StatusInv
<1>1. IInv /\ IInv' /\ StatusInv /\ [StatusNext]_svars => StatusInv'
  BY StatusInvStep
<1> QED
  BY <1>1, StatusInvInit, StatusIsSpec, InductiveInvariant, PTL DEF StatusSpec

\* Whatever is armed, evicted or counted between the two sections of a scrape,
\* its document lists no more bans than have been armed by the second one, and
\* its own total is not ahead of that (shield_ban_status_handler).
THEOREM ListNeverAheadOfBans == StatusSpec => []BansCoverList
<1>1. StatusInv => BansCoverList
  BY DEF StatusInv, DocumentsSound
<1> QED
  BY <1>1, StatusAlwaysSound, PTL

\* The list of a document is cut short only when the zone has grown, between the
\* two sections, by more nodes than the buffer has to spare: the reservation of
\* one entry per node is enough whatever becomes a ban meanwhile.
THEOREM CutMeansOutgrown == StatusSpec => []CutOnlyIfOutgrown
<1>1. StatusInv => CutOnlyIfOutgrown
  BY DEF StatusInv, DocumentsSound
<1> QED
  BY <1>1, StatusAlwaysSound, PTL

\* A document names each client once, with a ban that runs at its time and ends
\* at most a bantime after the latest second the clock has shown, although the
\* clock may be stepped back at any moment (the walk of the second section).
THEOREM ListedBansAlwaysRun == StatusSpec => []ListedBansRun
<1>1. StatusInv => ListedBansRun
  BY DEF StatusInv, DocumentsSound
<1> QED
  BY <1>1, StatusAlwaysSound, PTL

\* The totals of a document agree, whatever is armed, blocked or counted around
\* its first section: no more requests are blocked than are hits of some category,
\* and a ban the categories lack is that of a request between the record's section
\* and the counter's (ban_record, ban_count, shield_ban_status_handler).
THEOREM TotalsAlwaysAgree == StatusSpec => []TotalsLagByFlight
<1>1. StatusInv => TotalsLagByFlight
  BY DEF StatusInv, TotalsTaken, TotalsLagByFlight, Written
<1> QED
  BY <1>1, StatusAlwaysSound, PTL

------------------------------------------------------------------------------
(* The eviction walk gets round the queue. *)

\* The nodes there are to look at from x on until s has been looked at, towards
\* the head and on from the tail.
Ahead(q, x, s) ==
  IF Place(q, s) <= Place(q, x) THEN Place(q, x) - Place(q, s) + 1
  ELSE Place(q, x) + Len(q) - Place(q, s) + 1

\* What n walks gain on a node.
Gained(n) == Gain * n

\* Walks that missed a node and the nodes before it are not more than the slots.
Near(x, n) ==
  \A s \in tree : still[s] # 0 => Gained(still[s]) + Ahead(queue, x, s) <= n

FreeForgotten == \A s \in Slot \ tree : still[s] = 0

\* The same of a walk: what it looked at counts, and having wrapped it has what it
\* did not look at before it.
OnItsWay ==
  /\ walk.evicted <= walk.scanned
  /\ \A s \in tree \ seen :
       /\ Gained(still[s]) + Ahead(queue, walk.q, s) + walk.scanned <= Cardinality(Slot)
       /\ walk.wrapped => Place(queue, s) <= Place(queue, walk.q)

LapInv ==
  /\ still \in [Slot -> Nat]
  /\ ExaminedWhileStill
  /\ lock = NoProc => FreeForgotten /\ Near(cursor, Cardinality(Slot))
  /\ \A p \in Proc : /\ pc[p] = "alloc" => FreeForgotten /\ Near(cursor, Cardinality(Slot) - 1)
                     /\ pc[p] = "expire" => OnItsWay
  /\ (\A p \in Proc : pc[p] # "expire") => seen = {}

LEMMA GainedBy ==
  /\ Gain \in Nat /\ Gained(0) = 0 /\ Gain + 1 <= SCAN /\ Gain + 1 <= EVICT
  /\ \A n \in Nat : Gained(n) \in Nat /\ Gained(n + 1) = Gained(n) + Gain
<1>1. Gain \in Nat /\ Gain + 1 <= SCAN /\ Gain + 1 <= EVICT
  BY BoundAssumption DEF Gain
<1> HIDE DEF Gain
<1> QED
  BY <1>1 DEF Gained

\* What is known of the queue.
LEMMA QueueFacts ==
  ASSUME TypeOK, ZoneConsistent
  PROVE  /\ queue \in Seq(Slot) /\ IsInjective(queue) /\ ToSet(queue) = tree
         /\ Cardinality(Slot) \in Nat /\ Len(queue) \in Nat
         /\ Len(queue) <= Cardinality(Slot)
         /\ Place(queue, Sentinel) = 0 /\ Place(queue, QueueLast(queue)) = Len(queue)
         /\ \A s \in tree : /\ Place(queue, s) \in 1..Len(queue)
                            /\ Place(queue, QueuePrev(queue, s)) = Place(queue, s) - 1
<1>1. queue \in Seq(Slot) /\ IsInjective(queue) /\ ToSet(queue) = tree /\ tree \subseteq Slot
  BY DEF TypeOK, ZoneConsistent
<1>2. Sentinel \notin Slot
  BY NullAssumption
<1>3. Cardinality(tree) <= Cardinality(Slot) /\ Cardinality(Slot) \in Nat
  BY <1>1, SlabAssumption, FS_Subset, FS_CardinalityType
<1>4. Cardinality(tree) = Len(queue)
  BY <1>1, InjectiveLen
<1> QED
  BY <1>1, <1>2, <1>3, <1>4, PlaceOfMembers

LEMMA AheadBounds ==
  ASSUME TypeOK, ZoneConsistent, NEW x \in tree \union {Sentinel}, NEW s \in tree
  PROVE  /\ Ahead(queue, x, s) \in Nat /\ Ahead(queue, x, s) >= 1
         /\ Ahead(queue, x, s) <= Cardinality(Slot)
<1>1. /\ Len(queue) \in Nat /\ Len(queue) <= Cardinality(Slot) /\ Cardinality(Slot) \in Nat
      /\ Place(queue, s) \in 1..Len(queue) /\ Place(queue, x) \in 0..Len(queue)
  BY QueueFacts
<1> QED
  BY <1>1 DEF Ahead

------------------------------------------------------------------------------
(* The places of nodes, when one is unlinked or linked. *)

LEMMA PlacesAfterRemove ==
  ASSUME NEW S, Sentinel \notin S, NEW q \in Seq(S), IsInjective(q), NEW s \in ToSet(q)
  PROVE  /\ Len(QueueRemove(q, s)) = Len(q) - 1
         /\ \A t \in ToSet(q) \ {s} :
              Place(QueueRemove(q, s), t) = IF Place(q, t) < Place(q, s) THEN Place(q, t)
                                            ELSE Place(q, t) - 1
<1> DEFINE k == Position(q, s)
           r == QueueRemove(q, s)
<1>1. k \in 1..Len(q) /\ q[k] = s /\ Len(q) \in Nat
  BY PositionFound
<1>2. r = RemoveAt(q, k)
  BY DEF QueueRemove
<1>3. s \in S
  BY ElementOfSeq, <1>1
<1>4. Place(q, s) = k
  BY <1>3 DEF Place
<1> HIDE DEF k, r
<1>5. /\ r \in Seq(S) /\ Len(r) = Len(q) - 1
      /\ \A j \in 1..(Len(q) - 1) : r[j] = IF j < k THEN q[j] ELSE q[j + 1]
  BY <1>1, <1>2, RemoveAtShifts
<1>6. IsInjective(r) /\ ToSet(r) = ToSet(q) \ {s}
  BY QueueRemoveKeeps DEF r
<1>7. \A i, j \in 1..Len(q) : q[i] = q[j] => i = j
  BY DEF IsInjective
<1>8. ASSUME NEW t \in ToSet(q) \ {s}
      PROVE  Place(r, t) = IF Place(q, t) < k THEN Place(q, t) ELSE Place(q, t) - 1
  <2> DEFINE i == Place(q, t)
             j == Place(r, t)
  <2>1. i \in 1..Len(q) /\ q[i] = t
    BY PlaceOfMembers
  <2>2. j \in 1..(Len(q) - 1) /\ r[j] = t
    BY <1>5, <1>6, PlaceOfMembers
  <2> HIDE DEF i, j
  <2>3. CASE j < k
    <3>1. q[j] = q[i] /\ j \in 1..Len(q)
      BY <1>1, <1>5, <2>1, <2>2, <2>3
    <3>2. i = j
      BY <1>7, <2>1, <3>1
    <3> QED
      BY <2>3, <3>2 DEF i, j
  <2>4. CASE ~(j < k)
    <3>1. q[j + 1] = q[i] /\ j + 1 \in 1..Len(q)
      BY <1>1, <1>5, <2>1, <2>2, <2>4
    <3>2. i = j + 1
      BY <1>7, <2>1, <3>1
    <3>3. ~(i < k) /\ j = i - 1
      BY <1>1, <2>2, <2>4, <3>2
    <3> QED
      BY <3>3 DEF i, j
  <2> QED
    BY <2>3, <2>4
<1> QED
  BY <1>4, <1>5, <1>8 DEF r

LEMMA PlacesAfterInsert ==
  ASSUME NEW S, Sentinel \notin S, NEW q \in Seq(S), IsInjective(q), NEW s \in S \ ToSet(q)
  PROVE  /\ Len(QueueInsertHead(q, s)) = Len(q) + 1
         /\ \A t \in ToSet(q) : Place(QueueInsertHead(q, s), t) = Place(q, t) + 1
<1> DEFINE r == QueueInsertHead(q, s)
<1>1. <<s>> \in Seq(S) /\ Len(<<s>>) = 1 /\ <<s>>[1] = s
  OBVIOUS
<1>2. r = <<s>> \o q
  BY DEF QueueInsertHead
<1>3. IsInjective(r) /\ ToSet(r) = ToSet(q) \union {s} /\ r \in Seq(S)
  BY QueueInsertHeadAdds
<1> HIDE DEF r
<1>4. /\ Len(r) = 1 + Len(q) /\ Len(q) \in Nat
      /\ \A i \in 1..(1 + Len(q)) : r[i] = IF i <= 1 THEN <<s>>[i] ELSE q[i - 1]
  BY <1>1, <1>2, ConcatProperties, LenProperties
<1>5. \A i, j \in 1..Len(q) : q[i] = q[j] => i = j
  BY DEF IsInjective
<1>6. ASSUME NEW t \in ToSet(q)
      PROVE  Place(r, t) = Place(q, t) + 1
  <2> DEFINE i == Place(q, t)
             j == Place(r, t)
  <2>1. i \in 1..Len(q) /\ q[i] = t
    BY PlaceOfMembers
  <2>2. j \in 1..(1 + Len(q)) /\ r[j] = t
    BY <1>3, <1>4, PlaceOfMembers
  <2> HIDE DEF i, j
  <2>3. j # 1
    <3>1. r[1] = s
      BY <1>1, <1>4
    <3> QED
      BY <2>2, <3>1
  <2>4. j - 1 \in 1..Len(q) /\ q[j - 1] = q[i]
    BY <1>4, <2>1, <2>2, <2>3
  <2>5. i = j - 1
    BY <1>5, <2>1, <2>4
  <2>6. j = i + 1
    BY <2>2, <2>5
  <2> QED
    BY <2>6 DEF i, j
<1> QED
  BY <1>4, <1>6 DEF r

------------------------------------------------------------------------------
(* What the history makes of a step. *)

LEMMA HistoryExamined ==
  ASSUME IInv, ReclaimNext, NEW p \in Proc, ExpireSkip(p) \/ ExpireEvict(p)
  PROVE  seen' = seen \union {walk.q} /\ still' = still
<1>1. walk.scanned \in Nat
  BY DEF IInv, TypeOK, Walk
<1>2. walk'.scanned = walk.scanned + 1
  BY DEF IInv, TypeOK, Walk, ExpireSkip, ExpireEvict
<1>3. ~WalkEnds
  BY <1>1, <1>2 DEF WalkEnds, ExpireDone, NoWalk
<1>4. ~Reorders
  <2>1. CASE ExpireSkip(p)
    BY <2>1 DEF ExpireSkip, zone, Reorders
  <2>2. CASE ExpireEvict(p)
    BY <2>2 DEF ExpireEvict, Reorders, IInv, CursorSafe
  <2> QED
    BY <2>1, <2>2
<1>5. Examines
  BY DEF Examines
<1> QED
  BY <1>3, <1>4, <1>5 DEF ReclaimNext

LEMMA HistoryEnded ==
  ASSUME IInv, ReclaimNext, NEW p \in Proc, ExpireDone(p)
  PROVE  seen' = {} /\ still' = [s \in Slot |-> Missed(still[s], s)]
<1>1. walk.scanned \in Nat /\ walk'.scanned = 0
  BY DEF IInv, TypeOK, Walk, ExpireDone, NoWalk
<1>2. ASSUME NEW q \in Proc, ExpireSkip(q) \/ ExpireEvict(q) PROVE FALSE
  <2>1. walk'.scanned = walk.scanned + 1
    BY <1>2 DEF IInv, TypeOK, Walk, ExpireSkip, ExpireEvict
  <2> QED
    BY <1>1, <2>1
<1>3. ~Examines /\ WalkEnds
  BY <1>2 DEF Examines, WalkEnds
<1> QED
  BY <1>3 DEF ReclaimNext

LEMMA HistoryElse ==
  ASSUME ReclaimNext, \A p \in Proc : ~ExpireSkip(p) /\ ~ExpireEvict(p) /\ ~ExpireDone(p)
  PROVE  /\ seen' = seen
         /\ still' = IF Reorders THEN [s \in Slot |-> 0] ELSE still
BY DEF ReclaimNext, Examines, WalkEnds

\* The parts of the invariant, by what goes on.
LEMMA LapOutside ==
  ASSUME IInv', lock' = NoProc, (still \in [Slot -> Nat])', ExaminedWhileStill',
         FreeForgotten', Near(cursor, Cardinality(Slot))', seen' = {}
  PROVE  LapInv'
<1>1. \A p \in Proc : ~InSection(p)'
  BY NullAssumption DEF IInv, MutexHeld
<1> QED
  BY <1>1 DEF LapInv, InSection

LEMMA LapAlloc ==
  ASSUME IInv', NEW p \in Proc, pc'[p] = "alloc", (still \in [Slot -> Nat])',
         ExaminedWhileStill', FreeForgotten', Near(cursor, Cardinality(Slot) - 1)', seen' = {}
  PROVE  LapInv'
<1>1. lock' = p
  BY DEF IInv, MutexHeld, InSection
<1>2. \A q \in Proc : q # p => ~InSection(q)'
  BY <1>1 DEF IInv, MutexHeld
<1> QED
  BY <1>1, <1>2, NullAssumption DEF LapInv, InSection

LEMMA LapExpire ==
  ASSUME IInv', NEW p \in Proc, pc'[p] = "expire", (still \in [Slot -> Nat])',
         ExaminedWhileStill', OnItsWay'
  PROVE  LapInv'
<1>1. lock' = p
  BY DEF IInv, MutexHeld, InSection
<1>2. \A q \in Proc : q # p => ~InSection(q)'
  BY <1>1 DEF IInv, MutexHeld
<1> QED
  BY <1>1, <1>2, NullAssumption DEF LapInv, InSection

\* A walk starts: nothing has been looked at.
LEMMA LapStarts ==
  ASSUME IInv, IInv', LapInv, ReclaimNext, NEW p \in Proc, RecordUnknown(p)
  PROVE  LapInv'
<1> USE DEF IInv
<1>1. /\ UNCHANGED <<node, free, tree, queue, cursor>> /\ pc'[p] = "expire" /\ lock = NoProc
      /\ walk' = IF cursor = Sentinel
                   THEN [NoWalk EXCEPT !.q = QueueLast(queue), !.wrapped = TRUE]
                   ELSE [NoWalk EXCEPT !.q = cursor]
      /\ pc \in [Proc -> Labels]
  BY DEF RecordUnknown, zone, Goto, TypeOK
<1>2. \A q \in Proc : ~InSection(q)
  BY <1>1, SectionEmpty
<1>3. \A q \in Proc : ~ExpireSkip(q) /\ ~ExpireEvict(q) /\ ~ExpireDone(q)
  BY <1>2 DEF ExpireSkip, ExpireEvict, ExpireDone, InSection
<1>4. seen = {} /\ seen' = {} /\ still' = still
  BY <1>1, <1>2, <1>3, HistoryElse DEF Reorders, LapInv, InSection
<1>5. /\ walk'.scanned = 0 /\ walk'.evicted = 0 /\ walk'.wrapped = (cursor = Sentinel)
      /\ walk'.q = IF cursor = Sentinel THEN QueueLast(queue) ELSE cursor
  BY <1>1 DEF NoWalk
<1>6. cursor \in tree \union {Sentinel} /\ cursor \in Slot \union {Sentinel}
  BY <1>2 DEF CursorSafe, InSection, TypeOK
<1>7. ASSUME NEW s \in tree
      PROVE  /\ Gained(still[s]) + Ahead(queue, cursor, s) <= Cardinality(Slot)
             /\ Ahead(queue, walk'.q, s) = Ahead(queue, cursor, s)
             /\ walk'.wrapped => Place(queue, s) <= Place(queue, walk'.q)
  <2>1. /\ Place(queue, s) \in 1..Len(queue) /\ Len(queue) \in Nat
        /\ Place(queue, Sentinel) = 0 /\ Place(queue, QueueLast(queue)) = Len(queue)
    BY QueueFacts
  <2>2. Ahead(queue, cursor, s) \in Nat /\ Ahead(queue, cursor, s) <= Cardinality(Slot)
    BY <1>6, AheadBounds
  <2>3. Gained(still[s]) + Ahead(queue, cursor, s) <= Cardinality(Slot)
    <3>1. CASE still[s] = 0
      BY <2>2, <3>1, GainedBy
    <3>2. CASE still[s] # 0
      BY <1>1, <3>2 DEF LapInv, Near
    <3> QED
      BY <3>1, <3>2
  <2>4. CASE cursor = Sentinel
    BY <1>5, <2>1, <2>3, <2>4 DEF Ahead
  <2>5. CASE cursor # Sentinel
    BY <1>5, <2>3, <2>5
  <2> QED
    BY <2>4, <2>5
<1>8. OnItsWay'
  <2>1. ASSUME NEW s \in tree
        PROVE  /\ Gained(still[s]) + Ahead(queue, walk'.q, s) + 0 <= Cardinality(Slot)
               /\ walk'.wrapped => Place(queue, s) <= Place(queue, walk'.q)
    <3>1. Gained(still[s]) \in Nat
      <4>1. s \in Slot /\ still[s] \in Nat
        BY DEF LapInv, TypeOK
      <4> QED
        BY <4>1, GainedBy
    <3>2. Ahead(queue, cursor, s) \in Nat
      BY <1>6, AheadBounds
    <3> QED
      BY <1>7, <3>1, <3>2
  <2> QED
    BY <1>1, <1>4, <1>5, <2>1 DEF OnItsWay
<1>9. (still \in [Slot -> Nat])' /\ ExaminedWhileStill'
  BY <1>1, <1>4 DEF LapInv, ExaminedWhileStill
<1> QED
  BY <1>1, <1>8, <1>9, LapExpire

\* It goes on from the tail.
LEMMA LapWraps ==
  ASSUME IInv, IInv', LapInv, ReclaimNext, NEW p \in Proc, ExpireWrap(p)
  PROVE  LapInv'
<1> USE DEF IInv
<1>1. /\ UNCHANGED <<node, free, tree, queue, cursor, lock, pc>> /\ pc[p] = "expire"
      /\ walk.q = Sentinel /\ ~walk.wrapped
      /\ walk' = [walk EXCEPT !.q = QueueLast(queue), !.wrapped = TRUE]
  BY DEF ExpireWrap, zone
<1>2. walk \in Walk /\ walk.scanned \in Nat
  BY DEF TypeOK, Walk
<1>3. /\ walk'.q = QueueLast(queue) /\ walk'.wrapped = TRUE
      /\ walk'.scanned = walk.scanned /\ walk'.evicted = walk.evicted
  BY <1>1, <1>2 DEF Walk
<1>4. \A q \in Proc : ~ExpireSkip(q) /\ ~ExpireEvict(q) /\ ~ExpireDone(q)
  <2>1. \A q \in Proc : ~ExpireSkip(q) /\ ~ExpireEvict(q)
    BY <1>1 DEF ExpireSkip, ExpireEvict
  <2>2. \A q \in Proc : ~ExpireDone(q)
    BY <1>1, <1>3 DEF ExpireDone, NoWalk
  <2> QED
    BY <2>1, <2>2
<1>5. seen' = seen /\ still' = still
  BY <1>1, <1>4, HistoryElse DEF Reorders
<1>6. OnItsWay
  BY <1>1 DEF LapInv
<1>7. ASSUME NEW s \in tree \ seen
      PROVE  /\ Gained(still[s]) + Ahead(queue, walk'.q, s) + walk.scanned <= Cardinality(Slot)
             /\ Place(queue, s) <= Place(queue, walk'.q)
  <2>1. /\ Place(queue, s) \in 1..Len(queue) /\ Len(queue) \in Nat
        /\ Place(queue, Sentinel) = 0 /\ Place(queue, QueueLast(queue)) = Len(queue)
    BY QueueFacts
  <2>2. Ahead(queue, walk'.q, s) = Ahead(queue, walk.q, s)
    BY <1>1, <1>3, <2>1 DEF Ahead
  <2> QED
    BY <1>3, <1>6, <2>1, <2>2 DEF OnItsWay
<1>8. OnItsWay'
  BY <1>1, <1>3, <1>5, <1>6, <1>7 DEF OnItsWay
<1>9. (still \in [Slot -> Nat])' /\ ExaminedWhileStill'
  BY <1>1, <1>5 DEF LapInv, ExaminedWhileStill
<1> QED
  BY <1>1, <1>8, <1>9, LapExpire

\* It looks at a node and leaves it: every other one it has not looked at is a
\* place nearer.
LEMMA LapSkips ==
  ASSUME IInv, IInv', LapInv, ReclaimNext, NEW p \in Proc, ExpireSkip(p)
  PROVE  LapInv'
<1> USE DEF IInv
<1>1. /\ UNCHANGED <<node, free, tree, queue, cursor, lock, pc>> /\ pc[p] = "expire"
      /\ walk.q # Sentinel
      /\ walk' = [walk EXCEPT !.q = QueuePrev(queue, walk.q), !.scanned = @ + 1]
  BY DEF ExpireSkip, zone
<1>2. walk \in Walk /\ walk.scanned \in Nat /\ walk.evicted \in Nat
  BY DEF TypeOK, Walk
<1>3. /\ walk'.q = QueuePrev(queue, walk.q) /\ walk'.wrapped = walk.wrapped
      /\ walk'.scanned = walk.scanned + 1 /\ walk'.evicted = walk.evicted
  BY <1>1, <1>2 DEF Walk
<1>4. seen' = seen \union {walk.q} /\ still' = still
  BY HistoryExamined
<1>5. OnItsWay
  BY <1>1 DEF LapInv
<1>6. walk.q \in tree
  BY <1>1 DEF CursorSafe
<1>7. ASSUME NEW s \in tree \ seen, s # walk.q
      PROVE  /\ Gained(still[s]) + Ahead(queue, walk'.q, s) + (walk.scanned + 1)
                  <= Cardinality(Slot)
             /\ walk.wrapped => Place(queue, s) <= Place(queue, walk'.q)
  <2>1. /\ Place(queue, s) \in 1..Len(queue) /\ Len(queue) \in Nat
        /\ Place(queue, walk.q) \in 1..Len(queue)
        /\ Place(queue, walk'.q) = Place(queue, walk.q) - 1
    BY <1>3, <1>6, QueueFacts
  <2>2. Place(queue, s) # Place(queue, walk.q)
    <3>1. queue[Place(queue, s)] = s /\ queue[Place(queue, walk.q)] = walk.q
      BY <1>6, QueueFacts, PlaceOfMembers, NullAssumption
    <3> QED
      BY <1>7, <3>1
  <2>3. Ahead(queue, walk'.q, s) = Ahead(queue, walk.q, s) - 1 /\ Ahead(queue, walk.q, s) \in Nat
    <3> DEFINE j == Place(queue, s)
               k == Place(queue, walk.q)
               n == Len(queue)
    <3>1. /\ Ahead(queue, walk.q, s) = IF j <= k THEN k - j + 1 ELSE k + n - j + 1
          /\ Ahead(queue, walk'.q, s) = IF j <= k - 1 THEN k - 1 - j + 1 ELSE k - 1 + n - j + 1
      BY <2>1 DEF Ahead
    <3>2. j \in 1..n /\ k \in 1..n /\ n \in Nat /\ j # k
      BY <2>1, <2>2
    <3> HIDE DEF j, k, n
    <3> QED
      BY <3>1, <3>2
  <2>4. Gained(still[s]) \in Nat
    <3>1. s \in Slot /\ still[s] \in Nat
      BY DEF LapInv, TypeOK
    <3> QED
      BY <3>1, GainedBy
  <2>5. /\ Gained(still[s]) + Ahead(queue, walk.q, s) + walk.scanned <= Cardinality(Slot)
        /\ walk.wrapped => Place(queue, s) <= Place(queue, walk.q)
    BY <1>5 DEF OnItsWay
  <2>6. Cardinality(Slot) \in Nat
    BY QueueFacts
  <2> HIDE DEF IInv
  <2>7. Gained(still[s]) + Ahead(queue, walk'.q, s) + (walk.scanned + 1) <= Cardinality(Slot)
    BY <1>2, <2>3, <2>4, <2>5, <2>6
  <2>8. walk.wrapped => Place(queue, s) <= Place(queue, walk'.q)
    BY <2>1, <2>2, <2>5
  <2> QED
    BY <2>7, <2>8
<1>8. OnItsWay'
  <2>1. walk'.evicted <= walk'.scanned
    BY <1>2, <1>3, <1>5 DEF OnItsWay
  <2>2. \A s \in (tree \ seen)' : s \in tree \ seen /\ s # walk.q
    BY <1>1, <1>4
  <2> QED
    BY <1>1, <1>3, <1>4, <1>7, <2>1, <2>2 DEF OnItsWay
<1>9. (still \in [Slot -> Nat])' /\ ExaminedWhileStill'
  BY <1>1, <1>4 DEF LapInv, ExaminedWhileStill
<1> QED
  BY <1>1, <1>8, <1>9, LapExpire

\* It unlinks a node: the places after it and the length are one less.
LEMMA LapEvicts ==
  ASSUME IInv, IInv', LapInv, ReclaimNext, NEW p \in Proc, ExpireEvict(p)
  PROVE  LapInv'
<1> USE DEF IInv
<1>1. /\ UNCHANGED <<node, cursor, lock, pc>> /\ pc[p] = "expire" /\ walk.q # Sentinel
      /\ queue' = QueueRemove(queue, walk.q) /\ tree' = tree \ {walk.q}
      /\ walk' = [walk EXCEPT !.q = QueuePrev(queue, walk.q), !.scanned = @ + 1,
                              !.evicted = @ + 1]
  BY DEF ExpireEvict, zone
<1>2. walk \in Walk /\ walk.scanned \in Nat /\ walk.evicted \in Nat
  BY DEF TypeOK, Walk
<1>3. /\ walk'.q = QueuePrev(queue, walk.q) /\ walk'.wrapped = walk.wrapped
      /\ walk'.scanned = walk.scanned + 1 /\ walk'.evicted = walk.evicted + 1
  BY <1>1, <1>2 DEF Walk
<1>4. seen' = seen \union {walk.q} /\ still' = still
  BY HistoryExamined
<1>5. OnItsWay
  BY <1>1 DEF LapInv
<1>6. walk.q \in tree
  BY <1>1 DEF CursorSafe
<1>7. /\ queue \in Seq(Slot) /\ IsInjective(queue) /\ ToSet(queue) = tree
      /\ Len(queue) \in Nat /\ Place(queue, Sentinel) = 0 /\ Cardinality(Slot) \in Nat
      /\ Place(queue, walk.q) \in 1..Len(queue)
      /\ Place(queue, walk'.q) = Place(queue, walk.q) - 1
  BY <1>3, <1>6, QueueFacts
<1>8. /\ Len(queue') = Len(queue) - 1
      /\ \A t \in tree \ {walk.q} :
           Place(queue', t) = IF Place(queue, t) < Place(queue, walk.q) THEN Place(queue, t)
                              ELSE Place(queue, t) - 1
  BY <1>1, <1>6, <1>7, PlacesAfterRemove, NullAssumption
<1>9. walk'.q \in tree \ {walk.q} \/ walk'.q = Sentinel
  BY <1>3, <1>6, PrevInTree
<1>10. Place(queue', walk'.q) = Place(queue, walk.q) - 1
  <2>1. CASE walk'.q = Sentinel
    <3>1. Place(queue', walk'.q) = 0
      BY <2>1 DEF Place
    <3> QED
      BY <1>7, <2>1, <3>1
  <2>2. CASE walk'.q \in tree \ {walk.q}
    BY <1>7, <1>8, <2>2
  <2> QED
    BY <1>9, <2>1, <2>2
<1>11. ASSUME NEW s \in tree \ seen, s # walk.q
       PROVE  /\ Gained(still[s]) + Ahead(queue', walk'.q, s) + (walk.scanned + 1)
                   <= Cardinality(Slot)
              /\ walk.wrapped => Place(queue', s) <= Place(queue', walk'.q)
  <2>1. Place(queue, s) \in 1..Len(queue) /\ queue[Place(queue, s)] = s
        /\ queue[Place(queue, walk.q)] = walk.q
    BY <1>6, <1>7, PlaceOfMembers, NullAssumption
  <2>2. Place(queue, s) # Place(queue, walk.q)
    BY <1>11, <2>1
  <2>3. Place(queue', s) = IF Place(queue, s) < Place(queue, walk.q) THEN Place(queue, s)
                           ELSE Place(queue, s) - 1
    BY <1>8, <1>11
  <2>4. /\ Ahead(queue', walk'.q, s) = Ahead(queue, walk.q, s) - 1
        /\ Ahead(queue, walk.q, s) \in Nat
    BY <1>7, <1>8, <1>10, <2>1, <2>2, <2>3, SMTT(30) DEF Ahead
  <2>5. Gained(still[s]) \in Nat
    <3>1. s \in Slot /\ still[s] \in Nat
      BY DEF LapInv, TypeOK
    <3> QED
      BY <3>1, GainedBy
  <2>6. /\ Gained(still[s]) + Ahead(queue, walk.q, s) + walk.scanned <= Cardinality(Slot)
        /\ walk.wrapped => Place(queue, s) <= Place(queue, walk.q)
    BY <1>5 DEF OnItsWay
  <2> HIDE DEF IInv
  <2>7. Gained(still[s]) + Ahead(queue', walk'.q, s) + (walk.scanned + 1) <= Cardinality(Slot)
    BY <1>2, <1>7, <2>4, <2>5, <2>6
  <2>8. walk.wrapped => Place(queue', s) <= Place(queue', walk'.q)
    BY <1>7, <1>10, <2>1, <2>2, <2>3, <2>6
  <2> QED
    BY <2>7, <2>8
<1>12. OnItsWay'
  <2>1. walk'.evicted <= walk'.scanned
    BY <1>2, <1>3, <1>5 DEF OnItsWay
  <2>2. \A s \in (tree \ seen)' : s \in tree \ seen /\ s # walk.q
    BY <1>1, <1>4
  <2> QED
    BY <1>1, <1>3, <1>4, <1>11, <2>1, <2>2 DEF OnItsWay
<1>13. (still \in [Slot -> Nat])' /\ ExaminedWhileStill'
  BY <1>1, <1>4 DEF LapInv, ExaminedWhileStill
<1> QED
  BY <1>1, <1>12, <1>13, LapExpire

\* It ends: a node it has not looked at has come nearer by the gain and one more.
LEMMA LapEnds ==
  ASSUME IInv, IInv', LapInv, ReclaimNext, NEW p \in Proc, ExpireDone(p)
  PROVE  LapInv'
<1> USE DEF IInv
<1>1. /\ UNCHANGED <<node, free, tree, queue, lock>> /\ pc[p] = "expire" /\ pc'[p] = "alloc"
      /\ InBudget => walk.q = Sentinel /\ walk.wrapped
      /\ cursor' = walk.q
  BY DEF ExpireDone, Goto, TypeOK
<1>2. walk \in Walk /\ walk.scanned \in Nat /\ walk.evicted \in Nat
  BY DEF TypeOK, Walk
<1>3. seen' = {} /\ still' = [s \in Slot |-> Missed(still[s], s)]
  BY HistoryEnded
<1>4. OnItsWay /\ still \in [Slot -> Nat]
  BY <1>1 DEF LapInv
<1>5. tree \subseteq Slot /\ Cardinality(Slot) \in Nat
  BY QueueFacts DEF TypeOK
<1>6. \A s \in Slot : Missed(still[s], s) \in Nat
  BY <1>4 DEF Missed
<1>7. still' \in [Slot -> Nat]
  BY <1>3, <1>6
<1>8. FreeForgotten'
  BY <1>1, <1>3 DEF FreeForgotten, Missed
<1>9. ASSUME NEW s \in tree, still'[s] # 0
      PROVE  /\ Gained(still'[s]) + Ahead(queue, walk.q, s) <= Cardinality(Slot) - 1
             /\ Ahead(queue, walk.q, s) \in Nat /\ Ahead(queue, walk.q, s) >= 1
             /\ Gained(still'[s]) \in Nat
  <2>1. s \notin seen /\ (still'[s] = still[s] \/ still'[s] = still[s] + 1) /\ still[s] \in Nat
    BY <1>3, <1>4, <1>5, <1>9 DEF Missed
  <2>2. Ahead(queue, walk.q, s) \in Nat /\ Ahead(queue, walk.q, s) >= 1
    BY AheadBounds DEF CursorSafe
  <2>3. /\ Gained(still[s]) + Ahead(queue, walk.q, s) + walk.scanned <= Cardinality(Slot)
        /\ walk.wrapped => Place(queue, s) <= Place(queue, walk.q)
    BY <1>4, <2>1 DEF OnItsWay
  <2>4. /\ Gained(still[s]) \in Nat /\ Gained(still'[s]) \in Nat /\ Gain \in Nat
        /\ Gained(still'[s]) <= Gained(still[s]) + Gain
    BY <2>1, GainedBy
  <2>5. ~InBudget
    <3>1. Place(queue, s) \in 1..Len(queue) /\ Place(queue, Sentinel) = 0 /\ Len(queue) \in Nat
      BY QueueFacts
    <3> QED
      BY <1>1, <2>3, <3>1
  <2>6. Gain + 1 <= walk.scanned
    <3>1. walk.scanned >= SCAN \/ walk.evicted >= EVICT
      BY <1>2, <2>5, BoundAssumption DEF InBudget
    <3>2. walk.evicted <= walk.scanned
      BY <1>4 DEF OnItsWay
    <3> QED
      BY <1>2, <2>4, <3>1, <3>2, GainedBy, BoundAssumption
  <2> HIDE DEF IInv
  <2> QED
    BY <1>2, <1>5, <2>2, <2>3, <2>4, <2>6
<1>10. Near(cursor, Cardinality(Slot) - 1)'
  BY <1>1, <1>9 DEF Near
<1>11. ExaminedWhileStill'
  <2> SUFFICES ASSUME NEW s \in tree, still'[s] # 0
               PROVE  Gained(still'[s]) <= Cardinality(Slot) - 2
    BY <1>1 DEF ExaminedWhileStill, Gained
  <2> QED
    BY <1>5, <1>9
<1> QED
  BY <1>1, <1>3, <1>7, <1>8, <1>10, <1>11, LapAlloc

\* The client's node is linked: one more may stand before another node.
LEMMA LapInserts ==
  ASSUME IInv, IInv', LapInv, ReclaimNext, NEW p \in Proc, Insert(p)
  PROVE  LapInv'
<1> USE DEF IInv
<1>1. PICK s0 \in free : /\ tree' = tree \union {s0} /\ queue' = QueueInsertHead(queue, s0)
                         /\ cursor' = cursor /\ lock' = NoProc
                         /\ pc[p] = "alloc" /\ walk' = walk
  BY DEF Insert
<1>2. s0 \in Slot \ tree
  BY <1>1 DEF ZoneConsistent, TypeOK
<1>3. \A q \in Proc : ~ExpireSkip(q) /\ ~ExpireEvict(q) /\ ~ExpireDone(q)
  <2>1. \A q \in Proc : pc[q] # "expire"
    BY <1>1, SectionExclusive DEF InSection
  <2> QED
    BY <2>1 DEF ExpireSkip, ExpireEvict, ExpireDone
<1>4. seen' = seen /\ still' = still /\ seen = {}
  <2>1. ~Reorders
    BY <1>1, <1>2 DEF Reorders
  <2>2. \A q \in Proc : pc[q] # "expire"
    BY <1>1, SectionExclusive DEF InSection
  <2> QED
    BY <1>3, <2>1, <2>2, HistoryElse DEF LapInv
<1>5. FreeForgotten /\ Near(cursor, Cardinality(Slot) - 1) /\ still \in [Slot -> Nat]
  BY <1>1 DEF LapInv
<1>6. /\ queue \in Seq(Slot) /\ IsInjective(queue) /\ ToSet(queue) = tree
      /\ Len(queue) \in Nat /\ Cardinality(Slot) \in Nat
      /\ Place(queue, Sentinel) = 0
      /\ \A s \in tree : Place(queue, s) \in 1..Len(queue)
  BY QueueFacts
<1>7. cursor \in tree \union {Sentinel}
  <2>1. \A q \in Proc : pc[q] # "expire"
    BY <1>1, SectionExclusive DEF InSection
  <2> QED
    BY <2>1 DEF CursorSafe
<1>8. /\ Len(queue') = Len(queue) + 1
      /\ \A t \in tree : Place(queue', t) = Place(queue, t) + 1
  BY <1>1, <1>2, <1>6, PlacesAfterInsert, NullAssumption
<1>9. Place(queue', Sentinel) = 0
  BY DEF Place
<1>10. Near(cursor, Cardinality(Slot))'
  <2> SUFFICES ASSUME NEW s \in tree', still[s] # 0
               PROVE  Gained(still[s]) + Ahead(queue', cursor, s) <= Cardinality(Slot)
    BY <1>1, <1>4 DEF Near
  <2>1. s \in tree
    BY <1>1, <1>2, <1>5 DEF FreeForgotten
  <2>2. Gained(still[s]) + Ahead(queue, cursor, s) <= Cardinality(Slot) - 1
    BY <1>5, <2>1 DEF Near
  <2>3. Gained(still[s]) \in Nat
    <3>1. still[s] \in Nat
      BY <1>5, <2>1 DEF TypeOK
    <3> QED
      BY <3>1, GainedBy
  <2>4. /\ Ahead(queue', cursor, s) <= Ahead(queue, cursor, s) + 1
        /\ Ahead(queue', cursor, s) \in Nat /\ Ahead(queue, cursor, s) \in Nat
    <3> DEFINE j == Place(queue, s)
               k == Place(queue, cursor)
               n == Len(queue)
               m == Place(queue', cursor)
    <3>1. /\ Ahead(queue, cursor, s) = IF j <= k THEN k - j + 1 ELSE k + n - j + 1
          /\ Ahead(queue', cursor, s) = IF j + 1 <= m THEN m - (j + 1) + 1
                                        ELSE m + (n + 1) - (j + 1) + 1
      BY <1>8, <2>1 DEF Ahead
    <3>2. j \in 1..n /\ k \in 0..n /\ n \in Nat
      BY <1>6, <1>7, <2>1
    <3>3. m = k + 1 \/ (m = 0 /\ k = 0)
      BY <1>6, <1>7, <1>8, <1>9
    <3> HIDE DEF j, k, n, m
    <3> QED
      BY <3>1, <3>2, <3>3
  <2> HIDE DEF IInv
  <2> QED
    BY <1>6, <2>2, <2>3, <2>4
<1>11. FreeForgotten'
  BY <1>1, <1>4, <1>5 DEF FreeForgotten
<1>12. ExaminedWhileStill'
  <2>1. ASSUME NEW s \in tree', still[s] # 0 PROVE s \in tree
    BY <1>1, <1>2, <1>5, <2>1 DEF FreeForgotten
  <2> QED
    BY <1>4, <2>1 DEF LapInv, ExaminedWhileStill
<1> QED
  BY <1>1, <1>4, <1>5, <1>10, <1>11, <1>12, LapOutside

\* The slab is full.
LEMMA LapFull ==
  ASSUME IInv, IInv', LapInv, ReclaimNext, NEW p \in Proc, ZoneFull(p)
  PROVE  LapInv'
<1> USE DEF IInv
<1>1. UNCHANGED <<tree, queue, cursor, walk>> /\ lock' = NoProc /\ pc[p] = "alloc"
  BY DEF ZoneFull, zone
<1>2. \A q \in Proc : pc[q] # "expire"
  BY <1>1, SectionExclusive DEF InSection
<1>3. \A q \in Proc : ~ExpireSkip(q) /\ ~ExpireEvict(q) /\ ~ExpireDone(q)
  BY <1>2 DEF ExpireSkip, ExpireEvict, ExpireDone
<1>4. seen' = seen /\ still' = still /\ seen = {}
  BY <1>1, <1>2, <1>3, HistoryElse DEF Reorders, LapInv
<1>5. FreeForgotten /\ Near(cursor, Cardinality(Slot) - 1) /\ still \in [Slot -> Nat]
  BY <1>1 DEF LapInv
<1>6. Near(cursor, Cardinality(Slot))
  <2>1. Cardinality(Slot) \in Nat
    BY QueueFacts
  <2>2. cursor \in tree \union {Sentinel}
    BY <1>2 DEF CursorSafe
  <2> SUFFICES ASSUME NEW s \in tree, still[s] # 0
               PROVE  Gained(still[s]) + Ahead(queue, cursor, s) <= Cardinality(Slot)
    BY DEF Near
  <2>3. Gained(still[s]) + Ahead(queue, cursor, s) <= Cardinality(Slot) - 1
    BY <1>5 DEF Near
  <2>4. Ahead(queue, cursor, s) \in Nat
    BY <2>2, AheadBounds
  <2>5. still[s] \in Nat
    BY <1>5 DEF TypeOK
  <2>6. Gained(still[s]) \in Nat
    BY <2>5, GainedBy
  <2> QED
    BY <2>1, <2>3, <2>4, <2>6
<1>7. FreeForgotten' /\ Near(cursor, Cardinality(Slot))' /\ (still \in [Slot -> Nat])'
  BY <1>1, <1>4, <1>5, <1>6 DEF FreeForgotten, Near
<1>8. ExaminedWhileStill'
  BY <1>1, <1>4 DEF LapInv, ExaminedWhileStill
<1> QED
  BY <1>1, <1>4, <1>7, <1>8, LapOutside

\* Nobody is in the section, and a step leaves the queue alone or reorders it.
LEMMA LapQuiet ==
  ASSUME IInv, IInv', LapInv, ReclaimNext, lock = NoProc, lock' = NoProc,
         tree' = tree, cursor' = cursor
  PROVE  LapInv'
<1> USE DEF IInv
<1>1. \A q \in Proc : pc[q] # "expire"
  BY SectionEmpty DEF InSection
<1>2. \A q \in Proc : ~ExpireSkip(q) /\ ~ExpireEvict(q) /\ ~ExpireDone(q)
  BY <1>1 DEF ExpireSkip, ExpireEvict, ExpireDone
<1>3. /\ seen' = {} /\ still \in [Slot -> Nat]
      /\ still' = IF Reorders THEN [s \in Slot |-> 0] ELSE still
  BY <1>1, <1>2, HistoryElse DEF LapInv
<1>4. FreeForgotten /\ Near(cursor, Cardinality(Slot)) /\ ExaminedWhileStill
  BY DEF LapInv
<1>5. CASE Reorders
  <2>1. \A s \in Slot : still'[s] = 0
    BY <1>3, <1>5
  <2>2. still' \in [Slot -> Nat]
    BY <1>3, <1>5
  <2>3. tree' \subseteq Slot
    BY DEF TypeOK
  <2>4. FreeForgotten' /\ Near(cursor, Cardinality(Slot))' /\ ExaminedWhileStill'
    BY <2>1, <2>3 DEF FreeForgotten, Near, ExaminedWhileStill
  <2> QED
    BY <1>3, <2>2, <2>4, LapOutside
<1>6. CASE ~Reorders
  <2>1. queue' = queue /\ still' = still
    BY <1>3, <1>6 DEF Reorders
  <2>2. FreeForgotten' /\ Near(cursor, Cardinality(Slot))' /\ ExaminedWhileStill'
    BY <1>4, <2>1 DEF FreeForgotten, Near, ExaminedWhileStill
  <2> QED
    BY <1>3, <2>1, <2>2, LapOutside
<1> QED
  BY <1>5, <1>6

\* A request is in the section, and the step is another's.
LEMMA LapApart ==
  ASSUME IInv, IInv', LapInv, ReclaimNext, [Next]_vars, NEW p \in Proc, InSection(p),
         ~HolderStep(p)
  PROVE  LapInv'
<1> USE DEF IInv
<1>1. UNCHANGED <<tree, queue, cursor, walk, pc[p]>>
  BY SectionAlone
<1>2. \A q \in Proc : ~ExpireSkip(q) /\ ~ExpireEvict(q) /\ ~ExpireDone(q)
  <2>1. ASSUME NEW q \in Proc, ExpireSkip(q) \/ ExpireEvict(q) \/ ExpireDone(q)
        PROVE  FALSE
    <3>1. q = p
      BY <2>1, SectionExclusive DEF ExpireSkip, ExpireEvict, ExpireDone, InSection
    <3> QED
      BY <2>1, <3>1 DEF HolderStep
  <2> QED
    BY <2>1
<1>3. seen' = seen /\ still' = still /\ still \in [Slot -> Nat]
  BY <1>1, <1>2, HistoryElse DEF Reorders, LapInv
<1>4. ExaminedWhileStill'
  BY <1>1, <1>3 DEF LapInv, ExaminedWhileStill
<1>5. CASE pc[p] = "expire"
  <2>1. OnItsWay
    BY <1>5 DEF LapInv
  <2>2. OnItsWay'
    BY <1>1, <1>3, <2>1 DEF OnItsWay
  <2> QED
    BY <1>1, <1>3, <1>4, <1>5, <2>2, LapExpire
<1>6. CASE pc[p] = "alloc"
  <2>1. FreeForgotten /\ Near(cursor, Cardinality(Slot) - 1)
    BY <1>6 DEF LapInv
  <2>2. seen = {}
    BY <1>6, SectionExclusive DEF LapInv, InSection
  <2>3. FreeForgotten' /\ Near(cursor, Cardinality(Slot) - 1)'
    BY <1>1, <1>3, <2>1 DEF FreeForgotten, Near
  <2> QED
    BY <1>1, <1>3, <1>4, <1>6, <2>2, <2>3, LapAlloc
<1> QED
  BY <1>5, <1>6 DEF InSection

LEMMA LapInit == ReclaimInit => LapInv
<1> SUFFICES ASSUME ReclaimInit PROVE LapInv
  OBVIOUS
<1>1. tree = {} /\ seen = {} /\ still = [s \in Slot |-> 0] /\ \A p \in Proc : pc[p] = "idle"
  BY DEF ReclaimInit, Init
<1>2. still \in [Slot -> Nat] /\ FreeForgotten
  BY <1>1 DEF FreeForgotten
<1> QED
  BY <1>1, <1>2 DEF LapInv, ExaminedWhileStill, Near

LEMMA LapStep == IInv /\ LapInv /\ [ReclaimNext]_reclaimVars => LapInv'
<1> SUFFICES ASSUME IInv, LapInv, [ReclaimNext]_reclaimVars PROVE LapInv'
  OBVIOUS
<1>1. CASE UNCHANGED reclaimVars
  <2>1. UNCHANGED <<tree, queue, cursor, lock, pc, walk, seen, still>>
    BY <1>1 DEF reclaimVars, vars, zone
  <2> QED
    BY <2>1 DEF LapInv, ExaminedWhileStill, FreeForgotten, Near, OnItsWay
<1>2. CASE ReclaimNext
  <2>1. [Next]_vars
    BY <1>2 DEF ReclaimNext, Next
  <2>2. IInv'
    BY <2>1, StepIInv
  <2>3. CASE \E p \in Proc : InSection(p)
    <3>1. PICK p \in Proc : InSection(p)
      BY <2>3
    <3>2. CASE ~HolderStep(p)
      BY <1>2, <2>1, <2>2, <3>1, <3>2, LapApart
    <3>3. CASE HolderStep(p)
      BY <1>2, <2>2, <3>3, LapWraps, LapSkips, LapEvicts, LapEnds, LapInserts, LapFull
        DEF HolderStep
    <3> QED
      BY <3>2, <3>3
  <2>4. CASE \A p \in Proc : ~InSection(p)
    <3>1. lock = NoProc
      BY <2>4 DEF IInv, TypeOK, MutexHeld
    <3>2. ASSUME NEW p \in Proc, RecordUnknown(p) PROVE LapInv'
      BY <1>2, <2>2, <3>2, LapStarts
    <3>3. CASE \A p \in Proc : ~RecordUnknown(p)
      <4>1. ASSUME NEW p \in Proc, RequestStep(p)
            PROVE  lock' = lock /\ tree' = tree /\ cursor' = cursor
        BY <3>3, <4>1 DEF RequestStep, Start, Refuse, Admit, InspectClean, InspectHit,
             RecordKnown, CountHit, zone
      <4>2. \A p \in Proc : ~HolderStep(p)
        BY <2>4 DEF HolderStep, ExpireWrap, ExpireSkip, ExpireEvict, ExpireDone, Insert,
             ZoneFull, InSection
      <4>3. Tick => lock' = lock /\ tree' = tree /\ cursor' = cursor
        BY DEF Tick, zone
      <4>4. lock' = lock /\ tree' = tree /\ cursor' = cursor
        BY <1>2, <4>1, <4>2, <4>3 DEF ReclaimNext, ForwardNext
      <4> QED
        BY <1>2, <2>2, <3>1, <4>4, LapQuiet
    <3> QED
      BY <3>2, <3>3
  <2> QED
    BY <2>3, <2>4
<1> QED
  BY <1>1, <1>2

\* While no lookup reorders the queue, each node is examined within as many walks
\* as it takes to get round, for any number of slots and any budgets: the cursor
\* gains on every node in every walk, whatever is freed and linked meanwhile.
THEOREM ExaminedInTime == ReclaimSpec => []ExaminedWhileStill
<1>1. ReclaimSpec => Spec
  <2>1. ReclaimInit => Init
    BY DEF ReclaimInit
  <2>2. [ReclaimNext]_reclaimVars => [Next]_vars
    BY DEF ReclaimNext, Next, reclaimVars
  <2> QED
    BY <2>1, <2>2, PTL DEF ReclaimSpec, Spec
<1>2. LapInv => ExaminedWhileStill
  BY DEF LapInv
<1> QED
  BY <1>1, <1>2, LapInit, LapStep, InductiveInvariant, PTL DEF ReclaimSpec
==============================================================================
