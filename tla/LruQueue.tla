------------------------------- MODULE LruQueue -------------------------------
(***************************************************************************)
(* The LRU list of a ban zone: an ngx_queue_t as the sequence of its       *)
(* members from the head, the one touched last, to the tail.               *)
(***************************************************************************)
EXTENDS Integers, Sequences, SequencesExt

CONSTANT Sentinel  \* the list head itself: "no member"

Position(q, s) == CHOOSE i \in DOMAIN q : q[i] = s

QueueRemove(q, s) == RemoveAt(q, Position(q, s))

QueueInsertHead(q, s) == <<s>> \o q

\* Move a member to the head.
QueueTouch(q, s) == QueueInsertHead(QueueRemove(q, s), s)

\* The tail, or the list head when the list is empty.
QueueLast(q) == IF q = <<>> THEN Sentinel ELSE Last(q)

\* The neighbour towards the head; of the first member, the list head.
QueuePrev(q, s) == IF Position(q, s) = 1 THEN Sentinel ELSE q[Position(q, s) - 1]
===============================================================================
