-------------------------- MODULE ShieldRequestProof --------------------------
(* Theorems about a request: what its context may hold, what it may be denied *)
(* for, and how its hits are counted.                                         *)
EXTENDS ShieldRequest, TLAPS

\* The nodes whose key is in A.
NodeOf(A) ==
  [addr : A, hits : Nat, window_start : Time, banned_until : Time]

Positive == Nat \ {0}

\* A hit leaves a node of the same address.
LEMMA CountTyped ==
  ASSUME NEW A, NEW n \in NodeOf(A), NEW now \in Time, NEW pol, pol.ban_time \in Positive
  PROVE  Count(n, now, pol) \in NodeOf(A)
<1> DEFINE r == Retire(n, now)
           w == RollWindow(r, now, pol.window)
           until == TimeAddClamp(now, pol.ban_time)
<1>1. \A k \in NodeOf(A), h \in Nat : [k EXCEPT !.hits = h] \in NodeOf(A)
  BY DEF NodeOf
<1>2. \A k \in NodeOf(A), t \in Time : [k EXCEPT !.window_start = t] \in NodeOf(A)
  BY DEF NodeOf
<1>3. \A k \in NodeOf(A), t \in Time : [k EXCEPT !.banned_until = t] \in NodeOf(A)
  BY DEF NodeOf
<1>4. r \in NodeOf(A)
  BY <1>3, TimeMaxAssumption DEF Retire, Time
<1>5. w \in NodeOf(A)
  <2>1. [r EXCEPT !.window_start = now, !.hits = 0] =
          [[r EXCEPT !.window_start = now] EXCEPT !.hits = 0]
    OBVIOUS
  <2> HIDE DEF r
  <2> QED
    BY <1>1, <1>2, <1>4, <2>1 DEF RollWindow
<1>6. until \in Time
  BY TimeMaxAssumption DEF TimeAddClamp, Time, Positive
<1>7. w.hits + 1 \in Nat
  <2> HIDE DEF w
  <2> QED
    BY <1>5 DEF NodeOf
<1> HIDE DEF w, until
<1>8. [w EXCEPT !.hits = 0, !.window_start = now, !.banned_until = until] \in NodeOf(A)
  <2>1. [w EXCEPT !.hits = 0, !.window_start = now, !.banned_until = until] =
          [[[w EXCEPT !.hits = 0] EXCEPT !.window_start = now] EXCEPT !.banned_until = until]
    OBVIOUS
  <2> QED
    BY <1>1, <1>2, <1>3, <1>5, <1>6, <2>1
<1>9. [w EXCEPT !.hits = @ + 1] \in NodeOf(A)
  BY <1>1, <1>5, <1>7
<1> QED
  BY <1>8, <1>9 DEF Count, w, until

\* What the phases may end a request with.
Statuses == {"none", "denied", "banned", "failed", "error", "refused"}

\* The request in use of a slot.
Req ==
  [addr : Addr, pre : BOOLEAN, body : {"none", "clean", "attack"},
   loc : Locations, now : Nat, ctx : Verdicts, buffered : BOOLEAN,
   where : {"pre", "body"}, changes : 0..MaxChanges, paged : BOOLEAN,
   blocking : BOOLEAN, bodied : BOOLEAN, hits : 0..TallyMax, denials : 0..TallyMax,
   status : Statuses, answer : Answers]

\* The location inspects nothing that holds an attack, or does not block.
Harmless(r) ==
  r.loc.mode = "block" => ~r.pre /\ ~(r.loc.body /\ r.body = "attack")

\* A verdict that is justified: on the body in the context (bodyOnly), or as a
\* status, where it may also come from the target and headers.  A body that
\* justifies one is buffered, so no failed read changes it later.
Justified(r, verdict) ==
  /\ verdict = "denied" =>
       r.blocking /\ (r.pre \/ (r.body = "attack" /\ r.buffered))
  /\ verdict = "failed" => r.blocking

\* The labels between the ban check and the counting of a hit.
Uncounted == {"check", "inspect", "context", "reading", "record", "count"}

\* A body is asked for only where it is inspected and nothing was found before it.
Asked(r, l) ==
  /\ InspectsBody(r.loc) => r.bodied
  /\ l \in Uncounted => r.loc.mode # "off"
  /\ l \in {"context", "reading"} => r.loc.body /\ r.body # "none"
  /\ l # "done" => r.answer = "none"
  /\ r.status = "refused" \/ r.answer \in {"closed", "aborted"} =>
       r.bodied /\ ~r.pre /\ r.body # "none"

\* A request counted as blocked has its status, or is on its way to it; one that
\* is on its way to "denied" was counted where there is a zone.
Tallied(r, l) ==
  /\ r.denials > 0 =>
       \/ r.status # "none"
       \/ l = "act" /\ r.loc.mode = "block"
       \/ l = "handler" /\ r.ctx = "denied"
  /\ l = "handler" /\ r.ctx = "denied" => r.loc.mode = "block"
  /\ \/ l = "act" /\ r.loc.mode = "block"
     \/ l = "handler" /\ r.ctx = "denied"
     \/ l = "special" /\ r.status = "denied"
     => (r.loc.ban => r.denials > 0)
  /\ r.answer = "served" => r.denials = 0

\* What holds of request r when its next step is l and the clock is c.
Sound(r, l, c) ==
  /\ r.now \in 0..c
  /\ l \in Uncounted => r.now >= 1 /\ r.hits = 0
  /\ r.hits <= 1
  /\ r.loc.mode = "block" => r.blocking
  /\ l \in {"context", "reading"} => ~r.pre
  /\ l \in {"record", "count", "act"} =>
       \/ r.where = "pre" /\ r.pre
       \/ r.where = "body" /\ r.body = "attack" /\ r.buffered
  /\ l = "handler" =>
       /\ r.ctx = "none" => r.hits = 0
       /\ r.ctx = "declined" => Harmless(r)
       /\ Justified(r, r.ctx)
  /\ l = "content" => Harmless(r)
  /\ Justified(r, r.status)
  /\ Asked(r, l)
  /\ Tallied(r, l)

EntriesTyped ==
  /\ DOMAIN entry = Addr
  /\ \A a \in Addr : entry[a] = Absent \/ entry[a] \in NodeOf({a})

Shape ==
  /\ clock \in 1..MaxClock
  /\ pc \in [Request -> Labels \union {"free"}]
  /\ st \in [Request -> Req \union {NoRequest}]

IInv ==
  /\ Shape
  /\ \A p \in Request :
       IF pc[p] = "free"
         THEN st[p] = NoRequest
         ELSE st[p] \in Req /\ Sound(st[p], pc[p], clock)

\* The step of one request: it carries r and is at l.
Moved(p, r, l) ==
  /\ st' = [st EXCEPT ![p] = r]
  /\ pc' = [pc EXCEPT ![p] = l]
  /\ UNCHANGED clock

LEMMA MovedKeeps ==
  ASSUME IInv, NEW p \in Request, NEW r \in Req, NEW l \in Labels,
         Moved(p, r, l), Sound(r, l, clock)
  PROVE  IInv'
<1>1. Shape'
  BY DEF IInv, Shape, Moved
<1>2. l # "free"
  BY DEF Labels
<1>3. st'[p] = r /\ pc'[p] = l
  BY DEF IInv, Shape, Moved
<1>4. \A q \in Request : q # p => st'[q] = st[q] /\ pc'[q] = pc[q]
  BY DEF IInv, Shape, Moved
<1>5. clock' = clock
  BY DEF Moved
<1>6. ASSUME NEW q \in Request, q # p
      PROVE  IF pc'[q] = "free"
               THEN st'[q] = NoRequest
               ELSE st'[q] \in Req /\ Sound(st'[q], pc'[q], clock')
  BY <1>4, <1>5, <1>6 DEF IInv
<1> QED
  BY <1>1, <1>2, <1>3, <1>5, <1>6 DEF IInv

\* A step of p that leaves IInv as it is.
StaysSound(p) ==
  \E r \in Req, l \in Labels : Moved(p, r, l) /\ Sound(r, l, clock)

------------------------------------------------------------------------------
(* One lemma per action, or per kind of action.                             *)

\* The handler lets a request pass only if it is harmless there, and ends it
\* only with a verdict that is justified.
LEMMA StepConclude ==
  ASSUME IInv, NEW p \in Request, pc[p] \notin {"free", "done"},
         NEW v \in {"declined", "denied", "failed", "banned", "error"},
         Conclude(p, v), UNCHANGED clock,
         v = "declined" => Harmless(st[p]), Justified(st[p], v),
         v = "declined" => (st[p].denials > 0 => st[p].status # "none"),
         v = "denied" => (st[p].loc.ban => st[p].denials > 0)
  PROVE  StaysSound(p)
<1>1. st[p] \in Req /\ Sound(st[p], pc[p], clock)
  BY DEF IInv
<1>2. CASE v = "declined"
  <2>1. Moved(p, st[p], "content")
    BY <1>2 DEF Moved, Conclude, Goto, IInv, Shape
  <2>2. Sound(st[p], "content", clock)
    BY <1>1, <1>2 DEF Sound, Asked, Tallied, InspectsBody, Uncounted
  <2> QED
    BY <1>1, <2>1, <2>2 DEF Labels, StaysSound
<1>3. CASE v # "declined"
  <2> DEFINE r == [st[p] EXCEPT !.status = v]
  <2>1. Moved(p, r, "special")
    BY <1>3 DEF Moved, Conclude, Goto
  <2>2. r \in Req
    BY <1>1, <1>3 DEF Req, Statuses
  <2>3. Sound(r, "special", clock)
    BY <1>1 DEF Req, Sound, Asked, Tallied, InspectsBody, Uncounted, Justified
  <2> QED
    BY <2>1, <2>2, <2>3 DEF Labels, StaysSound
<1> QED
  BY <1>2, <1>3

\* The body callback keeps a verdict on the same terms.
LEMMA StepKeep ==
  ASSUME IInv, NEW p \in Request, pc[p] \in {"reading", "act"},
         NEW v \in {"declined", "denied", "failed"},
         Keep(p, v), UNCHANGED clock,
         v = "declined" => Harmless(st[p]),
         v = "denied" => st[p].blocking /\ st[p].body = "attack",
         v = "failed" => st[p].blocking,
         v # "denied" => (st[p].denials > 0 => st[p].status # "none"),
         v = "denied" =>
           st[p].loc.mode = "block" /\ (st[p].loc.ban => st[p].denials > 0)
  PROVE  StaysSound(p)
<1> DEFINE r == [st[p] EXCEPT !.ctx = v, !.buffered = TRUE]
<1>1. st[p] \in Req /\ Sound(st[p], pc[p], clock)
  BY DEF IInv
<1>2. Moved(p, r, "handler")
  BY DEF Moved, Keep, Goto
<1>3. r \in Req
  BY <1>1 DEF Req, Verdicts
<1>4. Sound(r, "handler", clock)
  BY <1>1 DEF Req, Sound, Asked, Tallied, InspectsBody, Uncounted, Justified, Harmless
<1> QED
  BY <1>2, <1>3, <1>4 DEF Labels, StaysSound

LEMMA StepHandler ==
  ASSUME IInv, NEW p \in Request, Handler(p)
  PROVE  StaysSound(p)
<1>1. CASE Off(p)
  <2>1. Harmless(st[p])
    BY <1>1 DEF Off, Harmless
  <2>2. Sound(st[p], "handler", clock) /\ st[p].loc.mode # "block"
    BY <1>1 DEF IInv, Off
  <2>3. st[p].denials > 0 => st[p].status # "none"
    BY <2>2 DEF Sound, Tallied
  <2> QED
    BY <1>1, <2>1, <2>3, StepConclude DEF Off, Justified
<1>2. CASE Resume(p)
  <2>1. st[p] \in Req /\ Sound(st[p], "handler", clock)
    BY <1>2 DEF IInv, Resume
  <2>2. st[p].ctx \in {"declined", "denied", "failed"}
    BY <1>2, <2>1 DEF Resume, HasVerdict, Req, Verdicts
  <2>3. /\ st[p].ctx = "declined" => Harmless(st[p])
        /\ Justified(st[p], st[p].ctx)
        /\ st[p].ctx = "declined" => (st[p].denials > 0 => st[p].status # "none")
        /\ st[p].ctx = "denied" => (st[p].loc.ban => st[p].denials > 0)
    BY <2>1 DEF Sound, Tallied
  <2> QED
    BY <1>2, <2>2, <2>3, StepConclude DEF Resume
<1>3. CASE Check(p)
  <2> DEFINE r == [st[p] EXCEPT !.now = clock]
             l == IF st[p].loc.ban THEN "check" ELSE "inspect"
  <2>1. st[p] \in Req /\ Sound(st[p], "handler", clock) /\ clock \in Nat /\ clock >= 1
    BY <1>3, RequestBoundAssumption, TimeMaxAssumption DEF IInv, Shape, Check
  <2>2. Moved(p, r, l)
    BY <1>3 DEF Check, Moved, Goto
  <2>3. r \in Req
    BY <2>1 DEF Req
  <2>4. st[p].ctx = "none" /\ st[p].loc.mode # "off"
    BY <1>3 DEF Check, HasVerdict
  <2>5. Sound(r, l, clock)
    BY <2>1, <2>4 DEF Req, Sound, Asked, Tallied, InspectsBody, Uncounted, Justified
  <2> QED
    BY <2>2, <2>3, <2>5 DEF Labels, StaysSound
<1>4. CASE Refuse(p)
  BY <1>4, StepConclude DEF Refuse, Justified
<1>5. CASE Admit(p)
  <2>1. st[p] \in Req /\ Sound(st[p], "check", clock)
    BY <1>5 DEF IInv, Admit
  <2>2. Moved(p, st[p], "inspect")
    BY <1>5 DEF Admit, Moved, Goto, IInv, Shape
  <2>3. Sound(st[p], "inspect", clock)
    BY <2>1 DEF Sound, Asked, Tallied, InspectsBody, Uncounted
  <2> QED
    BY <2>1, <2>2, <2>3 DEF Labels, StaysSound
<1> QED
  BY <1>1, <1>2, <1>3, <1>4, <1>5 DEF Handler

\* An inspection that fails is no reason to serve where it blocks, and none to
\* fail where it does not.
LEMMA FailIsJustified ==
  ASSUME NEW r \in Req, r.loc.mode = "block" => r.blocking
  PROVE  /\ Fail(r.loc) \in {"declined", "failed"}
         /\ Fail(r.loc) = "declined" => Harmless(r)
         /\ Fail(r.loc) = "failed" => r.blocking
BY DEF Fail, Harmless

\* So is a hit.
LEMMA ActIsJustified ==
  ASSUME NEW r \in Req, r.loc.mode = "block" => r.blocking
  PROVE  /\ Act(r.loc) \in {"declined", "denied"}
         /\ Act(r.loc) = "declined" => Harmless(r)
         /\ Act(r.loc) = "denied" => r.blocking
BY DEF Act, Harmless

LEMMA StepInspect ==
  ASSUME IInv, NEW p \in Request, Inspect(p)
  PROVE  StaysSound(p)
<1>1. CASE PreHit(p)
  <2> DEFINE r == [st[p] EXCEPT !.where = "pre"]
             l == IF st[p].loc.ban THEN "record" ELSE "act"
  <2>1. st[p] \in Req /\ Sound(st[p], "inspect", clock) /\ st[p].pre
    BY <1>1 DEF IInv, PreHit
  <2>2. Moved(p, r, l)
    BY <1>1 DEF PreHit, AfterHit, Moved, Goto
  <2>3. r \in Req
    BY <2>1 DEF Req
  <2>4. Sound(r, l, clock)
    BY <2>1 DEF Req, Sound, Asked, Tallied, InspectsBody, Uncounted, Justified
  <2> QED
    BY <2>2, <2>3, <2>4 DEF Labels, StaysSound
<1>2. CASE PreFails(p)
  <2>1. st[p] \in Req /\ Sound(st[p], "inspect", clock)
    BY <1>2 DEF IInv, PreFails
  <2>2. /\ Fail(st[p].loc) \in {"declined", "failed"}
        /\ Fail(st[p].loc) = "declined" => Harmless(st[p])
        /\ Justified(st[p], Fail(st[p].loc))
    BY <2>1, FailIsJustified DEF Sound, Justified
  <2>3. st[p].denials > 0 => st[p].status # "none"
    BY <2>1 DEF Sound, Tallied
  <2> QED
    BY <1>2, <2>2, <2>3, StepConclude DEF PreFails
<1>3. CASE PreClean(p)
  <2> DEFINE l == IF st[p].loc.body /\ st[p].body # "none"
                    THEN "context" ELSE "content"
  <2>1. st[p] \in Req /\ Sound(st[p], "inspect", clock) /\ ~st[p].pre
    BY <1>3 DEF IInv, PreClean
  <2>2. Moved(p, st[p], l)
    BY <1>3 DEF PreClean, Moved, Goto, IInv, Shape
  <2>3. Sound(st[p], l, clock)
    BY <2>1 DEF Sound, Asked, Tallied, InspectsBody, Uncounted, Harmless
  <2> QED
    BY <2>1, <2>2, <2>3 DEF Labels, StaysSound
<1>4. CASE ContextFails(p)
  <2> DEFINE r == [st[p] EXCEPT !.answer = "closed"]
  <2>1. st[p] \in Req /\ Sound(st[p], "context", clock)
    BY <1>4 DEF IInv, ContextFails
  <2>2. Moved(p, r, "done")
    BY <1>4 DEF ContextFails, Moved, Goto
  <2>3. r \in Req
    BY <2>1 DEF Req, Answers
  <2>4. Sound(r, "done", clock)
    BY <2>1 DEF Req, Sound, Asked, Tallied, InspectsBody, Uncounted, Justified
  <2> QED
    BY <2>2, <2>3, <2>4 DEF Labels, StaysSound
<1>5. CASE ReadBody(p)
  <2> DEFINE r == [st[p] EXCEPT !.ctx = "declined"]
  <2>1. st[p] \in Req /\ Sound(st[p], "context", clock)
    BY <1>5 DEF IInv, ReadBody
  <2>2. Moved(p, r, "reading")
    BY <1>5 DEF ReadBody, Moved, Goto
  <2>3. r \in Req
    BY <2>1 DEF Req, Verdicts
  <2>4. Sound(r, "reading", clock)
    BY <2>1 DEF Req, Sound, Asked, Tallied, InspectsBody, Uncounted, Justified
  <2> QED
    BY <2>2, <2>3, <2>4 DEF Labels, StaysSound
<1>6. CASE ReadAborted(p)
  <2> DEFINE r == [st[p] EXCEPT !.answer = "aborted"]
  <2>1. st[p] \in Req /\ Sound(st[p], "reading", clock)
    BY <1>6 DEF IInv, ReadAborted
  <2>2. Moved(p, r, "done")
    BY <1>6 DEF ReadAborted, Moved, Goto
  <2>3. r \in Req
    BY <2>1 DEF Req, Answers
  <2>4. Sound(r, "done", clock)
    BY <2>1 DEF Req, Sound, Asked, Tallied, InspectsBody, Uncounted, Justified
  <2> QED
    BY <2>2, <2>3, <2>4 DEF Labels, StaysSound
<1>7. CASE ReadRefused(p)
  <2>1. /\ st[p] \in Req /\ Sound(st[p], "reading", clock)
        /\ ~st[p].buffered
    BY <1>7 DEF IInv, ReadRefused
  <2>2. PICK got \in {"clean", st[p].body} :
          st' = [st EXCEPT ![p].status = "refused", ![p].body = got,
                           ![p].buffered = TRUE]
    BY <1>7 DEF ReadRefused
  <2> DEFINE r == [st[p] EXCEPT !.status = "refused", !.body = got,
                                !.buffered = TRUE]
  <2>3. Moved(p, r, "special")
    BY <1>7, <2>2 DEF ReadRefused, Moved, Goto
  <2>4. got \in {"none", "clean", "attack"}
    BY <2>1 DEF Req
  <2>5. r \in Req
    BY <2>1, <2>4 DEF Req, Statuses
  <2>6. Sound(r, "special", clock)
    BY <2>1, <2>4 DEF Req, Sound, Asked, Tallied, InspectsBody, Uncounted, Justified
  <2> QED
    BY <2>3, <2>5, <2>6 DEF Labels, StaysSound
<1>8. CASE BodyHit(p)
  <2>1. /\ st[p] \in Req /\ Sound(st[p], "reading", clock)
        /\ st[p].body = "attack" /\ clock \in Nat
    BY <1>8, RequestBoundAssumption, TimeMaxAssumption DEF IInv, BodyHit, Shape
  <2>2. PICK t \in st[p].now..clock :
          st' = [st EXCEPT ![p].where = "body", ![p].now = t,
                           ![p].buffered = TRUE]
    BY <1>8 DEF BodyHit
  <2> DEFINE r == [st[p] EXCEPT !.where = "body", !.now = t,
                                !.buffered = TRUE]
             l == IF st[p].loc.ban THEN "record" ELSE "act"
  <2>3. Moved(p, r, l)
    BY <1>8, <2>2 DEF BodyHit, AfterHit, Moved, Goto
  <2>4. t \in Nat /\ t \in 0..clock /\ t >= st[p].now /\ st[p].now >= 1
    BY <2>1 DEF Req, Sound, Asked, Tallied, InspectsBody, Uncounted
  <2>5. r \in Req
    BY <2>1, <2>4 DEF Req
  <2>6. Sound(r, l, clock)
    BY <2>1, <2>4 DEF Req, Sound, Asked, Tallied, InspectsBody, Uncounted, Justified
  <2> QED
    BY <2>3, <2>5, <2>6 DEF Labels, StaysSound
<1>9. CASE BodyFails(p)
  <2>1. st[p] \in Req /\ Sound(st[p], "reading", clock)
    BY <1>9 DEF IInv, BodyFails
  <2>2. /\ Fail(st[p].loc) \in {"declined", "failed"}
        /\ Fail(st[p].loc) = "declined" => Harmless(st[p])
        /\ Fail(st[p].loc) = "failed" => st[p].blocking
    BY <2>1, FailIsJustified DEF Sound
  <2>3. st[p].denials > 0 => st[p].status # "none"
    BY <2>1 DEF Sound, Tallied
  <2> QED
    BY <1>9, <2>2, <2>3, StepKeep DEF BodyFails
<1>10. CASE BodyClean(p)
  <2>1. st[p] \in Req /\ Sound(st[p], "reading", clock)
    BY <1>10 DEF IInv, BodyClean
  <2>2. Harmless(st[p])
    BY <1>10, <2>1 DEF BodyClean, Sound, Harmless
  <2>3. st[p].denials > 0 => st[p].status # "none"
    BY <2>1 DEF Sound, Tallied
  <2> QED
    BY <1>10, <2>2, <2>3, StepKeep DEF BodyClean
<1> QED
  BY <1>1, <1>2, <1>3, <1>4, <1>5, <1>6, <1>7, <1>8, <1>9, <1>10 DEF Inspect

LEMMA StepHit ==
  ASSUME IInv, NEW p \in Request, Hit(p)
  PROVE  StaysSound(p)
<1>1. CASE Record(p)
  <2>1. st[p] \in Req /\ Sound(st[p], "record", clock)
    BY <1>1 DEF IInv, Record
  <2>2. Moved(p, st[p], "count")
    BY <1>1 DEF Record, Moved, Goto, IInv, Shape
  <2>3. Sound(st[p], "count", clock)
    BY <2>1 DEF Sound, Asked, Tallied, Uncounted
  <2> QED
    BY <2>1, <2>2, <2>3 DEF Labels, StaysSound
<1>2. CASE RecordDropped(p)
  <2>1. st[p] \in Req /\ Sound(st[p], "record", clock)
    BY <1>2 DEF IInv, RecordDropped
  <2>2. Moved(p, st[p], "count")
    BY <1>2 DEF RecordDropped, Moved, Goto, IInv, Shape
  <2>3. Sound(st[p], "count", clock)
    BY <2>1 DEF Sound, Asked, Tallied, InspectsBody, Uncounted
  <2> QED
    BY <2>1, <2>2, <2>3 DEF Labels, StaysSound
<1>3. CASE CountHit(p)
  <2> DEFINE h == Tally(st[p].hits)
             d == IF st[p].loc.mode = "block" THEN Tally(st[p].denials)
                    ELSE st[p].denials
             r == [st[p] EXCEPT !.hits = h, !.denials = d]
  <2>1. st[p] \in Req /\ Sound(st[p], "count", clock)
    BY <1>3 DEF IInv, CountHit
  <2>2. Moved(p, r, "act")
    BY <1>3 DEF Moved, CountHit, Goto
  <2>3. /\ h \in 0..TallyMax /\ d \in 0..TallyMax /\ h = 1
        /\ st[p].loc.mode = "block" => d > 0
        /\ st[p].loc.mode # "block" => d = st[p].denials
    BY <2>1 DEF Tally, TallyMax, Req, Sound, Uncounted
  <2> HIDE DEF h, d
  <2>4. r \in Req
    BY <2>1, <2>3 DEF Req
  <2>5. Sound(r, "act", clock)
    BY <2>1, <2>3 DEF Req, Sound, Asked, Tallied, InspectsBody, Justified, Uncounted
  <2> QED
    BY <2>2, <2>4, <2>5 DEF Labels, StaysSound
<1>4. CASE ActOnHit(p)
  <2>1. st[p] \in Req /\ Sound(st[p], "act", clock)
    BY <1>4 DEF IInv, ActOnHit
  <2>2. /\ Act(st[p].loc) \in {"declined", "denied"}
        /\ Act(st[p].loc) = "declined" => Harmless(st[p])
        /\ Act(st[p].loc) = "denied" => st[p].blocking
    BY <2>1, ActIsJustified DEF Sound
  <2>3. Justified(st[p], Act(st[p].loc))
    BY <2>1, <2>2 DEF Sound, Justified
  <2>4. /\ Act(st[p].loc) = "declined" => (st[p].denials > 0 => st[p].status # "none")
        /\ Act(st[p].loc) = "denied" =>
             st[p].loc.mode = "block" /\ (st[p].loc.ban => st[p].denials > 0)
    BY <2>1 DEF Sound, Tallied, Act
  <2>5. CASE st[p].where = "pre"
    BY <1>4, <2>2, <2>3, <2>4, <2>5, StepConclude DEF ActOnHit
  <2>6. CASE st[p].where # "pre"
    <3>1. st[p].body = "attack"
      BY <2>1, <2>6 DEF Sound
    <3> QED
      BY <1>4, <2>2, <2>4, <2>6, <3>1, StepKeep DEF ActOnHit
  <2> QED
    BY <2>5, <2>6
<1> QED
  BY <1>1, <1>2, <1>3, <1>4 DEF Hit

\* A request enters a location afresh: no verdict, no hit in this pass.
LEMMA EnterIsSound ==
  ASSUME NEW p \in Request, NEW c, st[p] \in Req, NEW l \in Locations,
         st[p].changes < MaxChanges, Sound(st[p], pc[p], c),
         pc[p] \in {"content", "special"}, NEW g \in BOOLEAN
  PROVE  LET r == [Enter(p, l) EXCEPT !.paged = g]
         IN  /\ Enter(p, l) \in Req /\ Sound(Enter(p, l), "handler", c)
             /\ r \in Req /\ Sound(r, "handler", c)
<1> DEFINE n == st[p].changes + 1
           b == st[p].blocking \/ l.mode = "block"
           i == st[p].bodied \/ InspectsBody(l)
           e == [st[p] EXCEPT !.loc = l, !.ctx = "none", !.changes = n,
                              !.hits = 0, !.blocking = b, !.bodied = i]
           r == [e EXCEPT !.paged = g]
<1>1. n \in 0..MaxChanges
  BY RequestBoundAssumption DEF Req
<1>2. /\ b \in BOOLEAN /\ (l.mode = "block" => b) /\ (st[p].blocking => b)
      /\ i \in BOOLEAN /\ (InspectsBody(l) => i) /\ (st[p].bodied => i)
  BY LocationAssumption DEF InspectsBody, Req
<1>3. Enter(p, l) = e
  BY DEF Enter
<1> HIDE DEF n, b, i
<1>4. e \in Req
  <2> DEFINE d1 == [st[p] EXCEPT !.loc = l, !.ctx = "none", !.changes = n]
             d2 == [d1 EXCEPT !.hits = 0]
             d3 == [d2 EXCEPT !.blocking = b]
  <2>1. d1 \in Req
    BY <1>1 DEF Req, Verdicts
  <2>2. e = [d3 EXCEPT !.bodied = i]
    OBVIOUS
  <2> HIDE DEF d1
  <2>3. d2 \in Req
    BY <2>1 DEF Req, TallyMax
  <2> HIDE DEF d2
  <2>4. d3 \in Req
    BY <1>2, <2>3 DEF Req
  <2> HIDE DEF d3
  <2>5. [d3 EXCEPT !.bodied = i] \in Req
    BY <1>2, <2>4 DEF Req
  <2> QED
    BY <2>2, <2>5
<1>5. Sound(e, "handler", c)
  <2>1. /\ e.now = st[p].now /\ e.pre = st[p].pre /\ e.body = st[p].body
        /\ e.buffered = st[p].buffered /\ e.denials = st[p].denials
        /\ e.status = st[p].status /\ e.answer = st[p].answer
        /\ e.loc = l /\ e.ctx = "none" /\ e.hits = 0
        /\ e.blocking = b /\ e.bodied = i
    BY DEF Req
  <2>2. /\ st[p].answer = "none"
        /\ st[p].denials > 0 => st[p].status # "none"
    BY DEF Sound, Asked, Tallied
  <2> HIDE DEF e
  <2>3. Asked(e, "handler")
    BY <1>2, <2>1, <2>2 DEF Sound, Asked, Uncounted
  <2>4. Tallied(e, "handler")
    BY <2>1, <2>2 DEF Tallied
  <2>5. Justified(e, e.ctx) /\ Justified(e, e.status)
    BY <1>2, <2>1 DEF Sound, Justified
  <2> QED
    BY <1>2, <2>1, <2>3, <2>4, <2>5 DEF Sound, Uncounted
<1>6. e.ctx = "none"
  BY DEF Req
<1> HIDE DEF e
<1>7. r \in Req
  BY <1>4 DEF Req
<1>8. Sound(r, "handler", c)
  BY <1>4, <1>5, <1>6 DEF Req, Sound, Asked, Tallied, InspectsBody, Uncounted, Justified, Harmless
<1> QED
  BY <1>3, <1>4, <1>5, <1>7, <1>8

LEMMA StepOutcome ==
  ASSUME IInv, NEW p \in Request, Outcome(p)
  PROVE  StaysSound(p)
<1>1. CASE Serve(p)
  <2> DEFINE a == IF st[p].status = "none" THEN "served" ELSE st[p].status
             r == [st[p] EXCEPT !.answer = a]
  <2>1. st[p] \in Req /\ Sound(st[p], "content", clock)
    BY <1>1 DEF IInv, Serve
  <2>2. Moved(p, r, "done")
    BY <1>1 DEF Serve, Moved, Goto
  <2>3. a \in Answers
    BY <2>1 DEF Req, Answers, Statuses
  <2>4. /\ a = "served" => st[p].status = "none"
        /\ a \notin {"closed", "aborted"}
    BY <2>1 DEF Req, Statuses
  <2> HIDE DEF a
  <2>5. r \in Req
    BY <2>1, <2>3 DEF Req
  <2>6. Sound(r, "done", clock)
    BY <2>1, <2>4 DEF Req, Sound, Asked, Tallied, InspectsBody, Uncounted, Justified
  <2> QED
    BY <2>2, <2>5, <2>6 DEF Labels, StaysSound
<1>2. CASE Redirect(p)
  <2>1. /\ st[p] \in Req /\ Sound(st[p], pc[p], clock)
        /\ st[p].changes < MaxChanges
        /\ pc[p] \in {"content", "special"}
    BY <1>2 DEF IInv, Redirect
  <2>2. PICK l \in Locations : st' = [st EXCEPT ![p] = Enter(p, l)]
    BY <1>2 DEF Redirect
  <2>3. Moved(p, Enter(p, l), "handler")
    BY <1>2, <2>2 DEF Redirect, Moved, Goto
  <2>4. Enter(p, l) \in Req /\ Sound(Enter(p, l), "handler", clock)
    BY <2>1, EnterIsSound
  <2> QED
    BY <2>3, <2>4 DEF Labels, StaysSound
<1>3. CASE ContentFails(p)
  BY <1>3, StepConclude DEF ContentFails, Justified
<1>4. CASE ErrorPage(p)
  <2>1. /\ st[p] \in Req /\ Sound(st[p], pc[p], clock)
        /\ st[p].changes < MaxChanges
        /\ pc[p] \in {"content", "special"}
    BY <1>4 DEF IInv, ErrorPage
  <2>2. PICK l \in Locations :
          st' = [st EXCEPT ![p] = [Enter(p, l) EXCEPT !.paged = TRUE]]
    BY <1>4 DEF ErrorPage
  <2> DEFINE r == [Enter(p, l) EXCEPT !.paged = TRUE]
  <2>3. Moved(p, r, "handler")
    BY <1>4, <2>2 DEF ErrorPage, Moved, Goto
  <2>4. r \in Req /\ Sound(r, "handler", clock)
    BY <2>1, EnterIsSound
  <2> QED
    BY <2>3, <2>4 DEF Labels, StaysSound
<1>5. CASE Reply(p)
  <2> DEFINE r == [st[p] EXCEPT !.answer = st[p].status]
  <2>1. st[p] \in Req /\ Sound(st[p], "special", clock)
    BY <1>5 DEF IInv, Reply
  <2>2. Moved(p, r, "done")
    BY <1>5 DEF Reply, Moved, Goto
  <2>3. r \in Req
    BY <2>1 DEF Req, Answers, Statuses
  <2>4. Sound(r, "done", clock)
    BY <2>1 DEF Req, Statuses, Sound, Asked, Tallied, InspectsBody, Uncounted, Justified
  <2> QED
    BY <2>2, <2>3, <2>4 DEF Labels, StaysSound
<1> QED
  BY <1>1, <1>2, <1>3, <1>4, <1>5 DEF Outcome

LEMMA StepArrive ==
  ASSUME IInv, NEW p \in Request, Arrive(p)
  PROVE  StaysSound(p)
<1>1. PICK a \in Addr, pre \in BOOLEAN, body \in {"none", "clean", "attack"},
           l \in Locations :
        st' = [st EXCEPT ![p] =
          [addr |-> a, pre |-> pre, body |-> body, loc |-> l, now |-> 0,
           ctx |-> "none", buffered |-> FALSE, where |-> "pre",
           changes |-> 0, paged |-> FALSE,
           blocking |-> l.mode = "block", bodied |-> InspectsBody(l),
           hits |-> 0, denials |-> 0, status |-> "none", answer |-> "none"]]
  BY DEF Arrive
<1> DEFINE b == l.mode = "block"
           i == InspectsBody(l)
           r == [addr |-> a, pre |-> pre, body |-> body, loc |-> l, now |-> 0,
                 ctx |-> "none", buffered |-> FALSE, where |-> "pre",
                 changes |-> 0, paged |-> FALSE, blocking |-> b, bodied |-> i,
                 hits |-> 0, denials |-> 0, status |-> "none", answer |-> "none"]
<1>2. Moved(p, r, "handler")
  BY <1>1 DEF Arrive, Moved, Goto
<1>3. /\ b \in BOOLEAN /\ (l.mode = "block" => b)
      /\ i \in BOOLEAN /\ (InspectsBody(l) => i)
  BY LocationAssumption DEF InspectsBody
<1> HIDE DEF b, i
<1>4. r \in Req
  BY <1>3, RequestBoundAssumption DEF Req, Verdicts, Answers, Statuses, TallyMax
<1>5. clock \in Nat
  BY RequestBoundAssumption, TimeMaxAssumption DEF IInv, Shape
<1>6. Sound(r, "handler", clock)
  BY <1>3, <1>5 DEF Sound, Asked, Tallied, InspectsBody, Uncounted, Justified
<1> QED
  BY <1>2, <1>4, <1>6 DEF Labels, StaysSound

LEMMA StepLeave ==
  ASSUME IInv, NEW p \in Request, Leave(p)
  PROVE  IInv'
<1>1. Shape'
  BY DEF IInv, Shape, Leave, Goto
<1>2. st'[p] = NoRequest /\ pc'[p] = "free"
  BY DEF IInv, Shape, Leave, Goto
<1>3. ASSUME NEW q \in Request, q # p
      PROVE  IF pc'[q] = "free"
               THEN st'[q] = NoRequest
               ELSE st'[q] \in Req /\ Sound(st'[q], pc'[q], clock')
  BY <1>3 DEF IInv, Shape, Leave, Goto
<1> QED
  BY <1>1, <1>2, <1>3 DEF IInv

\* The clock only shows later times, and the zone touches no request.
LEMMA StepZone ==
  ASSUME IInv, ZoneStep
  PROVE  IInv'
<1>1. /\ clock' \in 1..MaxClock /\ clock \in Nat /\ clock <= clock'
      /\ pc' = pc /\ st' = st
  BY RequestBoundAssumption, TimeMaxAssumption
     DEF IInv, Shape, ZoneStep, Zone!Tick, Zone!Forget
<1>2. Shape'
  BY <1>1 DEF IInv, Shape
<1>3. ASSUME NEW r, NEW l, Sound(r, l, clock)
      PROVE  Sound(r, l, clock')
  BY <1>1, <1>3 DEF Sound
<1> QED
  BY <1>1, <1>2, <1>3 DEF IInv

LEMMA StepIInv ==
  ASSUME IInv, [Next]_vars
  PROVE  IInv'
<1>1. ASSUME NEW p \in Request, StaysSound(p)
      PROVE  IInv'
  BY <1>1, MovedKeeps DEF StaysSound
<1>2. CASE UNCHANGED vars
  BY <1>2 DEF vars, IInv, Shape
<1>3. CASE ZoneStep
  BY <1>3, StepZone
<1>4. ASSUME NEW p \in Request, Arrive(p) \/ Advance(p) \/ Leave(p)
      PROVE  IInv'
  BY <1>1, <1>4, StepArrive, StepHandler, StepInspect, StepHit, StepOutcome,
     StepLeave DEF Advance
<1> QED
  BY <1>2, <1>3, <1>4 DEF Next

------------------------------------------------------------------------------
\* What a request carries is sound at every step, for any locations, requests,
\* addresses, redirects and clock.
THEOREM RequestInvariant == Spec => []IInv
<1>1. Init => IInv
  BY RequestBoundAssumption, TimeMaxAssumption
     DEF Init, Zone!Init, IInv, Shape
<1>2. IInv /\ [Next]_vars => IInv'
  BY StepIInv
<1> QED
  BY <1>1, <1>2, PTL DEF Spec

\* No attack reaches the content of a location in block mode that inspects it.
THEOREM AttackNeverServed == Spec => []AttackNotServed
<1>1. IInv => AttackNotServed
  <2> SUFFICES ASSUME IInv, NEW p \in Request, pc[p] = "content"
               PROVE  Harmless(st[p])
    BY DEF AttackNotServed, Harmless
  <2> QED
    BY DEF IInv, Sound
<1> QED
  BY <1>1, RequestInvariant, PTL

\* No request is denied or failed without cause; one that is closed, refused or
\* aborted was asked for a body that it has.
THEOREM AlwaysEndedForCause == Spec => []EndedForCause
<1>1. IInv => EndedForCause
  BY DEF IInv, Sound, Justified, Asked, EndedForCause
<1> QED
  BY <1>1, RequestInvariant, PTL

\* What is counted as blocked is not served, and what is denied was counted.
THEOREM CountedAreDenied == Spec => []BlockedIsDenied
<1>1. IInv => BlockedIsDenied
  BY DEF IInv, Sound, Tallied, BlockedIsDenied
<1> QED
  BY <1>1, RequestInvariant, PTL

\* No pass over a location counts two hits.
THEOREM OneHitInEveryPass == Spec => []OneHitPerPass
<1>1. IInv => OneHitPerPass
  BY DEF IInv, Sound, OneHitPerPass
<1> QED
  BY <1>1, RequestInvariant, PTL

------------------------------------------------------------------------------
(* The zone as requests use it.                                             *)

\* What a request records: one more hit of its address, at a time the clock
\* has shown, under the policy of its location.
LEMMA RecordCounts ==
  ASSUME IInv, NEW p \in Request, Record(p)
  PROVE  \E a \in Addr, t \in 1..clock, l \in Locations :
           /\ entry' = [entry EXCEPT ![a] =
                Count(IF entry[a] = Absent THEN FreshNode(a, t) ELSE entry[a],
                      t, l.policy)]
           /\ UNCHANGED clock
<1>1. st[p] \in Req /\ Sound(st[p], "record", clock) /\ clock \in Nat
  BY RequestBoundAssumption, TimeMaxAssumption DEF IInv, Shape, Record
<1>2. /\ st[p].addr \in Addr /\ st[p].now \in 1..clock
      /\ st[p].loc \in Locations
  BY <1>1 DEF Req, Sound, Asked, Tallied, InspectsBody, Uncounted
<1> QED
  BY <1>2 DEF Record, Counted, Before

\* Only a recorded hit and the zone itself touch the entries and the clock.
LEMMA ZoneKept ==
  ASSUME [Next]_vars
  PROVE  \/ UNCHANGED <<entry, clock>>
         \/ ZoneStep
         \/ \E p \in Request : Record(p)
<1>1. ASSUME NEW p \in Request, Arrive(p) \/ Leave(p) \/ Handler(p)
      PROVE  UNCHANGED <<entry, clock>>
  BY <1>1 DEF Arrive, Leave, Handler, Off, Resume, Check, Refuse, Admit
<1>2. ASSUME NEW p \in Request, Inspect(p)
      PROVE  UNCHANGED <<entry, clock>>
  BY <1>2 DEF Inspect, PreHit, PreFails, PreClean, ContextFails, ReadBody, ReadAborted,
              ReadRefused, BodyHit, BodyFails, BodyClean
<1>3. ASSUME NEW p \in Request, Hit(p) \/ Outcome(p)
      PROVE  Record(p) \/ UNCHANGED <<entry, clock>>
  BY <1>3 DEF Hit, RecordDropped, CountHit, ActOnHit, Outcome, Serve, Redirect,
              ContentFails, ErrorPage, Reply
<1>4. UNCHANGED vars => UNCHANGED <<entry, clock>>
  BY DEF vars
<1> QED
  BY <1>1, <1>2, <1>3, <1>4 DEF Next, Advance

LEMMA EntriesStayTyped ==
  ASSUME IInv, EntriesTyped, [Next]_vars
  PROVE  EntriesTyped'
<1>1. CASE UNCHANGED <<entry, clock>>
  BY <1>1 DEF EntriesTyped
<1>2. CASE ZoneStep
  BY <1>2 DEF ZoneStep, Zone!Tick, Zone!Forget, EntriesTyped
<1>3. ASSUME NEW p \in Request, Record(p)
      PROVE  EntriesTyped'
  <2>1. PICK a \in Addr, t \in 1..clock, l \in Locations :
          entry' = [entry EXCEPT ![a] =
            Count(IF entry[a] = Absent THEN FreshNode(a, t) ELSE entry[a],
                  t, l.policy)]
    BY <1>3, RecordCounts
  <2>2. t \in Time
    BY RequestBoundAssumption, TimeMaxAssumption DEF IInv, Shape, Time
  <2> DEFINE n == IF entry[a] = Absent THEN FreshNode(a, t) ELSE entry[a]
  <2>3. n \in NodeOf({a})
    BY <2>2, TimeMaxAssumption DEF EntriesTyped, FreshNode, NodeOf, Time
  <2>4. /\ l.policy.count \in Positive /\ l.policy.window \in Positive
        /\ l.policy.ban_time \in Positive
    BY LocationAssumption DEF Positive
  <2> HIDE DEF n
  <2>5. Count(n, t, l.policy) \in NodeOf({a})
    BY <2>2, <2>3, <2>4, CountTyped
  <2>6. entry' = [entry EXCEPT ![a] = Count(n, t, l.policy)]
    BY <2>1 DEF n
  <2> QED
    BY <2>5, <2>6 DEF EntriesTyped
<1> QED
  BY <1>1, <1>2, <1>3, ZoneKept

\* Every state of requests and zone is of the kind declared.
THEOREM RequestTypeCorrect == Spec => []TypeOK
<1>1. Init => EntriesTyped
  BY DEF Init, Zone!Init, EntriesTyped
<1>2. IInv /\ EntriesTyped /\ [Next]_vars => EntriesTyped'
  BY EntriesStayTyped
<1>3. ASSUME IInv, EntriesTyped
      PROVE  TypeOK
  <2>1. ASSUME NEW a \in Addr, entry[a] # Absent
        PROVE  /\ entry[a].addr = a /\ entry[a].hits \in Nat
               /\ entry[a].window_start \in Time /\ entry[a].banned_until \in Time
    BY <1>3, <2>1 DEF EntriesTyped, NodeOf
  <2>2. ASSUME NEW p \in Request, pc[p] = "free"
        PROVE  st[p] = NoRequest
    BY <1>3, <2>2 DEF IInv
  <2>3. ASSUME NEW p \in Request, pc[p] # "free"
        PROVE  /\ pc[p] \in Labels
               /\ st[p].loc \in Locations
               /\ st[p].now \in 0..clock
               /\ st[p].ctx \in Verdicts
               /\ st[p].changes \in 0..MaxChanges
               /\ st[p].hits \in 0..TallyMax /\ st[p].denials \in 0..TallyMax
               /\ st[p].status \in Answers /\ st[p].answer \in Answers
    BY <1>3, <2>3 DEF IInv, Shape, Req, Sound, Statuses, Answers
  <2> QED
    BY <2>1, <2>2, <2>3 DEF TypeOK
<1> QED
  BY <1>1, <1>2, <1>3, RequestInvariant, PTL DEF Spec
==============================================================================
