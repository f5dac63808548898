----------------------------- MODULE ShieldLogProof -----------------------------
(***************************************************************************)
(* What the hit log says of its losses, for any number of workers and      *)
(* locations, any alert limit, any length of a log and any clock, one that *)
(* is set back included.                                                   *)
(*                                                                         *)
(* The model's properties speak of the history of the hits; the invariant  *)
(* ties that history to the three times a worker goes by: what it is now   *)
(* for the worker, when the location last met a full disk, and when it     *)
(* last alerted.  Only the last of them never moves back.                  *)
(***************************************************************************)
EXTENDS ShieldLog, SequenceTheorems, TLAPS

Fates == {"off", "dropped", "skipped", "written", "full", "lost", "short", "sent"}

Fate ==
  [fate : Fates, worker : Worker, loc : Location, at : Nat, announced : BOOLEAN]

TypeOK ==
  /\ clock \in Nat
  /\ time \in [Worker -> Nat]
  /\ disk_full \in [Worker -> [Location -> Nat]]
  /\ alerted \in [Worker -> [Location -> Nat]]
  /\ fate \in Seq(Fate)

\* The epoch, which stands for "never", is more than the alert limit ago.
EpochFar == clock > ALERT /\ \A w \in Worker : time[w] > ALERT

\* Entry i of the history is one of location l in worker w.
Of(i, w, l) == fate[i].worker = w /\ fate[i].loc = l

\* The full disk a location remembers is one that its own hit met then.
FullWasMet ==
  \A w \in Worker, l \in Location :
    disk_full[w][l] # 0 =>
      \E j \in DOMAIN fate :
        fate[j].fate = "full" /\ Of(j, w, l) /\ fate[j].at = disk_full[w][l]

\* The alert a location remembers was logged with one of its hits, and was the
\* last one by its time.
AlertWasLogged ==
  \A w \in Worker, l \in Location :
    /\ alerted[w][l] # 0 =>
         \E j \in DOMAIN fate :
           fate[j].announced /\ Of(j, w, l) /\ fate[j].at = alerted[w][l]
    /\ \A j \in DOMAIN fate :
         fate[j].announced /\ Of(j, w, l) => fate[j].at <= alerted[w][l]

\* The full disk a location remembers was announced, so a hit that is skipped for
\* it is announced too, wherever the clock was in between.
FullAnnounced ==
  \A w \in Worker, l \in Location : disk_full[w][l] <= alerted[w][l] + ALERT

LogInv ==
  /\ TypeOK /\ EpochFar /\ FullWasMet /\ AlertWasLogged /\ FullAnnounced
  /\ LossAnnounced /\ AlertsApart /\ SkipHasCause
------------------------------------------------------------------------------
(* What a hit does. *)

\* An appended element is the last one, and the others stay where they are.
LEMMA Appended ==
  ASSUME NEW S, NEW q \in Seq(S), NEW e \in S
  PROVE  /\ Append(q, e) \in Seq(S)
         /\ DOMAIN q = 1..Len(q) /\ Len(q) \in Nat
         /\ DOMAIN Append(q, e) = 1..(Len(q) + 1)
         /\ \A i \in DOMAIN q : Append(q, e)[i] = q[i]
         /\ Append(q, e)[Len(q) + 1] = e
  BY AppendProperties

LEMMA TimesTyped ==
  ASSUME TypeOK
  PROVE  \A i \in DOMAIN fate : fate[i].at \in Nat
<1> SUFFICES ASSUME NEW i \in DOMAIN fate PROVE fate[i] \in Fate
  BY DEF Fate
<1>1. fate \in Seq(Fate) /\ i \in 1..Len(fate)
  BY DEF TypeOK
<1> QED
  BY <1>1, ElementOfSeq

\* A hit of location l in worker w that ends up as what: it is announced or not,
\* after which the location remembers an alert, and a full disk or the one before.
HitOf(w, l, what, announced) ==
  /\ Settle(w, l, what, announced)
  /\ UNCHANGED <<clock, time>>
  /\ alerted' = [alerted EXCEPT ![w][l] = IF announced THEN time[w] ELSE @]
  /\ disk_full' = [disk_full EXCEPT ![w][l] = IF what = "full" THEN time[w] ELSE @]
  /\ announced => Alerts(w, l)
  /\ what \in {"lost", "full", "short"} => announced \/ ~Alerts(w, l)
  /\ what = "skipped" => BacksOff(w, l)

\* Every hit is one of these.
LEMMA EveryHit ==
  ASSUME LogInv, UNCHANGED <<clock, time>>, NEW w \in Worker, NEW l \in Location,
         write_log(w, l)
  PROVE  \E what \in Fates, announced \in BOOLEAN : HitOf(w, l, what, announced)
<1>1. /\ alerted = [alerted EXCEPT ![w][l] = @]
      /\ disk_full = [disk_full EXCEPT ![w][l] = @]
  BY DEF LogInv, TypeOK
<1>2. CASE NotLogged(w, l) \/ Skip(w, l) \/ Write(w, l) \/ Syslog(w, l)
  <2>1. PICK what \in {"off", "dropped", "skipped", "written", "sent"} :
          /\ Settle(w, l, what, FALSE) /\ UNCHANGED <<alerted, disk_full>>
          /\ what = "skipped" => BacksOff(w, l)
    BY <1>2 DEF NotLogged, Skip, Write, Syslog
  <2>2. HitOf(w, l, what, FALSE)
    BY <1>1, <2>1 DEF HitOf
  <2> QED
    BY <2>2 DEF Fates
<1>3. CASE WriteFails(w, l) \/ WriteShort(w, l)
  <2>1. PICK what \in {"full", "lost", "short"} :
          /\ Settle(w, l, what, Alerts(w, l)) /\ Alert(w, l)
          /\ disk_full' = IF what = "full" THEN [disk_full EXCEPT ![w][l] = time[w]]
                                           ELSE disk_full
    BY <1>3 DEF WriteFails, WriteShort
  <2> DEFINE announced == Alerts(w, l)
  <2>2. announced \in BOOLEAN
    BY DEF Alerts
  <2>3. alerted' = [alerted EXCEPT ![w][l] = IF announced THEN time[w] ELSE @]
    BY <2>1 DEF Alert
  <2>4. disk_full' = [disk_full EXCEPT ![w][l] = IF what = "full" THEN time[w] ELSE @]
    BY <1>1, <2>1
  <2>5. HitOf(w, l, what, announced)
    BY <2>1, <2>3, <2>4 DEF HitOf
  <2> HIDE DEF announced
  <2> QED
    BY <2>2, <2>5 DEF Fates
<1> QED
  BY <1>2, <1>3 DEF write_log

\* What such a hit leaves behind: one entry of the history at the worker's time,
\* and the two times of its location.
LEMMA HitAppends ==
  ASSUME LogInv, NEW w \in Worker, NEW l \in Location, NEW what \in Fates,
         NEW announced \in BOOLEAN, HitOf(w, l, what, announced)
  PROVE  /\ TypeOK'
         /\ DOMAIN fate = 1..Len(fate) /\ Len(fate) \in Nat
         /\ DOMAIN fate' = 1..(Len(fate) + 1)
         /\ \A i \in DOMAIN fate : i \in DOMAIN fate' /\ fate'[i] = fate[i]
         /\ LET new == fate'[Len(fate) + 1]
            IN  /\ new.fate = what /\ new.worker = w /\ new.loc = l
                /\ new.at = time[w] /\ new.announced = announced
         /\ alerted'[w][l] = IF announced THEN time[w] ELSE alerted[w][l]
         /\ disk_full'[w][l] = IF what = "full" THEN time[w] ELSE disk_full[w][l]
         /\ \A v \in Worker, k \in Location :
              v # w \/ k # l => /\ alerted'[v][k] = alerted[v][k]
                               /\ disk_full'[v][k] = disk_full[v][k]
<1> DEFINE new == [fate |-> what, worker |-> w, loc |-> l,
                   at |-> time[w], announced |-> announced]
<1>1. new \in Fate
  BY DEF LogInv, TypeOK, Fate
<1>2. fate' = Append(fate, new) /\ fate \in Seq(Fate)
  BY DEF HitOf, Settle, LogInv, TypeOK
<1>3. /\ new.fate = what /\ new.worker = w /\ new.loc = l
      /\ new.at = time[w] /\ new.announced = announced
  OBVIOUS
<1> HIDE DEF new
<1>4. /\ fate' \in Seq(Fate)
      /\ DOMAIN fate = 1..Len(fate) /\ Len(fate) \in Nat
      /\ DOMAIN fate' = 1..(Len(fate) + 1)
      /\ \A i \in DOMAIN fate : fate'[i] = fate[i]
      /\ fate'[Len(fate) + 1] = new
  BY <1>1, <1>2, Appended
<1>5. /\ alerted \in [Worker -> [Location -> Nat]] /\ time[w] \in Nat
      /\ disk_full \in [Worker -> [Location -> Nat]]
  BY DEF LogInv, TypeOK
<1>6. /\ alerted' \in [Worker -> [Location -> Nat]]
      /\ alerted'[w][l] = IF announced THEN time[w] ELSE alerted[w][l]
      /\ \A v \in Worker, k \in Location :
           v # w \/ k # l => alerted'[v][k] = alerted[v][k]
  BY <1>5 DEF HitOf
<1>7. /\ disk_full' \in [Worker -> [Location -> Nat]]
      /\ disk_full'[w][l] = IF what = "full" THEN time[w] ELSE disk_full[w][l]
      /\ \A v \in Worker, k \in Location :
           v # w \/ k # l => disk_full'[v][k] = disk_full[v][k]
  BY <1>5 DEF HitOf
<1>8. TypeOK'
  BY <1>4, <1>6, <1>7 DEF HitOf, LogInv, TypeOK
<1> QED
  BY <1>3, <1>4, <1>6, <1>7, <1>8

\* The alert a location remembers afterwards is not behind the one before, was
\* logged, and covers the hit if that is lost, and the full disk in any case.
LEMMA AlertKept ==
  ASSUME LogInv, NEW w \in Worker, NEW l \in Location, NEW what \in Fates,
         NEW announced \in BOOLEAN, HitOf(w, l, what, announced)
  PROVE  /\ \A v \in Worker, k \in Location : alerted[v][k] <= alerted'[v][k]
         /\ what \in {"skipped", "lost", "full", "short"} =>
              alerted'[w][l] # 0 /\ time[w] <= alerted'[w][l] + ALERT
         /\ AlertWasLogged' /\ FullAnnounced'
<1>1. /\ DOMAIN fate = 1..Len(fate) /\ Len(fate) \in Nat
      /\ DOMAIN fate' = 1..(Len(fate) + 1)
      /\ \A i \in DOMAIN fate : i \in DOMAIN fate' /\ fate'[i] = fate[i]
      /\ alerted'[w][l] = IF announced THEN time[w] ELSE alerted[w][l]
      /\ disk_full'[w][l] = IF what = "full" THEN time[w] ELSE disk_full[w][l]
      /\ \A v \in Worker, k \in Location :
           v # w \/ k # l => /\ alerted'[v][k] = alerted[v][k]
                            /\ disk_full'[v][k] = disk_full[v][k]
  BY HitAppends
<1>2. LET new == fate'[Len(fate) + 1]
      IN  /\ new.fate = what /\ new.worker = w /\ new.loc = l
          /\ new.at = time[w] /\ new.announced = announced
  BY HitAppends
<1>3. /\ ALERT \in Nat /\ time[w] \in Nat /\ time[w] > ALERT
      /\ \A v \in Worker, k \in Location :
           alerted[v][k] \in Nat /\ disk_full[v][k] \in Nat
  BY LogAssumption DEF LogInv, TypeOK, EpochFar
<1>4. /\ announced => time[w] - alerted[w][l] > ALERT
      /\ what \in {"lost", "full", "short"} =>
           announced \/ time[w] - alerted[w][l] <= ALERT
  BY <1>3 DEF HitOf, Alerts
<1>5. alerted[w][l] <= alerted'[w][l] /\ alerted'[w][l] \in Nat
  BY <1>1, <1>3, <1>4
<1>6. \A v \in Worker, k \in Location : alerted[v][k] <= alerted'[v][k]
  BY <1>1, <1>3, <1>5
<1>7. what \in {"skipped", "lost", "full", "short"} =>
        time[w] <= alerted'[w][l] + ALERT
  <2>1. CASE what = "skipped"
    <3>1. time[w] <= alerted[w][l] + ALERT
      BY <2>1 DEF HitOf, BacksOff, LogInv, FullAnnounced
    <3> QED
      BY <1>3, <1>5, <3>1
  <2>2. CASE what \in {"lost", "full", "short"}
    BY <1>1, <1>3, <1>4, <2>2
  <2> QED
    BY <2>1, <2>2
<1>8. ASSUME NEW v \in Worker, NEW k \in Location
      PROVE  disk_full'[v][k] <= alerted'[v][k] + ALERT
  <2>1. disk_full[v][k] <= alerted[v][k] + ALERT
    BY DEF LogInv, FullAnnounced
  <2>2. CASE v = w /\ k = l
    <3>1. CASE what = "full"
      <4>1. disk_full'[w][l] = time[w]
        BY <1>1, <3>1
      <4> QED
        BY <1>7, <2>2, <3>1, <4>1
    <3>2. CASE what # "full"
      <4>1. disk_full'[w][l] = disk_full[w][l]
        BY <1>1, <3>2
      <4> QED
        BY <1>3, <1>5, <2>1, <2>2, <4>1
    <3> QED
      BY <3>1, <3>2
  <2>3. CASE v # w \/ k # l
    BY <1>1, <2>1, <2>3
  <2> QED
    BY <2>2, <2>3
<1>9. ASSUME NEW v \in Worker, NEW k \in Location, alerted'[v][k] # 0
      PROVE  \E j \in DOMAIN fate' :
               /\ fate'[j].announced /\ fate'[j].worker = v /\ fate'[j].loc = k
               /\ fate'[j].at = alerted'[v][k]
  <2>1. CASE v = w /\ k = l /\ announced
    <3>1. Len(fate) + 1 \in DOMAIN fate'
      BY <1>1
    <3> QED
      BY <1>1, <1>2, <2>1, <3>1
  <2>2. CASE ~(v = w /\ k = l /\ announced)
    <3>1. alerted'[v][k] = alerted[v][k]
      BY <1>1, <2>2
    <3>2. PICK j \in DOMAIN fate :
            fate[j].announced /\ Of(j, v, k) /\ fate[j].at = alerted[v][k]
      BY <1>9, <3>1 DEF LogInv, AlertWasLogged
    <3> QED
      BY <1>1, <3>1, <3>2 DEF Of
  <2> QED
    BY <2>1, <2>2
<1>10. ASSUME NEW v \in Worker, NEW k \in Location, NEW j \in DOMAIN fate',
              fate'[j].announced, fate'[j].worker = v, fate'[j].loc = k
       PROVE  fate'[j].at <= alerted'[v][k]
  <2>1. CASE j \in DOMAIN fate
    <3>1. fate'[j].at <= alerted[v][k] /\ fate'[j].at \in Nat
      BY <1>1, <1>10, <2>1, TimesTyped DEF LogInv, AlertWasLogged, Of
    <3>2. alerted'[v][k] \in Nat
      BY <1>1, <1>3, <1>5
    <3> QED
      BY <1>3, <1>6, <3>1, <3>2
  <2>2. CASE j = Len(fate) + 1
    BY <1>1, <1>2, <1>3, <1>10, <2>2
  <2> QED
    BY <1>1, <2>1, <2>2
<1>11. AlertWasLogged'
  BY <1>9, <1>10 DEF AlertWasLogged, Of
<1>12. FullAnnounced'
  BY <1>8 DEF FullAnnounced
<1>13. what \in {"skipped", "lost", "full", "short"} => alerted'[w][l] # 0
  BY <1>3, <1>5, <1>7
<1> QED
  BY <1>6, <1>7, <1>11, <1>12, <1>13

\* A full disk that a location remembers stays in the history.
LEMMA FullKept ==
  ASSUME LogInv, NEW w \in Worker, NEW l \in Location, NEW what \in Fates,
         NEW announced \in BOOLEAN, HitOf(w, l, what, announced)
  PROVE  FullWasMet'
<1>1. /\ DOMAIN fate' = 1..(Len(fate) + 1) /\ Len(fate) \in Nat
      /\ \A i \in DOMAIN fate : i \in DOMAIN fate' /\ fate'[i] = fate[i]
      /\ disk_full'[w][l] = IF what = "full" THEN time[w] ELSE disk_full[w][l]
      /\ \A v \in Worker, k \in Location :
           v # w \/ k # l => disk_full'[v][k] = disk_full[v][k]
  BY HitAppends
<1>2. LET new == fate'[Len(fate) + 1]
      IN  new.fate = what /\ new.worker = w /\ new.loc = l /\ new.at = time[w]
  BY HitAppends
<1>3. ASSUME NEW v \in Worker, NEW k \in Location, disk_full'[v][k] # 0
      PROVE  \E j \in DOMAIN fate' :
               /\ fate'[j].fate = "full" /\ fate'[j].worker = v /\ fate'[j].loc = k
               /\ fate'[j].at = disk_full'[v][k]
  <2>1. CASE v = w /\ k = l /\ what = "full"
    <3>1. Len(fate) + 1 \in DOMAIN fate'
      BY <1>1
    <3> QED
      BY <1>1, <1>2, <2>1, <3>1
  <2>2. CASE ~(v = w /\ k = l /\ what = "full")
    <3>1. disk_full'[v][k] = disk_full[v][k]
      BY <1>1, <2>2
    <3>2. PICK j \in DOMAIN fate :
            fate[j].fate = "full" /\ Of(j, v, k) /\ fate[j].at = disk_full[v][k]
      BY <1>3, <3>1 DEF LogInv, FullWasMet
    <3> QED
      BY <1>1, <3>1, <3>2 DEF Of
  <2> QED
    BY <2>1, <2>2
<1> QED
  BY <1>3 DEF FullWasMet, Of

\* The properties hold of a history that the hit was added to.
LEMMA HistoryKept ==
  ASSUME LogInv, NEW w \in Worker, NEW l \in Location, NEW what \in Fates,
         NEW announced \in BOOLEAN, HitOf(w, l, what, announced)
  PROVE  LossAnnounced' /\ AlertsApart' /\ SkipHasCause'
<1>1. /\ DOMAIN fate = 1..Len(fate) /\ Len(fate) \in Nat
      /\ DOMAIN fate' = 1..(Len(fate) + 1)
      /\ \A i \in DOMAIN fate : i \in DOMAIN fate' /\ fate'[i] = fate[i]
  BY HitAppends
<1>2. LET new == fate'[Len(fate) + 1]
      IN  /\ new.fate = what /\ new.worker = w /\ new.loc = l
          /\ new.at = time[w] /\ new.announced = announced
  BY HitAppends
<1>3. \A i \in DOMAIN fate' : i \in DOMAIN fate \/ i = Len(fate) + 1
  BY <1>1
<1>4. ASSUME NEW i \in DOMAIN fate',
             fate'[i].fate \in {"skipped", "lost", "full", "short"}
      PROVE  \E j \in 1..i :
               /\ fate'[j].announced
               /\ fate'[j].worker = fate'[i].worker /\ fate'[j].loc = fate'[i].loc
               /\ fate'[i].at <= fate'[j].at + ALERT
  <2>1. CASE i \in DOMAIN fate
    <3>1. PICK j \in 1..i :
            /\ fate[j].announced
            /\ fate[j].worker = fate[i].worker /\ fate[j].loc = fate[i].loc
            /\ fate[i].at <= fate[j].at + ALERT
      BY <1>1, <1>4, <2>1 DEF LogInv, LossAnnounced
    <3>2. j \in DOMAIN fate
      BY <1>1, <2>1
    <3> QED
      BY <1>1, <2>1, <3>1, <3>2
  <2>2. CASE i = Len(fate) + 1
    <3>1. alerted'[w][l] # 0 /\ time[w] <= alerted'[w][l] + ALERT /\ AlertWasLogged'
      BY <1>2, <1>4, <2>2, AlertKept
    <3>2. PICK j \in DOMAIN fate' :
            /\ fate'[j].announced /\ fate'[j].worker = w /\ fate'[j].loc = l
            /\ fate'[j].at = alerted'[w][l]
      BY <3>1 DEF AlertWasLogged, Of
    <3>3. j \in 1..i
      BY <1>1, <2>2
    <3> QED
      BY <1>2, <2>2, <3>1, <3>2, <3>3
  <2> QED
    BY <1>3, <2>1, <2>2
<1>5. ASSUME NEW i \in DOMAIN fate', NEW j \in DOMAIN fate', i < j,
             fate'[i].announced, fate'[j].announced,
             fate'[i].worker = fate'[j].worker, fate'[i].loc = fate'[j].loc
      PROVE  fate'[j].at - fate'[i].at > ALERT
  <2>1. i \in DOMAIN fate
    BY <1>1, <1>5
  <2>2. CASE j \in DOMAIN fate
    BY <1>1, <1>5, <2>1, <2>2 DEF LogInv, AlertsApart
  <2>3. CASE j = Len(fate) + 1
    <3>1. time[w] - alerted[w][l] > ALERT
      BY <1>2, <1>5, <2>3 DEF HitOf, Alerts
    <3>2. fate[i].at <= alerted[w][l] /\ fate[i].at \in Nat
      <4>1. fate[i].announced /\ Of(i, w, l)
        BY <1>1, <1>2, <1>5, <2>1, <2>3 DEF Of
      <4> QED
        BY <2>1, <4>1, TimesTyped DEF LogInv, AlertWasLogged
    <3>3. alerted[w][l] \in Nat /\ time[w] \in Nat /\ ALERT \in Nat
      BY LogAssumption DEF LogInv, TypeOK
    <3> QED
      BY <1>1, <1>2, <2>1, <2>3, <3>1, <3>2, <3>3
  <2> QED
    BY <1>3, <2>2, <2>3
<1>6. ASSUME NEW i \in DOMAIN fate', fate'[i].fate = "skipped"
      PROVE  \E j \in 1..(i - 1) :
               /\ fate'[j].fate = "full"
               /\ <<fate'[j].worker, fate'[j].loc, fate'[j].at>>
                    = <<fate'[i].worker, fate'[i].loc, fate'[i].at>>
  <2>1. CASE i \in DOMAIN fate
    <3>1. PICK j \in 1..(i - 1) :
             /\ fate[j].fate = "full"
             /\ <<fate[j].worker, fate[j].loc, fate[j].at>>
                  = <<fate[i].worker, fate[i].loc, fate[i].at>>
      BY <1>1, <1>6, <2>1 DEF LogInv, SkipHasCause
    <3>2. j \in DOMAIN fate
      BY <1>1, <2>1, <3>1
    <3> QED
      BY <1>1, <2>1, <3>1, <3>2
  <2>2. CASE i = Len(fate) + 1
    <3>1. disk_full[w][l] = time[w] /\ disk_full[w][l] # 0
      BY <1>2, <1>6, <2>2, LogAssumption
        DEF HitOf, BacksOff, LogInv, TypeOK, EpochFar
    <3>2. PICK j \in DOMAIN fate :
            fate[j].fate = "full" /\ Of(j, w, l) /\ fate[j].at = disk_full[w][l]
      BY <3>1 DEF LogInv, FullWasMet
    <3>3. j \in 1..(i - 1) /\ fate'[j] = fate[j]
      BY <1>1, <2>2, <3>2
    <3> QED
      BY <1>2, <2>2, <3>1, <3>2, <3>3 DEF Of
  <2> QED
    BY <1>3, <2>1, <2>2
<1> QED
  BY <1>4, <1>5, <1>6 DEF LossAnnounced, AlertsApart, SkipHasCause

------------------------------------------------------------------------------
(* The theorems. *)

\* The parts hold together from the start on; a move of the clock, forward or back,
\* and of a worker's time changes none of what they compare.
LEMMA LogInvAlways == Spec => []LogInv
<1>1. Init => LogInv
  <2> SUFFICES ASSUME Init PROVE LogInv
    OBVIOUS
  <2>1. fate \in Seq(Fate) /\ DOMAIN fate = {}
    BY DEF Init
  <2>2. TypeOK
    BY <2>1, LogAssumption DEF Init, TypeOK, Never
  <2>3. EpochFar /\ FullWasMet /\ AlertWasLogged /\ FullAnnounced
    BY <2>1, LogAssumption
      DEF Init, Never, EpochFar, FullWasMet, AlertWasLogged, FullAnnounced
  <2> QED
    BY <2>1, <2>2, <2>3 DEF LogInv, LossAnnounced, AlertsApart, SkipHasCause
<1>2. LogInv /\ [Next]_vars => LogInv'
  <2> SUFFICES ASSUME LogInv, [Next]_vars PROVE LogInv'
    OBVIOUS
  <2>1. CASE Hit
    <3>1. PICK w \in Worker, l \in Location : write_log(w, l)
      BY <2>1 DEF Hit
    <3>2. UNCHANGED <<clock, time>>
      BY <2>1 DEF Hit
    <3>3. PICK what \in Fates, announced \in BOOLEAN : HitOf(w, l, what, announced)
      BY <3>1, <3>2, EveryHit
    <3>4. EpochFar'
      BY <3>2 DEF LogInv, EpochFar
    <3>5. TypeOK'
      BY <3>3, HitAppends
    <3> QED
      BY <3>3, <3>4, <3>5, AlertKept, FullKept, HistoryKept DEF LogInv
  <2>2. CASE Tick \/ StepBack \/ \E w \in Worker : UpdateTime(w)
    <3>1. UNCHANGED <<disk_full, alerted, fate>>
      BY <2>2 DEF Tick, StepBack, UpdateTime
    <3>2. clock' \in Nat /\ clock' > ALERT
      BY <2>2, LogAssumption DEF Tick, StepBack, UpdateTime, LogInv, TypeOK, EpochFar
    <3>3. time' \in [Worker -> Nat] /\ \A w \in Worker : time'[w] > ALERT
      BY <2>2 DEF Tick, StepBack, UpdateTime, LogInv, TypeOK, EpochFar
    <3>4. TypeOK' /\ EpochFar'
      BY <3>1, <3>2, <3>3 DEF LogInv, TypeOK, EpochFar
    <3>5. FullWasMet' /\ AlertWasLogged' /\ FullAnnounced'
      BY <3>1 DEF LogInv, FullWasMet, AlertWasLogged, FullAnnounced, Of
    <3>6. LossAnnounced' /\ AlertsApart' /\ SkipHasCause'
      BY <3>1 DEF LogInv, LossAnnounced, AlertsApart, SkipHasCause
    <3> QED
      BY <3>4, <3>5, <3>6 DEF LogInv
  <2>3. CASE UNCHANGED vars
    BY <2>3 DEF vars, LogInv, TypeOK, EpochFar, FullWasMet, AlertWasLogged,
                FullAnnounced, Of, LossAnnounced, AlertsApart, SkipHasCause
  <2> QED
    BY <2>1, <2>2, <2>3 DEF Next, Ended
<1> QED
  BY <1>1, <1>2, PTL DEF Spec

\* A record that is lost, cut short or skipped has an alert of its location and
\* worker with or before it, no more than the limit behind it, even when the clock is
\* set back (shield_write_log: the alert and the back-off of its error path).
THEOREM LossesAnnounced == Spec => []LossAnnounced
<1>1. LogInv => LossAnnounced
  BY DEF LogInv
<1> QED
  BY <1>1, LogInvAlways, PTL

\* Two alerts of one location and worker are more than the limit apart, whatever
\* failed and wherever the clock was set (log_error_time).
THEOREM AlertsAreApart == Spec => []AlertsApart
<1>1. LogInv => AlertsApart
  BY DEF LogInv
<1> QED
  BY <1>1, LogInvAlways, PTL

\* No record is skipped for another second's, worker's or location's full disk
\* (log_disk_full_time).
THEOREM SkipsHaveCause == Spec => []SkipHasCause
<1>1. LogInv => SkipHasCause
  BY DEF LogInv
<1> QED
  BY <1>1, LogInvAlways, PTL
==============================================================================
