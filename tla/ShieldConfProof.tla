---------------------------- MODULE ShieldConfProof ----------------------------
(***************************************************************************)
(* What a configuration means once it serves, whatever is written in which *)
(* level.  The invariant follows the reading: what each loc_conf and the   *)
(* zones hold is what the directives read so far say, then what the level  *)
(* and those around it say.                                                *)
(***************************************************************************)
EXTENDS ShieldConf, SequenceTheorems, WellFoundedInduction, TLAPS

\* Of the first k directives of a level d, those of a name.
SaidBy(d, k, name) == {i \in 1..k : d[i].name = name}

ReadOnce(d, k, name, value) ==
  \/ SaidBy(d, k, name) = {} /\ value = UNSET
  \/ \E i \in 1..k : SaidBy(d, k, name) = {i} /\ value = d[i].args[1]

SinksRead(d, k, c) ==
  \/ SaidBy(d, k, "shield_log") = {} /\ c.log = UNSET /\ c.syslog_peer = UNSET
  \/ \E i \in 1..k :
       LET sink == d[i].args[1]
       IN  /\ SaidBy(d, k, "shield_log") = {i}
           /\ c.log = IF sink.kind = "file" THEN sink ELSE NULL
           /\ c.syslog_peer = IF sink.kind = "syslog" THEN sink ELSE NULL

PolicyRead(d, k, c) ==
  \/ SaidBy(d, k, "shield_ban") = {} /\ c.ban_zone = UNSET /\ c.source = PEER
  \/ \E i \in 1..k : SaidBy(d, k, "shield_ban") = {i} /\ Whole(c, d[i].args)

\* A loc_conf holds what k directives of its level say.
ConfRead(d, k, c) ==
  /\ DOMAIN c = DOMAIN create_loc_conf
  /\ ReadOnce(d, k, "shield", c.mode)
  /\ ReadOnce(d, k, "shield_status", c.status)
  /\ ReadOnce(d, k, "shield_body", c.body)
  /\ ReadOnce(d, k, "shield_max_body", c.max_body)
  /\ c.skip = UNION {ToSet(d[i].args) : i \in SaidBy(d, k, "shield_skip")}
  /\ SinksRead(d, k, c)
  /\ PolicyRead(d, k, c)

\* Where a zone is defined in the first k directives of the main level, and what
\* is known of it by then.
DefinedBy(d, k, name) ==
  {i \in SaidBy(d, k, "shield_ban_zone") : d[i].args[1] = name}

ZoneRead(d, k, z, name) ==
  \/ z.size = 0 /\ z.data = FALSE /\ DefinedBy(d, k, name) = {}
  \/ /\ z.data = TRUE
     /\ \E i \in 1..k : /\ DefinedBy(d, k, name) = {i}
                        /\ z.size = d[i].args[2] /\ z.size \in Nat

ZonesRead(d, k, zs) ==
  /\ \A z \in DOMAIN zs : ZoneRead(d, k, zs[z], z)
  /\ \A i \in SaidBy(d, k, "shield_ban_zone") : d[i].args[1] \in DOMAIN zs

\* The zone of a policy is known.
ZoneNamed(c, zs) == c.ban_zone \notin {UNSET, NULL} => c.ban_zone \in DOMAIN zs

\* What is in force in a level is settled.
Settled(f, l, c) == Effective(f, l, c) /\ Policed(f, l, c)

\* How far a level of a file f is read at a position.
ReadTo(f, position, l) ==
  IF l < position.level THEN Len(f[l])
  ELSE IF l = position.level THEN position.next - 1
  ELSE 0

AllRead(l) == ConfRead(file[l], Len(file[l]), conf[l])

Parsed ==
  phase = "parse" =>
    /\ at.level \in Levels /\ at.next \in 1..(Len(file[at.level]) + 1)
    /\ DOMAIN at = {"level", "next"} /\ DOMAIN conf = Levels
    /\ \A l \in Levels : ConfRead(file[l], ReadTo(file, at, l), conf[l]) /\ ZoneNamed(conf[l], zones)
    /\ ZonesRead(file[Main], ReadTo(file, at, Main), zones)

Merging ==
  phase = "merge" =>
    /\ at.level \in {Server, Location} /\ DOMAIN at = {"level", "next"}
    /\ DOMAIN conf = Levels /\ AllRead(Main) /\ AllRead(Location)
    /\ IF at.level = Server THEN AllRead(Server) ELSE Settled(file, Server, conf[Server])
    /\ \A l \in Levels : ZoneNamed(conf[l], zones)
    /\ ZonesRead(file[Main], Len(file[Main]), zones)

Complete ==
  phase = "init" =>
    /\ \A l \in {Server, Location} : Settled(file, l, conf[l]) /\ ZoneNamed(conf[l], zones)
    /\ ZonesRead(file[Main], Len(file[Main]), zones)

FilesKnown ==
  /\ IsFile(file)
  /\ files \in Seq(ToSet(files)) /\ \A i \in DOMAIN files : IsFile(files[i])

ConfInv ==
  FilesKnown /\ Parsed /\ Merging /\ Complete /\ EffectiveIsNearest /\ PolicyIsWhole
------------------------------------------------------------------------------
(* Which level speaks. *)

LEMMA MaxIs ==
  ASSUME NEW S \in SUBSET Int, NEW m \in S, \A y \in S : m >= y
  PROVE  Max(S) = m
<1>1. \E x \in S : \A y \in S : x >= y
  OBVIOUS
<1>2. Max(S) \in S /\ \A y \in S : Max(S) >= y
  BY <1>1 DEF Max
<1>3. Max(S) >= m /\ m >= Max(S) /\ Max(S) \in Int /\ m \in Int
  BY <1>2
<1> QED
  BY <1>3

LEMMA MinIs ==
  ASSUME NEW i \in Int
  PROVE  Min({i}) = i
BY DEF Min

LEMMA LevelsAre ==
  /\ Levels = {Main, Server, Location} /\ Main = 1 /\ Server = 2 /\ Location = 3
BY DEF Levels, Main, Server, Location

\* A level that says something is its own nearest level.
LEMMA NearestIs ==
  ASSUME NEW f, NEW l \in Levels, NEW name
  PROVE  /\ Said(f, l, name) # {} => Nearest(f, l, name) = l
         /\ Said(f, l, name) = {} => Nearest(f, l, name) = IF l = Main THEN 0 ELSE Nearest(f, l - 1, name)
         /\ Nearest(f, l, name) \in 0..l
         /\ Nearest(f, l, name) # 0 => /\ Nearest(f, l, name) \in Levels
                                    /\ Said(f, Nearest(f, l, name), name) # {}
<1> DEFINE S(m) == {0} \union {k \in 1..m : Said(f, k, name) # {}}
<1>0. l \in {1, 2, 3} /\ Main = 1 /\ Levels = 1..3
  BY DEF Levels, Main, Location
<1>1. \A m \in 0..3 : S(m) \subseteq 0..m /\ 0 \in S(m)
  OBVIOUS
<1>2. \A m \in 0..3 : Max(S(m)) \in S(m) /\ \A y \in S(m) : Max(S(m)) >= y
  <2> SUFFICES ASSUME NEW m \in 0..3
               PROVE  \E x \in S(m) : \A y \in S(m) : x >= y
    BY DEF Max
  <2>1. m \in {0, 1, 2, 3}
    OBVIOUS
  <2>2. CASE m = 3 /\ 3 \in S(m)
    BY <1>1, <2>2
  <2>3. CASE 2 \in S(m) /\ 3 \notin S(m)
    BY <1>1, <2>1, <2>3
  <2>4. CASE 1 \in S(m) /\ 2 \notin S(m) /\ 3 \notin S(m)
    BY <1>1, <2>1, <2>4
  <2>5. CASE 1 \notin S(m) /\ 2 \notin S(m) /\ 3 \notin S(m)
    BY <1>1, <2>1, <2>5
  <2>6. CASE 3 \in S(m)
    BY <1>1, <2>1, <2>6
  <2> QED
    BY <2>1, <2>3, <2>4, <2>5, <2>6
<1>3. Nearest(f, l, name) = Max(S(l)) /\ (l # 1 => Nearest(f, l - 1, name) = Max(S(l - 1)))
  BY DEF Nearest
<1>4. Said(f, l, name) # {} => Max(S(l)) = l
  <2> SUFFICES ASSUME Said(f, l, name) # {} PROVE Max(S(l)) = l
    OBVIOUS
  <2>1. l \in S(l)
    BY <1>0
  <2> HIDE DEF S
  <2> QED
    BY <1>0, <1>1, <2>1, MaxIs
<1>5. Said(f, l, name) = {} => S(l) = S(l - 1)
  BY <1>0
<1>6. Max(S(0)) = 0
  <2>1. S(0) = {0}
    OBVIOUS
  <2> HIDE DEF S
  <2> QED
    BY <2>1, MaxIs
<1>7. Max(S(l)) \in 0..l /\ (Max(S(l)) # 0 => Said(f, Max(S(l)), name) # {})
  <2>1. \A x \in S(l) : x # 0 => Said(f, x, name) # {}
    OBVIOUS
  <2>2. l \in 0..3
    BY <1>0
  <2> HIDE DEF S
  <2>3. Max(S(l)) \in S(l) /\ S(l) \subseteq 0..l
    BY <1>1, <1>2, <2>2
  <2> QED
    BY <2>1, <2>3
<1> HIDE DEF S
<1> QED
  BY <1>0, <1>3, <1>4, <1>5, <1>6, <1>7

------------------------------------------------------------------------------
(* What has been read. *)

LEMMA NothingSaid ==
  \A d, name : SaidBy(d, 0, name) = {}
BY DEF SaidBy

LEMMA SaidNext ==
  ASSUME NEW d, NEW k \in Nat \ {0}, NEW name
  PROVE  SaidBy(d, k, name) =
           IF d[k].name = name THEN SaidBy(d, k - 1, name) \union {k}
           ELSE SaidBy(d, k - 1, name)
BY DEF SaidBy

LEMMA AllSaid ==
  ASSUME NEW f, IsFile(f), NEW l \in Levels, NEW name
  PROVE  SaidBy(f[l], Len(f[l]), name) = Said(f, l, name)
<1>1. DOMAIN f[l] = 1..Len(f[l])
  BY DEF IsFile, Written
<1> QED
  BY <1>1 DEF SaidBy, Said

\* A level that says a thing once says it first.
LEMMA SaidOnce ==
  ASSUME NEW f, IsFile(f), NEW l \in Levels, NEW name, NEW i \in 1..Len(f[l]),
         SaidBy(f[l], Len(f[l]), name) = {i}
  PROVE  /\ Said(f, l, name) # {} /\ First(f, l, name) = f[l][i].args
         /\ Nearest(f, l, name) = l /\ Given(f, l, name) = f[l][i].args
<1>1. Said(f, l, name) = {i}
  BY AllSaid
<1>2. First(f, l, name) = f[l][i].args
  BY <1>1, MinIs DEF First
<1>3. Said(f, l, name) # {}
  BY <1>1
<1>4. Nearest(f, l, name) = l
  BY <1>3, NearestIs, Zenon
<1> QED
  BY <1>2, <1>3, <1>4 DEF Given

\* A directive says nothing of what other directives are about.
LEMMA OthersRead ==
  ASSUME NEW d, NEW k \in Nat \ {0}, NEW c, ConfRead(d, k - 1, c)
  PROVE  LET name == d[k].name
         IN  /\ name # "shield" => ReadOnce(d, k, "shield", c.mode)
             /\ name # "shield_status" => ReadOnce(d, k, "shield_status", c.status)
             /\ name # "shield_body" => ReadOnce(d, k, "shield_body", c.body)
             /\ name # "shield_max_body" => ReadOnce(d, k, "shield_max_body", c.max_body)
             /\ name # "shield_skip" =>
                  c.skip = UNION {ToSet(d[i].args) : i \in SaidBy(d, k, "shield_skip")}
             /\ name # "shield_log" => SinksRead(d, k, c)
             /\ name # "shield_ban" => PolicyRead(d, k, c)
<1>1. 1..(k - 1) \subseteq 1..k
  OBVIOUS
<1>2. \A name, value : d[k].name # name /\ ReadOnce(d, k - 1, name, value)
                         => ReadOnce(d, k, name, value)
  BY <1>1, SaidNext DEF ReadOnce
<1>3. d[k].name # "shield_skip" =>
        c.skip = UNION {ToSet(d[i].args) : i \in SaidBy(d, k, "shield_skip")}
  BY SaidNext DEF ConfRead
<1>4. d[k].name # "shield_log" => SinksRead(d, k, c)
  <2>1. d[k].name # "shield_log" =>
          SaidBy(d, k, "shield_log") = SaidBy(d, k - 1, "shield_log")
    BY SaidNext
  <2> QED
    BY <1>1, <2>1 DEF ConfRead, SinksRead
<1>5. d[k].name # "shield_ban" => PolicyRead(d, k, c)
  BY <1>1, SaidNext DEF ConfRead, PolicyRead
<1> QED
  BY <1>2, <1>3, <1>4, <1>5 DEF ConfRead

\* The first time a level says it.
LEMMA ReadFirst ==
  ASSUME NEW d, NEW k \in Nat \ {0}, NEW name, ReadOnce(d, k - 1, name, UNSET),
         \A i \in 1..(k - 1) : d[i].args[1] # UNSET, d[k].name = name
  PROVE  ReadOnce(d, k, name, d[k].args[1])
<1>1. SaidBy(d, k - 1, name) = {}
  BY DEF ReadOnce
<1>2. SaidBy(d, k, name) = SaidBy(d, k - 1, name) \union {k}
  BY SaidNext
<1>3. SaidBy(d, k, name) = {k} /\ k \in 1..k
  BY <1>1, <1>2
<1> QED
  BY <1>3 DEF ReadOnce
------------------------------------------------------------------------------
(* The parameters of a shield_ban. *)

\* What the first k arguments give for one parameter.
Values1To(args, k, name) == {args[i].value : i \in {j \in 1..k : args[j].name = name}}

\* Of the numbers for which something fails there is a least.
LEMMA LeastBad ==
  ASSUME NEW Bad \in SUBSET Nat, Bad # {}
  PROVE  \E m \in Bad : \A k \in Nat : k < m => k \notin Bad
<1> DEFINE R == {ss \in Nat \X Nat : ss[1] < ss[2]}
<1>1. IsWellFoundedOn(R, Nat)
  BY NatLessThanWellFounded DEF OpToRel
<1>2. \A j, k \in Nat : j < k => <<j, k>> \in R
  OBVIOUS
<1> HIDE DEF R
<1>3. PICK m \in Bad : \A k \in Bad : ~(<<k, m>> \in R)
  BY <1>1, WFMin, Zenon
<1> QED
  BY <1>2, <1>3

\* The fold, as a function of the set of arguments read.
Unrolled(args, k, h) ==
  h = [s \in SUBSET (1..k) |->
         IF s = {} THEN NoParameters ELSE ReadParameter(h[s \ {Max(s)}], args[Max(s)])]

\* There is one for any number of arguments: the last of them comes last.
LEMMA UnrolledExists ==
  ASSUME NEW args, NEW n \in Nat
  PROVE  \E h : Unrolled(args, n, h)
<1> DEFINE Bad == {k \in Nat : ~\E h : Unrolled(args, k, h)}
<1>3. Bad = {}
  <2> SUFFICES ASSUME Bad # {} PROVE FALSE
    OBVIOUS
  <2>1. Bad \in SUBSET Nat
    OBVIOUS
  <2> HIDE DEF Bad
  <2>2. PICK m \in Bad : \A k \in Nat : k < m => k \notin Bad
    BY <2>1, LeastBad
  <2> USE DEF Bad
  <2>3. CASE m = 0
    <3> DEFINE h == [s \in SUBSET (1..0) |-> NoParameters]
    <3>1. \A s \in SUBSET (1..0) : s = {}
      OBVIOUS
    <3>2. Unrolled(args, 0, h)
      BY <3>1 DEF Unrolled
    <3> QED
      BY <2>2, <2>3, <3>2
  <2>4. CASE m # 0
    <3>1. m \in Nat /\ m - 1 \in Nat /\ m - 1 < m
      BY <2>4
    <3>2. m - 1 \notin Bad
      <4> HIDE DEF Bad
      <4> QED
        BY <2>2, <3>1
    <3>3. PICK g : Unrolled(args, m - 1, g)
      BY <3>1, <3>2
    <3> DEFINE h == [s \in SUBSET (1..m) |->
                       IF m \in s THEN ReadParameter(g[s \ {m}], args[m]) ELSE g[s]]
    <3>4. \A s \in SUBSET (1..m) : m \in s => Max(s) = m /\ s \ {m} \in SUBSET (1..(m - 1))
      BY <3>1, MaxIs
    <3>5. \A s \in SUBSET (1..m) : m \notin s => s \in SUBSET (1..(m - 1))
      BY <3>1
    <3>6. ASSUME NEW s \in SUBSET (1..m)
          PROVE  h[s] = IF s = {} THEN NoParameters
                        ELSE ReadParameter(h[s \ {Max(s)}], args[Max(s)])
      <4>1. CASE m \in s
        <5>1. Max(s) = m /\ s # {} /\ s \ {m} \in SUBSET (1..m) /\ m \notin s \ {m}
          BY <3>4, <4>1
        <5>2. h[s \ {m}] = g[s \ {m}]
          BY <5>1
        <5> QED
          BY <4>1, <5>1, <5>2
      <4>2. CASE m \notin s
        <5>1. s \in SUBSET (1..(m - 1)) /\ h[s] = g[s]
          BY <3>5, <4>2
        <5>2. g[s] = IF s = {} THEN NoParameters
                     ELSE ReadParameter(g[s \ {Max(s)}], args[Max(s)])
          BY <3>3, <5>1 DEF Unrolled
        <5>3. h[s \ {Max(s)}] = g[s \ {Max(s)}]
          BY <4>2
        <5> QED
          BY <5>1, <5>2, <5>3
      <4> QED
        BY <4>1, <4>2
    <3>7. h = [s \in SUBSET (1..m) |-> h[s]]
      OBVIOUS
    <3> HIDE DEF h
    <3>8. Unrolled(args, m, h)
      BY <3>6, <3>7 DEF Unrolled
    <3> QED
      BY <2>2, <3>8
  <2> QED
    BY <2>3, <2>4
<1> QED
  BY <1>3

LEMMA LastOf ==
  ASSUME NEW k \in Nat
  PROVE  /\ Max(1..(k + 1)) = k + 1
         /\ (1..(k + 1)) \ {k + 1} = 1..k
         /\ 1..(k + 1) # {}
<1>1. k + 1 \in 1..(k + 1) /\ 1..(k + 1) \in SUBSET Int
  OBVIOUS
<1>2. \A y \in 1..(k + 1) : k + 1 >= y
  OBVIOUS
<1>3. \A y : y \in (1..(k + 1)) \ {k + 1} <=> y \in 1..k
  OBVIOUS
<1> QED
  BY <1>1, <1>2, <1>3, MaxIs

\* The parameters after k arguments.
LEMMA ParametersUnroll ==
  ASSUME NEW args, Written(args)
  PROVE  \E h : /\ h[0] = NoParameters
                /\ \A k \in 0..(Len(args) - 1) : h[k + 1] = ReadParameter(h[k], args[k + 1])
                /\ FoldLeft(ReadParameter, NoParameters, args) = h[Len(args)]
<1> DEFINE n == Len(args)
           iter == CHOOSE h : Unrolled(args, n, h)
           h == [k \in 0..n |-> iter[1..k]]
<1>1. n \in Nat /\ DOMAIN args = 1..n
  BY DEF Written
<1>2. FoldLeft(ReadParameter, NoParameters, args) = iter[1..n]
  BY <1>1 DEF FoldLeft, MapThenFoldSet, Unrolled
<1>3. Unrolled(args, n, iter)
  BY <1>1, UnrolledExists
<1> HIDE DEF iter, n
<1>4. \A k \in 0..n : 1..k \in SUBSET (1..n)
  BY <1>1
<1>5. iter[1..0] = NoParameters
  BY <1>1, <1>3, <1>4 DEF Unrolled
<1>6. ASSUME NEW k \in 0..(n - 1)
      PROVE  iter[1..(k + 1)] = ReadParameter(iter[1..k], args[k + 1])
  <2>1. k + 1 \in 1..(k + 1) /\ 1..(k + 1) \in SUBSET (1..n) /\ 1..(k + 1) \in SUBSET Int
    BY <1>1
  <2>0. k \in Nat
    BY <1>1
  <2>2. /\ Max(1..(k + 1)) = k + 1
        /\ (1..(k + 1)) \ {k + 1} = 1..k /\ 1..(k + 1) # {}
    BY <2>0, LastOf
  <2> QED
    BY <1>3, <2>1, <2>2 DEF Unrolled
<1>7. /\ h[0] = NoParameters
      /\ \A k \in 0..(n - 1) : h[k + 1] = ReadParameter(h[k], args[k + 1])
      /\ h[n] = iter[1..n]
  BY <1>1, <1>5, <1>6
<1> HIDE DEF h
<1> QED
  BY <1>2, <1>7 DEF n

\* What the parameters read so far hold.  Once there was an error the rest does
\* not matter: the directive is refused.
ParametersHold(p, args, k) ==
  /\ DOMAIN p = DOMAIN NoParameters
  /\ ~p.error =>
       /\ p.zone \in Values1To(args, k, "zone") \union {NULL}
       /\ p.count \in Values1To(args, k, "count") \union {UNSET}
       /\ p.window \in Values1To(args, k, "window") \union {UNSET}
       /\ p.bantime \in Values1To(args, k, "bantime") \union {UNSET}
       /\ p.key \in Values1To(args, k, "key") \union {"peer"}
       /\ p.trusted = Values1To(args, k, "trusted")

LEMMA ParameterNames ==
  DOMAIN NoParameters = {"zone", "count", "window", "bantime", "key", "trusted", "error"}
BY DEF NoParameters

LEMMA ValuesNext ==
  ASSUME NEW args, NEW k \in Nat, NEW name
  PROVE  Values1To(args, k + 1, name) =
           IF args[k + 1].name = name
           THEN Values1To(args, k, name) \union {args[k + 1].value}
           ELSE Values1To(args, k, name)
<1>1. {j \in 1..(k + 1) : args[j].name = name} =
        IF args[k + 1].name = name THEN {j \in 1..k : args[j].name = name} \union {k + 1}
        ELSE {j \in 1..k : args[j].name = name}
  OBVIOUS
<1> QED
  BY <1>1 DEF Values1To

LEMMA ParameterHolds ==
  ASSUME NEW p, NEW args, NEW k \in Nat, ParametersHold(p, args, k)
  PROVE  ParametersHold(ReadParameter(p, args[k + 1]), args, k + 1)
<1> DEFINE a == args[k + 1]
           q == ReadParameter(p, a)
<1>1. CASE q = [p EXCEPT !.error = TRUE]
  <2>1. DOMAIN q = DOMAIN NoParameters /\ q.error
    BY <1>1, ParameterNames DEF ParametersHold
  <2> HIDE DEF q
  <2> QED
    BY <2>1 DEF ParametersHold, q
<1>2. CASE a.name = "trusted" /\ q = [p EXCEPT !.trusted = @ \union {a.value}]
  <2>1. /\ DOMAIN q = DOMAIN NoParameters
        /\ q.zone = p.zone /\ q.count = p.count /\ q.window = p.window
        /\ q.bantime = p.bantime /\ q.key = p.key /\ q.error = p.error
        /\ q.trusted = p.trusted \union {a.value}
    BY <1>2, ParameterNames DEF ParametersHold
  <2> HIDE DEF q
  <2>2. \A name \in {"zone", "count", "window", "bantime", "key"} :
          Values1To(args, k + 1, name) = Values1To(args, k, name)
    BY <1>2, ValuesNext
  <2>3. Values1To(args, k + 1, "trusted") = Values1To(args, k, "trusted") \union {a.value}
    BY <1>2, ValuesNext
  <2>4. ParametersHold(q, args, k + 1)
    BY <2>1, <2>2, <2>3 DEF ParametersHold
  <2> QED
    BY <2>4 DEF q
<1>3. ASSUME NEW name \in {"zone", "count", "window", "bantime", "key"},
             a.name = name, q = [p EXCEPT ![name] = a.value]
      PROVE  ParametersHold(q, args, k + 1)
  <2>1. /\ DOMAIN q = DOMAIN NoParameters
        /\ \A f \in DOMAIN NoParameters : q[f] = IF f = name THEN a.value ELSE p[f]
    BY <1>3, ParameterNames DEF ParametersHold
  <2>2. \A f \in {"zone", "count", "window", "bantime", "key", "trusted"} :
          Values1To(args, k + 1, f) =
            IF f = name THEN Values1To(args, k, f) \union {a.value}
            ELSE Values1To(args, k, f)
    BY <1>3, ValuesNext
  <2> HIDE DEF q, a
  <2> QED
    BY <2>1, <2>2, ParameterNames DEF ParametersHold
<1>4. \/ q = [p EXCEPT !.error = TRUE]
      \/ a.name = "trusted" /\ q = [p EXCEPT !.trusted = @ \union {a.value}]
      \/ \E name \in {"zone", "count", "window", "bantime", "key"} :
           a.name = name /\ q = [p EXCEPT ![name] = a.value]
  <2>1. DOMAIN p = {"zone", "count", "window", "bantime", "key", "trusted", "error"}
    BY ParameterNames DEF ParametersHold
  <2> HIDE DEF a
  <2> QED
    BY <2>1 DEF ReadParameter
<1> QED
  BY <1>1, <1>2, <1>3, <1>4

\* A shield_ban that is not refused is kept whole.
LEMMA ParametersWhole ==
  ASSUME NEW args, Written(args)
  PROVE  ParametersHold(FoldLeft(ReadParameter, NoParameters, args), args, Len(args))
<1> DEFINE n == Len(args)
<1>1. n \in Nat
  BY DEF Written
<1>2. PICK h : /\ h[0] = NoParameters
               /\ \A k \in 0..(n - 1) : h[k + 1] = ReadParameter(h[k], args[k + 1])
               /\ FoldLeft(ReadParameter, NoParameters, args) = h[n]
  BY ParametersUnroll
<1> HIDE DEF n
<1> DEFINE Bad == {k \in 0..n : ~ParametersHold(h[k], args, k)}
<1>5. Bad = {}
  <2> SUFFICES ASSUME Bad # {} PROVE FALSE
    OBVIOUS
  <2>1. Bad \in SUBSET Nat
    BY <1>1
  <2> HIDE DEF Bad
  <2>2. PICK m \in Bad : \A k \in Nat : k < m => k \notin Bad
    BY <2>1, LeastBad
  <2>3. m \in 0..n /\ ~ParametersHold(h[m], args, m)
    BY <2>2 DEF Bad
  <2>4. CASE m = 0
    <3>1. \A name : Values1To(args, 0, name) = {}
      BY DEF Values1To
    <3>2. ParametersHold(NoParameters, args, 0)
      BY <3>1 DEF ParametersHold, NoParameters
    <3> QED
      BY <1>2, <2>3, <2>4, <3>2
  <2>5. CASE m # 0
    <3>1. m \in Nat /\ m - 1 \in Nat /\ m - 1 < m /\ m - 1 \in 0..n /\ m - 1 \in 0..(n - 1)
          /\ (m - 1) + 1 = m
      BY <1>1, <2>3, <2>5
    <3>2. m - 1 \notin Bad
      BY <2>2, <3>1
    <3>3. ParametersHold(h[m - 1], args, m - 1)
      BY <3>1, <3>2 DEF Bad
    <3>4. h[m] = ReadParameter(h[m - 1], args[m])
      BY <1>2, <3>1
    <3>5. ParametersHold(ReadParameter(h[m - 1], args[(m - 1) + 1]), args, (m - 1) + 1)
      BY <3>1, <3>3, ParameterHolds
    <3> QED
      BY <2>3, <3>1, <3>4, <3>5
  <2> QED
    BY <2>4, <2>5
<1> QED
  BY <1>1, <1>2, <1>5 DEF n
------------------------------------------------------------------------------
(* Reading a directive. *)

LEMMA DirectiveKnown ==
  ASSUME ConfInv, phase = "parse", at.next <= Len(file[at.level])
  PROVE  /\ at.level \in Levels /\ at.next \in Nat \ {0}
         /\ at.next \in 1..Len(file[at.level])
         /\ Len(file[at.level]) \in Nat /\ DOMAIN file[at.level] = 1..Len(file[at.level])
         /\ ConfRead(file[at.level], at.next - 1, Conf) /\ ZoneNamed(Conf, zones)
         /\ IsDirective(Directive)
         /\ \A i \in 1..(at.next - 1) : IsDirective(file[at.level][i])
<1>1. /\ at.level \in Levels /\ at.next \in 1..(Len(file[at.level]) + 1)
      /\ \A l \in Levels : ConfRead(file[l], ReadTo(file, at, l), conf[l])
                             /\ ZoneNamed(conf[l], zones)
  BY DEF ConfInv, Parsed
<1>2. /\ DOMAIN file[at.level] = 1..Len(file[at.level]) /\ Len(file[at.level]) \in Nat
      /\ \A i \in DOMAIN file[at.level] : IsDirective(file[at.level][i])
  BY <1>1 DEF ConfInv, FilesKnown, IsFile, Written
<1>3. at.level \in Int
  BY <1>1, LevelsAre
<1>4. /\ at.next \in 1..Len(file[at.level]) /\ at.next \in Nat \ {0}
      /\ 1..(at.next - 1) \subseteq 1..Len(file[at.level])
  BY <1>1, <1>2
<1>5. ReadTo(file, at, at.level) = at.next - 1
  BY <1>3 DEF ReadTo
<1> QED
  BY <1>1, <1>2, <1>4, <1>5 DEF Conf, Directive

\* A directive is read: its level says more, the others what they said.
LEMMA SetKeeps ==
  ASSUME ConfInv, phase = "parse", at.next <= Len(file[at.level]),
         UNCHANGED <<files, file, cycle>>, NEW c, Set(c),
         ConfRead(file[at.level], at.next, c),
         DOMAIN zones \subseteq DOMAIN zones', ZoneNamed(c, zones'),
         ZonesRead(file[Main], IF at.level = Main THEN at.next ELSE Len(file[Main]), zones')
  PROVE  ConfInv'
<1> DEFINE l == at.level
<1>1. /\ l \in Levels /\ at.next \in 1..Len(file[l]) /\ Len(file[l]) \in Nat
      /\ at.next \in Nat \ {0} /\ l \in Int
  BY DirectiveKnown, LevelsAre
<1>2. /\ DOMAIN at = {"level", "next"} /\ DOMAIN conf = Levels
      /\ \A m \in Levels : ConfRead(file[m], ReadTo(file, at, m), conf[m])
                             /\ ZoneNamed(conf[m], zones)
  BY DEF ConfInv, Parsed
<1>3. /\ at'.level = l /\ at'.next = at.next + 1 /\ DOMAIN at' = {"level", "next"}
      /\ phase' = "parse"
      /\ DOMAIN conf' = Levels /\ conf'[l] = c /\ \A m \in Levels \ {l} : conf'[m] = conf[m]
  BY <1>1, <1>2 DEF Set
<1>4. /\ ReadTo(file', at', l) = at.next
      /\ \A m \in Levels \ {l} : ReadTo(file', at', m) = ReadTo(file, at, m)
  BY <1>1, <1>3, LevelsAre DEF ReadTo
<1>5. ASSUME NEW m \in Levels
      PROVE  ConfRead(file'[m], ReadTo(file', at', m), conf'[m]) /\ ZoneNamed(conf'[m], zones')
  <2>1. CASE m = l
    BY <1>3, <1>4, <2>1
  <2>2. CASE m # l
    <3>1. /\ ReadTo(file', at', m) = ReadTo(file, at, m) /\ conf'[m] = conf[m]
          /\ file'[m] = file[m]
      BY <1>3, <1>4, <2>2
    <3> QED
      BY <1>2, <3>1 DEF ZoneNamed
  <2> QED
    BY <2>1, <2>2
<1>6. ZonesRead(file'[Main], ReadTo(file', at', Main), zones')
  <2>1. CASE l = Main
    BY <1>4, <2>1
  <2>2. CASE l # Main
    <3>1. ReadTo(file', at', Main) = Len(file[Main])
      BY <1>1, <1>3, <2>2, LevelsAre DEF ReadTo
    <3> QED
      BY <2>2, <3>1
  <2> QED
    BY <2>1, <2>2
<1>7. at'.level \in Levels /\ at'.next \in 1..(Len(file'[at'.level]) + 1)
  BY <1>1, <1>3
<1>8. FilesKnown'
  BY DEF ConfInv, FilesKnown, IsFile
<1> QED
  BY <1>3, <1>5, <1>6, <1>7, <1>8
  DEF ConfInv, Parsed, Merging, Complete, EffectiveIsNearest, PolicyIsWhole

\* A file that is refused means nothing.
LEMMA RefuseKeeps ==
  ASSUME ConfInv, UNCHANGED <<files, file>>, phase' = "refused"
  PROVE  ConfInv'
BY DEF ConfInv, FilesKnown, IsFile, Parsed, Merging, Complete, EffectiveIsNearest,
       PolicyIsWhole

\* A directive that defines no zone leaves what is known of them.
LEMMA ZonesStay ==
  ASSUME ConfInv, phase = "parse", at.next <= Len(file[at.level]),
         Directive.name # "shield_ban_zone"
  PROVE  ZonesRead(file[Main], IF at.level = Main THEN at.next ELSE Len(file[Main]), zones)
<1>1. ZonesRead(file[Main], ReadTo(file, at, Main), zones)
  BY DEF ConfInv, Parsed
<1>2. at.level \in Levels /\ at.next \in Nat \ {0}
  BY DirectiveKnown
<1>3. CASE at.level # Main
  <2>1. ReadTo(file, at, Main) = Len(file[Main])
    BY <1>2, <1>3, LevelsAre DEF ReadTo
  <2> QED
    BY <1>1, <1>3, <2>1
<1>4. CASE at.level = Main
  <2>1. ReadTo(file, at, Main) = at.next - 1
    BY <1>2, <1>4, LevelsAre DEF ReadTo
  <2>2. SaidBy(file[Main], at.next, "shield_ban_zone") =
          SaidBy(file[Main], at.next - 1, "shield_ban_zone")
    BY <1>2, <1>4, SaidNext DEF Directive
  <2>3. 1..(at.next - 1) \subseteq 1..at.next
    BY <1>2
  <2>4. ZonesRead(file[Main], at.next - 1, zones)
    BY <1>1, <2>1
  <2>5. ZonesRead(file[Main], at.next, zones)
    BY <2>2, <2>3, <2>4 DEF ZonesRead, ZoneRead, DefinedBy
  <2> QED
    BY <1>4, <2>5
<1> QED
  BY <1>3, <1>4

LEMMA ConfFields ==
  DOMAIN create_loc_conf =
    {"mode", "body", "max_body", "status", "skip", "log", "syslog_peer", "ban_zone", "ban",
     "source", "status_zone"}
BY DEF create_loc_conf

LEMMA SameSinks ==
  ASSUME NEW d, NEW k, NEW b, NEW c, SinksRead(d, k, b),
         c.log = b.log, c.syslog_peer = b.syslog_peer
  PROVE  SinksRead(d, k, c)
BY DEF SinksRead

LEMMA SamePolicy ==
  ASSUME NEW d, NEW k, NEW b, NEW c, PolicyRead(d, k, b),
         c.ban_zone = b.ban_zone, c.ban = b.ban, c.source = b.source
  PROVE  PolicyRead(d, k, c)
BY DEF PolicyRead, Whole

LEMMA FirstArgument ==
  ASSUME NEW d, IsDirective(d)
  PROVE  /\ d.args[1] \notin {UNSET, NULL}
         /\ d.name = "shield_ban" => d.args[1].value \notin {UNSET, NULL}
<1>1. 1 \in DOMAIN d.args
  BY DEF IsDirective, Written
<1> QED
  BY <1>1 DEF IsDirective

\* The four values that a level sets once (SetOnce).
LEMMA OnceKeeps ==
  ASSUME ConfInv, NEW name, NEW field, NEW valid, Reading(name), SetOnce(field, valid),
         <<name, field>> \in {<<"shield", "mode">>, <<"shield_status", "status">>,
                              <<"shield_body", "body">>, <<"shield_max_body", "max_body">>}
  PROVE  ConfInv'
<1>1. phase = "parse" /\ at.next <= Len(file[at.level]) /\ UNCHANGED <<files, file, cycle>>
      /\ Directive.name = name
  BY DEF Reading
<1>2. CASE Refuse
  BY <1>1, <1>2, RefuseKeeps DEF Refuse
<1>3. CASE ~Refuse
  <2> DEFINE c == [Conf EXCEPT ![field] = Args[1]]
             d == file[at.level]
             k == at.next
  <2>1. Conf[field] = UNSET /\ Set(c) /\ zones' = zones
    BY <1>3 DEF SetOnce
  <2>2. /\ k \in Nat \ {0} /\ ConfRead(d, k - 1, Conf) /\ ZoneNamed(Conf, zones)
        /\ IsDirective(d[k]) /\ \A i \in 1..(k - 1) : IsDirective(d[i])
        /\ d[k].name = name /\ Args = d[k].args
    BY <1>1, DirectiveKnown DEF Directive, Args
  <2>3. /\ DOMAIN Conf = DOMAIN create_loc_conf /\ DOMAIN c = DOMAIN create_loc_conf
        /\ \A f \in DOMAIN create_loc_conf : c[f] = IF f = field THEN d[k].args[1] ELSE Conf[f]
    BY <2>2 DEF ConfRead
  <2> HIDE DEF c, d
  <2>4. /\ c.skip = Conf.skip /\ c.log = Conf.log /\ c.syslog_peer = Conf.syslog_peer
        /\ c.ban_zone = Conf.ban_zone /\ c.ban = Conf.ban /\ c.source = Conf.source
    BY <2>3, ConfFields
  <2>5. /\ c.skip = UNION {ToSet(d[i].args) : i \in SaidBy(d, k, "shield_skip")}
        /\ SinksRead(d, k, c) /\ PolicyRead(d, k, c)
    <3>1. name \notin {"shield_skip", "shield_log", "shield_ban"}
      OBVIOUS
    <3>2. /\ Conf.skip = UNION {ToSet(d[i].args) : i \in SaidBy(d, k, "shield_skip")}
          /\ SinksRead(d, k, Conf) /\ PolicyRead(d, k, Conf)
      BY <2>2, <3>1, OthersRead
    <3> QED
      BY <2>4, <3>2, SameSinks, SamePolicy
  <2>6. \A i \in 1..(k - 1) : d[i].args[1] # UNSET
    BY <2>2, FirstArgument
  <2>7. ReadOnce(d, k, name, d[k].args[1])
    <3>1. ReadOnce(d, k - 1, name, UNSET)
      BY <2>1, <2>2 DEF ConfRead
    <3> QED
      BY <2>2, <2>6, <3>1, ReadFirst
  <2>8. /\ ReadOnce(d, k, "shield", c.mode) /\ ReadOnce(d, k, "shield_status", c.status)
        /\ ReadOnce(d, k, "shield_body", c.body)
        /\ ReadOnce(d, k, "shield_max_body", c.max_body)
    <3>1. /\ name # "shield" => ReadOnce(d, k, "shield", Conf.mode)
          /\ name # "shield_status" => ReadOnce(d, k, "shield_status", Conf.status)
          /\ name # "shield_body" => ReadOnce(d, k, "shield_body", Conf.body)
          /\ name # "shield_max_body" => ReadOnce(d, k, "shield_max_body", Conf.max_body)
      BY <2>2, OthersRead
    <3> QED
      BY <2>3, <2>7, <3>1, ConfFields
  <2>9. ConfRead(d, k, c)
    BY <2>3, <2>5, <2>8 DEF ConfRead
  <2>10. name # "shield_ban_zone"
    OBVIOUS
  <2>11. ZoneNamed(c, zones) /\ DOMAIN zones = DOMAIN zones'
    BY <2>1, <2>2, <2>4 DEF ZoneNamed
  <2>12. ZonesRead(file[Main], IF at.level = Main THEN at.next ELSE Len(file[Main]), zones')
    BY <1>1, <2>1, <2>10, ZonesStay
  <2> QED
    BY <1>1, <2>1, <2>9, <2>11, <2>12, SetKeeps DEF d
<1> QED
  BY <1>2, <1>3

\* Names add up.
LEMMA SkipKeeps ==
  ASSUME ConfInv, Skip
  PROVE  ConfInv'
<1>1. phase = "parse" /\ at.next <= Len(file[at.level]) /\ UNCHANGED <<files, file, cycle>>
      /\ Directive.name = "shield_skip"
  BY DEF Skip, Reading
<1>2. CASE Refuse
  BY <1>1, <1>2, RefuseKeeps DEF Refuse
<1>3. CASE ~Refuse
  <2> DEFINE c == [Conf EXCEPT !.skip = @ \union ToSet(Args)]
             d == file[at.level]
             k == at.next
  <2>1. Set(c) /\ zones' = zones
    BY <1>3 DEF Skip
  <2>2. /\ k \in Nat \ {0} /\ ConfRead(d, k - 1, Conf) /\ ZoneNamed(Conf, zones)
        /\ d[k].name = "shield_skip" /\ Args = d[k].args
    BY <1>1, DirectiveKnown DEF Directive, Args
  <2>3. /\ DOMAIN c = DOMAIN create_loc_conf
        /\ c.mode = Conf.mode /\ c.status = Conf.status /\ c.body = Conf.body
        /\ c.max_body = Conf.max_body /\ c.log = Conf.log
        /\ c.syslog_peer = Conf.syslog_peer /\ c.ban_zone = Conf.ban_zone
        /\ c.ban = Conf.ban /\ c.source = Conf.source
        /\ c.skip = Conf.skip \union ToSet(d[k].args)
    BY <2>2, ConfFields DEF ConfRead
  <2> HIDE DEF c, d
  <2>4. c.skip = UNION {ToSet(d[i].args) : i \in SaidBy(d, k, "shield_skip")}
    <3>1. SaidBy(d, k, "shield_skip") = SaidBy(d, k - 1, "shield_skip") \union {k}
      BY <2>2, SaidNext
    <3>2. Conf.skip = UNION {ToSet(d[i].args) : i \in SaidBy(d, k - 1, "shield_skip")}
      BY <2>2 DEF ConfRead
    <3> QED
      BY <2>3, <3>1, <3>2
  <2>5. /\ ReadOnce(d, k, "shield", c.mode) /\ ReadOnce(d, k, "shield_status", c.status)
        /\ ReadOnce(d, k, "shield_body", c.body)
        /\ ReadOnce(d, k, "shield_max_body", c.max_body)
        /\ SinksRead(d, k, c) /\ PolicyRead(d, k, c)
    BY <2>2, <2>3, OthersRead, SameSinks, SamePolicy
  <2>6. ConfRead(d, k, c)
    BY <2>3, <2>4, <2>5 DEF ConfRead
  <2>7. ZoneNamed(c, zones) /\ DOMAIN zones = DOMAIN zones'
    BY <2>1, <2>2, <2>3 DEF ZoneNamed
  <2>8. ZonesRead(file[Main], IF at.level = Main THEN at.next ELSE Len(file[Main]), zones')
    BY <1>1, <2>1, ZonesStay
  <2> QED
    BY <1>1, <2>1, <2>6, <2>7, <2>8, SetKeeps DEF d
<1> QED
  BY <1>2, <1>3

\* The two sinks are set by one directive.
LEMMA LogKeeps ==
  ASSUME ConfInv, Log
  PROVE  ConfInv'
<1>1. phase = "parse" /\ at.next <= Len(file[at.level]) /\ UNCHANGED <<files, file, cycle>>
      /\ Directive.name = "shield_log"
  BY DEF Log, Reading
<1>2. CASE Refuse
  BY <1>1, <1>2, RefuseKeeps DEF Refuse
<1>3. CASE ~Refuse
  <2> DEFINE c == [Conf EXCEPT !.log = Sinks(Args[1]).log,
                               !.syslog_peer = Sinks(Args[1]).syslog_peer]
             d == file[at.level]
             k == at.next
  <2>1. /\ Set(c) /\ zones' = zones /\ Conf.log = UNSET
        /\ Args[1].kind \in {"off", "syslog", "file"}
    BY <1>3 DEF Log
  <2>2. /\ k \in Nat \ {0} /\ ConfRead(d, k - 1, Conf) /\ ZoneNamed(Conf, zones)
        /\ d[k].name = "shield_log" /\ Args = d[k].args
        /\ \A i \in 1..(k - 1) : IsDirective(d[i])
    BY <1>1, DirectiveKnown DEF Directive, Args
  <2>3. /\ DOMAIN c = DOMAIN create_loc_conf
        /\ c.mode = Conf.mode /\ c.status = Conf.status /\ c.body = Conf.body
        /\ c.max_body = Conf.max_body /\ c.skip = Conf.skip /\ c.ban_zone = Conf.ban_zone
        /\ c.ban = Conf.ban /\ c.source = Conf.source
        /\ c.log = Sinks(d[k].args[1]).log
        /\ c.syslog_peer = Sinks(d[k].args[1]).syslog_peer
    BY <2>2, ConfFields DEF ConfRead
  <2> HIDE DEF c, d
  <2>4. SinksRead(d, k, c)
    <3>1. SaidBy(d, k - 1, "shield_log") = {}
      <4> SUFFICES ASSUME NEW i \in 1..(k - 1), SaidBy(d, k - 1, "shield_log") = {i},
                          Conf.log = IF d[i].args[1].kind = "file" THEN d[i].args[1] ELSE NULL
                   PROVE  FALSE
        BY <2>2 DEF ConfRead, SinksRead
      <4>1. d[i].args[1] # UNSET
        BY <2>2, FirstArgument
      <4> QED
        BY <2>1, <4>1, SentinelAssumption
    <3>2. SaidBy(d, k, "shield_log") = {k} /\ k \in 1..k
      BY <2>2, <3>1, SaidNext
    <3>3. /\ c.log = IF d[k].args[1].kind = "file" THEN d[k].args[1] ELSE NULL
          /\ c.syslog_peer = IF d[k].args[1].kind = "syslog" THEN d[k].args[1] ELSE NULL
      BY <2>1, <2>2, <2>3 DEF Sinks
    <3> QED
      BY <3>2, <3>3 DEF SinksRead
  <2>5. /\ ReadOnce(d, k, "shield", c.mode) /\ ReadOnce(d, k, "shield_status", c.status)
        /\ ReadOnce(d, k, "shield_body", c.body)
        /\ ReadOnce(d, k, "shield_max_body", c.max_body)
        /\ c.skip = UNION {ToSet(d[i].args) : i \in SaidBy(d, k, "shield_skip")}
        /\ PolicyRead(d, k, c)
    BY <2>2, <2>3, OthersRead, SamePolicy
  <2>6. ConfRead(d, k, c)
    BY <2>3, <2>4, <2>5 DEF ConfRead
  <2>7. ZoneNamed(c, zones) /\ DOMAIN zones = DOMAIN zones'
    BY <2>1, <2>2, <2>3 DEF ZoneNamed
  <2>8. ZonesRead(file[Main], IF at.level = Main THEN at.next ELSE Len(file[Main]), zones')
    BY <1>1, <2>1, ZonesStay
  <2> QED
    BY <1>1, <2>1, <2>6, <2>7, <2>8, SetKeeps DEF d
<1> QED
  BY <1>2, <1>3

\* What is known of a zone, named or not.
LEMMA ZoneKnown ==
  ASSUME NEW d, NEW k, ZonesRead(d, k, zones), NEW name
  PROVE  ZoneRead(d, k, Zone(name), name)
<1>1. CASE name \in DOMAIN zones
  BY <1>1 DEF Zone, ZonesRead
<1>2. CASE name \notin DOMAIN zones
  <2>1. DefinedBy(d, k, name) = {}
    BY <1>2 DEF DefinedBy, ZonesRead
  <2> QED
    BY <1>2, <2>1 DEF Zone, ZoneRead
<1> QED
  BY <1>1, <1>2

\* A zone that is named stays what it was, or is not defined yet.
LEMMA ZoneIsNamed ==
  ASSUME NEW d, NEW k, ZonesRead(d, k, zones), NEW name, AddZone(name, 0, FALSE)
  PROVE  ZonesRead(d, k, zones') /\ DOMAIN zones' = DOMAIN zones \union {name}
<1>1. ZoneRead(d, k, Zone(name), name)
  BY ZoneKnown
<1>2. Zone(name).size \in Nat /\ Zone(name).data \in BOOLEAN
  <2>1. Zone(name).size \in Nat
    BY <1>1 DEF ZoneRead
  <2>2. Zone(name).data \in BOOLEAN
    BY <1>1, Zenon DEF ZoneRead
  <2> QED
    BY <2>1, <2>2
<1>3. Max({0, Zone(name).size}) = Zone(name).size
  <2>1. {0, Zone(name).size} \in SUBSET Int /\ Zone(name).size \in {0, Zone(name).size}
        /\ \A y \in {0, Zone(name).size} : Zone(name).size >= y
    BY <1>2
  <2> QED
    BY <2>1, MaxIs
<1>4. /\ DOMAIN zones' = DOMAIN zones \union {name}
      /\ \A z \in DOMAIN zones \ {name} : zones'[z] = zones[z]
      /\ zones'[name].size = Zone(name).size
      /\ zones'[name].data = Zone(name).data
  BY <1>2, <1>3 DEF AddZone
<1>5. ZoneRead(d, k, zones'[name], name)
  BY <1>1, <1>4 DEF ZoneRead
<1> QED
  BY <1>4, <1>5 DEF ZonesRead

\* The whole policy of a shield_ban, or a refusal.
LEMMA PolicyIsRead ==
  ASSUME IsDirective(Directive), Directive.name = "shield_ban", NEW p, p = Parameters,
         ~p.error, p.zone # NULL, UNSET \notin {p.count, p.window, p.bantime},
         SourceComplete(p),
         NEW c, c.ban_zone = p.zone,
         c.ban = [count |-> p.count, window |-> p.window, time |-> p.bantime],
         c.source = [key |-> p.key, trusted |-> p.trusted]
  PROVE  Whole(c, Args) /\ c.ban_zone \notin {UNSET, NULL}
<1>1. Written(Args) /\ \A i \in DOMAIN Args : Args[i].value \notin {UNSET, NULL}
  BY DEF IsDirective, Args
<1>2. ParametersHold(p, Args, Len(Args))
  BY <1>1, ParametersWhole DEF Parameters
<1>3. \A name : Values1To(Args, Len(Args), name) = Values(Args, name)
  BY <1>1 DEF Values1To, Values, Written
<1>4. /\ p.zone \in Values(Args, "zone") /\ p.count \in Values(Args, "count")
      /\ p.window \in Values(Args, "window") /\ p.bantime \in Values(Args, "bantime")
      /\ p.key \in Values(Args, "key") \union {"peer"}
      /\ p.trusted = Values(Args, "trusted")
  BY <1>2, <1>3 DEF ParametersHold
<1>5. p.zone \notin {UNSET, NULL}
  BY <1>1, <1>4 DEF Values
<1> QED
  BY <1>4, <1>5 DEF Whole, SourceComplete

LEMMA BanKeeps ==
  ASSUME ConfInv, Ban
  PROVE  ConfInv'
<1>1. phase = "parse" /\ at.next <= Len(file[at.level]) /\ UNCHANGED <<files, file, cycle>>
      /\ Directive.name = "shield_ban"
  BY DEF Ban, Reading
<1>2. CASE Refuse
  BY <1>1, <1>2, RefuseKeeps DEF Refuse
<1>3. CASE ~Refuse
  <2>0. PICK p : p = Parameters
    OBVIOUS
  <2> DEFINE c == [Conf EXCEPT
                     !.ban_zone = p.zone,
                     !.ban = [count |-> p.count, window |-> p.window, time |-> p.bantime],
                     !.source = [key |-> p.key, trusted |-> p.trusted]]
             d == file[at.level]
             k == at.next
  <2>1. /\ Set(c) /\ AddZone(p.zone, 0, FALSE) /\ Conf.ban_zone = UNSET
        /\ ~p.error /\ p.zone # NULL /\ UNSET \notin {p.count, p.window, p.bantime}
        /\ SourceComplete(p)
    BY <1>3, <2>0 DEF Ban
  <2>2. /\ k \in Nat \ {0} /\ ConfRead(d, k - 1, Conf) /\ ZoneNamed(Conf, zones)
        /\ d[k].name = "shield_ban" /\ Args = d[k].args /\ IsDirective(Directive)
        /\ \A i \in 1..(k - 1) : IsDirective(d[i])
    BY <1>1, DirectiveKnown DEF Directive, Args
  <2>3. /\ DOMAIN c = DOMAIN create_loc_conf
        /\ c.mode = Conf.mode /\ c.status = Conf.status /\ c.body = Conf.body
        /\ c.max_body = Conf.max_body /\ c.skip = Conf.skip /\ c.log = Conf.log
        /\ c.syslog_peer = Conf.syslog_peer /\ c.ban_zone = p.zone
        /\ c.ban = [count |-> p.count, window |-> p.window, time |-> p.bantime]
        /\ c.source = [key |-> p.key, trusted |-> p.trusted]
    BY <2>2, ConfFields DEF ConfRead
  <2> HIDE DEF c, d
  <2>4. Whole(c, d[k].args) /\ c.ban_zone \notin {UNSET, NULL}
    BY <1>1, <2>0, <2>1, <2>2, <2>3, PolicyIsRead
  <2>5. PolicyRead(d, k, c)
    <3>1. SaidBy(d, k - 1, "shield_ban") = {}
      <4> SUFFICES ASSUME NEW i \in 1..(k - 1), SaidBy(d, k - 1, "shield_ban") = {i},
                          Whole(Conf, d[i].args)
                   PROVE  FALSE
        BY <2>2 DEF ConfRead, PolicyRead
      <4>1. d[i].name = "shield_ban" /\ IsDirective(d[i])
        BY <2>2 DEF SaidBy
      <4>2. UNSET \notin Values(d[i].args, "zone")
        BY <4>1 DEF IsDirective, Values
      <4> QED
        BY <2>1, <4>2 DEF Whole
    <3>2. SaidBy(d, k, "shield_ban") = {k} /\ k \in 1..k
      BY <2>2, <3>1, SaidNext
    <3> QED
      BY <2>4, <3>2 DEF PolicyRead
  <2>6. /\ ReadOnce(d, k, "shield", c.mode) /\ ReadOnce(d, k, "shield_status", c.status)
        /\ ReadOnce(d, k, "shield_body", c.body)
        /\ ReadOnce(d, k, "shield_max_body", c.max_body)
        /\ c.skip = UNION {ToSet(d[i].args) : i \in SaidBy(d, k, "shield_skip")}
        /\ SinksRead(d, k, c)
    BY <2>2, <2>3, OthersRead, SameSinks
  <2>7. ConfRead(d, k, c)
    BY <2>3, <2>5, <2>6 DEF ConfRead
  <2>8. ZonesRead(file[Main], IF at.level = Main THEN at.next ELSE Len(file[Main]), zones)
    BY <1>1, ZonesStay
  <2>9. /\ ZonesRead(file[Main], IF at.level = Main THEN at.next ELSE Len(file[Main]), zones')
        /\ DOMAIN zones' = DOMAIN zones \union {p.zone}
    BY <2>1, <2>8, ZoneIsNamed
  <2>10. ZoneNamed(c, zones')
    BY <2>3, <2>9 DEF ZoneNamed
  <2> QED
    BY <1>1, <2>1, <2>7, <2>9, <2>10, SetKeeps DEF d
<1> QED
  BY <1>2, <1>3

LEMMA BanStatusKeeps ==
  ASSUME ConfInv, BanStatus
  PROVE  ConfInv'
<1>1. phase = "parse" /\ at.next <= Len(file[at.level]) /\ UNCHANGED <<files, file, cycle>>
      /\ Directive.name = "shield_ban_status"
  BY DEF BanStatus, Reading
<1>2. CASE Refuse
  BY <1>1, <1>2, RefuseKeeps DEF Refuse
<1>3. CASE ~Refuse
  <2> DEFINE c == [Conf EXCEPT !.status_zone = Args[1]]
             d == file[at.level]
             k == at.next
  <2>1. Set(c) /\ AddZone(Args[1], 0, FALSE)
    BY <1>3 DEF BanStatus
  <2>2. /\ k \in Nat \ {0} /\ ConfRead(d, k - 1, Conf) /\ ZoneNamed(Conf, zones)
        /\ d[k].name = "shield_ban_status"
    BY <1>1, DirectiveKnown DEF Directive
  <2>3. /\ DOMAIN c = DOMAIN create_loc_conf
        /\ c.mode = Conf.mode /\ c.status = Conf.status /\ c.body = Conf.body
        /\ c.max_body = Conf.max_body /\ c.skip = Conf.skip /\ c.log = Conf.log
        /\ c.syslog_peer = Conf.syslog_peer /\ c.ban_zone = Conf.ban_zone
        /\ c.ban = Conf.ban /\ c.source = Conf.source
    BY <2>2, ConfFields DEF ConfRead
  <2> HIDE DEF c, d
  <2>4. /\ ReadOnce(d, k, "shield", c.mode) /\ ReadOnce(d, k, "shield_status", c.status)
        /\ ReadOnce(d, k, "shield_body", c.body)
        /\ ReadOnce(d, k, "shield_max_body", c.max_body)
        /\ c.skip = UNION {ToSet(d[i].args) : i \in SaidBy(d, k, "shield_skip")}
        /\ SinksRead(d, k, c) /\ PolicyRead(d, k, c)
    BY <2>2, <2>3, OthersRead, SameSinks, SamePolicy
  <2>5. ZonesRead(file[Main], IF at.level = Main THEN at.next ELSE Len(file[Main]), zones)
    BY <1>1, ZonesStay
  <2>6. /\ ZonesRead(file[Main], IF at.level = Main THEN at.next ELSE Len(file[Main]), zones')
        /\ DOMAIN zones' = DOMAIN zones \union {Args[1]}
    BY <2>1, <2>5, ZoneIsNamed
  <2>7. ZoneNamed(c, zones')
    BY <2>2, <2>3, <2>6 DEF ZoneNamed
  <2> QED
    BY <1>1, <2>1, <2>3, <2>4, <2>6, <2>7, SetKeeps DEF d, ConfRead
<1> QED
  BY <1>2, <1>3

\* A zone is defined once, at the main level.
LEMMA BanZoneKeeps ==
  ASSUME ConfInv, BanZone
  PROVE  ConfInv'
<1>1. phase = "parse" /\ at.next <= Len(file[at.level]) /\ UNCHANGED <<files, file, cycle>>
      /\ Directive.name = "shield_ban_zone"
  BY DEF BanZone, Reading
<1>2. CASE Refuse
  BY <1>1, <1>2, RefuseKeeps DEF Refuse
<1>3. CASE ~Refuse
  <2> DEFINE d == file[at.level]
             k == at.next
  <2>0. PICK name, size : name = Args[1] /\ size = Args[2]
    OBVIOUS
  <2>1. /\ at.level = Main /\ size # BAD /\ ~(size < MinSize)
        /\ ~Zone(name).data /\ AddZone(name, size, TRUE) /\ Set(Conf)
    BY <1>3, <2>0 DEF BanZone
  <2>2. /\ k \in Nat \ {0} /\ ConfRead(d, k - 1, Conf) /\ ZoneNamed(Conf, zones)
        /\ d[k].name = "shield_ban_zone" /\ d[k].args = Args
        /\ IsDirective(d[k]) /\ at.level \in Levels
    BY <1>1, DirectiveKnown DEF Directive, Args
  <2>3. size \in Nat
    BY <2>0, <2>1, <2>2 DEF IsDirective
  <2>4. ZonesRead(d, k - 1, zones)
    <3>1. ReadTo(file, at, Main) = k - 1
      BY <2>1, <2>2, LevelsAre DEF ReadTo
    <3> QED
      BY <1>1, <2>1, <3>1 DEF ConfInv, Parsed
  <2> HIDE DEF d
  <2>5. ConfRead(d, k, Conf)
    BY <2>2, OthersRead DEF ConfRead
  <2>6. Zone(name).size = 0 /\ DefinedBy(d, k - 1, name) = {}
    BY <2>1, <2>4, ZoneKnown DEF ZoneRead
  <2>7. Max({size, Zone(name).size}) = size
    <3>1. {size, 0} \in SUBSET Int /\ size \in {size, 0} /\ \A y \in {size, 0} : size >= y
      BY <2>3
    <3> QED
      BY <2>6, <3>1, MaxIs
  <2>8. /\ DOMAIN zones' = DOMAIN zones \union {name}
        /\ \A z \in DOMAIN zones \ {name} : zones'[z] = zones[z]
        /\ zones'[name].size = size /\ zones'[name].data = TRUE
    BY <2>1, <2>7 DEF AddZone
  <2>9. SaidBy(d, k, "shield_ban_zone") = SaidBy(d, k - 1, "shield_ban_zone") \union {k}
    BY <2>2, SaidNext
  <2>10. /\ DefinedBy(d, k, name) = {k}
         /\ \A z : z # name => DefinedBy(d, k, z) = DefinedBy(d, k - 1, z)
    BY <2>0, <2>2, <2>6, <2>9 DEF DefinedBy
  <2>11. ZonesRead(d, k, zones')
    <3>1. ZoneRead(d, k, zones'[name], name)
      BY <2>0, <2>2, <2>3, <2>8, <2>10 DEF ZoneRead
    <3>2. ASSUME NEW z \in DOMAIN zones \ {name}
          PROVE  ZoneRead(d, k, zones'[z], z)
      <4>1. ZoneRead(d, k - 1, zones[z], z) /\ 1..(k - 1) \subseteq 1..k
        BY <2>2, <2>4 DEF ZonesRead
      <4> QED
        BY <2>8, <2>10, <4>1 DEF ZoneRead
    <3>3. \A i \in SaidBy(d, k, "shield_ban_zone") : d[i].args[1] \in DOMAIN zones'
      BY <2>0, <2>2, <2>4, <2>8, <2>9 DEF ZonesRead
    <3> QED
      BY <2>8, <3>1, <3>2, <3>3 DEF ZonesRead
  <2>12. ZoneNamed(Conf, zones')
    BY <2>2, <2>8 DEF ZoneNamed
  <2> QED
    BY <1>1, <2>1, <2>5, <2>8, <2>11, <2>12, SetKeeps DEF d
<1> QED
  BY <1>2, <1>3

\* The end of a level: the next one starts unread, or all are read.
LEMMA NextLevelKeeps ==
  ASSUME ConfInv, NextLevel
  PROVE  ConfInv'
<1>1. /\ phase = "parse" /\ at.next > Len(file[at.level])
      /\ UNCHANGED <<files, file, conf, zones, cycle>>
  BY DEF NextLevel
<1>2. /\ at.level \in Levels /\ at.next \in 1..(Len(file[at.level]) + 1)
      /\ DOMAIN conf = Levels
      /\ \A l \in Levels : ConfRead(file[l], ReadTo(file, at, l), conf[l])
                             /\ ZoneNamed(conf[l], zones)
      /\ ZonesRead(file[Main], ReadTo(file, at, Main), zones)
  BY <1>1 DEF ConfInv, Parsed
<1>3. \A l \in Levels : Len(file[l]) \in Nat
  BY DEF ConfInv, FilesKnown, IsFile, Written
<1>4. at.next = Len(file[at.level]) + 1 /\ Main \in Levels
  BY <1>1, <1>2, <1>3, LevelsAre
<1>5. FilesKnown'
  BY <1>1 DEF ConfInv, FilesKnown, IsFile
<1>6. CASE at.level < Location
  <2>1. at' = [level |-> at.level + 1, next |-> 1] /\ phase' = "parse"
    BY <1>1, <1>6 DEF NextLevel
  <2>2. at'.level \in Levels /\ at'.next = 1 /\ Len(file[at'.level]) \in Nat
        /\ DOMAIN at' = {"level", "next"}
    BY <1>2, <1>3, <1>6, <2>1, LevelsAre
  <2>3. \A l \in Levels : ReadTo(file', at', l) = ReadTo(file, at, l)
    BY <1>1, <1>2, <1>3, <1>4, <2>1, LevelsAre DEF ReadTo
  <2> QED
    BY <1>1, <1>2, <1>4, <1>5, <2>1, <2>2, <2>3
    DEF ConfInv, Parsed, Merging, Complete, EffectiveIsNearest, PolicyIsWhole
<1>7. CASE ~(at.level < Location)
  <2>1. at' = [level |-> Server, next |-> 1] /\ phase' = "merge" /\ at.level = Location
    BY <1>1, <1>2, <1>7, LevelsAre DEF NextLevel
  <2>2. \A l \in Levels : ReadTo(file, at, l) = Len(file[l])
    BY <1>2, <1>3, <1>4, <2>1, LevelsAre DEF ReadTo
  <2>3. \A l \in Levels : ConfRead(file'[l], Len(file'[l]), conf'[l])
                            /\ ZoneNamed(conf'[l], zones')
    BY <1>1, <1>2, <2>2
  <2>4. ZonesRead(file'[Main], Len(file'[Main]), zones')
    BY <1>1, <1>2, <1>4, <2>2
  <2>5. at'.level = Server /\ DOMAIN at' = {"level", "next"} /\ DOMAIN conf' = Levels
    BY <1>1, <1>2, <2>1
  <2>6. Main \in Levels /\ Server \in Levels /\ Location \in Levels
    BY LevelsAre
  <2>7. Merging'
    BY <2>3, <2>4, <2>5, <2>6 DEF Merging, AllRead
  <2> QED
    BY <1>5, <2>1, <2>7
    DEF ConfInv, Parsed, Complete, EffectiveIsNearest, PolicyIsWhole
<1> QED
  BY <1>6, <1>7

------------------------------------------------------------------------------
(* Merging. *)

\* What a level passes on to the one in it: what is in force there, or nothing
\* where that is the default anyway.
Handed(f, l, name, value, defaults) ==
  IF Nearest(f, l, name) = 0 THEN value \in {UNSET} \union defaults
  ELSE value = Given(f, l, name)[1] /\ value # UNSET

SkipHanded(f, l, skip) ==
  skip = IF Nearest(f, l, "shield_skip") = 0 THEN {}
         ELSE SkippedBy(f, Nearest(f, l, "shield_skip"))

\* Two sinks of which a shield_log has set one, or none.
SinksOf(sink, c) ==
  /\ c.log = IF sink.kind = "file" THEN sink ELSE NULL
  /\ c.syslog_peer = IF sink.kind = "syslog" THEN sink ELSE NULL

SinksHanded(f, l, p) ==
  IF Nearest(f, l, "shield_log") = 0
  THEN p.log \in {UNSET, NULL} /\ p.syslog_peer \in {UNSET, NULL}
  ELSE SinksOf(Given(f, l, "shield_log")[1], p) /\ UNSET \notin {p.log, p.syslog_peer}

PolicyHanded(f, l, p) ==
  IF Nearest(f, l, "shield_ban") = 0
  THEN p.ban_zone \in {UNSET, NULL} /\ p.source = PEER
  ELSE Whole(p, Given(f, l, "shield_ban")) /\ p.ban_zone \notin {UNSET, NULL}

Passes(f, l, p) ==
  /\ Handed(f, l, "shield", p.mode, {"off"})
  /\ Handed(f, l, "shield_status", p.status, {403})
  /\ Handed(f, l, "shield_body", p.body, {TRUE})
  /\ Handed(f, l, "shield_max_body", p.max_body, {8192})
  /\ SkipHanded(f, l, p.skip) /\ SinksHanded(f, l, p) /\ PolicyHanded(f, l, p)

\* What a level of a file gives is a directive's argument.
LEMMA GivenKnown ==
  ASSUME NEW f, IsFile(f), NEW l \in Levels, NEW name, Nearest(f, l, name) # 0
  PROVE  /\ Given(f, l, name)[1] \notin {UNSET, NULL}
         /\ name = "shield_ban" => UNSET \notin Values(Given(f, l, name), "zone")
                                   /\ NULL \notin Values(Given(f, l, name), "zone")
<1> DEFINE m == Nearest(f, l, name)
<1>1. m \in Levels /\ Said(f, m, name) # {}
  BY NearestIs
<1> HIDE DEF m
<1>2. /\ DOMAIN f[m] = 1..Len(f[m]) /\ Len(f[m]) \in Nat
      /\ \A i \in DOMAIN f[m] : IsDirective(f[m][i])
  BY <1>1 DEF IsFile, Written
<1>3. PICK i \in 1..Len(f[m]) : i = Min(Said(f, m, name)) /\ f[m][i].name = name
  <2>1. Said(f, m, name) \in SUBSET Nat
    BY <1>2 DEF Said
  <2>2. PICK i \in Said(f, m, name) : \A k \in Nat : k < i => k \notin Said(f, m, name)
    BY <1>1, <2>1, LeastBad
  <2>3. \A y \in Said(f, m, name) : i <= y
    BY <2>1, <2>2
  <2>4. Min(Said(f, m, name)) \in Said(f, m, name)
    BY <2>3 DEF Min
  <2> QED
    BY <1>2, <2>4 DEF Said
<1>4. Given(f, l, name) = f[m][i].args
  BY <1>3 DEF Given, First, m
<1>5. IsDirective(f[m][i])
  BY <1>2
<1>6. /\ f[m][i].args[1] \notin {UNSET, NULL}
      /\ name = "shield_ban" =>
           \A j \in DOMAIN f[m][i].args : f[m][i].args[j].value \notin {UNSET, NULL}
  BY <1>3, <1>5, FirstArgument DEF IsDirective
<1> QED
  BY <1>4, <1>6 DEF Values

\* What a level has said of a thing that is said once.
LEMMA ReadIsGiven ==
  ASSUME NEW f, IsFile(f), NEW l \in Levels, NEW name, NEW value,
         ReadOnce(f[l], Len(f[l]), name, value)
  PROVE  \/ Said(f, l, name) = {} /\ value = UNSET
         \/ /\ Said(f, l, name) # {} /\ Nearest(f, l, name) = l
            /\ value = Given(f, l, name)[1] /\ value # UNSET
<1>1. CASE SaidBy(f[l], Len(f[l]), name) = {} /\ value = UNSET
  BY <1>1, AllSaid
<1>2. CASE \E i \in 1..Len(f[l]) :
             SaidBy(f[l], Len(f[l]), name) = {i} /\ value = f[l][i].args[1]
  <2>1. PICK i \in 1..Len(f[l]) :
          SaidBy(f[l], Len(f[l]), name) = {i} /\ value = f[l][i].args[1]
    BY <1>2
  <2>2. /\ Said(f, l, name) # {} /\ Nearest(f, l, name) = l
        /\ Given(f, l, name) = f[l][i].args
    <3>1. SaidBy(f[l], Len(f[l]), name) = {i}
      BY <2>1
    <3>2. Said(f, l, name) # {}
      BY <3>1, SaidOnce
    <3>3. Nearest(f, l, name) = l
      BY <3>1, SaidOnce
    <3>4. First(f, l, name) = f[l][i].args
      BY <3>1, SaidOnce
    <3> QED
      BY <3>2, <3>3, <3>4 DEF Given
  <2>3. IsDirective(f[l][i])
    BY DEF IsFile, Written
  <2> QED
    BY <2>1, <2>2, <2>3, FirstArgument
<1> QED
  BY <1>1, <1>2 DEF ReadOnce

LEMMA SinksAreGiven ==
  ASSUME NEW f, IsFile(f), NEW l \in Levels, NEW c, SinksRead(f[l], Len(f[l]), c)
  PROVE  \/ Said(f, l, "shield_log") = {} /\ c.log = UNSET /\ c.syslog_peer = UNSET
         \/ /\ Said(f, l, "shield_log") # {} /\ Nearest(f, l, "shield_log") = l
            /\ SinksOf(Given(f, l, "shield_log")[1], c)
            /\ UNSET \notin {c.log, c.syslog_peer}
<1>1. CASE SaidBy(f[l], Len(f[l]), "shield_log") = {} /\ c.log = UNSET
             /\ c.syslog_peer = UNSET
  BY <1>1, AllSaid
<1>2. ASSUME NEW i \in 1..Len(f[l]), SaidBy(f[l], Len(f[l]), "shield_log") = {i},
             c.log = IF f[l][i].args[1].kind = "file" THEN f[l][i].args[1] ELSE NULL,
             c.syslog_peer = IF f[l][i].args[1].kind = "syslog" THEN f[l][i].args[1] ELSE NULL
      PROVE  /\ Said(f, l, "shield_log") # {} /\ Nearest(f, l, "shield_log") = l
             /\ SinksOf(Given(f, l, "shield_log")[1], c)
             /\ UNSET \notin {c.log, c.syslog_peer}
  <2>1. /\ Said(f, l, "shield_log") # {} /\ Nearest(f, l, "shield_log") = l
        /\ Given(f, l, "shield_log") = f[l][i].args
    <3>1. SaidBy(f[l], Len(f[l]), "shield_log") = {i}
      BY <1>2
    <3>2. Said(f, l, "shield_log") # {}
      BY <3>1, SaidOnce
    <3>3. Nearest(f, l, "shield_log") = l
      BY <3>1, SaidOnce
    <3>4. First(f, l, "shield_log") = f[l][i].args
      BY <3>1, SaidOnce
    <3> QED
      BY <3>2, <3>3, <3>4 DEF Given
  <2>2. IsDirective(f[l][i])
    BY DEF IsFile, Written
  <2>3. f[l][i].args[1] # UNSET
    BY <2>2, FirstArgument
  <2> QED
    BY <1>2, <2>1, <2>3, SentinelAssumption DEF SinksOf
<1> QED
  BY <1>1, <1>2 DEF SinksRead

LEMMA PolicyIsGiven ==
  ASSUME NEW f, IsFile(f), NEW l \in Levels, NEW c, PolicyRead(f[l], Len(f[l]), c)
  PROVE  \/ Said(f, l, "shield_ban") = {} /\ c.ban_zone = UNSET /\ c.source = PEER
         \/ /\ Said(f, l, "shield_ban") # {} /\ Nearest(f, l, "shield_ban") = l
            /\ Whole(c, Given(f, l, "shield_ban")) /\ c.ban_zone \notin {UNSET, NULL}
<1>1. CASE SaidBy(f[l], Len(f[l]), "shield_ban") = {} /\ c.ban_zone = UNSET
             /\ c.source = PEER
  BY <1>1, AllSaid
<1>2. ASSUME NEW i \in 1..Len(f[l]), SaidBy(f[l], Len(f[l]), "shield_ban") = {i},
             Whole(c, f[l][i].args)
      PROVE  /\ Said(f, l, "shield_ban") # {} /\ Nearest(f, l, "shield_ban") = l
             /\ Whole(c, Given(f, l, "shield_ban")) /\ c.ban_zone \notin {UNSET, NULL}
  <2>1. /\ Said(f, l, "shield_ban") # {} /\ Nearest(f, l, "shield_ban") = l
        /\ Given(f, l, "shield_ban") = f[l][i].args
    <3>1. SaidBy(f[l], Len(f[l]), "shield_ban") = {i}
      BY <1>2
    <3>2. Said(f, l, "shield_ban") # {}
      BY <3>1, SaidOnce
    <3>3. Nearest(f, l, "shield_ban") = l
      BY <3>1, SaidOnce
    <3>4. First(f, l, "shield_ban") = f[l][i].args
      BY <3>1, SaidOnce
    <3> QED
      BY <3>2, <3>3, <3>4 DEF Given
  <2>2. l \in 1..l /\ Nearest(f, l, "shield_ban") # 0
    BY <2>1, LevelsAre
  <2>3. UNSET \notin Values(f[l][i].args, "zone") /\ NULL \notin Values(f[l][i].args, "zone")
    BY <2>1, <2>2, GivenKnown
  <2> QED
    BY <1>2, <2>1, <2>3 DEF Whole
<1> QED
  BY <1>1, <1>2 DEF PolicyRead

LEMMA SkipIsGiven ==
  ASSUME NEW f, IsFile(f), NEW l \in Levels, NEW c, ConfRead(f[l], Len(f[l]), c)
  PROVE  \/ Said(f, l, "shield_skip") = {} /\ c.skip = {}
         \/ /\ Said(f, l, "shield_skip") # {} /\ Nearest(f, l, "shield_skip") = l
            /\ c.skip = SkippedBy(f, l) /\ c.skip # {}
<1>1. c.skip = SkippedBy(f, l)
  BY AllSaid DEF ConfRead, SkippedBy
<1>2. CASE Said(f, l, "shield_skip") = {}
  BY <1>1, <1>2 DEF SkippedBy
<1>3. CASE Said(f, l, "shield_skip") # {}
  <2>1. Nearest(f, l, "shield_skip") = l
    BY <1>3, NearestIs, Zenon
  <2>2. PICK i \in Said(f, l, "shield_skip") : TRUE
    BY <1>3
  <2>3. IsDirective(f[l][i])
    BY DEF IsFile, Said
  <2>4. f[l][i].args[1] \in ToSet(f[l][i].args)
    BY <2>3 DEF IsDirective, Written, ToSet
  <2>5. f[l][i].args[1] \in SkippedBy(f, l)
    BY <2>2, <2>4 DEF SkippedBy
  <2> QED
    BY <1>1, <1>3, <2>1, <2>5
<1> QED
  BY <1>2, <1>3

\* The outermost level passes on what it says.
LEMMA MainPasses ==
  ASSUME NEW f, IsFile(f), NEW p, ConfRead(f[Main], Len(f[Main]), p)
  PROVE  Passes(f, Main, p)
<1>1. Main \in Levels /\ Main # 0
  BY LevelsAre
<1>2. ASSUME NEW name, Said(f, Main, name) = {}
      PROVE  Nearest(f, Main, name) = 0
  BY <1>1, <1>2, NearestIs
<1>3. ASSUME NEW name, NEW value, NEW defaults, ReadOnce(f[Main], Len(f[Main]), name, value)
      PROVE  Handed(f, Main, name, value, defaults)
  <2>1. \/ Said(f, Main, name) = {} /\ value = UNSET
        \/ /\ Said(f, Main, name) # {} /\ Nearest(f, Main, name) = Main
           /\ value = Given(f, Main, name)[1] /\ value # UNSET
    BY <1>1, <1>3, ReadIsGiven
  <2> QED
    BY <1>1, <1>2, <2>1 DEF Handed
<1>4. SkipHanded(f, Main, p.skip)
  BY <1>1, <1>2, SkipIsGiven DEF SkipHanded
<1>5. SinksHanded(f, Main, p)
  <2>1. SinksRead(f[Main], Len(f[Main]), p)
    BY DEF ConfRead
  <2>2. \/ Said(f, Main, "shield_log") = {} /\ p.log = UNSET /\ p.syslog_peer = UNSET
        \/ /\ Said(f, Main, "shield_log") # {} /\ Nearest(f, Main, "shield_log") = Main
           /\ SinksOf(Given(f, Main, "shield_log")[1], p)
           /\ UNSET \notin {p.log, p.syslog_peer}
    BY <1>1, <2>1, SinksAreGiven
  <2> QED
    BY <1>1, <1>2, <2>2 DEF SinksHanded
<1>6. PolicyHanded(f, Main, p)
  <2>1. PolicyRead(f[Main], Len(f[Main]), p)
    BY DEF ConfRead
  <2>2. \/ Said(f, Main, "shield_ban") = {} /\ p.ban_zone = UNSET /\ p.source = PEER
        \/ /\ Said(f, Main, "shield_ban") # {} /\ Nearest(f, Main, "shield_ban") = Main
           /\ Whole(p, Given(f, Main, "shield_ban")) /\ p.ban_zone \notin {UNSET, NULL}
    BY <1>1, <2>1, PolicyIsGiven
  <2> QED
    BY <1>1, <1>2, <2>2 DEF PolicyHanded
<1>7. /\ ReadOnce(f[Main], Len(f[Main]), "shield", p.mode)
      /\ ReadOnce(f[Main], Len(f[Main]), "shield_status", p.status)
      /\ ReadOnce(f[Main], Len(f[Main]), "shield_body", p.body)
      /\ ReadOnce(f[Main], Len(f[Main]), "shield_max_body", p.max_body)
  BY DEF ConfRead
<1>8. /\ Handed(f, Main, "shield", p.mode, {"off"})
      /\ Handed(f, Main, "shield_status", p.status, {403})
      /\ Handed(f, Main, "shield_body", p.body, {TRUE})
      /\ Handed(f, Main, "shield_max_body", p.max_body, {8192})
  BY <1>3, <1>7
<1> QED
  BY <1>4, <1>5, <1>6, <1>8 DEF Passes

\* A level that is merged passes on what is in force in it.
LEMMA SettledPasses ==
  ASSUME NEW f, IsFile(f), NEW l \in Levels, NEW p, Settled(f, l, p)
  PROVE  Passes(f, l, p)
<1>1. ASSUME NEW name, NEW default
      PROVE  Handed(f, l, name, InForce(f, l, name, default), {default})
  <2>1. Nearest(f, l, name) # 0 => Given(f, l, name)[1] # UNSET
    BY GivenKnown
  <2> QED
    BY <2>1 DEF Handed, InForce
<1>2. SkipHanded(f, l, p.skip)
  BY DEF Settled, Effective, SkipHanded
<1>3. SinksHanded(f, l, p)
  <2>1. SinksOf(InForce(f, l, "shield_log", [kind |-> "off"]), p)
    BY DEF Settled, Effective, SinksOf
  <2>2. Nearest(f, l, "shield_log") # 0 => Given(f, l, "shield_log")[1] # UNSET
    BY GivenKnown
  <2>3. CASE Nearest(f, l, "shield_log") = 0
    <3>1. p.log = NULL /\ p.syslog_peer = NULL
      BY <2>1, <2>3 DEF InForce, SinksOf
    <3> QED
      BY <2>3, <3>1 DEF SinksHanded
  <2>4. CASE Nearest(f, l, "shield_log") # 0
    <3>1. SinksOf(Given(f, l, "shield_log")[1], p)
      BY <2>1, <2>4 DEF InForce
    <3>2. p.log # UNSET /\ p.syslog_peer # UNSET
      BY <2>2, <2>4, <3>1, SentinelAssumption DEF SinksOf
    <3> QED
      BY <2>4, <3>1, <3>2 DEF SinksHanded
  <2> QED
    BY <2>3, <2>4
<1>4. PolicyHanded(f, l, p)
  <2>1. CASE Nearest(f, l, "shield_ban") = 0
    BY <2>1 DEF Settled, Policed, PolicyHanded
  <2>2. CASE Nearest(f, l, "shield_ban") # 0
    <3>1. Whole(p, Given(f, l, "shield_ban"))
      BY <2>2 DEF Settled, Policed
    <3>2. /\ UNSET \notin Values(Given(f, l, "shield_ban"), "zone")
          /\ NULL \notin Values(Given(f, l, "shield_ban"), "zone")
      BY <2>2, GivenKnown
    <3>3. p.ban_zone \notin {UNSET, NULL}
      BY <3>1, <3>2 DEF Whole
    <3> QED
      BY <2>2, <3>1, <3>3 DEF PolicyHanded
  <2> QED
    BY <2>1, <2>2
<1>5. Handed(f, l, "shield", p.mode, {"off"})
  <2>1. p.mode = InForce(f, l, "shield", "off")
    BY DEF Settled, Effective
  <2> QED
    BY <1>1, <2>1
<1>6. Handed(f, l, "shield_status", p.status, {403})
  <2>1. p.status = InForce(f, l, "shield_status", 403)
    BY DEF Settled, Effective
  <2> QED
    BY <1>1, <2>1
<1>7. Handed(f, l, "shield_body", p.body, {TRUE})
  <2>1. p.body = InForce(f, l, "shield_body", TRUE)
    BY DEF Settled, Effective
  <2> QED
    BY <1>1, <2>1
<1>8. Handed(f, l, "shield_max_body", p.max_body, {8192})
  <2>1. p.max_body = InForce(f, l, "shield_max_body", 8192)
    BY DEF Settled, Effective
  <2> QED
    BY <1>1, <2>1
<1> QED
  BY <1>2, <1>3, <1>4, <1>5, <1>6, <1>7, <1>8 DEF Passes

\* Field by field, what merging a level with the one around it makes.
MergedFrom(r, c, p) ==
  /\ r.mode = Merged(c.mode, p.mode, "off")
  /\ r.status = Merged(c.status, p.status, 403)
  /\ r.body = IF c.body # UNSET THEN c.body ELSE IF p.body # UNSET THEN p.body ELSE TRUE
  /\ r.max_body = Merged(c.max_body, p.max_body, 8192)
  /\ r.skip = IF c.skip = {} THEN p.skip ELSE c.skip
  /\ r.log = IF c.log # UNSET THEN c.log ELSE Else(p.log, NULL)
  /\ r.syslog_peer = IF c.log # UNSET THEN c.syslog_peer ELSE Else(p.syslog_peer, NULL)
  /\ c.ban_zone # UNSET => r.ban_zone = c.ban_zone /\ r.ban = c.ban /\ r.source = c.source
  /\ c.ban_zone = UNSET /\ p.ban_zone # UNSET =>
       r.ban_zone = p.ban_zone /\ r.ban = p.ban /\ r.source = p.source
  /\ c.ban_zone = UNSET /\ p.ban_zone = UNSET => r.ban_zone = NULL /\ r.source = PEER

LEMMA MergeFields ==
  ASSUME NEW c, NEW p, DOMAIN c = DOMAIN create_loc_conf
  PROVE  MergedFrom(merge_loc_conf(c, p), c, p)
<1> DEFINE scalars == [c EXCEPT !.mode = Merged(c.mode, p.mode, "off"),
                                !.body = Merged(c.body, p.body, TRUE),
                                !.max_body = Merged(c.max_body, p.max_body, 8192),
                                !.status = Merged(c.status, p.status, 403),
                                !.skip = IF c.skip = {} THEN p.skip ELSE c.skip]
           sinks == MergedSinks(scalars, p)
           r == merge_loc_conf(c, p)
           Known == DOMAIN create_loc_conf
<1>1. /\ DOMAIN scalars = Known
      /\ scalars.mode = Merged(c.mode, p.mode, "off")
      /\ scalars.body = IF c.body # UNSET THEN c.body ELSE IF p.body # UNSET THEN p.body ELSE TRUE
      /\ scalars.max_body = Merged(c.max_body, p.max_body, 8192)
      /\ scalars.status = Merged(c.status, p.status, 403)
      /\ scalars.skip = IF c.skip = {} THEN p.skip ELSE c.skip
      /\ scalars.log = c.log /\ scalars.syslog_peer = c.syslog_peer
      /\ scalars.ban_zone = c.ban_zone /\ scalars.ban = c.ban /\ scalars.source = c.source
  BY ConfFields DEF Merged
<1>2. r = Policy(sinks, p)
  BY DEF merge_loc_conf
<1> HIDE DEF scalars, r, Known
<1>0. Known = {"mode", "body", "max_body", "status", "skip", "log", "syslog_peer", "ban_zone",
               "ban", "source", "status_zone"}
  BY ConfFields DEF Known
<1>3. /\ DOMAIN sinks = Known
      /\ sinks.log = IF c.log # UNSET THEN c.log ELSE Else(p.log, NULL)
      /\ sinks.syslog_peer = IF c.log # UNSET THEN c.syslog_peer ELSE Else(p.syslog_peer, NULL)
      /\ \A x \in Known \ {"log", "syslog_peer"} : sinks[x] = scalars[x]
  <2>1. DOMAIN scalars = Known /\ scalars.log = c.log /\ scalars.syslog_peer = c.syslog_peer
    BY <1>1
  <2> QED
    BY <1>0, <2>1 DEF MergedSinks
<1> HIDE DEF sinks
<1>4. /\ \A x \in Known \ {"ban_zone", "ban", "source"} : r[x] = sinks[x]
      /\ sinks.ban_zone # UNSET => r = sinks
      /\ sinks.ban_zone = UNSET /\ p.ban_zone # UNSET =>
           r.ban_zone = p.ban_zone /\ r.ban = p.ban /\ r.source = p.source
      /\ sinks.ban_zone = UNSET /\ p.ban_zone = UNSET => r.ban_zone = NULL /\ r.source = PEER
  BY <1>0, <1>2, <1>3 DEF Policy
<1>5. /\ r.mode = sinks.mode /\ r.status = sinks.status /\ r.body = sinks.body
      /\ r.max_body = sinks.max_body /\ r.skip = sinks.skip
      /\ r.log = sinks.log /\ r.syslog_peer = sinks.syslog_peer
  BY <1>0, <1>4
<1>6. /\ sinks.mode = scalars.mode /\ sinks.status = scalars.status
      /\ sinks.body = scalars.body /\ sinks.max_body = scalars.max_body
      /\ sinks.skip = scalars.skip /\ sinks.ban_zone = scalars.ban_zone
      /\ sinks.ban = scalars.ban /\ sinks.source = scalars.source
  BY <1>0, <1>3
<1>7. /\ c.ban_zone # UNSET =>
           r.ban_zone = c.ban_zone /\ r.ban = c.ban /\ r.source = c.source
      /\ c.ban_zone = UNSET /\ p.ban_zone # UNSET =>
           r.ban_zone = p.ban_zone /\ r.ban = p.ban /\ r.source = p.source
      /\ c.ban_zone = UNSET /\ p.ban_zone = UNSET =>
           r.ban_zone = NULL /\ r.source = PEER
  BY <1>1, <1>4, <1>6
<1>8. /\ r.mode = Merged(c.mode, p.mode, "off")
      /\ r.status = Merged(c.status, p.status, 403)
      /\ r.body = IF c.body # UNSET THEN c.body ELSE IF p.body # UNSET THEN p.body ELSE TRUE
      /\ r.max_body = Merged(c.max_body, p.max_body, 8192)
      /\ r.skip = IF c.skip = {} THEN p.skip ELSE c.skip
      /\ r.log = IF c.log # UNSET THEN c.log ELSE Else(p.log, NULL)
      /\ r.syslog_peer = IF c.log # UNSET THEN c.syslog_peer ELSE Else(p.syslog_peer, NULL)
  BY <1>1, <1>3, <1>5, <1>6
<1> QED
  BY <1>7, <1>8 DEF MergedFrom, r

\* Inside the main level, what a level does not say is said around it.
LEMMA FromAround ==
  ASSUME NEW f, NEW l \in {Server, Location}, NEW name, Said(f, l, name) = {}
  PROVE  Nearest(f, l, name) = Nearest(f, l - 1, name)
<1>1. l \in Levels /\ l # Main
  BY LevelsAre
<1> QED
  BY <1>1, NearestIs

\* A value that is said once: the level's own, the one handed to it, or neither.
SaidFor(f, l, name, own, handed, defaults) ==
  \/ own # UNSET /\ Nearest(f, l, name) # 0 /\ own = Given(f, l, name)[1]
  \/ /\ own = UNSET /\ handed # UNSET /\ Nearest(f, l, name) # 0
     /\ handed = Given(f, l, name)[1]
  \/ own = UNSET /\ handed \in {UNSET} \union defaults /\ Nearest(f, l, name) = 0

LEMMA WhoSays ==
  ASSUME NEW f, IsFile(f), NEW l \in {Server, Location}, NEW name, NEW own, NEW handed,
         NEW defaults, ReadOnce(f[l], Len(f[l]), name, own),
         Handed(f, l - 1, name, handed, defaults)
  PROVE  SaidFor(f, l, name, own, handed, defaults)
<1>1. l \in Levels /\ l # 0
  BY LevelsAre
<1>2. \/ Said(f, l, name) = {} /\ own = UNSET
      \/ /\ Said(f, l, name) # {} /\ Nearest(f, l, name) = l
         /\ own = Given(f, l, name)[1] /\ own # UNSET
  BY <1>1, ReadIsGiven
<1>3. CASE Said(f, l, name) = {} /\ own = UNSET
  <2>1. Nearest(f, l, name) = Nearest(f, l - 1, name)
    BY <1>3, FromAround
  <2>2. Given(f, l, name) = Given(f, l - 1, name)
    BY <2>1 DEF Given
  <2> QED
    BY <1>3, <2>1, <2>2 DEF Handed, SaidFor
<1> QED
  BY <1>1, <1>2, <1>3 DEF SaidFor

\* A level merged with what it is handed is settled.
LEMMA MergeSettles ==
  ASSUME NEW f, IsFile(f), NEW l \in {Server, Location}, NEW c, NEW p,
         ConfRead(f[l], Len(f[l]), c), Passes(f, l - 1, p)
  PROVE  Settled(f, l, merge_loc_conf(c, p))
<1> DEFINE r == merge_loc_conf(c, p)
<1>1. l \in Levels /\ l # 0 /\ DOMAIN c = DOMAIN create_loc_conf
  BY LevelsAre DEF ConfRead
<1>2. MergedFrom(r, c, p)
  BY <1>1, MergeFields
<1> HIDE DEF r
<1>3. /\ r.log = IF c.log # UNSET THEN c.log ELSE Else(p.log, NULL)
      /\ r.syslog_peer = IF c.log # UNSET THEN c.syslog_peer ELSE Else(p.syslog_peer, NULL)
  BY <1>2 DEF MergedFrom
<1>4. /\ c.ban_zone # UNSET => r.ban_zone = c.ban_zone /\ r.ban = c.ban /\ r.source = c.source
      /\ c.ban_zone = UNSET /\ p.ban_zone # UNSET =>
           r.ban_zone = p.ban_zone /\ r.ban = p.ban /\ r.source = p.source
      /\ c.ban_zone = UNSET /\ p.ban_zone = UNSET => r.ban_zone = NULL /\ r.source = PEER
  BY <1>2 DEF MergedFrom
<1>5. r.mode = InForce(f, l, "shield", "off")
  <2>1. /\ ReadOnce(f[l], Len(f[l]), "shield", c.mode)
        /\ Handed(f, l - 1, "shield", p.mode, {"off"})
    BY DEF ConfRead, Passes
  <2>2. SaidFor(f, l, "shield", c.mode, p.mode, {"off"})
    BY <2>1, WhoSays
  <2> QED
    BY <1>2, <2>2 DEF MergedFrom, Merged, InForce, SaidFor
<1>6. r.status = InForce(f, l, "shield_status", 403)
  <2>1. /\ ReadOnce(f[l], Len(f[l]), "shield_status", c.status)
        /\ Handed(f, l - 1, "shield_status", p.status, {403})
    BY DEF ConfRead, Passes
  <2>2. SaidFor(f, l, "shield_status", c.status, p.status, {403})
    BY <2>1, WhoSays
  <2> QED
    BY <1>2, <2>2 DEF MergedFrom, Merged, InForce, SaidFor
<1>7. r.body = InForce(f, l, "shield_body", TRUE)
  <2>1. /\ ReadOnce(f[l], Len(f[l]), "shield_body", c.body)
        /\ Handed(f, l - 1, "shield_body", p.body, {TRUE})
    BY DEF ConfRead, Passes
  <2>2. SaidFor(f, l, "shield_body", c.body, p.body, {TRUE})
    BY <2>1, WhoSays
  <2>3. r.body = IF c.body # UNSET THEN c.body ELSE IF p.body # UNSET THEN p.body ELSE TRUE
    BY <1>2 DEF MergedFrom
  <2>4. CASE Nearest(f, l, "shield_body") = 0
    <3>1. r.body = TRUE
      BY <2>2, <2>3, <2>4 DEF SaidFor
    <3> QED
      BY <2>4, <3>1 DEF InForce
  <2>5. CASE Nearest(f, l, "shield_body") # 0
    <3>1. r.body = Given(f, l, "shield_body")[1]
      BY <2>2, <2>3, <2>5 DEF SaidFor
    <3> QED
      BY <2>5, <3>1 DEF InForce
  <2> QED
    BY <2>4, <2>5
<1>8. r.max_body = InForce(f, l, "shield_max_body", 8192)
  <2>1. /\ ReadOnce(f[l], Len(f[l]), "shield_max_body", c.max_body)
        /\ Handed(f, l - 1, "shield_max_body", p.max_body, {8192})
    BY DEF ConfRead, Passes
  <2>2. SaidFor(f, l, "shield_max_body", c.max_body, p.max_body, {8192})
    BY <2>1, WhoSays
  <2> QED
    BY <1>2, <2>2 DEF MergedFrom, Merged, InForce, SaidFor
<1>9. r.skip = IF Nearest(f, l, "shield_skip") = 0 THEN {}
               ELSE SkippedBy(f, Nearest(f, l, "shield_skip"))
  <2>1. \/ Said(f, l, "shield_skip") = {} /\ c.skip = {}
        \/ /\ Said(f, l, "shield_skip") # {} /\ Nearest(f, l, "shield_skip") = l
           /\ c.skip = SkippedBy(f, l) /\ c.skip # {}
    BY <1>1, SkipIsGiven
  <2>2. Said(f, l, "shield_skip") = {} =>
          Nearest(f, l, "shield_skip") = Nearest(f, l - 1, "shield_skip")
    BY FromAround
  <2>3. SkipHanded(f, l - 1, p.skip)
    BY DEF Passes
  <2> QED
    BY <1>1, <1>2, <2>1, <2>2, <2>3 DEF SkipHanded, MergedFrom
<1>10. SinksOf(InForce(f, l, "shield_log", [kind |-> "off"]), r)
  <2>1. SinksRead(f[l], Len(f[l]), c) /\ SinksHanded(f, l - 1, p)
    BY DEF ConfRead, Passes
  <2>2. \/ Said(f, l, "shield_log") = {} /\ c.log = UNSET /\ c.syslog_peer = UNSET
        \/ /\ Said(f, l, "shield_log") # {} /\ Nearest(f, l, "shield_log") = l
           /\ SinksOf(Given(f, l, "shield_log")[1], c)
           /\ UNSET \notin {c.log, c.syslog_peer}
    BY <1>1, <2>1, SinksAreGiven
  <2>3. CASE /\ Said(f, l, "shield_log") # {} /\ Nearest(f, l, "shield_log") = l
             /\ SinksOf(Given(f, l, "shield_log")[1], c)
             /\ UNSET \notin {c.log, c.syslog_peer}
    BY <1>1, <1>3, <2>3 DEF SinksOf, InForce
  <2>4. CASE Said(f, l, "shield_log") = {} /\ c.log = UNSET /\ c.syslog_peer = UNSET
    <3>1. /\ Nearest(f, l, "shield_log") = Nearest(f, l - 1, "shield_log")
          /\ Given(f, l, "shield_log") = Given(f, l - 1, "shield_log")
      BY <2>4, FromAround DEF Given
    <3>2. CASE Nearest(f, l, "shield_log") = 0
      <4>1. r.log = NULL /\ r.syslog_peer = NULL
        BY <1>3, <2>1, <2>4, <3>1, <3>2 DEF SinksHanded, Else
      <4>2. InForce(f, l, "shield_log", [kind |-> "off"]) = [kind |-> "off"]
        BY <3>2 DEF InForce
      <4> QED
        BY <4>1, <4>2 DEF SinksOf
    <3>3. CASE Nearest(f, l, "shield_log") # 0
      <4>1. /\ SinksOf(Given(f, l, "shield_log")[1], p)
            /\ UNSET \notin {p.log, p.syslog_peer}
        BY <2>1, <3>1, <3>3 DEF SinksHanded
      <4>2. r.log = p.log /\ r.syslog_peer = p.syslog_peer
        BY <1>3, <2>4, <4>1 DEF Else
      <4>3. InForce(f, l, "shield_log", [kind |-> "off"]) = Given(f, l, "shield_log")[1]
        BY <3>3 DEF InForce
      <4> QED
        BY <4>1, <4>2, <4>3 DEF SinksOf
    <3> QED
      BY <3>2, <3>3
  <2> QED
    BY <2>2, <2>3, <2>4
<1>11. Policed(f, l, r)
  <2>1. PolicyRead(f[l], Len(f[l]), c) /\ PolicyHanded(f, l - 1, p)
    BY DEF ConfRead, Passes
  <2>2. \/ Said(f, l, "shield_ban") = {} /\ c.ban_zone = UNSET /\ c.source = PEER
        \/ /\ Said(f, l, "shield_ban") # {} /\ Nearest(f, l, "shield_ban") = l
           /\ Whole(c, Given(f, l, "shield_ban")) /\ c.ban_zone \notin {UNSET, NULL}
    BY <1>1, <2>1, PolicyIsGiven
  <2>3. CASE /\ Said(f, l, "shield_ban") # {} /\ Nearest(f, l, "shield_ban") = l
             /\ Whole(c, Given(f, l, "shield_ban")) /\ c.ban_zone \notin {UNSET, NULL}
    <3>1. r.ban_zone = c.ban_zone /\ r.ban = c.ban /\ r.source = c.source
      BY <1>4, <2>3
    <3> QED
      BY <1>1, <2>3, <3>1 DEF Policed, Whole
  <2>4. CASE Said(f, l, "shield_ban") = {} /\ c.ban_zone = UNSET /\ c.source = PEER
    <3>1. /\ Nearest(f, l, "shield_ban") = Nearest(f, l - 1, "shield_ban")
          /\ Given(f, l, "shield_ban") = Given(f, l - 1, "shield_ban")
      BY <2>4, FromAround DEF Given
    <3>2. CASE Nearest(f, l, "shield_ban") = 0
      <4>1. r.ban_zone = NULL /\ r.source = PEER
        BY <1>4, <2>1, <2>4, <3>1, <3>2 DEF PolicyHanded
      <4> QED
        BY <3>2, <4>1 DEF Policed
    <3>3. CASE Nearest(f, l, "shield_ban") # 0
      <4>1. Whole(p, Given(f, l, "shield_ban")) /\ p.ban_zone # UNSET
        BY <2>1, <3>1, <3>3 DEF PolicyHanded
      <4>2. r.ban_zone = p.ban_zone /\ r.ban = p.ban /\ r.source = p.source
        BY <1>4, <2>4, <4>1
      <4> QED
        BY <3>3, <4>1, <4>2 DEF Policed, Whole
    <3> QED
      BY <3>2, <3>3
  <2> QED
    BY <2>2, <2>3, <2>4
<1>12. Effective(f, l, r)
  BY <1>5, <1>6, <1>7, <1>8, <1>9, <1>10 DEF Effective, SinksOf
<1> QED
  BY <1>11, <1>12 DEF Settled, r

\* The zone of a merged policy is one of the two policies', or none.
LEMMA MergeNames ==
  ASSUME NEW c, NEW p, NEW zs, DOMAIN c = DOMAIN create_loc_conf, ZoneNamed(c, zs),
         ZoneNamed(p, zs)
  PROVE  ZoneNamed(merge_loc_conf(c, p), zs)
<1>1. MergedFrom(merge_loc_conf(c, p), c, p)
  BY MergeFields
<1>2. merge_loc_conf(c, p).ban_zone \in {c.ban_zone, p.ban_zone, NULL}
  BY <1>1 DEF MergedFrom
<1> QED
  BY <1>2 DEF ZoneNamed

LEMMA MergeKeeps ==
  ASSUME ConfInv, Merge
  PROVE  ConfInv'
<1> DEFINE l == at.level
           m == merge_loc_conf(conf[l], conf[l - 1])
<1>1. /\ phase = "merge" /\ UNCHANGED <<files, file, zones, cycle>>
      /\ conf' = [conf EXCEPT ![l] = m]
  BY DEF Merge
<1>2. /\ l \in {Server, Location} /\ DOMAIN at = {"level", "next"} /\ DOMAIN conf = Levels
      /\ AllRead(Main) /\ AllRead(Location)
      /\ l = Server => AllRead(Server)
      /\ l # Server => Settled(file, Server, conf[Server])
      /\ \A k \in Levels : ZoneNamed(conf[k], zones)
      /\ ZonesRead(file[Main], Len(file[Main]), zones)
  BY <1>1 DEF ConfInv, Merging
<1>3. /\ l \in Levels /\ l - 1 \in Levels /\ Main \in Levels /\ Server \in Levels
      /\ Location \in Levels /\ Main # l /\ Server # Location
      /\ l = Server => l - 1 = Main
      /\ l # Server => l = Location /\ l - 1 = Server
  BY <1>2, LevelsAre
<1>4. FilesKnown' /\ IsFile(file)
  BY <1>1 DEF ConfInv, FilesKnown, IsFile
<1>5. ConfRead(file[l], Len(file[l]), conf[l])
  BY <1>2, <1>3 DEF AllRead
<1>6. Passes(file, l - 1, conf[l - 1])
  <2>1. CASE l = Server
    BY <1>2, <1>3, <1>4, <2>1, MainPasses DEF AllRead
  <2>2. CASE l # Server
    BY <1>2, <1>3, <1>4, <2>2, SettledPasses
  <2> QED
    BY <2>1, <2>2
<1>7. Settled(file, l, m)
  BY <1>2, <1>4, <1>5, <1>6, MergeSettles
<1>8. ZoneNamed(m, zones)
  BY <1>2, <1>3, <1>5, MergeNames DEF ConfRead
<1> HIDE DEF m
<1>9. /\ DOMAIN conf' = Levels /\ conf'[l] = m /\ \A k \in Levels \ {l} : conf'[k] = conf[k]
  BY <1>1, <1>2, <1>3
<1>10. \A k \in Levels : ZoneNamed(conf'[k], zones')
  BY <1>1, <1>2, <1>8, <1>9
<1>11. CASE l < Location
  <2>1. at' = [at EXCEPT !.level = @ + 1] /\ phase' = "merge"
    BY <1>1, <1>11 DEF Merge
  <2>2. l = Server /\ at'.level = Location /\ DOMAIN at' = {"level", "next"}
    BY <1>2, <1>11, <2>1, LevelsAre
  <2>3. conf'[Main] = conf[Main] /\ conf'[Location] = conf[Location] /\ conf'[Server] = m
    BY <1>3, <1>9, <2>2
  <2>4. /\ AllRead(Main)' /\ AllRead(Location)'
        /\ Settled(file', Server, conf'[Server])
    BY <1>1, <1>2, <1>7, <2>2, <2>3 DEF AllRead
  <2>5. Merging'
    BY <1>1, <1>2, <1>3, <1>9, <1>10, <2>2, <2>4 DEF Merging
  <2> QED
    BY <1>4, <2>1, <2>5 DEF ConfInv, Parsed, Complete, EffectiveIsNearest, PolicyIsWhole
<1>12. CASE ~(l < Location)
  <2>1. phase' = "init" /\ l = Location
    BY <1>1, <1>2, <1>12, LevelsAre DEF Merge
  <2>2. conf'[Server] = conf[Server] /\ conf'[Location] = m
    BY <1>3, <1>9, <2>1
  <2>3. \A k \in {Server, Location} : Settled(file', k, conf'[k])
    BY <1>1, <1>2, <1>3, <1>7, <2>1, <2>2
  <2>4. Complete'
    BY <1>1, <1>2, <1>3, <1>10, <2>3 DEF Complete
  <2> QED
    BY <1>4, <2>1, <2>4 DEF ConfInv, Parsed, Merging, EffectiveIsNearest, PolicyIsWhole
<1> QED
  BY <1>11, <1>12

------------------------------------------------------------------------------
(* The zones of the cycle, and the next file. *)

\* A zone with a size is defined in one place.
LEMMA SizedOnce ==
  ASSUME NEW f, IsFile(f), NEW zs, ZonesRead(f[Main], Len(f[Main]), zs),
         NEW z \in DOMAIN zs, zs[z].size > 0
  PROVE  DefinedOnce(f, z, zs[z].size)
<1>1. ZoneRead(f[Main], Len(f[Main]), zs[z], z) /\ Main \in Levels
  BY LevelsAre DEF ZonesRead
<1>2. PICK i \in 1..Len(f[Main]) :
        DefinedBy(f[Main], Len(f[Main]), z) = {i} /\ zs[z].size = f[Main][i].args[2]
  BY <1>1 DEF ZoneRead
<1>3. SaidBy(f[Main], Len(f[Main]), "shield_ban_zone") = Said(f, Main, "shield_ban_zone")
  BY <1>1, AllSaid
<1>4. Defining(f, z) = {i} /\ i \in Said(f, Main, "shield_ban_zone")
  BY <1>2, <1>3 DEF DefinedBy, Defining
<1> QED
  BY <1>2, <1>4 DEF DefinedOnce

LEMMA InitZonesKeeps ==
  ASSUME ConfInv, InitZones
  PROVE  ConfInv'
<1>1. /\ phase = "init" /\ UNCHANGED <<files, file>> /\ phase' = "serving"
      /\ \A z \in DOMAIN zones : zones[z].size > 0
      /\ cycle'.conf = conf /\ DOMAIN cycle'.zones = DOMAIN zones
      /\ \A z \in DOMAIN zones : cycle'.zones[z].size = zones[z].size
  BY DEF InitZones, SetUp
<1>2. /\ \A l \in {Server, Location} : Settled(file, l, conf[l]) /\ ZoneNamed(conf[l], zones)
      /\ ZonesRead(file[Main], Len(file[Main]), zones)
  BY <1>1 DEF ConfInv, Complete
<1>3. FilesKnown' /\ IsFile(file)
  BY <1>1 DEF ConfInv, FilesKnown, IsFile
<1>4. EffectiveIsNearest'
  BY <1>1, <1>2 DEF EffectiveIsNearest, Settled
<1>5. ASSUME NEW l \in {Server, Location}
      PROVE  /\ Policed(file, l, conf[l])
             /\ Nearest(file, l, "shield_ban") # 0 =>
                  DefinedOnce(file, conf[l].ban_zone, zones[conf[l].ban_zone].size)
                  /\ conf[l].ban_zone \in DOMAIN zones
  <2>1. Policed(file, l, conf[l])
    BY <1>2 DEF Settled
  <2>2. ASSUME Nearest(file, l, "shield_ban") # 0
        PROVE  conf[l].ban_zone \in DOMAIN zones
    <3>1. Passes(file, l, conf[l])
      BY <1>2, <1>3, LevelsAre, SettledPasses
    <3>2. conf[l].ban_zone \notin {UNSET, NULL}
      BY <2>2, <3>1 DEF Passes, PolicyHanded
    <3> QED
      BY <1>2, <3>2 DEF ZoneNamed
  <2>3. ASSUME Nearest(file, l, "shield_ban") # 0
        PROVE  DefinedOnce(file, conf[l].ban_zone, zones[conf[l].ban_zone].size)
    BY <1>1, <1>2, <1>3, <2>2, <2>3, SizedOnce
  <2> QED
    BY <2>1, <2>2, <2>3
<1>6. PolicyIsWhole'
  <2> SUFFICES ASSUME NEW l \in {Server, Location}
               PROVE  /\ Policed(file', l, cycle'.conf[l])
                      /\ Nearest(file', l, "shield_ban") # 0 =>
                           DefinedOnce(file', cycle'.conf[l].ban_zone,
                                       cycle'.zones[cycle'.conf[l].ban_zone].size)
    BY DEF PolicyIsWhole
  <2>1. Policed(file', l, cycle'.conf[l])
    BY <1>1, <1>5
  <2>2. ASSUME Nearest(file', l, "shield_ban") # 0
        PROVE  DefinedOnce(file', cycle'.conf[l].ban_zone,
                           cycle'.zones[cycle'.conf[l].ban_zone].size)
    <3>1. /\ conf[l].ban_zone \in DOMAIN zones
          /\ DefinedOnce(file, conf[l].ban_zone, zones[conf[l].ban_zone].size)
      BY <1>1, <1>5, <2>2
    <3>2. cycle'.zones[conf[l].ban_zone].size = zones[conf[l].ban_zone].size
      BY <1>1, <3>1
    <3> QED
      BY <1>1, <3>1, <3>2
  <2> QED
    BY <2>1, <2>2
<1> QED
  BY <1>1, <1>3, <1>4, <1>6 DEF ConfInv, Parsed, Merging, Complete

\* Nothing is read of a file yet.
LEMMA Unread ==
  ASSUME NEW f
  PROVE  /\ \A l \in Levels : ConfRead(f[l], 0, create_loc_conf)
         /\ ZonesRead(f[Main], 0, <<>>)
         /\ \A zs : ZoneNamed(create_loc_conf, zs)
<1>1. ASSUME NEW d
      PROVE  ConfRead(d, 0, create_loc_conf)
  <2>1. \A name : SaidBy(d, 0, name) = {}
    BY NothingSaid
  <2> QED
    BY <2>1 DEF ConfRead, ReadOnce, SinksRead, PolicyRead, create_loc_conf
<1>2. ZonesRead(f[Main], 0, <<>>)
  BY NothingSaid DEF ZonesRead
<1> QED
  BY <1>1, <1>2 DEF ZoneNamed, create_loc_conf

\* What is left of a history is a history, or nothing.
LEMMA RestOfHistory ==
  ASSUME NEW s, s \in Seq(ToSet(s)), s # <<>>
  PROVE  /\ Tail(s) \in Seq(ToSet(Tail(s)))
         /\ Head(s) = s[1] /\ 1 \in DOMAIN s
         /\ \A i \in DOMAIN Tail(s) : i + 1 \in DOMAIN s /\ Tail(s)[i] = s[i + 1]
<1> DEFINE t == Tail(s)
           n == Len(s)
<1>1. /\ n \in Nat \ {0} /\ DOMAIN s = 1..n /\ t \in Seq(ToSet(s)) /\ Len(t) = n - 1
      /\ Head(s) = s[1] /\ \A i \in 1..(n - 1) : t[i] = s[i + 1]
  OBVIOUS
<1> HIDE DEF t, n
<1>2. DOMAIN t = 1..(n - 1) /\ t = [i \in 1..(n - 1) |-> t[i]]
  BY <1>1
<1>3. \A i \in DOMAIN t : t[i] \in ToSet(t)
  BY DEF ToSet
<1>4. t \in Seq(ToSet(t))
  <2>1. t \in [1..(n - 1) -> ToSet(t)] /\ n - 1 \in Nat
    BY <1>1, <1>2, <1>3
  <2> HIDE DEF t
  <2> QED
    BY <2>1, SeqDef
<1> QED
  BY <1>1, <1>2, <1>4 DEF t

\* A configuration is about to be read, the others after it.
Begun ==
  /\ FilesKnown /\ conf = [l \in Levels |-> create_loc_conf]
  /\ at = [level |-> Main, next |-> 1] /\ zones = <<>> /\ phase = "parse"

LEMMA BegunHolds == Begun => ConfInv
<1> SUFFICES ASSUME Begun PROVE ConfInv
  OBVIOUS
<1>1. /\ FilesKnown /\ conf = [l \in Levels |-> create_loc_conf]
      /\ at = [level |-> Main, next |-> 1] /\ zones = <<>> /\ phase = "parse"
  BY DEF Begun
<1>2. /\ at.level = Main /\ at.next = 1 /\ DOMAIN at = {"level", "next"} /\ Main \in Levels
      /\ DOMAIN conf = Levels /\ \A l \in Levels : conf[l] = create_loc_conf
      /\ \A l \in Levels : Len(file[l]) \in Nat
  BY <1>1, LevelsAre DEF FilesKnown, IsFile, Written
<1>3. \A l \in Levels : ReadTo(file, at, l) = 0
  BY <1>2, LevelsAre DEF ReadTo
<1>4. \A l \in Levels : ConfRead(file[l], ReadTo(file, at, l), conf[l]) /\ ZoneNamed(conf[l], zones)
  BY <1>2, <1>3, Unread
<1>5. ZonesRead(file[Main], ReadTo(file, at, Main), zones)
  BY <1>1, <1>2, <1>3, Unread
<1>6. at.next \in 1..(Len(file[at.level]) + 1)
  BY <1>2
<1>7. Parsed
  BY <1>2, <1>4, <1>5, <1>6 DEF Parsed
<1> QED
  BY <1>1, <1>7 DEF ConfInv, Merging, Complete, EffectiveIsNearest, PolicyIsWhole

LEMMA StartHolds == Init => ConfInv
<1> SUFFICES ASSUME Init PROVE Begun
  BY BegunHolds
<1>1. PICK history \in Histories : file = Head(history) /\ files = Tail(history)
  BY DEF Init
<1>2. /\ history # <<>> /\ history \in Seq(ToSet(history))
      /\ \A i \in DOMAIN history : IsFile(history[i])
  BY HistoryAssumption
<1>3. /\ files \in Seq(ToSet(files)) /\ Head(history) = history[1] /\ 1 \in DOMAIN history
      /\ \A i \in DOMAIN files : i + 1 \in DOMAIN history /\ files[i] = history[i + 1]
  BY <1>1, <1>2, RestOfHistory
<1>4. FilesKnown
  BY <1>1, <1>2, <1>3 DEF FilesKnown
<1> QED
  BY <1>4 DEF Init, Begun

LEMMA ReloadKeeps == ConfInv /\ Reload => ConfInv'
<1>1. ASSUME ConfInv, Reload
      PROVE  Begun'
  <2>1. file' = Head(files) /\ files' = Tail(files) /\ files # <<>>
    BY <1>1 DEF Reload
  <2>2. files \in Seq(ToSet(files)) /\ \A i \in DOMAIN files : IsFile(files[i])
    BY <1>1 DEF ConfInv, FilesKnown
  <2>3. /\ files' \in Seq(ToSet(files')) /\ Head(files) = files[1] /\ 1 \in DOMAIN files
        /\ \A i \in DOMAIN files' : i + 1 \in DOMAIN files /\ files'[i] = files[i + 1]
    BY <2>1, <2>2, RestOfHistory
  <2>4. IsFile(file') /\ \A i \in DOMAIN files' : IsFile(files'[i])
    BY <2>1, <2>2, <2>3
  <2> QED
    BY <1>1, <2>3, <2>4 DEF Reload, Begun, FilesKnown
<1> QED
  BY <1>1, BegunHolds, PTL

------------------------------------------------------------------------------
(* Every step. *)

LEMMA ConfInvKept == ConfInv /\ [Next]_vars => ConfInv'
<1> SUFFICES ASSUME ConfInv, [Next]_vars PROVE ConfInv'
  OBVIOUS
<1>1. CASE Mode
  BY <1>1, OnceKeeps DEF Mode
<1>2. CASE Status
  BY <1>2, OnceKeeps DEF Status
<1>3. CASE BodyFlag
  BY <1>3, OnceKeeps DEF BodyFlag
<1>4. CASE MaxBody
  BY <1>4, OnceKeeps DEF MaxBody
<1>5. CASE Skip
  BY <1>5, SkipKeeps
<1>6. CASE Log
  BY <1>6, LogKeeps
<1>7. CASE Ban
  BY <1>7, BanKeeps
<1>8. CASE BanZone
  BY <1>8, BanZoneKeeps
<1>9. CASE BanStatus
  BY <1>9, BanStatusKeeps
<1>10. CASE NoMemory
  BY <1>10, RefuseKeeps DEF NoMemory, Reading, Refuse
<1>11. CASE NextLevel
  BY <1>11, NextLevelKeeps
<1>12. CASE Merge
  BY <1>12, MergeKeeps
<1>13. CASE InitZones
  BY <1>13, InitZonesKeeps
<1>14. CASE InitFails
  BY <1>14, RefuseKeeps DEF InitFails
<1>15. CASE Reload
  BY <1>15, ReloadKeeps
<1>16. CASE UNCHANGED vars
  BY <1>16 DEF vars, ConfInv, FilesKnown, IsFile, Parsed, Merging, AllRead, Complete,
     EffectiveIsNearest, PolicyIsWhole
<1>17. CASE Rest
  BY <1>16, <1>17 DEF Rest
<1>18. CASE Record
  BY <1>18 DEF Record, ConfInv, FilesKnown, IsFile, Parsed, Merging, AllRead, Complete,
     EffectiveIsNearest, PolicyIsWhole
<1> QED
  BY <1>1, <1>2, <1>3, <1>4, <1>5, <1>6, <1>7, <1>8, <1>9, <1>10, <1>11, <1>12, <1>13, <1>14,
     <1>15, <1>16, <1>17, <1>18 DEF Next

LEMMA ConfInvHolds == Spec => []ConfInv
<1> QED
  BY StartHolds, ConfInvKept, PTL DEF Spec

\* What is in force in a level is what the nearest level around it says, or the
\* default, whatever is written where and in whatever order
\* (ngx_http_shield_merge_loc_conf).
THEOREM NearestIsInForce == Spec => []EffectiveIsNearest
<1>1. ConfInv => EffectiveIsNearest
  BY DEF ConfInv
<1> QED
  BY <1>1, ConfInvHolds, PTL

\* A ban policy in force is one shield_ban as it was written, with its key source,
\* and its zone is defined in one place (ngx_http_shield_ban,
\* ngx_http_shield_ban_zone, ngx_http_shield_merge_loc_conf).
THEOREM PoliciesStayWhole == Spec => []PolicyIsWhole
<1>1. ConfInv => PolicyIsWhole
  BY DEF ConfInv
<1> QED
  BY <1>1, ConfInvHolds, PTL

------------------------------------------------------------------------------
(* The zones over the reloads.  The invariant says of every worker what its *)
(* context leads to, and of the workers of an older cycle that it leads to  *)
(* what the cycle that serves has, as long as no cycle between did without. *)

Building == phase \in {"parse", "merge", "init"}

\* What the configuration being read has not made.
Before(n) == n \in Nat /\ n <= reads /\ (Building => n < reads)

\* The newest of the cycles with workers is the one that serves.
WorkersKnown ==
  /\ reads \in Nat
  /\ \A w \in workers : Before(w.cycle)
  /\ \A v, w \in workers : v.cycle = w.cycle => v = w
  /\ IF workers = {} THEN cycle.zones = <<>>
     ELSE \E v \in workers : v.zones = cycle.zones /\ \A w \in workers : w.cycle <= v.cycle
  /\ \A r \in recorded : \E w \in workers : r[1] = w.cycle

\* A context, however a worker came by it, is the segment's one sh and its pool.
MemoryKnown ==
  /\ \A a \in DOMAIN pools : Before(a[2])
  /\ \A w \in workers : \A z \in DOMAIN w.zones :
       LET k == w.zones[z]
       IN  /\ k.addr \in DOMAIN pools /\ k.ctx.shpool = k.addr
           /\ pools[k.addr] = k.ctx.sh /\ k.ctx.sh \in DOMAIN held

BansHeld ==
  \A w \in workers : \A z \in DOMAIN w.zones :
    <<w.cycle, z>> \in recorded => <<w.cycle, z>> \in held[w.zones[z].ctx.sh]

\* The two zones are one in memory.
SameMemory(k, j) ==
  k.addr = j.addr /\ k.ctx.sh = j.ctx.sh /\ k.ctx.shpool = j.ctx.shpool

StillTheirs ==
  \A w \in workers : \A z \in DOMAIN w.zones :
    Unbroken(w, z) => z \in DOMAIN cycle.zones /\ SameMemory(cycle.zones[z], w.zones[z])

ZonesInv == WorkersKnown /\ MemoryKnown /\ BansHeld /\ StillTheirs

\* A configuration that is read, refused or merged leaves the zones alone.
LEMMA ZonesUntouched ==
  ASSUME ZonesInv, UNCHANGED <<cycle, pools, held, workers, recorded>>,
         \/ reads' = reads /\ (Building' => Building)
         \/ reads' = reads + 1
  PROVE  ZonesInv'
<1>1. reads' \in Nat /\ \A n : Before(n) => Before(n)'
  BY DEF ZonesInv, WorkersKnown, Before
<1>2. WorkersKnown'
  BY <1>1 DEF ZonesInv, WorkersKnown
<1>3. MemoryKnown'
  BY <1>1 DEF ZonesInv, MemoryKnown
<1>4. BansHeld' /\ StillTheirs'
  BY DEF ZonesInv, BansHeld, StillTheirs, Unbroken, SameMemory
<1> QED
  BY <1>2, <1>3, <1>4 DEF ZonesInv

\* What a zone of the new cycle leads to: the memory of before, or new one.
LEMMA SetUpIs ==
  ASSUME ZonesInv, InitZones, NEW z \in DOMAIN zones
  PROVE  LET k == SetUp[z]
         IN  /\ z \in DOMAIN SetUp /\ k.size = zones[z].size
             /\ Kept(z) => SameMemory(k, cycle.zones[z])
             /\ k.addr \in DOMAIN pools' /\ k.ctx.shpool = k.addr
             /\ pools'[k.addr] = k.ctx.sh /\ k.ctx.sh \in DOMAIN held'
<1> DEFINE k == SetUp[z]
<1>1. /\ z \in DOMAIN SetUp /\ k.size = zones[z].size
      /\ k.addr = Segment(z) /\ k.ctx = init_zone(z)
  BY DEF SetUp
<1>2. /\ DOMAIN pools' = DOMAIN pools \union {Segment(y) : y \in DOMAIN zones}
      /\ \A a \in DOMAIN pools' :
           pools'[a] = IF a \in DOMAIN pools THEN pools[a] ELSE SetUp[a[1]].ctx.sh
      /\ DOMAIN held' = DOMAIN held \union {SetUp[y].ctx.sh : y \in DOMAIN zones}
  BY DEF InitZones
<1> HIDE DEF k
<1>3. k.addr \in DOMAIN pools' /\ k.ctx.sh \in DOMAIN held'
  BY <1>1, <1>2 DEF k
<1>4. CASE Kept(z)
  <2>1. PICK v \in workers : v.zones = cycle.zones
    BY <1>4 DEF Kept, ZonesInv, WorkersKnown
  <2>2. z \in DOMAIN v.zones /\ v.zones[z] = cycle.zones[z]
    BY <1>4, <2>1 DEF Kept
  <2>3. /\ cycle.zones[z].addr \in DOMAIN pools
        /\ cycle.zones[z].ctx.shpool = cycle.zones[z].addr
        /\ pools[cycle.zones[z].addr] = cycle.zones[z].ctx.sh
    BY <2>2 DEF ZonesInv, MemoryKnown
  <2>4. SameMemory(k, cycle.zones[z])
    BY <1>1, <1>4 DEF Segment, init_zone, SameMemory
  <2> QED
    BY <1>1, <1>2, <1>3, <2>3, <2>4 DEF SameMemory, k
<1>5. CASE ~Kept(z)
  <2>1. k.addr = <<z, reads>> /\ k.ctx.shpool = k.addr
    BY <1>1, <1>5 DEF Segment, init_zone, LaidOut
  <2>2. <<z, reads>> \notin DOMAIN pools
    BY DEF InitZones, ZonesInv, WorkersKnown, MemoryKnown, Before, Building
  <2>3. pools'[k.addr] = k.ctx.sh
    BY <1>2, <1>3, <2>1, <2>2 DEF k
  <2> QED
    BY <1>1, <1>3, <1>5, <2>1, <2>3 DEF k
<1> QED
  BY <1>4, <1>5

\* Setting up the zones leaves the memory of the others as it is, and takes over that
\* of a zone that no cycle did without.
LEMMA InitZonesShares ==
  ASSUME ZonesInv, InitZones
  PROVE  ZonesInv'
<1> DEFINE n == [cycle |-> reads, zones |-> SetUp]
<1>1. /\ workers' = workers \union {n} /\ cycle'.zones = SetUp
      /\ n.cycle = reads /\ n.zones = SetUp /\ DOMAIN SetUp = DOMAIN zones
      /\ UNCHANGED <<reads, recorded>> /\ phase = "init" /\ phase' = "serving"
      /\ DOMAIN pools' = DOMAIN pools \union {Segment(z) : z \in DOMAIN zones}
      /\ \A a \in DOMAIN pools : a \in DOMAIN pools' /\ pools'[a] = pools[a]
      /\ \A sh \in DOMAIN held : sh \in DOMAIN held' /\ held'[sh] = held[sh]
  BY DEF InitZones, SetUp
<1>2. /\ reads \in Nat /\ \A w \in workers : w.cycle \in Nat /\ w.cycle < reads
      /\ \A a \in DOMAIN pools : a[2] \in Nat /\ a[2] < reads
  BY <1>1 DEF ZonesInv, WorkersKnown, MemoryKnown, Before, Building
<1> HIDE DEF n
<1>3. n \in workers' /\ \A w \in workers' : w = n \/ w \in workers
  BY <1>1
<1>4. WorkersKnown'
  <2>1. \A w \in workers' : w.cycle \in Nat /\ w.cycle <= reads
    BY <1>1, <1>2, <1>3
  <2>2. \A w \in workers' : Before(w.cycle)'
    BY <1>1, <2>1 DEF Before, Building
  <2>3. \A v, w \in workers' : v.cycle = w.cycle => v = w
    BY <1>1, <1>2, <1>3 DEF ZonesInv, WorkersKnown
  <2>4. \A r \in recorded' : \E w \in workers' : r[1] = w.cycle
    BY <1>1 DEF ZonesInv, WorkersKnown
  <2> QED
    BY <1>1, <1>2, <1>3, <2>1, <2>2, <2>3, <2>4 DEF WorkersKnown
<1>5. MemoryKnown'
  <2>1. ASSUME NEW a \in DOMAIN pools'
        PROVE  Before(a[2])'
    <3>1. CASE a \in DOMAIN pools
      BY <1>1, <1>2, <3>1 DEF Before, Building
    <3>2. ASSUME NEW z \in DOMAIN zones, a = Segment(z)
          PROVE  a \in DOMAIN pools \/ a[2] = reads
      <4>1. CASE Kept(z)
        <5>1. PICK v \in workers : v.zones = cycle.zones
          BY <4>1 DEF Kept, ZonesInv, WorkersKnown
        <5> QED
          BY <3>2, <4>1, <5>1 DEF Kept, Segment, ZonesInv, MemoryKnown
      <4>2. CASE ~Kept(z)
        BY <3>2, <4>2 DEF Segment
      <4> QED
        BY <4>1, <4>2
    <3>3. CASE a[2] = reads
      BY <1>1, <1>2, <3>3 DEF Before, Building
    <3> QED
      BY <1>1, <3>1, <3>2, <3>3
  <2>2. ASSUME NEW w \in workers', NEW z \in DOMAIN w.zones
        PROVE  LET k == w.zones[z]
               IN  /\ k.addr \in DOMAIN pools' /\ k.ctx.shpool = k.addr
                   /\ pools'[k.addr] = k.ctx.sh /\ k.ctx.sh \in DOMAIN held'
    <3>1. CASE w = n
      BY <1>1, <3>1, SetUpIs
    <3>2. CASE w \in workers
      <4>1. LET k == w.zones[z]
            IN  /\ k.addr \in DOMAIN pools /\ k.ctx.shpool = k.addr
                /\ pools[k.addr] = k.ctx.sh /\ k.ctx.sh \in DOMAIN held
        BY <3>2 DEF ZonesInv, MemoryKnown
      <4> QED
        BY <1>1, <4>1
    <3> QED
      BY <1>3, <3>1, <3>2
  <2> QED
    BY <2>1, <2>2 DEF MemoryKnown
<1>6. BansHeld'
  <2> SUFFICES ASSUME NEW w \in workers', NEW z \in DOMAIN w.zones,
                      <<w.cycle, z>> \in recorded'
               PROVE  <<w.cycle, z>> \in held'[w.zones[z].ctx.sh]
    BY DEF BansHeld
  <2>1. w \in workers
    <3>1. PICK v \in workers : v.cycle = w.cycle
      BY <1>1 DEF ZonesInv, WorkersKnown
    <3> QED
      BY <1>1, <1>2, <1>3, <3>1
  <2>2. /\ <<w.cycle, z>> \in held[w.zones[z].ctx.sh]
        /\ w.zones[z].ctx.sh \in DOMAIN held
    BY <1>1, <2>1 DEF ZonesInv, BansHeld, MemoryKnown
  <2> QED
    BY <1>1, <2>2
<1>7. StillTheirs'
  <2> SUFFICES ASSUME NEW w \in workers', NEW z \in DOMAIN w.zones, Unbroken(w, z)'
               PROVE  z \in DOMAIN SetUp /\ SameMemory(SetUp[z], w.zones[z])
    BY <1>1 DEF StillTheirs
  <2>1. \A v \in workers' : v.cycle >= w.cycle =>
          z \in DOMAIN v.zones /\ v.zones[z].size = w.zones[z].size
    BY DEF Unbroken
  <2>2. CASE w = n
    BY <1>1, <2>2 DEF SameMemory
  <2>3. CASE w \in workers
    <3>1. Unbroken(w, z)
      BY <1>1, <2>1 DEF Unbroken
    <3>2. z \in DOMAIN cycle.zones /\ SameMemory(cycle.zones[z], w.zones[z])
      BY <2>3, <3>1 DEF ZonesInv, StillTheirs
    <3>3. PICK v \in workers : v.zones = cycle.zones /\ \A u \in workers : u.cycle <= v.cycle
      BY <2>3 DEF ZonesInv, WorkersKnown
    <3>4. w.cycle <= v.cycle /\ v.cycle >= w.cycle /\ reads >= w.cycle
      BY <1>2, <2>3, <3>3
    <3>5. cycle.zones[z].size = w.zones[z].size
      BY <1>1, <2>1, <3>3, <3>4
    <3>6. z \in DOMAIN SetUp /\ SetUp[z].size = w.zones[z].size
      BY <1>1, <1>3, <2>1, <3>4
    <3>7. z \in DOMAIN zones /\ SetUp[z].size = zones[z].size
      BY <1>1, <3>6, SetUpIs
    <3>8. SameMemory(SetUp[z], cycle.zones[z])
      BY <3>2, <3>5, <3>6, <3>7, SetUpIs DEF Kept
    <3> QED
      BY <3>2, <3>6, <3>8 DEF SameMemory
  <2> QED
    BY <1>3, <2>2, <2>3
<1> QED
  BY <1>4, <1>5, <1>6, <1>7 DEF ZonesInv

\* A ban goes where the context of the worker leads.
LEMMA RecordShares ==
  ASSUME ZonesInv, Record
  PROVE  ZonesInv'
<1>1. PICK w \in workers : \E z \in DOMAIN w.zones : \E ctx \in Contexts(w.zones[z]) :
         /\ held' = [held EXCEPT ![ctx.sh] = @ \union {<<w.cycle, z>>}]
         /\ recorded' = recorded \union {<<w.cycle, z>>}
  BY DEF Record
<1>2. PICK z \in DOMAIN w.zones : \E ctx \in Contexts(w.zones[z]) :
         /\ held' = [held EXCEPT ![ctx.sh] = @ \union {<<w.cycle, z>>}]
         /\ recorded' = recorded \union {<<w.cycle, z>>}
  BY <1>1
<1> DEFINE s == w.zones[z].ctx.sh
<1>3. s \in DOMAIN held /\ \A ctx \in Contexts(w.zones[z]) : ctx.sh = s
  BY DEF ZonesInv, MemoryKnown, Contexts, Opened
<1>4. /\ held' = [held EXCEPT ![s] = @ \union {<<w.cycle, z>>}]
      /\ recorded' = recorded \union {<<w.cycle, z>>}
  BY <1>2, <1>3
<1> HIDE DEF s
<1>5. /\ DOMAIN held' = DOMAIN held /\ <<w.cycle, z>> \in held'[s]
      /\ \A t \in DOMAIN held : held[t] \subseteq held'[t]
  BY <1>3, <1>4
<1>6. UNCHANGED <<phase, cycle, reads, pools, workers>>
  BY DEF Record
<1>7. WorkersKnown' /\ MemoryKnown' /\ StillTheirs'
  <2>1. WorkersKnown'
    <3>1. \A r \in recorded' : \E v \in workers : r[1] = v.cycle
      BY <1>4 DEF ZonesInv, WorkersKnown
    <3> QED
      BY <1>6, <3>1 DEF ZonesInv, WorkersKnown, Before, Building
  <2>2. MemoryKnown'
    BY <1>5, <1>6 DEF ZonesInv, MemoryKnown, Before, Building
  <2>3. StillTheirs'
    BY <1>6 DEF ZonesInv, StillTheirs, Unbroken, SameMemory
  <2> QED
    BY <2>1, <2>2, <2>3
<1>8. ASSUME NEW v \in workers, NEW y \in DOMAIN v.zones, <<v.cycle, y>> \in recorded'
      PROVE  <<v.cycle, y>> \in held'[v.zones[y].ctx.sh]
  <2>1. CASE <<v.cycle, y>> \in recorded
    <3>1. /\ <<v.cycle, y>> \in held[v.zones[y].ctx.sh]
          /\ v.zones[y].ctx.sh \in DOMAIN held
      BY <2>1 DEF ZonesInv, BansHeld, MemoryKnown
    <3> QED
      BY <1>5, <3>1
  <2>2. CASE <<v.cycle, y>> = <<w.cycle, z>>
    <3>1. v = w /\ y = z
      BY <2>2 DEF ZonesInv, WorkersKnown
    <3> QED
      BY <1>5, <3>1 DEF s
  <2> QED
    BY <1>4, <1>8, <2>1, <2>2
<1>9. BansHeld'
  BY <1>6, <1>8 DEF BansHeld
<1> QED
  BY <1>7, <1>9 DEF ZonesInv

LEMMA ZonesInvKept == ZonesInv /\ [Next]_vars => ZonesInv'
<1> SUFFICES ASSUME ZonesInv, [Next]_vars PROVE ZonesInv'
  OBVIOUS
<1>1. CASE InitZones
  BY <1>1, InitZonesShares
<1>2. CASE Record
  BY <1>2, RecordShares
<1>3. CASE Reload
  BY <1>3, ZonesUntouched DEF Reload, shared
<1>4. CASE Mode \/ Status \/ BodyFlag \/ MaxBody \/ Skip \/ Log \/ Ban \/ BanZone \/ BanStatus
           \/ NoMemory
  <2>1. UNCHANGED <<cycle, reads, shared>> /\ phase = "parse"
    BY <1>4 DEF Mode, Status, BodyFlag, MaxBody, Skip, Log, Ban, BanZone, BanStatus,
       NoMemory, Reading
  <2> QED
    BY <2>1, ZonesUntouched DEF shared, Building
<1>5. CASE NextLevel \/ Merge \/ InitFails
  BY <1>5, ZonesUntouched DEF NextLevel, Merge, InitFails, shared, Building
<1>6. CASE UNCHANGED vars
  BY <1>6, ZonesUntouched DEF vars, shared, Building
<1>7. CASE Rest
  BY <1>6, <1>7 DEF Rest
<1> QED
  BY <1>1, <1>2, <1>3, <1>4, <1>5, <1>6, <1>7 DEF Next

\* The bans of a zone outlive the reloads that leave its size alone, for any files in
\* any order: the workers of every cycle since then lead to one memory and one mutex
\* (ngx_http_shield_ban_init_zone).
THEOREM BansOutliveReloads == Spec => []ReloadKeepsBans
<1>1. Init => ZonesInv
  BY DEF Init, NoCycle, ZonesInv, WorkersKnown, MemoryKnown, BansHeld, StillTheirs, Before
<1>2. ASSUME ZonesInv, NEW w \in workers, NEW z \in DOMAIN w.zones, Unbroken(w, z),
             NEW mine \in Contexts(w.zones[z]), NEW theirs \in Contexts(cycle.zones[z])
      PROVE  /\ mine.shpool = theirs.shpool
             /\ <<w.cycle, z>> \in recorded => <<w.cycle, z>> \in held[theirs.sh]
  <2>1. SameMemory(cycle.zones[z], w.zones[z])
    BY <1>2 DEF ZonesInv, StillTheirs
  <2>2. /\ w.zones[z].ctx.shpool = w.zones[z].addr
        /\ pools[w.zones[z].addr] = w.zones[z].ctx.sh
    BY <1>2 DEF ZonesInv, MemoryKnown
  <2>3. mine.shpool = w.zones[z].addr
    BY <1>2, <2>2 DEF Contexts, Opened
  <2>4. theirs.shpool = w.zones[z].addr /\ theirs.sh = w.zones[z].ctx.sh
    BY <1>2, <2>1, <2>2 DEF Contexts, Opened, SameMemory
  <2> QED
    BY <1>2, <2>3, <2>4 DEF ZonesInv, BansHeld
<1>3. ZonesInv => ReloadKeepsBans
  BY <1>2 DEF ReloadKeepsBans
<1> QED
  BY <1>1, <1>3, ZonesInvKept, PTL DEF Spec
==============================================================================
