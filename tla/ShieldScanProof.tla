---------------------------- MODULE ShieldScanProof ----------------------------
(***************************************************************************)
(* The automatons of the scanner, for every table of signatures and rules  *)
(* and every alphabet.                                                     *)
(*                                                                         *)
(* A state stands for the bytes that lead to it, so what the code computes *)
(* from state numbers is here a fact about the ends of a text: the fail    *)
(* link of a state is the longest shorter end that is a state too.  Run    *)
(* over a text the automaton is in the longest end that is a state, and so *)
(* finds what a search for each word does.                                 *)
(***************************************************************************)
EXTENDS ShieldScan, SequenceTheorems, FiniteSetTheorems, WellFoundedInduction, TLAPS

Text == Seq(Byte)

\* q is the beginning of s.
Before(q, s) == Len(q) <= Len(s) /\ \A i \in 1..Len(q) : q[i] = s[i]

\* t is the end of s.
Ends(t, s) ==
  Len(t) <= Len(s) /\ \A i \in 1..Len(t) : t[i] = s[Len(s) - Len(t) + i]

------------------------------------------------------------------------------
(* Beginnings and ends of texts. *)

LEMMA TextEqual ==
  ASSUME NEW s \in Text, NEW t \in Text, Len(s) = Len(t),
         \A i \in 1..Len(s) : s[i] = t[i]
  PROVE  s = t
BY DEF Text

LEMMA Appended ==
  ASSUME NEW s \in Text, NEW b \in Byte
  PROVE  /\ Append(s, b) \in Text /\ Append(s, b) # <<>>
         /\ Len(Append(s, b)) = Len(s) + 1
         /\ Append(s, b)[Len(s) + 1] = b
         /\ \A i \in 1..Len(s) : Append(s, b)[i] = s[i]
BY DEF Text

LEMMA LenText ==
  ASSUME NEW s \in Text
  PROVE  /\ Len(s) \in Nat /\ DOMAIN s = 1..Len(s)
         /\ \A i \in 1..Len(s) : s[i] \in Byte
         /\ s = <<>> <=> Len(s) = 0
BY DEF Text

LEMMA NoText == <<>> \in Text /\ Len(<<>>) = 0
BY DEF Text

LEMMA OneByte ==
  ASSUME NEW b \in Byte
  PROVE  LET v == Append(<<>>, b)
         IN  v \in Text /\ v # <<>> /\ Len(v) = 1
<1>1. PICK none \in Text : none = <<>> /\ Len(none) = 0
  BY NoText
<1>2. /\ Append(none, b) \in Text /\ Append(none, b) # <<>>
      /\ Len(Append(none, b)) = Len(none) + 1
  BY Appended
<1> QED
  BY <1>1, <1>2

\* A text that is not empty has a last byte.
LEMMA LastByte ==
  ASSUME NEW s \in Text, s # <<>>
  PROVE  \E t \in Text, b \in Byte : s = Append(t, b)
<1> DEFINE n == Len(s) - 1
           t == SubSeq(s, 1, n)
<1>1. Len(s) \in Nat /\ Len(s) # 0 /\ n \in 0..Len(s) /\ s[n + 1] \in Byte
  BY LenText
<1>2. t \in Text /\ Len(t) = n /\ \A i \in 1..n : t[i] = s[i]
  <2> HIDE DEF n
  <2> QED
    BY <1>1 DEF Text
<1>3. Append(t, s[n + 1]) = s
  <2> DEFINE u == Append(t, s[n + 1])
  <2>1. u \in Text /\ Len(u) = Len(t) + 1 /\ u[Len(t) + 1] = s[n + 1]
        /\ \A i \in 1..Len(t) : u[i] = t[i]
    BY <1>1, <1>2, Appended
  <2> HIDE DEF u, t
  <2>2. Len(u) = Len(s) /\ \A i \in 1..Len(u) : u[i] = s[i]
    BY <1>1, <1>2, <2>1
  <2>3. u = s
    BY <2>1, <2>2, TextEqual
  <2> QED
    BY <2>3 DEF u
<1> QED
  BY <1>1, <1>2, <1>3

LEMMA AppendOne ==
  ASSUME NEW s \in Text, NEW t \in Text, NEW b \in Byte, NEW c \in Byte,
         Append(s, b) = Append(t, c)
  PROVE  s = t /\ b = c
<1>1. Len(s) + 1 = Len(t) + 1 /\ Len(s) \in Nat /\ Len(t) \in Nat
  BY Appended, LenText
<1>2. b = c
  BY <1>1, Appended
<1>3. ASSUME NEW i \in 1..Len(s) PROVE s[i] = t[i]
  <2>1. i \in 1..Len(t)
    BY <1>1
  <2>2. s[i] = Append(s, b)[i]
    BY Appended
  <2>3. t[i] = Append(t, c)[i]
    BY <2>1, Appended
  <2> QED
    BY <2>2, <2>3
<1> QED
  BY <1>1, <1>2, <1>3, TextEqual

LEMMA SuffixesAre ==
  ASSUME NEW s \in Text
  PROVE  Suffixes(s) = {t \in Text : Ends(t, s)}
<1>1. Len(s) \in Nat
  BY LenText
<1>2. ASSUME NEW l \in 1..Len(s)
      PROVE  SubSeq(s, l, Len(s)) \in Text /\ Ends(SubSeq(s, l, Len(s)), s)
  BY <1>1 DEF Text, Ends
<1>3. ASSUME NEW t \in Text, Ends(t, s)
      PROVE  t \in Suffixes(s)
  <2>1. CASE t = <<>>
    BY <2>1 DEF Suffixes
  <2>2. CASE t # <<>>
    <3> DEFINE l == Len(s) - Len(t) + 1
               u == SubSeq(s, l, Len(s))
    <3>1. Len(t) \in Nat /\ Len(t) # 0 /\ Len(t) <= Len(s)
      BY <1>3, <2>2, LenText DEF Ends
    <3>2. l \in 1..Len(s)
      BY <1>1, <3>1
    <3>3. u \in Text /\ Len(u) = Len(t) /\ \A i \in 1..Len(t) : u[i] = s[Len(s) - Len(t) + i]
      BY <1>1, <3>1, <3>2 DEF Text
    <3> HIDE DEF u, l
    <3>4. u = t
      BY <1>3, <3>3, TextEqual DEF Ends
    <3> QED
      BY <3>2, <3>4 DEF u, Suffixes
  <2> QED
    BY <2>1, <2>2
<1>4. <<>> \in Text /\ Ends(<<>>, s)
  BY <1>1, NoText DEF Ends
<1> QED
  BY <1>2, <1>3, <1>4 DEF Suffixes

LEMMA PrefixesAre ==
  ASSUME NEW s \in Text
  PROVE  Prefixes(s) = {t \in Text : Before(t, s)}
<1>1. Len(s) \in Nat
  BY LenText
<1>2. ASSUME NEW l \in 0..Len(s)
      PROVE  SubSeq(s, 1, l) \in Text /\ Before(SubSeq(s, 1, l), s)
  BY <1>1 DEF Text, Before
<1>3. ASSUME NEW t \in Text, Before(t, s)
      PROVE  t \in Prefixes(s)
  <2> DEFINE u == SubSeq(s, 1, Len(t))
  <2>1. Len(t) \in 0..Len(s)
    BY <1>1, <1>3, LenText DEF Before
  <2>2. u \in Text /\ Len(u) = Len(t) /\ \A i \in 1..Len(t) : u[i] = s[i]
    BY <1>1, <2>1 DEF Text
  <2> HIDE DEF u
  <2>3. u = t
    BY <1>3, <2>2, TextEqual DEF Before
  <2> QED
    BY <2>1, <2>3 DEF u, Prefixes
<1> QED
  BY <1>2, <1>3 DEF Prefixes

LEMMA EndsTransitive ==
  ASSUME NEW s \in Text, NEW t \in Text, NEW u \in Text, Ends(s, t), Ends(t, u)
  PROVE  Ends(s, u)
<1>1. Len(s) \in Nat /\ Len(t) \in Nat /\ Len(u) \in Nat
  BY LenText
<1>2. Len(s) <= Len(t) /\ Len(t) <= Len(u)
  BY DEF Ends
<1>3. ASSUME NEW i \in 1..Len(s)
      PROVE  s[i] = u[Len(u) - Len(s) + i]
  <2>1. Len(t) - Len(s) + i \in 1..Len(t)
    BY <1>1, <1>2
  <2>2. s[i] = t[Len(t) - Len(s) + i]
    BY DEF Ends
  <2>3. t[Len(t) - Len(s) + i] = u[Len(u) - Len(t) + (Len(t) - Len(s) + i)]
    BY <2>1 DEF Ends
  <2>4. Len(u) - Len(t) + (Len(t) - Len(s) + i) = Len(u) - Len(s) + i
    BY <1>1
  <2> QED
    BY <2>2, <2>3, <2>4
<1> QED
  BY <1>1, <1>2, <1>3 DEF Ends

\* Of two ends of a text the shorter is an end of the longer.
LEMMA EndsOfOne ==
  ASSUME NEW s \in Text, NEW t \in Text, NEW u \in Text, Ends(s, u), Ends(t, u),
         Len(s) <= Len(t)
  PROVE  Ends(s, t) /\ (Len(s) = Len(t) => s = t)
<1>1. Len(s) \in Nat /\ Len(t) \in Nat /\ Len(u) \in Nat
  BY LenText
<1>2. Len(t) <= Len(u)
  BY DEF Ends
<1>3. ASSUME NEW i \in 1..Len(s)
      PROVE  s[i] = t[Len(t) - Len(s) + i]
  <2>1. Len(t) - Len(s) + i \in 1..Len(t)
    BY <1>1
  <2>2. s[i] = u[Len(u) - Len(s) + i]
    BY DEF Ends
  <2>3. t[Len(t) - Len(s) + i] = u[Len(u) - Len(t) + (Len(t) - Len(s) + i)]
    BY <2>1 DEF Ends
  <2>4. Len(u) - Len(t) + (Len(t) - Len(s) + i) = Len(u) - Len(s) + i
    BY <1>1
  <2> QED
    BY <2>2, <2>3, <2>4
<1>4. Ends(s, t)
  BY <1>3 DEF Ends
<1>5. ASSUME Len(s) = Len(t) PROVE s = t
  <2>1. \A i \in 1..Len(s) : s[i] = t[i]
    <3> TAKE i \in 1..Len(s)
    <3>1. Len(t) - Len(s) + i = i
      BY <1>1, <1>5
    <3> QED
      BY <1>3, <3>1
  <2> QED
    BY <1>5, <2>1, TextEqual
<1> QED
  BY <1>4, <1>5

LEMMA EndsAppended ==
  ASSUME NEW s \in Text, NEW t \in Text, NEW b \in Byte, NEW c \in Byte
  PROVE  Ends(Append(t, b), Append(s, c)) <=> Ends(t, s) /\ b = c
<1> DEFINE u == Append(t, b)
           v == Append(s, c)
<1>1. Len(s) \in Nat /\ Len(t) \in Nat
  BY LenText
<1>2. /\ Len(u) = Len(t) + 1 /\ u[Len(t) + 1] = b
      /\ \A i \in 1..Len(t) : u[i] = t[i]
  BY Appended
<1>3. /\ Len(v) = Len(s) + 1 /\ v[Len(s) + 1] = c
      /\ \A i \in 1..Len(s) : v[i] = s[i]
  BY Appended
<1> HIDE DEF u, v
<1>4. ASSUME Ends(u, v) PROVE Ends(t, s) /\ b = c
  <2>1. Len(t) <= Len(s)
    BY <1>1, <1>2, <1>3, <1>4 DEF Ends
  <2>2. u[Len(t) + 1] = v[Len(s) + 1]
    <3>1. Len(t) + 1 \in 1..Len(u) /\ Len(v) - Len(u) + (Len(t) + 1) = Len(s) + 1
      BY <1>1, <1>2, <1>3
    <3> QED
      BY <1>4, <3>1 DEF Ends
  <2>3. ASSUME NEW i \in 1..Len(t) PROVE t[i] = s[Len(s) - Len(t) + i]
    <3>1. i \in 1..Len(u) /\ Len(v) - Len(u) + i = Len(s) - Len(t) + i
      BY <1>1, <1>2, <1>3
    <3>2. Len(s) - Len(t) + i \in 1..Len(s)
      BY <1>1, <2>1
    <3> QED
      BY <1>2, <1>3, <1>4, <3>1, <3>2 DEF Ends
  <2> QED
    BY <1>2, <1>3, <2>1, <2>2, <2>3 DEF Ends
<1>5. ASSUME Ends(t, s), b = c PROVE Ends(u, v)
  <2>1. Len(t) <= Len(s)
    BY <1>5 DEF Ends
  <2>2. ASSUME NEW i \in 1..Len(u) PROVE u[i] = v[Len(v) - Len(u) + i]
    <3>1. Len(v) - Len(u) + i = Len(s) - Len(t) + i
      BY <1>1, <1>2, <1>3
    <3>2. CASE i = Len(t) + 1
      <4>1. Len(s) - Len(t) + i = Len(s) + 1
        BY <1>1, <3>2
      <4> QED
        BY <1>2, <1>3, <1>5, <3>1, <3>2, <4>1
    <3>3. CASE i # Len(t) + 1
      <4>1. i \in 1..Len(t) /\ Len(s) - Len(t) + i \in 1..Len(s)
        BY <1>1, <1>2, <2>1, <3>3
      <4> QED
        BY <1>2, <1>3, <1>5, <3>1, <4>1 DEF Ends
    <3> QED
      BY <3>2, <3>3
  <2> QED
    BY <1>1, <1>2, <1>3, <2>1, <2>2 DEF Ends
<1> QED
  BY <1>4, <1>5 DEF u, v

LEMMA EndsItself ==
  ASSUME NEW s \in Text
  PROVE  Ends(s, s) /\ Ends(<<>>, s) /\ Before(s, s) /\ Before(<<>>, s)
<1>1. Len(s) \in Nat /\ Len(<<>>) = 0
  BY LenText, NoText
<1>2. \A i \in 1..Len(s) : Len(s) - Len(s) + i = i
  BY <1>1
<1> QED
  BY <1>1, <1>2 DEF Ends, Before

LEMMA BeforeTransitive ==
  ASSUME NEW s \in Text, NEW t \in Text, NEW u \in Text, Before(s, t), Before(t, u)
  PROVE  Before(s, u)
<1>1. Len(s) \in Nat /\ Len(t) \in Nat /\ Len(u) \in Nat
  BY LenText
<1> QED
  BY <1>1 DEF Before

LEMMA BeforeEqual ==
  ASSUME NEW s \in Text, NEW t \in Text, Before(s, t), Len(t) <= Len(s)
  PROVE  s = t
<1>1. Len(s) \in Nat /\ Len(t) \in Nat
  BY LenText
<1>2. Len(s) = Len(t) /\ \A i \in 1..Len(s) : s[i] = t[i]
  BY <1>1 DEF Before
<1> QED
  BY <1>2, TextEqual

\* What begins a text begins what it is prolonged to, or is that.
LEMMA BeforeAppended ==
  ASSUME NEW s \in Text, NEW t \in Text, NEW b \in Byte
  PROVE  Before(t, Append(s, b)) <=> Before(t, s) \/ t = Append(s, b)
<1> DEFINE u == Append(s, b)
<1>1. Len(s) \in Nat /\ Len(t) \in Nat
  BY LenText
<1>2. /\ u \in Text /\ Len(u) = Len(s) + 1
      /\ \A i \in 1..Len(s) : u[i] = s[i]
  BY Appended
<1> HIDE DEF u
<1>3. ASSUME Before(t, u), Len(t) <= Len(s) PROVE Before(t, s)
  BY <1>1, <1>2, <1>3 DEF Before
<1>4. ASSUME Before(t, u), ~(Len(t) <= Len(s)) PROVE t = u
  <2>1. Len(u) <= Len(t)
    BY <1>1, <1>2, <1>4
  <2> QED
    BY <1>2, <1>4, <2>1, BeforeEqual
<1>5. ASSUME Before(t, s) PROVE Before(t, u)
  BY <1>1, <1>2, <1>5 DEF Before
<1>6. Before(u, u)
  BY <1>2, EndsItself
<1> QED
  BY <1>3, <1>4, <1>5, <1>6 DEF u

\* A proper beginning goes on with some byte.
LEMMA BeforeGoesOn ==
  ASSUME NEW s \in Text, NEW x \in Text, Before(s, x), s # x
  PROVE  \E b \in Byte : Before(Append(s, b), x)
<1>1. Len(s) \in Nat /\ Len(x) \in Nat
  BY LenText
<1>2. Len(s) < Len(x)
  BY <1>1, BeforeEqual DEF Before
<1>3. Len(s) + 1 \in 1..Len(x) /\ x[Len(s) + 1] \in Byte
  BY <1>1, <1>2, LenText
<1> DEFINE b == x[Len(s) + 1]
           u == Append(s, b)
<1>4. /\ Len(u) = Len(s) + 1 /\ u[Len(s) + 1] = b
      /\ \A i \in 1..Len(s) : u[i] = s[i]
  BY <1>3, Appended
<1> HIDE DEF u
<1>5. Before(u, x)
  <2>1. ASSUME NEW i \in 1..Len(u) PROVE u[i] = x[i]
    <3>1. CASE i = Len(s) + 1
      BY <1>4, <3>1
    <3>2. CASE i # Len(s) + 1
      <4>1. i \in 1..Len(s)
        BY <1>1, <1>4, <3>2
      <4> QED
        BY <1>4, <4>1 DEF Before
    <3> QED
      BY <3>1, <3>2
  <2> QED
    BY <1>1, <1>2, <1>4, <2>1 DEF Before
<1> QED
  BY <1>3, <1>5 DEF u

------------------------------------------------------------------------------
(* The longest end of a text that is in a set. *)

\* Of the numbers for which something fails there is a least.
LEMMA LeastBad ==
  ASSUME NEW Bad \in SUBSET Nat, Bad # {}
  PROVE  \E m \in Bad : \A k \in Nat : k < m => k \notin Bad
<1> DEFINE R == {ss \in Nat \X Nat : ss[1] < ss[2]}
<1>1. IsWellFoundedOn(R, Nat)
  BY NatLessThanWellFounded DEF OpToRel
<1>2. \A j, k \in Nat : j < k => <<j, k>> \in R
  OBVIOUS
<1> HIDE DEF R
<1>3. PICK m \in Bad : \A k \in Bad : ~(<<k, m>> \in R)
  BY <1>1, WFMin, Zenon
<1> QED
  BY <1>2, <1>3

LEMMA LongestExists ==
  ASSUME NEW x \in Text, NEW E, E # {}, \A t \in E : t \in Text /\ Ends(t, x)
  PROVE  /\ Longest(E) \in E
         /\ \A t \in E : Len(t) <= Len(Longest(E))
<1>1. Len(x) \in Nat /\ \A t \in E : Len(t) \in Nat /\ Len(x) - Len(t) \in Nat
  <2>1. Len(x) \in Nat
    BY LenText
  <2>2. ASSUME NEW t \in E PROVE Len(t) \in Nat /\ Len(x) - Len(t) \in Nat
    <3>1. Len(t) \in Nat /\ Len(t) <= Len(x)
      BY LenText DEF Ends
    <3> QED
      BY <2>1, <3>1
  <2> QED
    BY <2>1, <2>2
<1> DEFINE Cut == {k \in Nat : \E t \in E : k = Len(x) - Len(t)}
<1>2. Cut \in SUBSET Nat /\ Cut # {}
  BY <1>1
<1>3. PICK k \in Cut : \A j \in Nat : j < k => j \notin Cut
  <2> HIDE DEF Cut
  <2> QED
    BY <1>2, LeastBad
<1>4. PICK m \in E : k = Len(x) - Len(m)
  OBVIOUS
<1>5. ASSUME NEW t \in E PROVE Len(t) <= Len(m)
  <2>1. Len(x) - Len(t) \in Cut /\ Len(x) - Len(t) \in Nat /\ k \in Nat
    BY <1>1
  <2>2. ~(Len(x) - Len(t) < k)
    <3> HIDE DEF Cut
    <3> QED
      BY <1>3, <2>1
  <2> QED
    BY <1>1, <1>4, <2>1, <2>2
<1> QED
  BY <1>4, <1>5 DEF Longest

LEMMA LongestIs ==
  ASSUME NEW x \in Text, NEW E, \A t \in E : t \in Text /\ Ends(t, x),
         NEW m \in E, \A t \in E : Len(t) <= Len(m)
  PROVE  Longest(E) = m
<1> DEFINE l == Longest(E)
<1>1. l \in E /\ \A t \in E : Len(t) <= Len(l)
  BY LongestExists
<1> HIDE DEF l
<1>2. Len(l) <= Len(m) /\ Len(m) <= Len(l) /\ Len(l) \in Nat /\ Len(m) \in Nat
  BY <1>1, LenText
<1>3. Len(l) = Len(m)
  BY <1>2
<1>4. l = m
  BY <1>1, <1>3, <1>2, EndsOfOne
<1> QED
  BY <1>4 DEF l

\* A set of texts with all their beginnings, the empty one among them.
Closed(S) ==
  /\ S \subseteq Text /\ <<>> \in S
  /\ \A x \in S, t \in Text : Before(t, x) => t \in S

\* The longest proper end that is in S: where a fail link leads.
Shorter(S, x) == Longest((Suffixes(x) \ {x}) \cap S)

\* The longest end of x and one more byte: where a finished automaton goes.
Go(S, x, b) == Longest(Suffixes(Append(x, b)) \cap S)

LEMMA ShorterIs ==
  ASSUME NEW S, Closed(S), NEW x \in Text, x # <<>>
  PROVE  /\ Shorter(S, x) \in S /\ Shorter(S, x) \in Text
         /\ Ends(Shorter(S, x), x) /\ Len(Shorter(S, x)) < Len(x)
         /\ \A t \in S : Ends(t, x) /\ t # x => Len(t) <= Len(Shorter(S, x))
<1> DEFINE E == (Suffixes(x) \ {x}) \cap S
<1>1. \A t : t \in E <=> t \in S /\ t \in Text /\ Ends(t, x) /\ t # x
  BY SuffixesAre
<1>2. <<>> \in E
  BY <1>1, NoText, EndsItself DEF Closed
<1> HIDE DEF E
<1>3. Longest(E) \in E /\ \A t \in E : Len(t) <= Len(Longest(E))
  BY <1>1, <1>2, LongestExists
<1> DEFINE l == Longest(E)
<1>4. l \in S /\ l \in Text /\ Ends(l, x) /\ l # x
  BY <1>1, <1>3
<1>5. Len(l) < Len(x)
  <2> HIDE DEF l
  <2>1. Len(l) \in Nat /\ Len(x) \in Nat /\ Len(l) <= Len(x)
    BY <1>4, LenText DEF Ends
  <2>2. Len(l) # Len(x)
    BY <1>4, <2>1, EndsOfOne, EndsItself
  <2> QED
    BY <2>1, <2>2
<1>6. \A t \in S : Ends(t, x) /\ t # x => Len(t) <= Len(l)
  BY <1>1, <1>3 DEF Closed
<1>7. Shorter(S, x) = l
  BY DEF Shorter, E
<1> QED
  BY <1>4, <1>5, <1>6, <1>7

LEMMA GoIs ==
  ASSUME NEW S, Closed(S), NEW x \in Text, NEW b \in Byte
  PROVE  /\ Go(S, x, b) \in S /\ Go(S, x, b) \in Text
         /\ Ends(Go(S, x, b), Append(x, b))
         /\ \A t \in S : Ends(t, Append(x, b)) => Len(t) <= Len(Go(S, x, b))
<1> DEFINE v == Append(x, b)
           E == Suffixes(v) \cap S
<1>0. v \in Text
  BY Appended
<1>1. \A t : t \in E <=> t \in S /\ t \in Text /\ Ends(t, v)
  <2> HIDE DEF v
  <2> QED
    BY <1>0, SuffixesAre
<1>2. <<>> \in E
  <2> HIDE DEF v
  <2> QED
    BY <1>0, <1>1, NoText, EndsItself DEF Closed
<1> HIDE DEF E
<1>3. Longest(E) \in E /\ \A t \in E : Len(t) <= Len(Longest(E))
  <2> HIDE DEF v
  <2> QED
    BY <1>0, <1>1, <1>2, LongestExists
<1>4. Go(S, x, b) = Longest(E)
  BY DEF Go, E
<1> QED
  BY <1>1, <1>3, <1>4 DEF Closed

\* Where a finished automaton goes is the only such state.
LEMMA GoOnly ==
  ASSUME NEW S, Closed(S), NEW x \in Text, NEW b \in Byte,
         NEW m \in S, Ends(m, Append(x, b)),
         \A t \in S : Ends(t, Append(x, b)) => Len(t) <= Len(m)
  PROVE  Go(S, x, b) = m
<1> DEFINE g == Go(S, x, b)
           v == Append(x, b)
<1>1. v \in Text
  BY Appended
<1>2. /\ g \in S /\ Ends(g, v)
      /\ \A t \in S : Ends(t, v) => Len(t) <= Len(g)
  BY GoIs
<1> HIDE DEF g
<1>3. m \in Text /\ g \in Text
  BY <1>2 DEF Closed
<1>4. Len(g) <= Len(m) /\ Len(m) <= Len(g) /\ Len(g) \in Nat /\ Len(m) \in Nat
  BY <1>2, <1>3, LenText
<1>5. Len(g) = Len(m)
  BY <1>4
<1> HIDE DEF v
<1>6. Ends(m, v)
  BY DEF v
<1>7. g = m
  BY <1>1, <1>2, <1>3, <1>4, <1>5, <1>6, EndsOfOne
<1> QED
  BY <1>7 DEF g

\* A transition of the trie stays.
LEMMA GoForward ==
  ASSUME NEW S, Closed(S), NEW x \in Text, NEW b \in Byte, Append(x, b) \in S
  PROVE  Go(S, x, b) = Append(x, b)
<1> DEFINE v == Append(x, b)
<1>1. v \in Text
  BY Appended
<1>2. Ends(v, v) /\ \A t \in S : Ends(t, v) => Len(t) <= Len(v)
  <2> HIDE DEF v
  <2> QED
    BY <1>1, EndsItself DEF Ends
<1> QED
  BY <1>2, GoOnly

\* From the root nothing else is reached.
LEMMA GoRoot ==
  ASSUME NEW S, Closed(S), NEW b \in Byte, Append(<<>>, b) \notin S
  PROVE  Go(S, <<>>, b) = <<>>
<1> DEFINE v == Append(<<>>, b)
           g == Go(S, <<>>, b)
<1>1. v \in Text /\ Len(v) = 1
  BY OneByte
<1>2. g \in S /\ g \in Text /\ Ends(g, v)
  BY NoText, GoIs
<1> HIDE DEF g, v
<1>3. Len(g) \in Nat /\ Len(g) <= 1
  BY <1>1, <1>2, LenText DEF Ends
<1>4. g # v
  BY <1>2 DEF v
<1>5. Len(g) # 1
  BY <1>1, <1>2, <1>3, <1>4, EndsOfOne, EndsItself
<1>6. g = <<>>
  <2>1. Len(g) = 0
    BY <1>3, <1>5
  <2> QED
    BY <1>2, <2>1, LenText
<1> QED
  BY <1>6 DEF g

\* The proper ends of x and one more byte are the ends of what x fails to and
\* that byte: this is why one fail link is enough.
LEMMA ProperEnds ==
  ASSUME NEW S, Closed(S), NEW x \in Text, x # <<>>, NEW b \in Byte, NEW t \in S
  PROVE  Ends(t, Append(x, b)) /\ t # Append(x, b)
           <=> Ends(t, Append(Shorter(S, x), b))
<1> DEFINE l == Shorter(S, x)
           u == Append(l, b)
           v == Append(x, b)
<1>1. /\ l \in S /\ l \in Text /\ Ends(l, x) /\ Len(l) < Len(x)
      /\ \A y \in S : Ends(y, x) /\ y # x => Len(y) <= Len(l)
  BY ShorterIs
<1> HIDE DEF l
<1>2. u \in Text /\ v \in Text /\ Len(u) = Len(l) + 1 /\ Len(v) = Len(x) + 1
  BY <1>1, Appended
<1>3. Ends(u, v)
  BY <1>1, EndsAppended
<1>4. t \in Text /\ Len(l) \in Nat /\ Len(x) \in Nat
  BY <1>1, LenText DEF Closed
<1>5. ASSUME Ends(t, u) PROVE Ends(t, v) /\ t # v
  <2> HIDE DEF u, v
  <2>1. Ends(t, v)
    BY <1>2, <1>3, <1>4, <1>5, EndsTransitive
  <2>2. Len(t) <= Len(u)
    BY <1>5 DEF Ends
  <2>3. Len(u) < Len(v)
    BY <1>1, <1>2, <1>4
  <2> QED
    BY <1>2, <1>4, <2>1, <2>2, <2>3
<1>6. ASSUME Ends(t, v), t # v PROVE Ends(t, u)
  <2>1. CASE t = <<>>
    <3> HIDE DEF u
    <3> QED
      BY <1>2, <2>1, EndsItself
  <2>2. CASE t # <<>>
    <3>1. PICK y \in Text, c \in Byte : t = Append(y, c)
      BY <1>4, <2>2, LastByte
    <3>2. Ends(y, x) /\ c = b
      BY <1>6, <3>1, EndsAppended
    <3>3. y # x
      BY <1>6, <3>1, <3>2
    <3>4. y \in S
      BY <3>1, BeforeAppended, EndsItself DEF Closed
    <3>5. Len(y) <= Len(l)
      BY <1>1, <3>2, <3>3, <3>4
    <3>6. Ends(y, l)
      BY <1>1, <3>2, <3>5, EndsOfOne
    <3> QED
      BY <1>1, <3>1, <3>2, <3>6, EndsAppended
  <2> QED
    BY <2>1, <2>2
<1>7. Ends(t, v) /\ t # v <=> Ends(t, u)
  BY <1>5, <1>6
<1> QED
  BY <1>7 DEF l, u, v

\* Where the trie has no transition, the automaton goes where the fail state does.
LEMMA GoBack ==
  ASSUME NEW S, Closed(S), NEW x \in Text, x # <<>>, NEW b \in Byte, Append(x, b) \notin S
  PROVE  Go(S, x, b) = Go(S, Shorter(S, x), b)
<1> DEFINE l == Shorter(S, x)
           g == Go(S, l, b)
<1>1. l \in Text
  BY ShorterIs
<1>2. /\ g \in S /\ Ends(g, Append(l, b))
      /\ \A t \in S : Ends(t, Append(l, b)) => Len(t) <= Len(g)
  <2> HIDE DEF l
  <2> QED
    BY <1>1, GoIs
<1>3. \A t \in S : Ends(t, Append(x, b)) <=> Ends(t, Append(l, b))
  BY ProperEnds
<1> HIDE DEF l, g
<1>4. Ends(g, Append(x, b)) /\ \A t \in S : Ends(t, Append(x, b)) => Len(t) <= Len(g)
  BY <1>2, <1>3
<1>5. Go(S, x, b) = g
  BY <1>2, <1>4, GoOnly
<1> QED
  BY <1>5 DEF g, l

\* The fail link of a target is where the fail state goes with the same byte.
LEMMA ShorterOfTarget ==
  ASSUME NEW S, Closed(S), NEW x \in Text, x # <<>>, NEW b \in Byte
  PROVE  Shorter(S, Append(x, b)) = Go(S, Shorter(S, x), b)
<1> DEFINE l == Shorter(S, x)
           g == Go(S, l, b)
           v == Append(x, b)
           E == (Suffixes(v) \ {v}) \cap S
<1>1. l \in Text
  BY ShorterIs
<1>2. /\ g \in S /\ Ends(g, Append(l, b))
      /\ \A t \in S : Ends(t, Append(l, b)) => Len(t) <= Len(g)
  <2> HIDE DEF l
  <2> QED
    BY <1>1, GoIs
<1>3. \A t \in S : Ends(t, v) /\ t # v <=> Ends(t, Append(l, b))
  BY ProperEnds
<1>4. v \in Text
  BY Appended
<1>5. \A t : t \in E <=> t \in S /\ t \in Text /\ Ends(t, v) /\ t # v
  <2> HIDE DEF v
  <2> QED
    BY <1>4, SuffixesAre
<1>6. S \subseteq Text
  BY DEF Closed
<1>7. Shorter(S, v) = Longest(E)
  BY DEF Shorter
<1> HIDE DEF E, v, g, l
<1>8. g \in E /\ \A t \in E : Len(t) <= Len(g)
  BY <1>2, <1>3, <1>5, <1>6
<1>9. Longest(E) = g
  BY <1>4, <1>5, <1>8, LongestIs
<1> QED
  BY <1>7, <1>9 DEF v, g, l

LEMMA ShorterOfByte ==
  ASSUME NEW S, Closed(S), NEW b \in Byte
  PROVE  Shorter(S, Append(<<>>, b)) = <<>>
<1> DEFINE v == Append(<<>>, b)
           l == Shorter(S, v)
<1>1. v \in Text /\ v # <<>> /\ Len(v) = 1
  BY OneByte
<1>2. l \in Text /\ Len(l) < Len(v)
  <2> HIDE DEF v
  <2> QED
    BY <1>1, ShorterIs
<1> HIDE DEF l, v
<1>3. Len(l) = 0
  BY <1>1, <1>2, LenText
<1>4. l = <<>>
  BY <1>2, <1>3, LenText
<1> QED
  BY <1>4 DEF l, v

\* A word ends where x does if it is x, or ends where what x fails to does.
LEMMA EndsByFail ==
  ASSUME NEW S, Closed(S), NEW x \in Text, x # <<>>, NEW w \in S
  PROVE  Ends(w, x) <=> w = x \/ Ends(w, Shorter(S, x))
<1> DEFINE l == Shorter(S, x)
<1>1. /\ l \in S /\ l \in Text /\ Ends(l, x) /\ Len(l) < Len(x)
      /\ \A y \in S : Ends(y, x) /\ y # x => Len(y) <= Len(l)
  BY ShorterIs
<1>2. w \in Text
  BY DEF Closed
<1> HIDE DEF l
<1>3. ASSUME Ends(w, l) PROVE Ends(w, x)
  BY <1>1, <1>2, <1>3, EndsTransitive
<1>4. ASSUME Ends(w, x), w # x PROVE Ends(w, l)
  BY <1>1, <1>2, <1>4, EndsOfOne
<1> QED
  BY <1>3, <1>4, EndsItself DEF l

------------------------------------------------------------------------------
(* The queue: no state in it begins another, and they are in the order of  *)
(* their lengths, which differ by one at most.                             *)

QueueOrder(q, S) ==
  /\ q \in Seq(S \ {<<>>})
  /\ \A i, j \in 1..Len(q) : Before(q[i], q[j]) => i = j
  /\ \A i, j \in 1..Len(q) :
       i < j => Len(q[i]) <= Len(q[j]) /\ Len(q[j]) <= Len(q[i]) + 1

\* A state is not flattened yet if it or a beginning of it is queued; its fail
\* link is set as soon as no proper beginning of it is.
Waiting(q, x) == \E i \in 1..Len(q) : Before(q[i], x)
Linked(q, x) == \A i \in 1..Len(q) : Before(q[i], x) => q[i] = x

\* The states one byte after x, in some order.
IsChildren(S, x, c) ==
  /\ c \in Seq(S \ {<<>>})
  /\ \A i, j \in 1..Len(c) : c[i] = c[j] => i = j
  /\ \A i \in 1..Len(c) : \E b \in Byte : c[i] = Append(x, b)
  /\ \A b \in Byte : Append(x, b) \in S => \E i \in 1..Len(c) : c[i] = Append(x, b)

LEMMA SetToSeqLists ==
  ASSUME NEW E, IsFiniteSet(E)
  PROVE  /\ SetToSeq(E) \in Seq(E)
         /\ \A i, j \in 1..Len(SetToSeq(E)) : SetToSeq(E)[i] = SetToSeq(E)[j] => i = j
         /\ \A e \in E : \E i \in 1..Len(SetToSeq(E)) : SetToSeq(E)[i] = e
<1> DEFINE n == Cardinality(E)
           c == SetToSeq(E)
<1>1. n \in Nat /\ ExistsBijection(1..n, E)
  BY FS_CardinalityType
<1>2. PICK g \in [1..n -> E] : IsInjective(g)
  BY <1>1 DEF ExistsBijection, Bijection, Injection
<1>3. c \in [1..n -> E] /\ IsInjective(c)
  BY <1>2 DEF SetToSeq
<1>4. c \in Injection(1..n, E)
  BY <1>3 DEF Injection
<1>5. IsFiniteSet(1..n) /\ Cardinality(1..n) = n
  BY <1>1, FS_Interval
<1> HIDE DEF c
<1>6. c \in Surjection(1..n, E)
  BY <1>4, <1>5, FS_Injection
<1>7. c \in Seq(E) /\ Len(c) = n /\ DOMAIN c = 1..n
  BY <1>1, <1>3
<1>8. \A i, j \in 1..Len(c) : c[i] = c[j] => i = j
  BY <1>3, <1>7 DEF IsInjective
<1>9. \A e \in E : \E i \in 1..Len(c) : c[i] = e
  BY <1>6, <1>7 DEF Surjection
<1> QED
  BY <1>7, <1>8, <1>9 DEF c

LEMMA ChildrenAre ==
  ASSUME NEW S, Closed(S), NEW x \in Text, NEW a,
         \A b \in Byte : a.next[x][b] = IF Append(x, b) \in S THEN Append(x, b) ELSE <<>>
  PROVE  IsChildren(S, x, Children(a, x))
<1> DEFINE all == {a.next[x][b] : b \in Byte}
           E == all \ {<<>>}
           c == SetToSeq(E)
<1>1. IsFiniteSet(E)
  <2> DEFINE im == [b \in Byte |-> a.next[x][b]]
  <2>1. im \in Surjection(Byte, all)
    BY DEF Surjection
  <2> HIDE DEF im, all
  <2>2. IsFiniteSet(all)
    BY <2>1, ByteAssumption, FS_Surjection
  <2> QED
    BY <2>2, FS_Subset
<1>2. \A b \in Byte : Append(x, b) # <<>>
  BY Appended
<1>3. ASSUME NEW e \in E PROVE e \in S \ {<<>>} /\ \E b \in Byte : e = Append(x, b)
  BY <1>2
<1>4. ASSUME NEW b \in Byte, Append(x, b) \in S PROVE Append(x, b) \in E
  BY <1>2, <1>4
<1>5. Children(a, x) = c
  BY DEF Children
<1> HIDE DEF E
<1>6. /\ c \in Seq(E)
      /\ \A i, j \in 1..Len(c) : c[i] = c[j] => i = j
      /\ \A e \in E : \E i \in 1..Len(c) : c[i] = e
  BY <1>1, SetToSeqLists
<1> HIDE DEF c
<1>7. \A i \in 1..Len(c) : c[i] \in E
  BY <1>6
<1>8. c \in Seq(S \ {<<>>})
  <2>1. E \subseteq S \ {<<>>}
    BY <1>3
  <2> QED
    BY <1>6, <2>1
<1> QED
  BY <1>3, <1>4, <1>5, <1>6, <1>7, <1>8 DEF IsChildren

\* The queue after its head has made way for the head's targets.
LEMMA Advanced ==
  ASSUME NEW T, NEW q \in Seq(T), q # <<>>, NEW c \in Seq(T)
  PROVE  LET n == Tail(q) \o c
         IN  /\ n \in Seq(T) /\ Len(n) = Len(q) - 1 + Len(c)
             /\ \A j \in 1..(Len(q) - 1) : n[j] = q[j + 1]
             /\ \A j \in 1..Len(c) : n[Len(q) - 1 + j] = c[j]
<1>1. Len(q) \in Nat /\ Len(q) # 0 /\ Len(c) \in Nat
  BY EmptySeq, LenProperties
<1> DEFINE r == Tail(q)
<1>2. r \in Seq(T) /\ Len(r) = Len(q) - 1 /\ \A j \in 1..(Len(q) - 1) : r[j] = q[j + 1]
  BY <1>1, HeadTailProperties
<1> HIDE DEF r
<1> DEFINE n == r \o c
<1>3. n \in Seq(T) /\ Len(n) = Len(r) + Len(c)
  BY <1>2, ConcatProperties
<1>4. \A j \in 1..(Len(r) + Len(c)) : n[j] = IF j <= Len(r) THEN r[j] ELSE c[j - Len(r)]
  BY <1>2, ConcatProperties
<1> HIDE DEF n
<1>5. \A j \in 1..Len(r) : n[j] = r[j]
  BY <1>1, <1>2, <1>4
<1>6. ASSUME NEW j \in 1..Len(c) PROVE n[Len(r) + j] = c[j]
  <2>1. /\ Len(r) + j \in 1..(Len(r) + Len(c)) /\ ~(Len(r) + j <= Len(r))
        /\ Len(r) + j - Len(r) = j
    BY <1>1, <1>2
  <2> QED
    BY <1>4, <2>1
<1> QED
  BY <1>2, <1>3, <1>5, <1>6 DEF n, r
\* What stands in the queue then: the old entries but the head, and its targets.
Entries(q, c, n) ==
  /\ \A j \in 1..Len(n) : \/ \E i \in 2..Len(q) : n[j] = q[i]
                          \/ \E i \in 1..Len(c) : n[j] = c[i]
  /\ \A i \in 2..Len(q) : \E j \in 1..Len(n) : n[j] = q[i]
  /\ \A i \in 1..Len(c) : \E j \in 1..Len(n) : n[j] = c[i]

LEMMA AdvancedEntries ==
  ASSUME NEW T, NEW q \in Seq(T), q # <<>>, NEW c \in Seq(T)
  PROVE  Entries(q, c, Tail(q) \o c)
<1> DEFINE n == Tail(q) \o c
<1>1. /\ n \in Seq(T) /\ Len(n) = Len(q) - 1 + Len(c)
      /\ \A j \in 1..(Len(q) - 1) : n[j] = q[j + 1]
      /\ \A j \in 1..Len(c) : n[Len(q) - 1 + j] = c[j]
  BY Advanced
<1>2. Len(q) \in Nat /\ Len(q) # 0 /\ Len(c) \in Nat
  BY EmptySeq, LenProperties
<1> HIDE DEF n
<1>3. ASSUME NEW j \in 1..Len(n)
      PROVE  \/ \E i \in 2..Len(q) : n[j] = q[i]
             \/ \E i \in 1..Len(c) : n[j] = c[i]
  <2>1. CASE j <= Len(q) - 1
    BY <1>1, <1>2, <2>1
  <2>2. CASE ~(j <= Len(q) - 1)
    <3> DEFINE i == j - (Len(q) - 1)
    <3>1. i \in 1..Len(c) /\ Len(q) - 1 + i = j
      BY <1>1, <1>2, <2>2
    <3>2. n[Len(q) - 1 + i] = c[i]
      <4> HIDE DEF i
      <4> QED
        BY <1>1, <3>1
    <3> QED
      BY <3>1, <3>2
  <2> QED
    BY <2>1, <2>2
<1>4. ASSUME NEW i \in 2..Len(q) PROVE \E j \in 1..Len(n) : n[j] = q[i]
  <2>1. i - 1 \in 1..(Len(q) - 1) /\ i - 1 \in 1..Len(n) /\ (i - 1) + 1 = i
    BY <1>1, <1>2
  <2>2. n[i - 1] = q[(i - 1) + 1]
    BY <1>1, <2>1
  <2> QED
    BY <2>1, <2>2
<1>5. ASSUME NEW i \in 1..Len(c) PROVE \E j \in 1..Len(n) : n[j] = c[i]
  <2>1. Len(q) - 1 + i \in 1..Len(n)
    BY <1>1, <1>2
  <2> QED
    BY <1>1, <2>1
<1> QED
  BY <1>3, <1>4, <1>5 DEF n, Entries

\* Facts on the entries of a queue.
LEMMA QueueEntries ==
  ASSUME NEW S, Closed(S), NEW q, QueueOrder(q, S)
  PROVE  /\ Len(q) \in Nat
         /\ \A i \in 1..Len(q) : q[i] \in S /\ q[i] \in Text /\ q[i] # <<>> /\ Len(q[i]) \in Nat
<1>1. q \in Seq(S \ {<<>>})
  BY DEF QueueOrder
<1>2. Len(q) \in Nat /\ \A i \in 1..Len(q) : q[i] \in S \ {<<>>}
  BY <1>1, LenProperties, ElementOfSeq
<1>3. \A i \in 1..Len(q) : q[i] \in Text
  BY <1>2 DEF Closed
<1> QED
  BY <1>2, <1>3, LenText

\* The head of a queue, to which the rest compares.
LEMMA HeadLeads ==
  ASSUME NEW S, Closed(S), NEW q, QueueOrder(q, S), q # <<>>
  PROVE  /\ Head(q) = q[1] /\ 1 \in 1..Len(q)
         /\ \A i \in 1..Len(q) : Len(q[1]) <= Len(q[i]) /\ Len(q[i]) <= Len(q[1]) + 1
         /\ \A i \in 2..Len(q) : ~Before(q[1], q[i]) /\ ~Before(q[i], q[1]) /\ q[i] # q[1]
<1>1. q \in Seq(S \ {<<>>})
  BY DEF QueueOrder
<1>2. Len(q) \in Nat /\ Len(q) # 0 /\ 1 \in 1..Len(q)
  BY <1>1, EmptySeq
<1>3. Head(q) = q[1]
  BY <1>1
<1>4. ASSUME NEW i \in 1..Len(q) PROVE Len(q[1]) <= Len(q[i]) /\ Len(q[i]) <= Len(q[1]) + 1
  <2>1. CASE i = 1
    BY <1>2, <2>1, QueueEntries
  <2>2. CASE i # 1
    <3>1. 1 < i
      BY <2>2
    <3> QED
      BY <1>2, <3>1 DEF QueueOrder
  <2> QED
    BY <2>1, <2>2
<1>5. ASSUME NEW i \in 2..Len(q) PROVE ~Before(q[1], q[i]) /\ ~Before(q[i], q[1]) /\ q[i] # q[1]
  <2>1. i \in 1..Len(q) /\ i # 1
    BY <1>2
  <2>2. Before(q[1], q[1])
    BY <1>2, QueueEntries, EndsItself
  <2> QED
    BY <1>2, <2>1, <2>2 DEF QueueOrder
<1> QED
  BY <1>2, <1>3, <1>4, <1>5

\* Every state shorter than the head is flattened, and as long ones are linked.
LEMMA ShortAreDone ==
  ASSUME NEW S, Closed(S), NEW q, QueueOrder(q, S), q # <<>>, NEW x \in Text
  PROVE  /\ Len(x) < Len(Head(q)) => ~Waiting(q, x)
         /\ Len(x) <= Len(Head(q)) => Linked(q, x)
<1>1. /\ Head(q) = q[1] /\ 1 \in 1..Len(q)
      /\ \A i \in 1..Len(q) : Len(q[1]) <= Len(q[i])
  BY HeadLeads
<1>2. \A i \in 1..Len(q) : q[i] \in Text /\ Len(q[i]) \in Nat
  BY QueueEntries
<1>3. Len(x) \in Nat
  BY LenText
<1>4. ASSUME Len(x) < Len(Head(q)), NEW i \in 1..Len(q), Before(q[i], x)
      PROVE  FALSE
  BY <1>1, <1>2, <1>3, <1>4 DEF Before
<1>5. ASSUME Len(x) <= Len(Head(q)), NEW i \in 1..Len(q), Before(q[i], x)
      PROVE  q[i] = x
  <2>1. Len(x) <= Len(q[i])
    BY <1>1, <1>2, <1>3, <1>5
  <2> QED
    BY <1>2, <1>5, <2>1, BeforeEqual
<1> QED
  BY <1>4, <1>5 DEF Waiting, Linked

\* How the marks of a state change when the head s of a queue makes way.
Marked(q, s, n, x) ==
  /\ Waiting(n, x) <=> Waiting(q, x) /\ x # s
  /\ Linked(n, x) <=> Linked(q, x) \/ \E b \in Byte : x = Append(s, b)
  /\ (\E b \in Byte : x = Append(s, b)) => ~Linked(q, x)
  /\ Waiting(q, s) /\ Linked(q, s)

\* The states that still wait are the same but for the head; the targets of the
\* head are linked from now on, and were not.
LEMMA AdvanceMarks ==
  ASSUME NEW S, Closed(S), NEW q, QueueOrder(q, S), q # <<>>,
         NEW c, IsChildren(S, Head(q), c), NEW x \in S
  PROVE  Marked(q, Head(q), Tail(q) \o c, x)
<1> DEFINE n == Tail(q) \o c
           s == q[1]
<1>0. x \in Text
  BY DEF Closed
<1>1. /\ Head(q) = s /\ 1 \in 1..Len(q)
      /\ \A i \in 2..Len(q) : ~Before(s, q[i]) /\ ~Before(q[i], s) /\ q[i] # s
  BY HeadLeads
<1>2. /\ s \in S /\ s \in Text /\ Len(q) \in Nat
      /\ \A i \in 1..Len(q) : q[i] \in Text
  BY <1>1, QueueEntries
<1>3. /\ \A j \in 1..Len(n) : \/ \E i \in 2..Len(q) : n[j] = q[i]
                              \/ \E i \in 1..Len(c) : n[j] = c[i]
      /\ \A i \in 2..Len(q) : \E j \in 1..Len(n) : n[j] = q[i]
      /\ \A i \in 1..Len(c) : \E j \in 1..Len(n) : n[j] = c[i]
  <2>1. q \in Seq(S \ {<<>>}) /\ c \in Seq(S \ {<<>>})
    BY DEF QueueOrder, IsChildren
  <2>2. Entries(q, c, n)
    BY <2>1, AdvancedEntries
  <2> QED
    BY <2>2 DEF Entries
<1>4. /\ \A i \in 1..Len(c) : \E b \in Byte : c[i] = Append(s, b)
      /\ \A b \in Byte : Append(s, b) \in S => \E i \in 1..Len(c) : c[i] = Append(s, b)
  BY <1>1 DEF IsChildren
<1>5. \A i \in 1..Len(q) : i = 1 \/ i \in 2..Len(q)
  BY <1>2
<1>6. Before(s, s)
  BY <1>2, EndsItself
<1> HIDE DEF n, s
<1>7. Waiting(q, s) /\ Linked(q, s)
  BY <1>1, <1>5, <1>6 DEF Waiting, Linked, s
\* A target begins x.
<1>8. ASSUME NEW b \in Byte, Before(Append(s, b), x)
      PROVE  Before(s, x) /\ x # s
  <2> DEFINE u == Append(s, b)
  <2>1. u \in Text /\ Len(u) = Len(s) + 1 /\ Len(s) \in Nat
    BY <1>2, Appended, LenText
  <2>2. Before(s, u)
    BY <1>2, <1>6, BeforeAppended
  <2> HIDE DEF u
  <2>3. Before(u, x)
    BY <1>8 DEF u
  <2>4. Before(s, x)
    BY <1>0, <1>2, <2>1, <2>2, <2>3, BeforeTransitive
  <2>5. Len(u) <= Len(x)
    BY <2>3 DEF Before
  <2>6. x # s
    BY <2>1, <2>5
  <2> QED
    BY <2>4, <2>6
\* The head begins x and is not x.
<1>9. ASSUME Before(s, x), x # s
      PROVE  \E i \in 1..Len(c) : Before(c[i], x)
  <2>1. PICK b \in Byte : Before(Append(s, b), x)
    BY <1>0, <1>2, <1>9, BeforeGoesOn
  <2>2. Append(s, b) \in S
    BY <1>2, <2>1, Appended DEF Closed
  <2> QED
    BY <1>4, <2>1, <2>2
<1>10. ASSUME Waiting(n, x) PROVE Waiting(q, x) /\ x # s
  <2>1. PICK j \in 1..Len(n) : Before(n[j], x)
    BY <1>10 DEF Waiting
  <2>2. CASE \E i \in 2..Len(q) : n[j] = q[i]
    BY <1>1, <1>2, <2>1, <2>2 DEF Waiting
  <2>3. CASE \E i \in 1..Len(c) : n[j] = c[i]
    <3>1. PICK b \in Byte : n[j] = Append(s, b)
      BY <1>4, <2>3
    <3>2. Before(s, x) /\ x # s
      BY <1>8, <2>1, <3>1
    <3> QED
      BY <1>1, <3>2 DEF Waiting, s
  <2> QED
    BY <1>3, <2>1, <2>2, <2>3
<1>11. ASSUME Waiting(q, x), x # s PROVE Waiting(n, x)
  <2>1. PICK i \in 1..Len(q) : Before(q[i], x)
    BY <1>11 DEF Waiting
  <2>2. CASE i = 1
    <3>1. PICK k \in 1..Len(c) : Before(c[k], x)
      BY <1>9, <1>11, <2>1, <2>2 DEF s
    <3> QED
      BY <1>3, <3>1 DEF Waiting
  <2>3. CASE i \in 2..Len(q)
    BY <1>3, <2>1, <2>3 DEF Waiting
  <2> QED
    BY <1>5, <2>2, <2>3
<1>12. ASSUME Linked(q, x) PROVE Linked(n, x)
  <2> SUFFICES ASSUME NEW j \in 1..Len(n), Before(n[j], x) PROVE n[j] = x
    BY DEF Linked
  <2>1. CASE \E i \in 2..Len(q) : n[j] = q[i]
    BY <1>2, <1>12, <2>1 DEF Linked
  <2>2. CASE \E i \in 1..Len(c) : n[j] = c[i]
    <3>1. PICK b \in Byte : n[j] = Append(s, b)
      BY <1>4, <2>2
    <3>2. Before(s, x) /\ x # s
      BY <1>8, <3>1
    <3> QED
      BY <1>1, <1>12, <3>2 DEF Linked, s
  <2> QED
    BY <1>3, <2>1, <2>2
<1>13. ASSUME NEW b \in Byte, x = Append(s, b) PROVE Linked(n, x) /\ ~Linked(q, x)
  <2>1. Before(s, x) /\ x # s
    BY <1>0, <1>8, <1>13, EndsItself
  <2>2. ~Linked(q, x)
    BY <1>1, <2>1 DEF Linked, s
  <2>3. ASSUME NEW j \in 1..Len(n), Before(n[j], x) PROVE n[j] = x
    <3>1. CASE \E i \in 2..Len(q) : n[j] = q[i]
      <4>1. PICK i \in 2..Len(q) : n[j] = q[i]
        BY <3>1
      <4>2. q[i] \in Text /\ ~Before(q[i], s)
        BY <1>1, <1>2
      <4> QED
        BY <1>2, <1>13, <2>3, <4>1, <4>2, BeforeAppended
    <3>2. CASE \E i \in 1..Len(c) : n[j] = c[i]
      <4>1. PICK d \in Byte : n[j] = Append(s, d)
        BY <1>4, <3>2
      <4>2. /\ Append(s, d) \in Text /\ Len(Append(s, d)) = Len(s) + 1
            /\ Len(x) = Len(s) + 1 /\ Len(s) \in Nat
        BY <1>2, <1>13, Appended, LenText
      <4>3. n[j] \in Text /\ Len(x) <= Len(n[j]) /\ Before(n[j], x)
        BY <2>3, <4>1, <4>2
      <4> QED
        BY <1>0, <4>3, BeforeEqual
    <3> QED
      BY <1>3, <3>1, <3>2
  <2> QED
    BY <2>2, <2>3 DEF Linked
<1>14. ASSUME Linked(n, x), ~\E b \in Byte : x = Append(s, b) PROVE Linked(q, x)
  <2> SUFFICES ASSUME NEW i \in 1..Len(q), Before(q[i], x) PROVE q[i] = x
    BY DEF Linked
  <2>1. CASE i \in 2..Len(q)
    BY <1>3, <1>14, <2>1 DEF Linked
  <2>2. CASE i = 1
    <3>1. ASSUME x # s PROVE FALSE
      <4>1. PICK k \in 1..Len(c) : Before(c[k], x)
        BY <1>9, <2>2, <3>1 DEF s
      <4>2. c[k] = x
        BY <1>3, <1>14, <4>1 DEF Linked
      <4> QED
        BY <1>4, <1>14, <4>2
    <3> QED
      BY <2>2, <3>1 DEF s
  <2> QED
    BY <1>5, <2>1, <2>2
<1>15. /\ Waiting(n, x) <=> Waiting(q, x) /\ x # s
       /\ Linked(n, x) <=> Linked(q, x) \/ \E b \in Byte : x = Append(s, b)
       /\ (\E b \in Byte : x = Append(s, b)) => ~Linked(q, x)
  BY <1>10, <1>11, <1>12, <1>13, <1>14
<1> QED
  BY <1>1, <1>7, <1>15 DEF n, Marked

\* The queue keeps its order.
LEMMA AdvanceKeepsOrder ==
  ASSUME NEW S, Closed(S), NEW q, QueueOrder(q, S), q # <<>>,
         NEW c, IsChildren(S, Head(q), c)
  PROVE  QueueOrder(Tail(q) \o c, S)
<1> DEFINE n == Tail(q) \o c
           s == q[1]
           m == Len(q) - 1
<1>0. q \in Seq(S \ {<<>>}) /\ c \in Seq(S \ {<<>>})
  BY DEF QueueOrder, IsChildren
<1>1. /\ Head(q) = s /\ 1 \in 1..Len(q)
      /\ \A i \in 1..Len(q) : Len(s) <= Len(q[i]) /\ Len(q[i]) <= Len(s) + 1
      /\ \A i \in 2..Len(q) : ~Before(s, q[i]) /\ ~Before(q[i], s) /\ q[i] # s
  BY HeadLeads
<1>2. /\ s \in S /\ s \in Text /\ Len(q) \in Nat /\ Len(s) \in Nat
      /\ \A i \in 1..Len(q) : q[i] \in Text /\ Len(q[i]) \in Nat
  BY <1>1, QueueEntries
<1>3. /\ n \in Seq(S \ {<<>>}) /\ Len(n) = m + Len(c)
      /\ \A j \in 1..m : n[j] = q[j + 1]
      /\ \A j \in 1..Len(c) : n[m + j] = c[j]
  BY <1>0, Advanced
<1>4. /\ \A i \in 1..Len(c) : \E b \in Byte : c[i] = Append(s, b)
      /\ \A i, j \in 1..Len(c) : c[i] = c[j] => i = j
  BY <1>1 DEF IsChildren
<1>5. Len(c) \in Nat /\ m \in Nat
  BY <1>0, <1>1, <1>2, LenProperties
<1>6. ASSUME NEW i \in 1..Len(c)
      PROVE  /\ c[i] \in Text /\ Len(c[i]) = Len(s) + 1 /\ Before(s, c[i])
             /\ \A t \in Text : Before(t, c[i]) => Before(t, s) \/ t = c[i]
  <2>1. PICK b \in Byte : c[i] = Append(s, b)
    BY <1>4
  <2> HIDE DEF s
  <2> QED
    BY <1>2, <2>1, Appended, BeforeAppended, EndsItself
<1>7. \A j \in 1..m : j + 1 \in 2..Len(q) /\ j + 1 \in 1..Len(q)
  BY <1>2, <1>5
<1>8. \A j \in 1..Len(n) : j \in 1..m \/ \E k \in 1..Len(c) : j = m + k
  <2> SUFFICES ASSUME NEW j \in 1..Len(n), j \notin 1..m
               PROVE  \E k \in 1..Len(c) : j = m + k
    OBVIOUS
  <2>1. j - m \in 1..Len(c) /\ j = m + (j - m)
    <3> HIDE DEF m, n
    <3> QED
      BY <1>3, <1>5
  <2> QED
    BY <2>1
<1> HIDE DEF n, s, m
<1>9. ASSUME NEW i \in 1..m, NEW j \in 1..m
      PROVE  /\ Before(n[i], n[j]) => i = j
             /\ i < j => Len(n[i]) <= Len(n[j]) /\ Len(n[j]) <= Len(n[i]) + 1
  <2>1. n[i] = q[i + 1] /\ n[j] = q[j + 1] /\ i + 1 \in 1..Len(q) /\ j + 1 \in 1..Len(q)
    BY <1>3, <1>7
  <2>2. Before(q[i + 1], q[j + 1]) => i + 1 = j + 1
    BY <2>1 DEF QueueOrder
  <2>3. i + 1 < j + 1 => Len(q[i + 1]) <= Len(q[j + 1]) /\ Len(q[j + 1]) <= Len(q[i + 1]) + 1
    BY <2>1 DEF QueueOrder
  <2> QED
    BY <1>5, <2>1, <2>2, <2>3
<1>10. ASSUME NEW i \in 1..m, NEW k \in 1..Len(c)
       PROVE  /\ ~Before(n[i], n[m + k]) /\ ~Before(n[m + k], n[i])
              /\ Len(n[i]) <= Len(n[m + k]) /\ Len(n[m + k]) <= Len(n[i]) + 1
  <2>1. n[i] = q[i + 1] /\ i + 1 \in 1..Len(q) /\ n[m + k] = c[k]
    BY <1>3, <1>7
  <2>2. q[i + 1] \in Text /\ ~Before(s, q[i + 1]) /\ ~Before(q[i + 1], s)
    BY <1>1, <1>2, <1>7
  <2>3. c[k] \in Text /\ Before(s, c[k])
    BY <1>6
  <2>4. ~Before(c[k], q[i + 1])
    BY <1>2, <2>2, <2>3, BeforeTransitive
  <2>5. ~Before(q[i + 1], c[k])
    <3>1. q[i + 1] # c[k]
      BY <2>2, <2>3
    <3> QED
      BY <1>6, <2>2, <3>1
  <2>6. Len(q[i + 1]) <= Len(s) + 1 /\ Len(s) <= Len(q[i + 1]) /\ Len(c[k]) = Len(s) + 1
    BY <1>1, <1>6, <2>1
  <2> QED
    BY <1>2, <2>1, <2>4, <2>5, <2>6
<1>11. ASSUME NEW i \in 1..Len(c), NEW k \in 1..Len(c)
       PROVE  /\ Before(n[m + i], n[m + k]) => i = k
              /\ Len(n[m + i]) <= Len(n[m + k]) /\ Len(n[m + k]) <= Len(n[m + i]) + 1
  <2>1. n[m + i] = c[i] /\ n[m + k] = c[k]
    BY <1>3
  <2>2. /\ c[i] \in Text /\ c[k] \in Text
        /\ Len(c[i]) = Len(s) + 1 /\ Len(c[k]) = Len(s) + 1
    BY <1>6
  <2>3. Before(c[i], c[k]) => c[i] = c[k]
    BY <1>2, <2>2, BeforeEqual
  <2> QED
    BY <1>2, <1>4, <2>1, <2>2, <2>3
<1>12. ASSUME NEW i \in 1..Len(n), NEW j \in 1..Len(n)
       PROVE  /\ Before(n[i], n[j]) => i = j
              /\ i < j => Len(n[i]) <= Len(n[j]) /\ Len(n[j]) <= Len(n[i]) + 1
  <2>1. CASE i \in 1..m /\ j \in 1..m
    BY <1>9, <2>1
  <2>2. CASE i \in 1..m /\ j \notin 1..m
    <3>1. PICK k \in 1..Len(c) : j = m + k
      BY <1>8, <2>2
    <3> QED
      BY <1>10, <2>2, <3>1
  <2>3. CASE i \notin 1..m /\ j \in 1..m
    <3>1. PICK k \in 1..Len(c) : i = m + k
      BY <1>8, <2>3
    <3>2. ~(i < j)
      BY <1>5, <2>3, <3>1
    <3> QED
      BY <1>10, <2>3, <3>1, <3>2
  <2>4. CASE i \notin 1..m /\ j \notin 1..m
    <3>1. PICK k \in 1..Len(c) : i = m + k
      BY <1>8, <2>4
    <3>2. PICK l \in 1..Len(c) : j = m + l
      BY <1>8, <2>4
    <3> QED
      BY <1>11, <3>1, <3>2
  <2> QED
    BY <2>1, <2>2, <2>3, <2>4
<1>13. QueueOrder(n, S)
  BY <1>3, <1>12 DEF QueueOrder
<1> QED
  BY <1>13 DEF n

------------------------------------------------------------------------------
(* The trie and what is reached from it. *)

\* A state for each beginning of a word.
States(f) == {<<>>} \cup UNION {Prefixes(w) : w \in Words(f)}

Forward(S, x, b) == IF Append(x, b) \in S THEN Append(x, b) ELSE <<>>

\* What is accepted where a word is read to its end, and where one ends.
OwnCats(f, x) ==
  {tables.categories[i].cat : i \in {r \in Rows(f) : x \in tables.categories[r].sigs}}
OwnTerms(f, x) == {t \in Terms(f) : t[2] = x}
EndCats(f, x) ==
  {tables.categories[i].cat : i \in
     {r \in Rows(f) : tables.categories[r].sigs \cap Suffixes(x) # {}}}
EndTerms(f, x) == {t \in Terms(f) : t[2] \in Suffixes(x)}

\* The record of an automaton, whatever is in its tables.
Shaped(f, a) ==
  /\ a = [next |-> a.next, out |-> a.out, rout |-> a.rout,
          need |-> Trie(f).need, row |-> Trie(f).row]
  /\ a.next = [x \in States(f) |-> [b \in Byte |-> a.next[x][b]]]
  /\ a.out = [x \in States(f) |-> a.out[x]]
  /\ a.rout = [x \in States(f) |-> a.rout[x]]

\* A finished automaton.
Exact(f, a) ==
  \A x \in States(f) :
    /\ \A b \in Byte : a.next[x][b] = Go(States(f), x, b)
    /\ a.out[x] = EndCats(f, x)
    /\ a.rout[x] = EndTerms(f, x)

\* One that is being built: what waits in the queue, or behind a state that does,
\* is still as the trie has it.
Partial(f, a, fl, q) ==
  /\ QueueOrder(q, States(f))
  /\ fl = [x \in States(f) |-> fl[x]]
  /\ \A x \in States(f) :
       /\ \A b \in Byte :
            a.next[x][b] = IF Waiting(q, x) THEN Forward(States(f), x, b)
                                            ELSE Go(States(f), x, b)
       /\ IF Linked(q, x)
          THEN /\ x # <<>> => fl[x] = Shorter(States(f), x)
               /\ a.out[x] = EndCats(f, x) /\ a.rout[x] = EndTerms(f, x)
          ELSE a.out[x] = OwnCats(f, x) /\ a.rout[x] = OwnTerms(f, x)

IInv ==
  /\ tables \in Tables
  /\ phase \in Flavour \cup {"serving", "failed"}
  /\ DOMAIN ac \subseteq Flavour /\ ac = [f \in DOMAIN ac |-> ac[f]]
  /\ \A f \in DOMAIN ac : Shaped(f, ac[f]) /\ (f # phase => Exact(f, ac[f]))
  /\ phase \in DOMAIN ac => Partial(phase, ac[phase], fail, queue)
  /\ phase = "decoded" => DOMAIN ac \subseteq {"decoded"}
  /\ phase = "raw" => "decoded" \in DOMAIN ac
  /\ phase = "serving" => DOMAIN ac = Flavour

LEMMA TablesTyped ==
  ASSUME tables \in Tables
  PROVE  /\ \A i \in DOMAIN tables.categories :
              /\ tables.categories[i].cat \in Nat
              /\ tables.categories[i].sigs \subseteq Text
              /\ IsFiniteSet(tables.categories[i].sigs)
              /\ <<>> \notin tables.categories[i].sigs
         /\ \A i \in DOMAIN tables.rules :
              /\ tables.rules[i].cat \in Nat
              /\ tables.rules[i].terms \subseteq Text
              /\ IsFiniteSet(tables.rules[i].terms)
              /\ tables.rules[i].terms # {} /\ <<>> \notin tables.rules[i].terms
<1>1. /\ tables.categories \in Seq([cat : Nat, match : SUBSET Flavour, sigs : SUBSET Seq(Byte)])
      /\ tables.rules \in Seq([cat : Nat, match : SUBSET Flavour, terms : SUBSET Seq(Byte)])
      /\ \A i \in DOMAIN tables.categories :
           IsFiniteSet(tables.categories[i].sigs) /\ <<>> \notin tables.categories[i].sigs
      /\ \A i \in DOMAIN tables.rules :
           /\ IsFiniteSet(tables.rules[i].terms)
           /\ tables.rules[i].terms # {} /\ <<>> \notin tables.rules[i].terms
  BY TableAssumption
<1> DEFINE R == [cat : Nat, match : SUBSET Flavour, sigs : SUBSET Seq(Byte)]
           Q == [cat : Nat, match : SUBSET Flavour, terms : SUBSET Seq(Byte)]
<1>2. \A i \in DOMAIN tables.categories : tables.categories[i] \in R
  <2> HIDE DEF R
  <2> QED
    BY <1>1, LenProperties, ElementOfSeq DEF R
<1>3. \A i \in DOMAIN tables.rules : tables.rules[i] \in Q
  <2> HIDE DEF Q
  <2> QED
    BY <1>1, LenProperties, ElementOfSeq DEF Q
<1> QED
  BY <1>1, <1>2, <1>3 DEF Text

LEMMA WordsAre ==
  ASSUME tables \in Tables, NEW f
  PROVE  /\ Words(f) \subseteq Text /\ <<>> \notin Words(f)
         /\ \A i \in Rows(f) : tables.categories[i].sigs \subseteq Words(f)
         /\ \A t \in Terms(f) : t[2] \in Words(f)
<1>1. \A i \in Rows(f) : /\ tables.categories[i].sigs \subseteq Text
                         /\ <<>> \notin tables.categories[i].sigs
  BY TablesTyped DEF Rows
<1>2. ASSUME NEW t \in Terms(f) PROVE t[2] \in Text /\ t[2] # <<>>
  <2>1. PICK i \in Rules(f) : t \in {i} \X tables.rules[i].terms
    BY DEF Terms
  <2>2. t[2] \in tables.rules[i].terms
    BY <2>1
  <2> QED
    BY <2>2, TablesTyped DEF Rules
<1>3. \A w : w \in Words(f) <=> \/ \E i \in Rows(f) : w \in tables.categories[i].sigs
                               \/ \E t \in Terms(f) : w = t[2]
  <2> DEFINE A == UNION {tables.categories[i].sigs : i \in Rows(f)}
             B == {t[2] : t \in Terms(f)}
  <2>1. \A w : w \in A <=> \E i \in Rows(f) : w \in tables.categories[i].sigs
    OBVIOUS
  <2>2. \A w : w \in B <=> \E t \in Terms(f) : w = t[2]
    OBVIOUS
  <2>3. Words(f) = A \union B
    BY DEF Words
  <2> HIDE DEF A, B
  <2> QED
    BY <2>1, <2>2, <2>3
<1>4. Words(f) \subseteq Text /\ <<>> \notin Words(f)
  BY <1>1, <1>2, <1>3
<1> QED
  BY <1>3, <1>4

LEMMA StatesClosed ==
  ASSUME tables \in Tables, NEW f
  PROVE  Closed(States(f)) /\ Words(f) \subseteq States(f)
<1>1. \A w \in Words(f) : w \in Text
  BY WordsAre
<1>2. \A x : x \in States(f) <=> x = <<>> \/ \E w \in Words(f) : x \in Text /\ Before(x, w)
  <2>1. \A w \in Words(f) : Prefixes(w) = {t \in Text : Before(t, w)}
    BY <1>1, PrefixesAre
  <2> QED
    BY <2>1 DEF States
<1>3. \A x \in States(f) : x \in Text
  BY <1>2, NoText
<1>4. ASSUME NEW x \in States(f), NEW t \in Text, Before(t, x)
      PROVE  t \in States(f)
  <2>1. CASE x = <<>>
    <3>1. Len(t) = 0
      BY <1>4, <2>1, NoText, LenText DEF Before
    <3> QED
      BY <1>2, <3>1, LenText
  <2>2. CASE x # <<>>
    <3>1. PICK w \in Words(f) : Before(x, w)
      BY <1>2, <2>2
    <3> QED
      BY <1>1, <1>2, <1>3, <1>4, <3>1, BeforeTransitive
  <2> QED
    BY <2>1, <2>2
<1>5. \A w \in Words(f) : w \in States(f)
  BY <1>1, <1>2, EndsItself
<1> QED
  BY <1>2, <1>3, <1>4, <1>5 DEF Closed

\* What ends in a state is what is read to its end there, and what ends in the
\* state it fails to.
LEMMA EndsUnite ==
  ASSUME tables \in Tables, NEW f, NEW x \in States(f), x # <<>>
  PROVE  /\ EndCats(f, x) = OwnCats(f, x) \cup EndCats(f, Shorter(States(f), x))
         /\ EndTerms(f, x) = OwnTerms(f, x) \cup EndTerms(f, Shorter(States(f), x))
<1> DEFINE S == States(f)
           l == Shorter(S, x)
<1>1. Closed(S) /\ Words(f) \subseteq S /\ x \in Text
  BY StatesClosed DEF Closed
<1>2. l \in Text
  BY <1>1, ShorterIs
<1> HIDE DEF l
<1>3. /\ \A w : w \in Suffixes(x) <=> w \in Text /\ Ends(w, x)
      /\ \A w : w \in Suffixes(l) <=> w \in Text /\ Ends(w, l)
  BY <1>1, <1>2, SuffixesAre
<1>4. \A w \in Words(f) : w \in Text /\ (Ends(w, x) <=> w = x \/ Ends(w, l))
  <2> HIDE DEF S
  <2> QED
    BY <1>1, EndsByFail DEF l, Closed
<1>5. \A w \in Words(f) : w \in Suffixes(x) <=> w = x \/ w \in Suffixes(l)
  BY <1>3, <1>4
<1>6. \A t \in Terms(f) : t[2] \in Suffixes(x) <=> t[2] = x \/ t[2] \in Suffixes(l)
  BY <1>5, WordsAre
<1>7. ASSUME NEW i \in Rows(f)
      PROVE  tables.categories[i].sigs \cap Suffixes(x) # {}
               <=> \/ x \in tables.categories[i].sigs
                   \/ tables.categories[i].sigs \cap Suffixes(l) # {}
  <2>1. \A w \in tables.categories[i].sigs : w \in Suffixes(x) <=> w = x \/ w \in Suffixes(l)
    BY <1>5, WordsAre
  <2> QED
    BY <2>1
<1>8. EndTerms(f, x) = OwnTerms(f, x) \cup EndTerms(f, l)
  BY <1>6 DEF EndTerms, OwnTerms
<1>9. EndCats(f, x) = OwnCats(f, x) \cup EndCats(f, l)
  BY <1>7 DEF EndCats, OwnCats
<1> QED
  BY <1>8, <1>9 DEF l

\* Nothing is read to its end in the root, and nothing ends there.
LEMMA RootAccepts ==
  ASSUME tables \in Tables, NEW f
  PROVE  /\ OwnCats(f, <<>>) = {} /\ EndCats(f, <<>>) = {}
         /\ OwnTerms(f, <<>>) = {} /\ EndTerms(f, <<>>) = {}
<1>1. Suffixes(<<>>) = {<<>>}
  <2>1. \A t \in Text : Ends(t, <<>>) => t = <<>>
    BY NoText, LenText DEF Ends
  <2> QED
    BY <2>1, NoText, SuffixesAre, EndsItself
<1>2. \A t \in Terms(f) : t[2] # <<>>
  BY WordsAre
<1>3. \A i \in Rows(f) : <<>> \notin tables.categories[i].sigs
  BY WordsAre
<1> QED
  BY <1>1, <1>2, <1>3 DEF OwnCats, EndCats, OwnTerms, EndTerms

\* The tables are those of the build.
LEMMA SameTables ==
  ASSUME tables' = tables
  PROVE  /\ \A g, a : (Shaped(g, a)' <=> Shaped(g, a)) /\ (Exact(g, a)' <=> Exact(g, a))
         /\ \A g, a, fl, q : Partial(g, a, fl, q)' <=> Partial(g, a, fl, q)
<1>1. \A g : /\ States(g)' = States(g) /\ Trie(g)' = Trie(g)
             /\ \A x : /\ EndCats(g, x)' = EndCats(g, x) /\ EndTerms(g, x)' = EndTerms(g, x)
                       /\ OwnCats(g, x)' = OwnCats(g, x) /\ OwnTerms(g, x)' = OwnTerms(g, x)
  BY DEF States, Trie, Words, Terms, Rows, Rules, EndCats, EndTerms, OwnCats, OwnTerms,
         RowOf, Cats, NoRow
<1> QED
  BY <1>1 DEF Shaped, Exact, Partial

\* The new trie, and the queue with the states one byte long.
LEMMA BuildTrieDoes ==
  ASSUME IInv, BuildTrie
  PROVE  IInv'
<1> DEFINE f == phase
           S == States(f)
           a == Trie(f)
           c == Children(a, <<>>)
<1>1. Closed(S)
  BY StatesClosed DEF IInv
<1>2. /\ f \in Flavour /\ f \notin DOMAIN ac
      /\ DOMAIN ac' = DOMAIN ac \cup {f} /\ ac'[f] = a
      /\ \A g \in DOMAIN ac : ac'[g] = ac[g]
      /\ ac' = [g \in DOMAIN ac' |-> ac'[g]]
      /\ UNCHANGED <<tables, phase>>
  BY DEF BuildTrie
<1>3. DOMAIN a.next = S /\ Shaped(f, a)
  <2>1. a.next = [s \in S |-> [b \in Byte |-> Forward(S, s, b)]]
    BY DEF Trie, States, Forward
  <2>2. /\ a.out = [s \in S |-> OwnCats(f, s)]
        /\ a.rout = [s \in S |-> OwnTerms(f, s)]
    BY DEF Trie, States, OwnCats, OwnTerms
  <2>3. a = [next |-> a.next, out |-> a.out, rout |-> a.rout, need |-> a.need, row |-> a.row]
    BY DEF Trie
  <2> HIDE DEF a, S
  <2>4. a.next = [x \in S |-> [b \in Byte |-> a.next[x][b]]]
    BY <2>1
  <2>5. a.out = [x \in S |-> a.out[x]] /\ a.rout = [x \in S |-> a.rout[x]]
    BY <2>2
  <2>6. DOMAIN a.next = S
    BY <2>1
  <2> QED
    BY <2>3, <2>4, <2>5, <2>6 DEF Shaped, a, S
<1>4. ASSUME NEW x \in S
      PROVE  /\ \A b \in Byte : a.next[x][b] = Forward(S, x, b)
             /\ a.out[x] = OwnCats(f, x) /\ a.rout[x] = OwnTerms(f, x)
  BY DEF Trie, States, OwnCats, OwnTerms, Forward
<1>5. fail' = [x \in S |-> <<>>] /\ queue' = c
  BY <1>2, <1>3 DEF BuildTrie
<1> HIDE DEF a, S
<1>6. IsChildren(S, <<>>, c)
  <2>1. <<>> \in S /\ <<>> \in Text
    BY <1>1 DEF Closed
  <2>2. \A b \in Byte : a.next[<<>>][b] =
          IF Append(<<>>, b) \in S THEN Append(<<>>, b) ELSE <<>>
    BY <1>4, <2>1 DEF Forward
  <2> QED
    BY <1>1, <2>1, <2>2, ChildrenAre
<1> HIDE DEF c
<1>7. /\ c \in Seq(S \ {<<>>}) /\ Len(c) \in Nat
      /\ \A i, j \in 1..Len(c) : c[i] = c[j] => i = j
      /\ \A i \in 1..Len(c) : c[i] \in Text /\ Len(c[i]) = 1
      /\ \A b \in Byte : Append(<<>>, b) \in S => \E i \in 1..Len(c) : c[i] = Append(<<>>, b)
      /\ \A i \in 1..Len(c) : \E b \in Byte : c[i] = Append(<<>>, b)
  BY <1>6, OneByte, LenProperties DEF IsChildren
<1>8. QueueOrder(c, S)
  <2>1. ASSUME NEW i \in 1..Len(c), NEW j \in 1..Len(c), Before(c[i], c[j])
        PROVE  i = j
    <3>1. c[i] \in Text /\ c[j] \in Text /\ Len(c[j]) <= Len(c[i])
      BY <1>7
    <3>2. c[i] = c[j]
      BY <2>1, <3>1, BeforeEqual
    <3> QED
      BY <1>7, <3>2
  <2> QED
    BY <1>7, <2>1 DEF QueueOrder
\* The root waits no longer.
<1>9. ~Waiting(c, <<>>) /\ Linked(c, <<>>)
  <2>1. \A i \in 1..Len(c) : ~Before(c[i], <<>>)
    BY <1>7, NoText DEF Before
  <2> QED
    BY <2>1 DEF Waiting, Linked
<1>10. ASSUME NEW b \in Byte PROVE Go(S, <<>>, b) = Forward(S, <<>>, b)
  BY <1>1, NoText, GoRoot, GoForward DEF Forward
\* Every other state does.
<1>11. ASSUME NEW x \in S, x # <<>> PROVE Waiting(c, x)
  <2>1. x \in Text /\ <<>> \in Text
    BY <1>1 DEF Closed
  <2>2. PICK b \in Byte : Before(Append(<<>>, b), x)
    BY <1>11, <2>1, EndsItself, BeforeGoesOn
  <2>3. Append(<<>>, b) \in S
    BY <1>1, <2>2, OneByte DEF Closed
  <2> QED
    BY <1>7, <2>2, <2>3 DEF Waiting
\* Those linked already are one byte long.
<1>12. ASSUME NEW x \in S, x # <<>>, Linked(c, x)
       PROVE  /\ Shorter(S, x) = <<>>
              /\ OwnCats(f, x) = EndCats(f, x) /\ OwnTerms(f, x) = EndTerms(f, x)
  <2>1. PICK i \in 1..Len(c) : Before(c[i], x)
    BY <1>11, <1>12 DEF Waiting
  <2>2. c[i] = x
    BY <1>12, <2>1 DEF Linked
  <2>3. PICK b \in Byte : x = Append(<<>>, b)
    BY <1>7, <2>2
  <2>4. Shorter(S, x) = <<>>
    BY <1>1, <2>3, ShorterOfByte
  <2>5. tables \in Tables
    BY DEF IInv
  <2>6. /\ EndCats(f, x) = OwnCats(f, x) \cup EndCats(f, Shorter(S, x))
        /\ EndTerms(f, x) = OwnTerms(f, x) \cup EndTerms(f, Shorter(S, x))
    BY <1>12, <2>5, EndsUnite DEF S
  <2> QED
    BY <2>4, <2>5, <2>6, RootAccepts
<1>13. Partial(f, a, fail', c)
  <2>1. fail' = [x \in S |-> fail'[x]] /\ \A x \in S : fail'[x] = <<>>
    BY <1>5
  <2>2. ASSUME NEW x \in S, NEW b \in Byte
        PROVE  a.next[x][b] = IF Waiting(c, x) THEN Forward(S, x, b) ELSE Go(S, x, b)
    BY <1>4, <1>9, <1>10, <1>11
  <2>3. ASSUME NEW x \in S
        PROVE  IF Linked(c, x)
               THEN /\ x # <<>> => fail'[x] = Shorter(S, x)
                    /\ a.out[x] = EndCats(f, x) /\ a.rout[x] = EndTerms(f, x)
               ELSE a.out[x] = OwnCats(f, x) /\ a.rout[x] = OwnTerms(f, x)
    <3>1. tables \in Tables
      BY DEF IInv
    <3> QED
      BY <1>4, <1>12, <2>1, <3>1, RootAccepts
  <2> QED
    BY <1>8, <2>1, <2>2, <2>3 DEF Partial, S
<1>14. ASSUME NEW g \in DOMAIN ac'
       PROVE  Shaped(g, ac'[g]) /\ (g # f => Exact(g, ac'[g]))
  BY <1>2, <1>3, <1>14 DEF IInv
<1>15. Partial(f, ac'[f], fail', queue')
  BY <1>2, <1>5, <1>13
<1> HIDE DEF f
<1>16. /\ tables' \in Tables /\ phase' \in Flavour \cup {"serving", "failed"}
       /\ DOMAIN ac' \subseteq Flavour /\ ac' = [g \in DOMAIN ac' |-> ac'[g]]
       /\ phase' = "decoded" => DOMAIN ac' \subseteq {"decoded"}
       /\ phase' = "raw" => "decoded" \in DOMAIN ac'
       /\ phase' = "serving" => DOMAIN ac' = Flavour
  BY <1>2 DEF IInv, f, Flavour
<1> QED
  BY <1>2, <1>14, <1>15, <1>16, SameTables DEF IInv, f
\* One state's turn.
LEMMA FlattenKeeps ==
  ASSUME IInv, Flatten
  PROVE  IInv'
<1> DEFINE f == phase
           S == States(f)
           a == ac[phase]
           s == Head(queue)
           l == Shorter(S, s)
           c == Children(a, s)
           target == [b \in Byte |-> a.next[s][b]]
           back == [b \in Byte |-> a.next[fail[s]][b]]
           From(v) == back[CHOOSE b \in Byte : target[b] = v]
           T == ToSet(c)
           nx == [b \in Byte |-> IF target[b] = <<>> THEN back[b] ELSE target[b]]
           ot == [v \in DOMAIN a.out |->
                    IF v \in T THEN Inherit(a.out[v], a.out[From(v)]) ELSE a.out[v]]
           rt == [v \in DOMAIN a.rout |->
                    IF v \in T THEN a.rout[v] \union a.rout[From(v)] ELSE a.rout[v]]
           n == [next |-> [a.next EXCEPT ![s] = nx], out |-> ot, rout |-> rt,
                 need |-> a.need, row |-> a.row]
<1>1. /\ f \in DOMAIN ac /\ tables' = tables /\ phase' = phase /\ tables \in Tables
      /\ ac = [g \in DOMAIN ac |-> ac[g]] /\ Shaped(f, a) /\ Closed(S)
      /\ Partial(f, a, fail, queue) /\ queue # <<>>
  BY StatesClosed DEF Flatten, IInv
<1>2. ac' = [ac EXCEPT ![f] = [a EXCEPT !.next[s] = nx, !.out = ot, !.rout = rt]]
  BY DEF Flatten
<1>3. fail' = [v \in DOMAIN fail |-> IF v \in T THEN From(v) ELSE fail[v]]
  BY DEF Flatten
<1>4. queue' = Tail(queue) \o c
  BY DEF Flatten
<1>5. s \in S /\ s \in Text /\ s # <<>> /\ QueueOrder(queue, S)
  BY <1>1, HeadLeads, QueueEntries DEF Partial
<1>6. /\ a = [next |-> a.next, out |-> a.out, rout |-> a.rout, need |-> a.need, row |-> a.row]
      /\ a.next = [x \in S |-> [b \in Byte |-> a.next[x][b]]]
      /\ a.out = [x \in S |-> a.out[x]] /\ a.rout = [x \in S |-> a.rout[x]]
      /\ a.need = Trie(f).need /\ a.row = Trie(f).row
  BY <1>1 DEF Shaped
<1>7. ac'[f] = [a EXCEPT !.next[s] = nx, !.out = ot, !.rout = rt]
  <2> DEFINE m == [a EXCEPT !.next[s] = nx, !.out = ot, !.rout = rt]
  <2> HIDE DEF m
  <2>1. ac' = [ac EXCEPT ![f] = m]
    BY <1>2 DEF m
  <2>2. ac'[f] = m
    BY <1>1, <2>1
  <2> QED
    BY <2>2 DEF m
<1>8. /\ DOMAIN ac' = DOMAIN ac /\ ac' = [g \in DOMAIN ac' |-> ac'[g]]
      /\ \A g \in DOMAIN ac : g # f => ac'[g] = ac[g]
  <2> HIDE DEF nx, ot, rt, a, s
  <2> QED
    BY <1>1, <1>2
<1>9. ac'[f] = n
  <2> HIDE DEF nx, ot, rt, a, s
  <2> QED
    BY <1>5, <1>6, <1>7
<1>10. DOMAIN fail = S /\ DOMAIN a.out = S /\ DOMAIN a.rout = S
  <2> HIDE DEF S, a
  <2>1. DOMAIN fail = S
    BY <1>1 DEF Partial, S
  <2> QED
    BY <1>6, <2>1
\* The automaton so far.
<1>11. ASSUME NEW x \in S
       PROVE  /\ \A b \in Byte : a.next[x][b] = IF Waiting(queue, x) THEN Forward(S, x, b)
                                                                      ELSE Go(S, x, b)
              /\ Linked(queue, x) => /\ x # <<>> => fail[x] = Shorter(S, x)
                                     /\ a.out[x] = EndCats(f, x)
                                     /\ a.rout[x] = EndTerms(f, x)
              /\ ~Linked(queue, x) => a.out[x] = OwnCats(f, x) /\ a.rout[x] = OwnTerms(f, x)
  BY <1>1 DEF Partial
<1> HIDE DEF S, a, s, c
<1>12. /\ l \in S /\ l \in Text /\ Len(l) < Len(s)
       /\ Len(l) \in Nat /\ Len(s) \in Nat
  BY <1>1, <1>5, ShorterIs, LenText
<1> HIDE DEF l
<1>13. \A b \in Byte : a.next[s][b] = Forward(S, s, b)
  <2>1. Waiting(queue, s)
    <3>1. 1 \in 1..Len(queue) /\ queue[1] = s
      BY <1>1, <1>5, HeadLeads DEF s
    <3>2. Before(s, s)
      BY <1>5, EndsItself
    <3> QED
      BY <3>1, <3>2 DEF Waiting
  <2> QED
    BY <1>5, <1>11, <2>1
<1>14. IsChildren(S, s, c)
  <2>1. \A b \in Byte : a.next[s][b] = IF Append(s, b) \in S THEN Append(s, b) ELSE <<>>
    BY <1>13 DEF Forward
  <2> QED
    BY <1>1, <1>5, <2>1, ChildrenAre DEF c
\* What still waits, and what is linked.
<1>15. ASSUME NEW x \in S
       PROVE  /\ Waiting(queue', x) <=> Waiting(queue, x) /\ x # s
              /\ Linked(queue', x) <=> Linked(queue, x) \/ \E b \in Byte : x = Append(s, b)
              /\ (\E b \in Byte : x = Append(s, b)) => ~Linked(queue, x)
              /\ Linked(queue, s)
  <2>1. Marked(queue, s, queue', x)
    BY <1>1, <1>4, <1>5, <1>14, AdvanceMarks DEF s
  <2> QED
    BY <2>1 DEF Marked
<1>16. QueueOrder(queue', S)
  BY <1>1, <1>4, <1>5, <1>14, AdvanceKeepsOrder DEF s
<1>17. \A x : x \in T <=> x \in S /\ \E b \in Byte : x = Append(s, b)
  <2>1. c \in Seq(S \ {<<>>})
    BY <1>14 DEF IsChildren
  <2>2. DOMAIN c = 1..Len(c) /\ \A i \in 1..Len(c) : c[i] \in S
    <3>1. \A i \in 1..Len(c) : c[i] \in S \ {<<>>}
      BY <2>1, ElementOfSeq
    <3> QED
      BY <2>1, <3>1, LenProperties
  <2>3. \A x : x \in T <=> \E i \in 1..Len(c) : x = c[i]
    BY <2>2 DEF ToSet
  <2> HIDE DEF T, c
  <2>4. /\ \A i \in 1..Len(c) : \E b \in Byte : c[i] = Append(s, b)
        /\ \A b \in Byte : Append(s, b) \in S => \E i \in 1..Len(c) : c[i] = Append(s, b)
    BY <1>14 DEF IsChildren
  <2>5. ASSUME NEW x \in T PROVE x \in S /\ \E b \in Byte : x = Append(s, b)
    BY <2>2, <2>3, <2>4
  <2>6. ASSUME NEW b \in Byte, Append(s, b) \in S PROVE Append(s, b) \in T
    BY <2>3, <2>4, <2>6
  <2> QED
    BY <2>5, <2>6
\* Where the head fails to is flattened.
<1>18. fail[s] = l
  BY <1>5, <1>11, <1>15 DEF l
<1>19. \A b \in Byte : back[b] = Go(S, l, b)
  <2>1. ~Waiting(queue, l)
    BY <1>1, <1>5, <1>12, ShortAreDone DEF s
  <2> QED
    BY <1>11, <1>12, <1>18, <2>1
<1>20. \A b \in Byte : target[b] = Forward(S, s, b)
  BY <1>13
<1> HIDE DEF target, back
<1>21. ASSUME NEW b \in Byte, Append(s, b) \in S
       PROVE  /\ From(Append(s, b)) = Shorter(S, Append(s, b))
              /\ Shorter(S, Append(s, b)) \in S
              /\ Linked(queue, Shorter(S, Append(s, b)))
  <2> DEFINE v == Append(s, b)
             u == Shorter(S, v)
  <2>1. v \in Text /\ v # <<>> /\ Len(v) = Len(s) + 1
    BY <1>5, Appended
  <2>2. \A d \in Byte : target[d] = v <=> d = b
    <3>1. ASSUME NEW d \in Byte, target[d] = v PROVE d = b
      <4>1. Append(s, d) = Append(s, b)
        BY <1>20, <2>1, <3>1 DEF Forward
      <4> QED
        BY <1>5, <4>1, AppendOne
    <3>2. target[b] = v
      BY <1>20, <1>21 DEF Forward
    <3> QED
      BY <3>1, <3>2
  <2>3. (CHOOSE d \in Byte : target[d] = v) = b
    <3> HIDE DEF v
    <3> QED
      BY <2>2
  <2>4. From(v) = Go(S, l, b)
    <3> HIDE DEF v
    <3> QED
      BY <1>19, <2>3
  <2>5. u = Go(S, l, b)
    BY <1>1, <1>5, ShorterOfTarget DEF l
  <2>6. u \in S /\ u \in Text /\ Len(u) < Len(v)
    <3> HIDE DEF v
    <3> QED
      BY <1>1, <2>1, ShorterIs
  <2> HIDE DEF u, v
  <2>7. Len(u) <= Len(s)
    BY <1>12, <2>1, <2>6, LenText
  <2>8. Linked(queue, u)
    BY <1>1, <1>5, <2>6, <2>7, ShortAreDone DEF s
  <2> QED
    BY <2>4, <2>5, <2>6, <2>8 DEF u, v
<1> HIDE DEF From
\* The automaton then.
<1>22. ASSUME NEW x \in S, NEW b \in Byte
       PROVE  n.next[x][b] = IF Waiting(queue', x) THEN Forward(S, x, b) ELSE Go(S, x, b)
  <2>1. CASE x = s
    <3>1. n.next[x] = nx
      <4>1. n.next = [a.next EXCEPT ![s] = nx] /\ s \in DOMAIN a.next
        BY <1>5, <1>6
      <4> HIDE DEF nx, n
      <4> QED
        BY <2>1, <4>1
    <3>2. n.next[x][b] = IF target[b] = <<>> THEN back[b] ELSE target[b]
      BY <3>1
    <3>3. ~Waiting(queue', x)
      BY <1>15, <2>1
    <3>4. CASE Append(s, b) \in S
      <4>1. target[b] = Append(s, b) /\ Append(s, b) # <<>>
        BY <1>5, <1>20, <3>4, Appended DEF Forward
      <4>2. Go(S, s, b) = Append(s, b)
        BY <1>1, <1>5, <3>4, GoForward
      <4> QED
        BY <2>1, <3>2, <3>3, <4>1, <4>2
    <3>5. CASE Append(s, b) \notin S
      <4>1. target[b] = <<>>
        BY <1>20, <3>5 DEF Forward
      <4>2. Go(S, s, b) = Go(S, l, b)
        BY <1>1, <1>5, <3>5, GoBack DEF l
      <4> QED
        BY <1>19, <2>1, <3>2, <3>3, <4>1, <4>2
    <3> QED
      BY <3>4, <3>5
  <2>2. CASE x # s
    <3>1. n.next[x] = a.next[x]
      <4>1. n.next = [a.next EXCEPT ![s] = nx] /\ x \in DOMAIN a.next
        BY <1>6
      <4> HIDE DEF nx, n
      <4> QED
        BY <2>2, <4>1
    <3>2. Waiting(queue', x) <=> Waiting(queue, x)
      BY <1>15, <2>2
    <3> HIDE DEF n
    <3> QED
      BY <1>11, <3>1, <3>2
  <2> QED
    BY <2>1, <2>2
<1>23. ASSUME NEW x \in S
       PROVE  IF Linked(queue', x)
              THEN /\ x # <<>> => fail'[x] = Shorter(S, x)
                   /\ n.out[x] = EndCats(f, x) /\ n.rout[x] = EndTerms(f, x)
              ELSE n.out[x] = OwnCats(f, x) /\ n.rout[x] = OwnTerms(f, x)
  <2>0. /\ n.out[x] = IF x \in T THEN a.out[x] \cup a.out[From(x)] ELSE a.out[x]
        /\ n.rout[x] = IF x \in T THEN a.rout[x] \cup a.rout[From(x)] ELSE a.rout[x]
        /\ fail'[x] = IF x \in T THEN From(x) ELSE fail[x]
    <3> HIDE DEF T
    <3> QED
      BY <1>3, <1>10 DEF Inherit
  <2> HIDE DEF n, T
  <2>1. CASE x \in T
    <3>1. PICK b \in Byte : x = Append(s, b)
      BY <1>17, <2>1
    <3>2. /\ From(x) = Shorter(S, x) /\ Shorter(S, x) \in S
          /\ Linked(queue, Shorter(S, x))
      BY <1>21, <3>1
    <3>3. /\ a.out[From(x)] = EndCats(f, Shorter(S, x))
          /\ a.rout[From(x)] = EndTerms(f, Shorter(S, x))
      BY <1>11, <3>2
    <3>4. Linked(queue', x) /\ ~Linked(queue, x) /\ x # <<>>
      BY <1>5, <1>15, <3>1, Appended
    <3>5. a.out[x] = OwnCats(f, x) /\ a.rout[x] = OwnTerms(f, x)
      BY <1>11, <3>4
    <3>6. /\ EndCats(f, x) = OwnCats(f, x) \cup EndCats(f, Shorter(S, x))
          /\ EndTerms(f, x) = OwnTerms(f, x) \cup EndTerms(f, Shorter(S, x))
      BY <1>1, <3>4, EndsUnite DEF S
    <3> QED
      BY <2>0, <2>1, <3>2, <3>3, <3>4, <3>5, <3>6
  <2>2. CASE x \notin T
    <3>1. Linked(queue', x) <=> Linked(queue, x)
      BY <1>15, <1>17, <2>2
    <3> QED
      BY <1>11, <2>0, <2>2, <3>1
  <2> QED
    BY <2>1, <2>2
<1>24. Partial(f, n, fail', queue')
  <2>1. fail' = [x \in S |-> fail'[x]]
    <3> HIDE DEF T
    <3> QED
      BY <1>3, <1>10
  <2> HIDE DEF n
  <2> QED
    BY <1>16, <1>22, <1>23, <2>1 DEF Partial, S
<1>25. Shaped(f, n)
  <2>1. /\ n = [next |-> n.next, out |-> n.out, rout |-> n.rout, need |-> n.need, row |-> n.row]
        /\ n.need = Trie(f).need /\ n.row = Trie(f).row
    BY <1>6
  <2>2. n.next = [x \in S |-> [b \in Byte |-> n.next[x][b]]]
    <3>1. n.next = [a.next EXCEPT ![s] = nx] /\ DOMAIN a.next = S
      BY <1>6
    <3>2. \A x \in S : n.next[x] = IF x = s THEN nx ELSE a.next[x]
      <4> HIDE DEF nx, n
      <4> QED
        BY <3>1
    <3>3. \A x \in S : n.next[x] = [b \in Byte |-> n.next[x][b]]
      <4>1. nx = [b \in Byte |-> nx[b]]
        OBVIOUS
      <4>2. \A x \in S : a.next[x] = [b \in Byte |-> a.next[x][b]]
        BY <1>6
      <4> HIDE DEF nx, n
      <4> QED
        BY <3>2, <4>1, <4>2
    <3> HIDE DEF nx, n
    <3> QED
      BY <3>1, <3>3
  <2>3. n.out = [x \in S |-> n.out[x]] /\ n.rout = [x \in S |-> n.rout[x]]
    BY <1>10
  <2> HIDE DEF n
  <2> QED
    BY <2>1, <2>2, <2>3 DEF Shaped, S
<1> HIDE DEF n
<1>26. ASSUME NEW g \in DOMAIN ac'
       PROVE  Shaped(g, ac'[g]) /\ (g # f => Exact(g, ac'[g]))
  BY <1>8, <1>9, <1>25 DEF IInv
<1>27. Partial(f, ac'[f], fail', queue')
  BY <1>9, <1>24
<1> HIDE DEF f
<1>28. /\ tables' \in Tables /\ phase' \in Flavour \cup {"serving", "failed"}
       /\ DOMAIN ac' \subseteq Flavour /\ ac' = [g \in DOMAIN ac' |-> ac'[g]]
       /\ phase' = "decoded" => DOMAIN ac' \subseteq {"decoded"}
       /\ phase' = "raw" => "decoded" \in DOMAIN ac'
       /\ phase' = "serving" => DOMAIN ac' = Flavour
  BY <1>1, <1>8 DEF IInv, f
<1> QED
  BY <1>1, <1>26, <1>27, <1>28, SameTables DEF IInv, f
\* With an empty queue the automaton is finished.
LEMMA EmptyIsExact ==
  ASSUME NEW f, NEW a, NEW fl, NEW q, Partial(f, a, fl, q), q = <<>>
  PROVE  Exact(f, a)
<1>1. \A x : ~Waiting(q, x) /\ Linked(q, x)
  BY DEF Waiting, Linked
<1> QED
  BY <1>1 DEF Partial, Exact

LEMMA ScanInit == Init => IInv
BY DEF Init, IInv, Flavour

LEMMA ScanNext == IInv /\ [Next]_vars => IInv'
<1> SUFFICES ASSUME IInv, [Next]_vars PROVE IInv'
  OBVIOUS
<1>1. CASE BuildTrie
  BY <1>1, BuildTrieDoes
<1>2. CASE Flatten
  BY <1>2, FlattenKeeps
<1>3. CASE BuildFails
  <2>1. /\ phase \notin DOMAIN ac /\ phase' = "failed"
        /\ UNCHANGED <<tables, ac, fail, queue, verdict>>
    BY <1>3 DEF BuildFails
  <2>2. \A g \in DOMAIN ac : g # "failed" /\ Exact(g, ac[g]) /\ Shaped(g, ac[g])
    BY <2>1 DEF IInv, Flavour
  <2>3. "failed" \notin DOMAIN ac
    BY <2>2
  <2> QED
    BY <2>1, <2>2, <2>3, SameTables DEF IInv
<1>4. CASE Built
  <2>1. /\ phase \in DOMAIN ac /\ queue = <<>>
        /\ phase' = IF phase = "decoded" THEN "raw" ELSE "serving"
        /\ UNCHANGED <<tables, ac, fail, queue, verdict>>
    BY <1>4 DEF Built
  <2>2. Exact(phase, ac[phase])
    BY <2>1, EmptyIsExact DEF IInv
  <2>3. \A g \in DOMAIN ac : Exact(g, ac[g]) /\ Shaped(g, ac[g])
    BY <2>2 DEF IInv
  <2>4. phase' = "serving" => DOMAIN ac = Flavour
    BY <2>1 DEF IInv, Flavour
  <2>5. phase' \in {"raw", "serving"} /\ "serving" \notin DOMAIN ac
    BY <2>1 DEF IInv, Flavour
  <2>6. phase' = "raw" => "decoded" \in DOMAIN ac
    BY <2>1
  \* The raw automaton is built after the decoded one.
  <2>7. phase' = "raw" => "raw" \notin DOMAIN ac
    BY <2>1 DEF IInv
  <2> QED
    BY <2>1, <2>3, <2>4, <2>5, <2>6, <2>7, SameTables DEF IInv, Flavour
<1>5. CASE Scan \/ Again \/ Refused \/ UNCHANGED vars
  <2>1. UNCHANGED <<tables, phase, ac, fail, queue>>
    BY <1>5 DEF Scan, Again, Refused, vars
  <2> QED
    BY <2>1, SameTables DEF IInv
<1> QED
  BY <1>1, <1>2, <1>3, <1>4, <1>5 DEF Next

LEMMA ScanInvariant == Spec => []IInv
BY ScanInit, ScanNext, PTL DEF Spec

\* A finished automaton is in the state that is the longest end of what it has
\* read, and accepts exactly what ends there: nested, overlapping and shared
\* words included (ngx_http_shield_ac_build, the flattened fail links).
THEOREM AutomatonAlwaysExact == Spec => []AutomatonExact
<1>1. IInv => AutomatonExact
  <2> SUFFICES ASSUME IInv, phase \in DOMAIN ac, queue = <<>> PROVE AutomatonExact
    BY DEF AutomatonExact
  <2>1. Exact(phase, ac[phase]) /\ Shaped(phase, ac[phase])
    BY EmptyIsExact DEF IInv
  <2>2. DOMAIN ac[phase].next = States(phase)
    BY <2>1 DEF Shaped
  <2> QED
    BY <2>1, <2>2 DEF AutomatonExact, Exact, Go, EndCats, EndTerms
<1> QED
  BY <1>1, ScanInvariant, PTL

------------------------------------------------------------------------------
(* The room of the tables. *)

\* Whichever element the fold takes out of a set first.
Taken(s) == CHOOSE x \in s : TRUE

SumOf(f, h, s) == IF s = {} THEN 0 ELSE f[Taken(s)] + h[s \ {Taken(s)}]

\* The sums of f over the sets of its arguments.
Sums(f, h) == h = [s \in SUBSET DOMAIN f |-> SumOf(f, h, s)]

LEMMA TakenIn == \A s : s # {} => Taken(s) \in s
BY DEF Taken

LEMMA SumsExist ==
  ASSUME NEW f, IsFiniteSet(DOMAIN f)
  PROVE  \E h : Sums(f, h)
<1> DEFINE D == DOMAIN f
           UpTo(n, h) == \A s \in SUBSET D : Cardinality(s) <= n => h[s] = SumOf(f, h, s)
           Bad == {n \in Nat : ~\E h : UpTo(n, h)}
<1>1. \A s \in SUBSET D : IsFiniteSet(s) /\ Cardinality(s) \in Nat
                          /\ Cardinality(s) <= Cardinality(D)
  BY FS_Subset, FS_CardinalityType
<1>2. \A s \in SUBSET D : s # {} => /\ s \ {Taken(s)} \in SUBSET D
                                    /\ Cardinality(s \ {Taken(s)}) = Cardinality(s) - 1
  BY <1>1, TakenIn, FS_RemoveElement
<1>3. \A s \in SUBSET D : Cardinality(s) = 0 => s = {}
  BY <1>1, FS_EmptySet
<1> HIDE DEF D
<1>4. Bad = {}
  <2> SUFFICES ASSUME Bad # {} PROVE FALSE
    OBVIOUS
  <2>1. Bad \in SUBSET Nat
    OBVIOUS
  <2>2. PICK m \in Bad : \A k \in Nat : k < m => k \notin Bad
    <3> HIDE DEF Bad
    <3> QED
      BY <2>1, LeastBad
  <2>3. CASE m = 0
    <3> DEFINE h == [s \in SUBSET D |-> 0]
    <3>1. UpTo(0, h)
      BY <1>1, <1>3 DEF SumOf
    <3> QED
      BY <2>2, <2>3, <3>1
  <2>4. CASE m # 0
    <3>1. m \in Nat /\ m - 1 \in Nat /\ m - 1 < m
      BY <2>4
    <3>2. PICK g : UpTo(m - 1, g)
      BY <2>2, <3>1
    <3> DEFINE h == [s \in SUBSET D |-> IF Cardinality(s) = m THEN SumOf(f, g, s) ELSE g[s]]
    <3>3. ASSUME NEW s \in SUBSET D, Cardinality(s) <= m
          PROVE  h[s] = SumOf(f, h, s)
      <4>1. CASE s = {}
        <5>1. Cardinality(s) = 0
          BY <4>1, FS_EmptySet
        <5>2. h[s] = g[s] /\ g[s] = SumOf(f, g, s)
          BY <3>1, <3>2, <2>4, <5>1
        <5> QED
          BY <4>1, <5>2 DEF SumOf
      <4>2. CASE s # {}
        <5>1. h[s \ {Taken(s)}] = g[s \ {Taken(s)}]
          BY <1>1, <1>2, <3>1, <3>3, <4>2
        <5>2. h[s] = SumOf(f, g, s)
          BY <1>1, <3>1, <3>2, <3>3
        <5> QED
          BY <4>2, <5>1, <5>2 DEF SumOf
      <4> QED
        BY <4>1, <4>2
    <3> HIDE DEF h
    <3>4. UpTo(m, h)
      BY <3>3
    <3> QED
      BY <2>2, <3>4
  <2> QED
    BY <2>3, <2>4
<1>5. Cardinality(D) \in Nat
  BY <1>1
<1>6. PICK g : UpTo(Cardinality(D), g)
  BY <1>4, <1>5
<1> DEFINE h == [s \in SUBSET D |-> g[s]]
<1>7. \A s \in SUBSET D : h[s] = SumOf(f, h, s)
  <2> SUFFICES ASSUME NEW s \in SUBSET D PROVE h[s] = SumOf(f, h, s)
    OBVIOUS
  <2>1. g[s] = SumOf(f, g, s)
    BY <1>1, <1>6
  <2> QED
    BY <1>2, <2>1 DEF SumOf
<1>8. h = [s \in SUBSET D |-> h[s]]
  OBVIOUS
<1> HIDE DEF h
<1> QED
  BY <1>7, <1>8 DEF Sums, D

LEMMA SmallestSet ==
  ASSUME NEW D, IsFiniteSet(D), NEW Bad \in SUBSET (SUBSET D), Bad # {}
  PROVE  \E s \in Bad : \A x \in s : s \ {x} \notin Bad
<1> DEFINE Sizes == {Cardinality(s) : s \in Bad}
<1>1. \A s \in SUBSET D : IsFiniteSet(s) /\ Cardinality(s) \in Nat
  BY FS_Subset, FS_CardinalityType
<1>2. Sizes \in SUBSET Nat /\ Sizes # {}
  BY <1>1
<1>3. PICK m \in Sizes : \A k \in Nat : k < m => k \notin Sizes
  <2> HIDE DEF Sizes
  <2> QED
    BY <1>2, LeastBad
<1>4. PICK s \in Bad : Cardinality(s) = m
  BY <1>3
<1>5. ASSUME NEW x \in s, s \ {x} \in Bad
      PROVE  FALSE
  <2>1. Cardinality(s \ {x}) = Cardinality(s) - 1 /\ Cardinality(s \ {x}) \in Nat
    BY <1>1, <1>4, <1>5, FS_RemoveElement
  <2>2. Cardinality(s \ {x}) \in Sizes
    BY <1>5
  <2> HIDE DEF Sizes
  <2>3. Cardinality(s \ {x}) < m
    BY <1>1, <1>4, <2>1
  <2> QED
    BY <1>3, <2>1, <2>2, <2>3
<1> QED
  BY <1>4, <1>5


Joined(E, P) == UNION {P[x] : x \in E}

\* A set made of parts has no more elements than the parts have together.
LEMMA SumBounds ==
  ASSUME NEW E, IsFiniteSet(E), NEW g \in [E -> Nat], NEW h, Sums(g, h),
         NEW P, \A x \in E : IsFiniteSet(P[x]) /\ Cardinality(P[x]) <= g[x]
  PROVE  /\ h[E] \in Nat
         /\ IsFiniteSet(Joined(E, P)) /\ Cardinality(Joined(E, P)) <= h[E]
<1> DEFINE U(s) == UNION {P[x] : x \in s}
           Good(s) == h[s] \in Nat /\ IsFiniteSet(U(s)) /\ Cardinality(U(s)) <= h[s]
           Bad == {s \in SUBSET E : ~Good(s)}
<1>1. Bad = {}
  <2> SUFFICES ASSUME Bad # {} PROVE FALSE
    OBVIOUS
  <2>1. Bad \in SUBSET (SUBSET E)
    OBVIOUS
  <2>2. PICK s \in Bad : \A x \in s : s \ {x} \notin Bad
    <3> HIDE DEF Bad
    <3> QED
      BY <2>1, SmallestSet
  <2>3. h[s] = SumOf(g, h, s)
    BY DEF Sums
  <2>4. CASE s = {}
    <3>1. h[s] = 0 /\ U(s) = {}
      BY <2>3, <2>4 DEF SumOf
    <3>2. Good(s)
      <4> HIDE DEF U
      <4> QED
        BY <3>1, FS_EmptySet
    <3> QED
      BY <2>2, <3>2
  <2>5. CASE s # {}
    <3> DEFINE x == Taken(s)
               r == s \ {x}
    <3>1. x \in s
      BY <2>5, TakenIn
    <3>2. r \in SUBSET E /\ r \notin Bad
      BY <2>2, <3>1
    <3>3. h[r] \in Nat /\ IsFiniteSet(U(r)) /\ Cardinality(U(r)) <= h[r]
      <4> HIDE DEF U, r
      <4> QED
        BY <3>2
    <3>4. h[s] = g[x] + h[r]
      BY <2>3, <2>5 DEF SumOf
    <3>5. U(s) = P[x] \cup U(r)
      BY <3>1
    <3>6. x \in E /\ IsFiniteSet(P[x]) /\ Cardinality(P[x]) <= g[x] /\ g[x] \in Nat
      BY <2>2, <3>1
    <3> HIDE DEF U, x, r
    <3>7. /\ IsFiniteSet(P[x] \cup U(r))
          /\ Cardinality(P[x] \cup U(r)) =
               Cardinality(P[x]) + Cardinality(U(r)) - Cardinality(P[x] \cap U(r))
      BY <3>3, <3>6, FS_Union
    <3>8. /\ Cardinality(P[x]) \in Nat /\ Cardinality(U(r)) \in Nat
          /\ Cardinality(P[x] \cap U(r)) \in Nat
      <4>1. P[x] \cap U(r) \in SUBSET P[x]
        OBVIOUS
      <4>2. IsFiniteSet(P[x] \cap U(r))
        BY <3>6, <4>1, FS_Subset
      <4> QED
        BY <3>3, <3>6, <4>2, FS_CardinalityType
    <3>9. Good(s)
      BY <3>3, <3>4, <3>5, <3>6, <3>7, <3>8
    <3> QED
      BY <2>2, <3>9
  <2> QED
    BY <2>4, <2>5
<1>2. E \in SUBSET E
  OBVIOUS
<1>3. Good(E)
  <2> HIDE DEF Good
  <2> QED
    BY <1>1, <1>2
<1> QED
  BY <1>3 DEF Joined

\* The states that the words of W need besides the root.
Spelled(W) == UNION {Prefixes(w) \ {<<>>} : w \in W}

LEMMA UpTo ==
  ASSUME NEW n \in Nat
  PROVE  IsFiniteSet(1..n) /\ Cardinality(1..n) = n
<1>1. 1 \in Int /\ n \in Int /\ (1 > n => n = 0)
  OBVIOUS
<1> QED
  BY <1>1, FS_Interval

LEMMA PrefixCount ==
  ASSUME NEW w \in Text
  PROVE  IsFiniteSet(Prefixes(w) \ {<<>>}) /\ Cardinality(Prefixes(w) \ {<<>>}) <= Len(w)
<1> DEFINE n == Len(w)
           P == Prefixes(w) \ {<<>>}
           g == [l \in 1..n |-> SubSeq(w, 1, l)]
<1>1. n \in Nat
  BY LenText
<1>2. \A l \in 1..n : SubSeq(w, 1, l) # <<>>
  <2> TAKE l \in 1..n
  <2>1. Len(SubSeq(w, 1, l)) = l
    BY <1>1 DEF Text
  <2> QED
    BY <2>1, NoText
<1>3. SubSeq(w, 1, 0) = <<>>
  BY SubSeqEmpty
<1>4. \A l \in 0..n : l = 0 \/ l \in 1..n
  BY <1>1
<1>5. g \in Surjection(1..n, P)
  <2>1. \A x \in P : \E l \in 1..n : x = SubSeq(w, 1, l)
    BY <1>3, <1>4 DEF Prefixes
  <2>2. \A l \in 1..n : SubSeq(w, 1, l) \in P
    <3>1. \A l \in 1..n : l \in 0..n
      BY <1>1
    <3> QED
      BY <1>2, <3>1 DEF Prefixes
  <2> QED
    BY <2>1, <2>2 DEF Surjection
<1>6. IsFiniteSet(1..n) /\ Cardinality(1..n) = n
  BY <1>1, UpTo
<1> HIDE DEF P, g
<1>7. IsFiniteSet(P) /\ Cardinality(P) <= n
  BY <1>5, <1>6, FS_Surjection
<1> QED
  BY <1>7 DEF P

\* The sum of the lengths, as the fold adds them.
LenSums(W, h) ==
  h = [s \in SUBSET W |-> IF s = {} THEN 0 ELSE Len(Taken(s)) + h[s \ {Taken(s)}]]

LEMMA LengthsBound ==
  ASSUME NEW W, IsFiniteSet(W), W \subseteq Text
  PROVE  /\ MapThenSumSet(Len, W) \in Nat
         /\ IsFiniteSet(Spelled(W)) /\ Cardinality(Spelled(W)) <= MapThenSumSet(Len, W)
<1> DEFINE g == [w \in W |-> Len(w)]
           P == [w \in W |-> Prefixes(w) \ {<<>>}]
           h == CHOOSE k : LenSums(W, k)
<1>1. MapThenSumSet(Len, W) = h[W]
  BY DEF MapThenSumSet, MapThenFoldSet, LenSums, Taken
<1>2. \A k : LenSums(W, k) <=> Sums(g, k)
  <2>1. ASSUME NEW k, NEW s \in SUBSET W
        PROVE  SumOf(g, k, s) = IF s = {} THEN 0 ELSE Len(Taken(s)) + k[s \ {Taken(s)}]
    <3>1. s # {} => Taken(s) \in W
      BY TakenIn
    <3> QED
      BY <3>1 DEF SumOf
  <2>2. DOMAIN g = W
    OBVIOUS
  <2> HIDE DEF g
  <2> QED
    BY <2>1, <2>2 DEF LenSums, Sums
<1>3. g \in [W -> Nat] /\ IsFiniteSet(DOMAIN g)
  BY LenText
<1>4. \E k : Sums(g, k)
  <2> HIDE DEF g
  <2> QED
    BY <1>3, SumsExist
<1>5. Sums(g, h)
  <2> HIDE DEF g
  <2> QED
    BY <1>2, <1>4
<1>6. \A w \in W : IsFiniteSet(P[w]) /\ Cardinality(P[w]) <= g[w]
  BY PrefixCount
<1>7. Spelled(W) = Joined(W, P)
  BY DEF Spelled, Joined
<1> HIDE DEF g, h, P
<1>8. /\ h[W] \in Nat /\ IsFiniteSet(Joined(W, P))
      /\ Cardinality(Joined(W, P)) <= h[W]
  BY <1>3, <1>5, <1>6, SumBounds
<1> QED
  BY <1>1, <1>7, <1>8

\* The same for the words of several rows, or of several rules.
PartSums(E, W, h) ==
  h = [s \in SUBSET E |->
         IF s = {} THEN 0 ELSE MapThenSumSet(Len, W[Taken(s)]) + h[s \ {Taken(s)}]]

LEMMA PartsBound ==
  ASSUME NEW E, IsFiniteSet(E), NEW W, \A x \in E : IsFiniteSet(W[x]) /\ W[x] \subseteq Text
  PROVE  /\ \E h : PartSums(E, W, h)
         /\ \A h : PartSums(E, W, h) =>
              /\ h[E] \in Nat
              /\ IsFiniteSet(UNION {Spelled(W[x]) : x \in E})
              /\ Cardinality(UNION {Spelled(W[x]) : x \in E}) <= h[E]
<1> DEFINE g == [x \in E |-> MapThenSumSet(Len, W[x])]
           P == [x \in E |-> Spelled(W[x])]
<1>1. \A h : PartSums(E, W, h) <=> Sums(g, h)
  <2>1. ASSUME NEW h, NEW s \in SUBSET E
        PROVE  SumOf(g, h, s) = IF s = {} THEN 0
                 ELSE MapThenSumSet(Len, W[Taken(s)]) + h[s \ {Taken(s)}]
    <3>1. s # {} => Taken(s) \in E
      BY TakenIn
    <3>2. s # {} => g[Taken(s)] = MapThenSumSet(Len, W[Taken(s)])
      BY <3>1
    <3> HIDE DEF g
    <3> QED
      BY <3>2 DEF SumOf
  <2>2. DOMAIN g = E
    OBVIOUS
  <2> HIDE DEF g
  <2> QED
    BY <2>1, <2>2 DEF PartSums, Sums
<1>2. \A x \in E : /\ MapThenSumSet(Len, W[x]) \in Nat
                   /\ IsFiniteSet(Spelled(W[x]))
                   /\ Cardinality(Spelled(W[x])) <= MapThenSumSet(Len, W[x])
  BY LengthsBound
<1>3. g \in [E -> Nat] /\ IsFiniteSet(DOMAIN g)
  BY <1>2
<1>4. \A x \in E : IsFiniteSet(P[x]) /\ Cardinality(P[x]) <= g[x]
  BY <1>2
<1>5. \E h : Sums(g, h)
  <2> HIDE DEF g
  <2> QED
    BY <1>3, SumsExist
<1>6. UNION {Spelled(W[x]) : x \in E} = Joined(E, P)
  BY DEF Joined
<1> HIDE DEF g, P
<1>7. ASSUME NEW h, Sums(g, h)
      PROVE  /\ h[E] \in Nat /\ IsFiniteSet(Joined(E, P))
             /\ Cardinality(Joined(E, P)) <= h[E]
  BY <1>3, <1>4, <1>7, SumBounds
<1> QED
  BY <1>1, <1>5, <1>6, <1>7

\* The states of an automaton are no more than the room reserved for them.
LEMMA StatesBound ==
  ASSUME tables \in Tables, NEW f
  PROVE  /\ IsFiniteSet(States(f)) /\ Cardinality(States(f)) <= Cap(f)
         /\ Cap(f) \in Nat
<1> DEFINE E == Rows(f)
           F == Rules(f)
           V == [i \in E |-> tables.categories[i].sigs]
           W == [i \in F |-> tables.rules[i].terms]
           RowSums(k) == k = [s \in SUBSET E |-> IF s = {} THEN 0
             ELSE MapThenSumSet(Len, tables.categories[Taken(s)].sigs) + k[s \ {Taken(s)}]]
           RuleSums(k) == k = [s \in SUBSET F |-> IF s = {} THEN 0
             ELSE MapThenSumSet(Len, tables.rules[Taken(s)].terms) + k[s \ {Taken(s)}]]
           m == CHOOSE k : RowSums(k)
           n == CHOOSE k : RuleSums(k)
           A == UNION {Spelled(V[i]) : i \in E}
           B == UNION {Spelled(W[i]) : i \in F}
<1>1. IsFiniteSet(E) /\ IsFiniteSet(F)
  <2>1. /\ tables.categories \in Seq([cat : Nat, match : SUBSET Flavour, sigs : SUBSET Seq(Byte)])
        /\ tables.rules \in Seq([cat : Nat, match : SUBSET Flavour, terms : SUBSET Seq(Byte)])
    BY TableAssumption
  <2>2. /\ DOMAIN tables.categories = 1..Len(tables.categories) /\ Len(tables.categories) \in Nat
        /\ DOMAIN tables.rules = 1..Len(tables.rules) /\ Len(tables.rules) \in Nat
    BY <2>1, LenProperties
  <2>3. \A l \in Nat : IsFiniteSet(1..l)
    BY UpTo
  <2>4. IsFiniteSet(DOMAIN tables.categories) /\ IsFiniteSet(DOMAIN tables.rules)
    BY <2>2, <2>3
  <2>5. E \in SUBSET (DOMAIN tables.categories) /\ F \in SUBSET (DOMAIN tables.rules)
    BY DEF Rows, Rules
  <2> HIDE DEF E, F
  <2> QED
    BY <2>4, <2>5, FS_Subset
<1>2. Cap(f) = 1 + m[E] + n[F]
  BY DEF Cap, MapThenSumSet, MapThenFoldSet, Taken
<1>3. /\ \A i \in E : IsFiniteSet(V[i]) /\ V[i] \subseteq Text
      /\ \A i \in F : IsFiniteSet(W[i]) /\ W[i] \subseteq Text
  BY TablesTyped DEF Rows, Rules
<1>4. \A k : RowSums(k) <=> PartSums(E, V, k)
  <2>1. \A s \in SUBSET E : s # {} => V[Taken(s)] = tables.categories[Taken(s)].sigs
    BY TakenIn
  <2> HIDE DEF E, V
  <2> QED
    BY <2>1 DEF PartSums
<1>5. \A k : RuleSums(k) <=> PartSums(F, W, k)
  <2>1. \A s \in SUBSET F : s # {} => W[Taken(s)] = tables.rules[Taken(s)].terms
    BY TakenIn
  <2> HIDE DEF F, W
  <2> QED
    BY <2>1 DEF PartSums
<1>6. m[E] \in Nat /\ IsFiniteSet(A) /\ Cardinality(A) <= m[E]
  <2>1. /\ \E h : PartSums(E, V, h)
        /\ \A h : PartSums(E, V, h) =>
             h[E] \in Nat /\ IsFiniteSet(A) /\ Cardinality(A) <= h[E]
    <3> HIDE DEF E, V
    <3> QED
      BY <1>1, <1>3, PartsBound
  <2>2. PartSums(E, V, m)
    <3> HIDE DEF RowSums, E, V
    <3> QED
      BY <1>4, <2>1
  <2> HIDE DEF m, A, E, V
  <2> QED
    BY <2>1, <2>2
<1>7. n[F] \in Nat /\ IsFiniteSet(B) /\ Cardinality(B) <= n[F]
  <2>1. /\ \E h : PartSums(F, W, h)
        /\ \A h : PartSums(F, W, h) =>
             h[F] \in Nat /\ IsFiniteSet(B) /\ Cardinality(B) <= h[F]
    <3> HIDE DEF F, W
    <3> QED
      BY <1>1, <1>3, PartsBound
  <2>2. PartSums(F, W, n)
    <3> HIDE DEF RuleSums, F, W
    <3> QED
      BY <1>5, <2>1
  <2> HIDE DEF n, B, F, W
  <2> QED
    BY <2>1, <2>2
<1>8. States(f) = {<<>>} \cup (A \cup B)
  <2>1. \A w : w \in Words(f) <=> \/ \E i \in E : w \in V[i]
                                 \/ \E i \in F : w \in W[i]
    <3>1. \A w : w \in Words(f) <=> \/ \E i \in E : w \in tables.categories[i].sigs
                                   \/ \E t \in Terms(f) : w = t[2]
      <4> DEFINE C == UNION {tables.categories[i].sigs : i \in E}
                 D == {t[2] : t \in Terms(f)}
      <4>1. Words(f) = C \cup D
        BY DEF Words
      <4>2. \A w : w \in C <=> \E i \in E : w \in tables.categories[i].sigs
        OBVIOUS
      <4>3. \A w : w \in D <=> \E t \in Terms(f) : w = t[2]
        OBVIOUS
      <4> HIDE DEF C, D
      <4> QED
        BY <4>1, <4>2, <4>3
    <3>2. \A w : (\E t \in Terms(f) : w = t[2]) <=> \E i \in F : w \in tables.rules[i].terms
      <4>1. ASSUME NEW t \in Terms(f) PROVE \E i \in F : t[2] \in tables.rules[i].terms
        BY DEF Terms
      <4>2. ASSUME NEW i \in F, NEW w \in tables.rules[i].terms
            PROVE  <<i, w>> \in Terms(f)
        BY DEF Terms
      <4> QED
        BY <4>1, <4>2
    <3> QED
      BY <3>1, <3>2
  <2>2. \A x : x \in States(f) <=> x = <<>> \/ \E w \in Words(f) : x \in Prefixes(w)
    BY DEF States
  <2>3. \A x : x \in A <=> \E i \in E : \E w \in V[i] : x \in Prefixes(w) \ {<<>>}
    <3> HIDE DEF E, V
    <3> QED
      BY DEF Spelled
  <2>4. \A x : x \in B <=> \E i \in F : \E w \in W[i] : x \in Prefixes(w) \ {<<>>}
    <3> HIDE DEF F, W
    <3> QED
      BY DEF Spelled
  <2> HIDE DEF A, B, E, F, V, W
  <2> QED
    BY <2>1, <2>2, <2>3, <2>4
<1> HIDE DEF A, B, m, n, E, F
<1>9. /\ IsFiniteSet(A \cup B) /\ Cardinality(A \cup B) \in Nat
      /\ Cardinality(A \cup B) <= Cardinality(A) + Cardinality(B)
      /\ Cardinality(A) \in Nat /\ Cardinality(B) \in Nat
  <2>1. A \cap B \in SUBSET A
    OBVIOUS
  <2>2. Cardinality(A \cap B) \in Nat /\ Cardinality(A) \in Nat /\ Cardinality(B) \in Nat
    BY <1>6, <1>7, <2>1, FS_Subset, FS_CardinalityType
  <2>3. /\ IsFiniteSet(A \cup B)
        /\ Cardinality(A \cup B) = Cardinality(A) + Cardinality(B) - Cardinality(A \cap B)
    BY <1>6, <1>7, FS_Union
  <2>4. Cardinality(A \cup B) \in Nat
    BY <2>3, FS_CardinalityType
  <2> QED
    BY <2>2, <2>3, <2>4
<1>10. /\ IsFiniteSet(States(f))
       /\ Cardinality(States(f)) <= Cardinality(A \cup B) + 1
       /\ Cardinality(States(f)) \in Nat
  <2> DEFINE C == A \cup B
  <2>1. C \cup {<<>>} = States(f)
    BY <1>8
  <2>2. IsFiniteSet(C) /\ Cardinality(C) \in Nat
    BY <1>9
  <2> HIDE DEF C
  <2>3. /\ IsFiniteSet(C \cup {<<>>})
        /\ Cardinality(C \cup {<<>>}) = IF <<>> \in C THEN Cardinality(C) ELSE Cardinality(C) + 1
    BY <2>2, FS_AddElement
  <2>4. Cardinality(States(f)) <= Cardinality(C) + 1 /\ Cardinality(States(f)) \in Nat
    <3>1. Cardinality(States(f)) = IF <<>> \in C THEN Cardinality(C) ELSE Cardinality(C) + 1
      BY <2>1, <2>3
    <3>2. CASE <<>> \in C
      BY <2>2, <3>1, <3>2
    <3>3. CASE <<>> \notin C
      BY <2>2, <3>1, <3>3
    <3> QED
      BY <3>2, <3>3
  <2> QED
    BY <2>1, <2>3, <2>4 DEF C
<1> QED
  BY <1>2, <1>6, <1>7, <1>9, <1>10

\* The tables are never written past what ngx_http_shield_ac_build allocates,
\* whatever the words: each state is queued once, and there are no more states
\* than bytes in the words.
THEOREM AlwaysWithinAllocation == Spec => []WithinAllocation
<1>1. IInv => WithinAllocation
  <2> SUFFICES ASSUME IInv, phase \in DOMAIN ac PROVE WithinAllocation
    BY DEF WithinAllocation
  <2> DEFINE S == States(phase)
             N == S \ {<<>>}
  <2>1. /\ tables \in Tables /\ QueueOrder(queue, S)
        /\ DOMAIN ac[phase].next = S /\ Closed(S)
    BY StatesClosed DEF IInv, Partial, Shaped
  <2>2. IsFiniteSet(S) /\ Cardinality(S) <= Cap(phase) /\ Cap(phase) \in Nat
    BY <2>1, StatesBound
  <2> HIDE DEF S
  <2>3. queue \in Seq(N) /\ Len(queue) \in Nat /\ DOMAIN queue = 1..Len(queue)
    <3>1. queue \in Seq(N)
      BY <2>1 DEF QueueOrder
    <3> HIDE DEF N
    <3> QED
      BY <3>1, LenProperties
  <2>4. \A i, j \in DOMAIN queue : queue[i] = queue[j] => i = j
    <3>1. \A i \in 1..Len(queue) : Before(queue[i], queue[i])
      BY <2>1, QueueEntries, EndsItself
    <3> QED
      BY <2>1, <2>3, <3>1 DEF QueueOrder
  <2>5. IsFiniteSet(N) /\ Cardinality(N) = Cardinality(S) - 1 /\ Cardinality(S) \in Nat
    <3>1. <<>> \in S
      BY <2>1 DEF Closed
    <3> QED
      BY <2>2, <3>1, FS_RemoveElement, FS_CardinalityType
  <2>6. Len(queue) <= Cardinality(N)
    <3> HIDE DEF N
    <3>1. queue \in [1..Len(queue) -> N]
      BY <2>3, LenProperties
    <3>2. queue \in Injection(1..Len(queue), N)
      BY <2>3, <2>4, <3>1 DEF Injection, IsInjective
    <3>3. Cardinality(1..Len(queue)) = Len(queue)
      BY <2>3, UpTo
    <3> QED
      BY <2>5, <3>2, <3>3, FS_Injection
  <2>7. Len(queue) < Cap(phase)
    BY <2>2, <2>3, <2>5, <2>6
  <2> QED
    BY <2>1, <2>2, <2>4, <2>7 DEF WithinAllocation
<1> QED
  BY <1>1, ScanInvariant, PTL

------------------------------------------------------------------------------
(* The folds over the bytes of a text.                                     *)

LEMMA MaxIs ==
  ASSUME NEW E \in SUBSET Int, NEW m \in E, \A y \in E : m >= y
  PROVE  Max(E) = m
<1>1. \E x \in E : \A y \in E : x >= y
  OBVIOUS
<1>2. Max(E) \in E /\ \A y \in E : Max(E) >= y
  BY <1>1 DEF Max
<1>3. Max(E) >= m /\ m >= Max(E) /\ Max(E) \in Int /\ m \in Int
  BY <1>2
<1> QED
  BY <1>3

LEMMA MinIs ==
  ASSUME NEW E \in SUBSET Int, NEW m \in E, \A y \in E : m <= y
  PROVE  Min(E) = m
<1>1. \E x \in E : \A y \in E : x <= y
  OBVIOUS
<1>2. Min(E) \in E /\ \A y \in E : Min(E) <= y
  BY <1>1 DEF Min
<1>3. Min(E) <= m /\ m <= Min(E) /\ Min(E) \in Int /\ m \in Int
  BY <1>2
<1> QED
  BY <1>3

\* What reading one byte does, in ac_scan and in unescape_uri.
Scanned(a, skip, acc, b) ==
  LET s == a.next[acc.s][b]
      live == a.out[s] \ skip
  IN  IF acc.row # NoRow THEN acc
      ELSE [s |-> s, seen |-> acc.seen \union a.rout[s],
            row |-> IF live = {} THEN NoRow ELSE Winner(a, live)]

Unescaped(acc, b) ==
  CASE acc.quoted = <<>> ->
         IF b = "%" THEN [acc EXCEPT !.quoted = <<b>>]
                    ELSE [acc EXCEPT !.text = Append(@, b)]
    [] Len(acc.quoted) = 1 ->
         IF b \in Digit THEN [acc EXCEPT !.quoted = Append(@, b)]
                        ELSE [quoted |-> <<>>, text |-> Append(acc.text, b)]
    [] Len(acc.quoted) = 2 ->
         [quoted |-> <<>>,
          text |-> IF b \in Digit THEN Append(acc.text, Hex(acc.quoted[2], b))
                                  ELSE acc.text]

ReadOne(how, acc, b) ==
  IF how.scans THEN Scanned(how.a, how.skip, acc, b) ELSE Unescaped(acc, b)

\* The fold, as a function of the set of positions read.
Unrolled(how, base, text, k, h) ==
  h = [s \in SUBSET (1..k) |->
         IF s = {} THEN base ELSE ReadOne(how, h[s \ {Max(s)}], text[Max(s)])]

\* There is one for any number of bytes: the last of them comes last.
LEMMA UnrolledExists ==
  ASSUME NEW how, NEW base, NEW text, NEW n \in Nat
  PROVE  \E h : Unrolled(how, base, text, n, h)
<1> DEFINE Bad == {k \in Nat : ~\E h : Unrolled(how, base, text, k, h)}
<1>3. Bad = {}
  <2> SUFFICES ASSUME Bad # {} PROVE FALSE
    OBVIOUS
  <2>1. Bad \in SUBSET Nat
    OBVIOUS
  <2> HIDE DEF Bad
  <2>2. PICK m \in Bad : \A k \in Nat : k < m => k \notin Bad
    BY <2>1, LeastBad
  <2> USE DEF Bad
  <2>3. CASE m = 0
    <3> DEFINE h == [s \in SUBSET (1..0) |-> base]
    <3>1. \A s \in SUBSET (1..0) : s = {}
      OBVIOUS
    <3>2. Unrolled(how, base, text, 0, h)
      BY <3>1 DEF Unrolled
    <3> QED
      BY <2>2, <2>3, <3>2
  <2>4. CASE m # 0
    <3>1. m \in Nat /\ m - 1 \in Nat /\ m - 1 < m
      BY <2>4
    <3>2. m - 1 \notin Bad
      <4> HIDE DEF Bad
      <4> QED
        BY <2>2, <3>1
    <3>3. PICK g : Unrolled(how, base, text, m - 1, g)
      BY <3>1, <3>2
    <3> DEFINE h == [s \in SUBSET (1..m) |->
                       IF m \in s THEN ReadOne(how, g[s \ {m}], text[m]) ELSE g[s]]
    <3>4. \A s \in SUBSET (1..m) : m \in s => Max(s) = m /\ s \ {m} \in SUBSET (1..(m - 1))
      BY <3>1, MaxIs
    <3>5. \A s \in SUBSET (1..m) : m \notin s => s \in SUBSET (1..(m - 1))
      BY <3>1
    <3>6. ASSUME NEW s \in SUBSET (1..m)
          PROVE  h[s] = IF s = {} THEN base
                        ELSE ReadOne(how, h[s \ {Max(s)}], text[Max(s)])
      <4>1. CASE m \in s
        <5>1. Max(s) = m /\ s # {} /\ s \ {m} \in SUBSET (1..m) /\ m \notin s \ {m}
          BY <3>4, <4>1
        <5>2. h[s \ {m}] = g[s \ {m}]
          BY <5>1
        <5> QED
          BY <4>1, <5>1, <5>2
      <4>2. CASE m \notin s
        <5>1. s \in SUBSET (1..(m - 1)) /\ h[s] = g[s]
          BY <3>5, <4>2
        <5>2. g[s] = IF s = {} THEN base
                     ELSE ReadOne(how, g[s \ {Max(s)}], text[Max(s)])
          BY <3>3, <5>1 DEF Unrolled
        <5>3. h[s \ {Max(s)}] = g[s \ {Max(s)}]
          BY <4>2
        <5> QED
          BY <5>1, <5>2, <5>3
      <4> QED
        BY <4>1, <4>2
    <3>7. h = [s \in SUBSET (1..m) |-> h[s]]
      OBVIOUS
    <3> HIDE DEF h
    <3>8. Unrolled(how, base, text, m, h)
      BY <3>6, <3>7 DEF Unrolled
    <3> QED
      BY <2>2, <3>8
  <2> QED
    BY <2>3, <2>4
<1> QED
  BY <1>3

LEMMA LastOf ==
  ASSUME NEW k \in Nat
  PROVE  /\ Max(1..(k + 1)) = k + 1
         /\ (1..(k + 1)) \ {k + 1} = 1..k
         /\ 1..(k + 1) # {}
<1>1. k + 1 \in 1..(k + 1) /\ 1..(k + 1) \in SUBSET Int
  OBVIOUS
<1>2. \A y \in 1..(k + 1) : k + 1 >= y
  OBVIOUS
<1>3. \A y : y \in (1..(k + 1)) \ {k + 1} <=> y \in 1..k
  OBVIOUS
<1> QED
  BY <1>1, <1>2, <1>3, MaxIs

\* Byte by byte from the first.
Reads(how, base, text, n, h) ==
  h[0] = base /\ \A k \in 0..(n - 1) : h[k + 1] = ReadOne(how, h[k], text[k + 1])

LEMMA UnrolledReads ==
  ASSUME NEW how, NEW base, NEW text, NEW n \in Nat, NEW iter,
         Unrolled(how, base, text, n, iter)
  PROVE  \E h : Reads(how, base, text, n, h) /\ h[n] = iter[1..n]
<1> DEFINE h == [k \in 0..n |-> iter[1..k]]
<1>4. \A k \in 0..n : 1..k \in SUBSET (1..n)
  OBVIOUS
<1>5. iter[1..0] = base
  BY <1>4 DEF Unrolled
<1>6. ASSUME NEW k \in 0..(n - 1)
      PROVE  iter[1..(k + 1)] = ReadOne(how, iter[1..k], text[k + 1])
  <2>1. k + 1 \in 1..(k + 1) /\ 1..(k + 1) \in SUBSET (1..n)
    OBVIOUS
  <2>0. k \in Nat
    OBVIOUS
  <2>2. /\ Max(1..(k + 1)) = k + 1
        /\ (1..(k + 1)) \ {k + 1} = 1..k /\ 1..(k + 1) # {}
    BY <2>0, LastOf
  <2> QED
    BY <2>1, <2>2 DEF Unrolled
<1>7. /\ h[0] = base
      /\ \A k \in 0..(n - 1) : h[k + 1] = ReadOne(how, h[k], text[k + 1])
      /\ h[n] = iter[1..n]
  BY <1>5, <1>6
<1> HIDE DEF h
<1> QED
  BY <1>7 DEF Reads

ScanStart == [s |-> <<>>, seen |-> {}, row |-> NoRow]

ScanRolls(a, skip, text, h) ==
  h = [s \in SUBSET (DOMAIN text) |->
         IF s = {} THEN ScanStart ELSE Scanned(a, skip, h[s \ {Max(s)}], text[Max(s)])]

LEMMA ScanReads ==
  ASSUME NEW a, NEW skip, NEW text \in Text
  PROVE  \E h : /\ h[0] = ScanStart
                /\ \A k \in 0..(Len(text) - 1) : h[k + 1] = Scanned(a, skip, h[k], text[k + 1])
                /\ ac_scan(a, text, skip) = IF h[Len(text)].row # NoRow THEN h[Len(text)].row
                                            ELSE RuleRow(a, h[Len(text)].seen, skip)
<1> DEFINE n == Len(text)
           how == [scans |-> TRUE, a |-> a, skip |-> skip]
           iter == CHOOSE h : ScanRolls(a, skip, text, h)
           end == iter[DOMAIN text]
<1>1. n \in Nat /\ DOMAIN text = 1..n
  BY LenText
<1>2. ac_scan(a, text, skip) = IF end.row # NoRow THEN end.row ELSE RuleRow(a, end.seen, skip)
  BY DEF ac_scan, FoldLeft, MapThenFoldSet, ScanRolls, ScanStart, Scanned
<1>3. \A acc, b : ReadOne(how, acc, b) = Scanned(a, skip, acc, b)
  BY DEF ReadOne
<1> HIDE DEF how, n
<1>4. \A h : ScanRolls(a, skip, text, h) <=> Unrolled(how, ScanStart, text, n, h)
  BY <1>1, <1>3 DEF ScanRolls, Unrolled
<1>5. Unrolled(how, ScanStart, text, n, iter)
  BY <1>1, <1>4, UnrolledExists
<1> HIDE DEF iter
<1>6. PICK h : Reads(how, ScanStart, text, n, h) /\ h[n] = iter[1..n]
  BY <1>1, <1>5, UnrolledReads
<1> QED
  BY <1>1, <1>2, <1>3, <1>6 DEF Reads, n

UnescapeStart == [quoted |-> <<>>, text |-> <<>>]

UnescapeRolls(data, h) ==
  h = [s \in SUBSET (DOMAIN data) |->
         IF s = {} THEN UnescapeStart ELSE Unescaped(h[s \ {Max(s)}], data[Max(s)])]

LEMMA UnescapeReads ==
  ASSUME NEW data \in Text
  PROVE  \E h : /\ h[0] = UnescapeStart
                /\ \A k \in 0..(Len(data) - 1) : h[k + 1] = Unescaped(h[k], data[k + 1])
                /\ unescape_uri(data) = h[Len(data)].text
<1> DEFINE n == Len(data)
           how == [scans |-> FALSE, a |-> <<>>, skip |-> {}]
           iter == CHOOSE h : UnescapeRolls(data, h)
<1>1. n \in Nat /\ DOMAIN data = 1..n
  BY LenText
<1>2. unescape_uri(data) = iter[DOMAIN data].text
  BY DEF unescape_uri, FoldLeft, MapThenFoldSet, UnescapeRolls, UnescapeStart, Unescaped
<1>3. \A acc, b : ReadOne(how, acc, b) = Unescaped(acc, b)
  BY DEF ReadOne
<1> HIDE DEF how, n
<1>4. \A h : UnescapeRolls(data, h) <=> Unrolled(how, UnescapeStart, data, n, h)
  BY <1>1, <1>3 DEF UnescapeRolls, Unrolled
<1>5. Unrolled(how, UnescapeStart, data, n, iter)
  BY <1>1, <1>4, UnrolledExists
<1> HIDE DEF iter
<1>6. PICK h : Reads(how, UnescapeStart, data, n, h) /\ h[n] = iter[1..n]
  BY <1>1, <1>5, UnrolledReads
<1> QED
  BY <1>1, <1>2, <1>3, <1>6 DEF Reads, n

------------------------------------------------------------------------------
(* What a finished automaton knows of the text it has read.                *)

\* The first n bytes.
Upto(text, n) == SubSeq(text, 1, n)

LEMMA UptoIs ==
  ASSUME NEW text \in Text, NEW n \in 0..Len(text)
  PROVE  /\ Upto(text, n) \in Text /\ Len(Upto(text, n)) = n
         /\ \A i \in 1..n : Upto(text, n)[i] = text[i]
<1>1. Len(text) \in Nat
  BY LenText
<1> QED
  BY <1>1 DEF Text, Upto

LEMMA UptoNone ==
  ASSUME NEW text \in Text
  PROVE  Upto(text, 0) = <<>>
BY SubSeqEmpty DEF Upto

LEMMA UptoNext ==
  ASSUME NEW text \in Text, NEW n \in 0..(Len(text) - 1)
  PROVE  /\ text[n + 1] \in Byte
         /\ Upto(text, n + 1) = Append(Upto(text, n), text[n + 1])
<1> DEFINE t == Upto(text, n)
           b == text[n + 1]
           u == Append(t, b)
           v == Upto(text, n + 1)
<1>1. Len(text) \in Nat /\ n \in 0..Len(text) /\ n + 1 \in 1..Len(text) /\ n + 1 \in 0..Len(text)
      /\ n \in Nat
  <2>1. Len(text) \in Nat
    BY LenText
  <2> QED
    BY <2>1
<1>2. b \in Byte
  BY <1>1, LenText
<1>3. t \in Text /\ Len(t) = n /\ \A i \in 1..n : t[i] = text[i]
  BY <1>1, UptoIs
<1>4. v \in Text /\ Len(v) = n + 1 /\ \A i \in 1..(n + 1) : v[i] = text[i]
  BY <1>1, UptoIs
<1> HIDE DEF t, v, b
<1>5. u \in Text /\ Len(u) = n + 1 /\ u[n + 1] = b /\ \A i \in 1..n : u[i] = t[i]
  BY <1>2, <1>3, Appended
<1> HIDE DEF u
<1>6. \A i \in 1..Len(u) : u[i] = v[i]
  <2> TAKE i \in 1..Len(u)
  <2>1. i \in 1..n \/ i = n + 1
    BY <1>1, <1>5
  <2> QED
    BY <1>1, <1>3, <1>4, <1>5, <2>1 DEF b
<1>7. u = v
  BY <1>4, <1>5, <1>6, TextEqual
<1> QED
  BY <1>2, <1>7 DEF u, v, t, b

\* A word ends at a place if it is an end of the text up to there.
LEMMA EndsThere ==
  ASSUME NEW text \in Text, NEW n \in 0..Len(text), NEW w \in Text
  PROVE  EndsAt(w, text, n) <=> Ends(w, Upto(text, n))
<1> DEFINE t == Upto(text, n)
           l == Len(w)
           u == SubSeq(text, n - l + 1, n)
<1>1. Len(text) \in Nat /\ n \in Nat /\ l \in Nat /\ n <= Len(text)
  <2>1. Len(text) \in Nat /\ l \in Nat
    BY LenText
  <2> QED
    BY <2>1
<1>2. t \in Text /\ Len(t) = n /\ \A i \in 1..n : t[i] = text[i]
  BY UptoIs
<1> HIDE DEF t
<1>3. ASSUME l <= n
      PROVE  u \in Text /\ Len(u) = l /\ \A i \in 1..l : u[i] = t[n - l + i]
  <2>1. u \in Text /\ Len(u) = l /\ \A i \in 1..l : u[i] = text[n - l + i]
    <3> HIDE DEF l
    <3> QED
      BY <1>1, <1>3 DEF Text
  <2>2. \A i \in 1..l : n - l + i \in 1..n
    BY <1>1, <1>3
  <2> QED
    BY <1>2, <2>1, <2>2
<1>4. ASSUME EndsAt(w, text, n) PROVE Ends(w, t)
  <2>1. l <= n /\ u = w
    BY <1>4 DEF EndsAt
  <2> QED
    BY <1>2, <1>3, <2>1 DEF Ends
<1>5. ASSUME Ends(w, t) PROVE EndsAt(w, text, n)
  <2>1. l <= n /\ \A i \in 1..l : w[i] = t[n - l + i]
    BY <1>2, <1>5 DEF Ends
  <2>2. u \in Text /\ Len(u) = Len(w) /\ \A i \in 1..Len(w) : u[i] = w[i]
    BY <1>3, <2>1
  <2> HIDE DEF u
  <2>3. u = w
    BY <2>2, TextEqual
  <2> QED
    BY <2>1, <2>3 DEF EndsAt, u
<1> QED
  BY <1>4, <1>5 DEF t

\* s is the longest end of x that is in S.
Tracks(S, x, s) ==
  s \in S /\ Ends(s, x) /\ \A t \in S : Ends(t, x) => Len(t) <= Len(s)

LEMMA TracksStart ==
  ASSUME NEW S, Closed(S)
  PROVE  Tracks(S, <<>>, <<>>)
BY NoText, EndsItself DEF Tracks, Closed, Ends

LEMMA TracksEnds ==
  ASSUME NEW S, Closed(S), NEW x \in Text, NEW s, Tracks(S, x, s), NEW w \in S
  PROVE  Ends(w, x) <=> Ends(w, s)
<1>1. s \in Text /\ w \in Text
  BY DEF Tracks, Closed
<1> QED
  BY <1>1, EndsOfOne, EndsTransitive DEF Tracks

\* One step of the automaton keeps to the longest end, however much of the text
\* it has forgotten.
LEMMA GoTracks ==
  ASSUME NEW S, Closed(S), NEW x \in Text, NEW s, Tracks(S, x, s), NEW b \in Byte
  PROVE  Tracks(S, Append(x, b), Go(S, s, b))
<1> DEFINE g == Go(S, s, b)
           u == Append(s, b)
           v == Append(x, b)
<1>1. s \in S /\ s \in Text /\ Ends(s, x)
  BY DEF Tracks, Closed
<1>2. /\ g \in S /\ g \in Text /\ Ends(g, u)
      /\ \A t \in S : Ends(t, u) => Len(t) <= Len(g)
  BY <1>1, GoIs
<1> HIDE DEF g
<1>3. u \in Text /\ v \in Text /\ Ends(u, v)
  BY <1>1, Appended, EndsAppended
<1>4. Ends(g, v)
  <2> HIDE DEF u, v
  <2> QED
    BY <1>2, <1>3, EndsTransitive
<1>5. ASSUME NEW t \in S, Ends(t, v) PROVE Len(t) <= Len(g)
  <2>1. t \in Text
    BY DEF Closed
  <2>2. CASE t = <<>>
    BY <1>2, <2>2, NoText, LenText
  <2>3. CASE t # <<>>
    <3>1. PICK y \in Text, c \in Byte : t = Append(y, c)
      BY <2>1, <2>3, LastByte
    <3>2. Ends(y, x) /\ c = b
      BY <1>5, <3>1, EndsAppended
    <3>3. y \in S
      BY <3>1, BeforeAppended, EndsItself DEF Closed
    <3>4. Ends(y, s)
      BY <3>2, <3>3, TracksEnds
    <3>5. Ends(t, u)
      BY <1>1, <3>1, <3>2, <3>4, EndsAppended
    <3> QED
      BY <1>2, <3>5
  <2> QED
    BY <2>2, <2>3
<1>6. Tracks(S, v, g)
  BY <1>2, <1>4, <1>5 DEF Tracks
<1> QED
  BY <1>6 DEF g

------------------------------------------------------------------------------
(* Which rows and rules are reported.                                      *)

LEMMA LeastIs ==
  ASSUME NEW n \in Nat, NEW E \in SUBSET (1..n), E # {}
  PROVE  Min(E) \in E /\ \A y \in E : Min(E) <= y
<1>1. E \in SUBSET Nat
  OBVIOUS
<1>2. PICK m \in E : \A k \in Nat : k < m => k \notin E
  BY <1>1, LeastBad
<1>3. \A y \in E : m <= y
  BY <1>1, <1>2
<1>4. E \in SUBSET Int
  BY <1>1
<1>5. Min(E) = m
  BY <1>3, <1>4, MinIs
<1> QED
  BY <1>3, <1>5

\* How many rows and rules there are.
LEMMA RowNumbers ==
  ASSUME tables \in Tables
  PROVE  /\ Len(tables.categories) \in Nat
         /\ DOMAIN tables.categories = 1..Len(tables.categories)
         /\ Len(tables.rules) \in Nat
         /\ DOMAIN tables.rules = 1..Len(tables.rules)
         /\ \A i, j \in DOMAIN tables.categories :
              tables.categories[i].cat = tables.categories[j].cat => i = j
BY TableAssumption, LenProperties

Named(c) == {i \in DOMAIN tables.categories : tables.categories[i].cat = c}

\* Its own row reports a category that takes part.
LEMMA OwnRow ==
  ASSUME tables \in Tables, NEW f, NEW i \in Rows(f)
  PROVE  Trie(f).row[tables.categories[i].cat] = i
<1> DEFINE c == tables.categories[i].cat
           own == {j \in Rows(f) : tables.categories[j].cat = c}
           ruled == {j \in DOMAIN tables.categories :
                       /\ tables.categories[j].cat = c
                       /\ \E r \in Rules(f) : tables.rules[r].cat = c}
           E == own \union ruled \union {NoRow}
<1>1. i \in DOMAIN tables.categories
  BY DEF Rows
<1>2. c \in Cats
  BY <1>1 DEF Cats
<1>3. Trie(f).row[c] = Min(E)
  BY <1>2 DEF Trie, RowOf
<1>4. \A j \in E : j = i \/ j = NoRow
  BY <1>1, RowNumbers DEF Rows
<1>5. i \in E
  OBVIOUS
<1> HIDE DEF E
<1>6. i \in Nat /\ NoRow \in Nat /\ i <= NoRow
  BY <1>1, RowNumbers DEF NoRow
<1>7. E \in SUBSET Int /\ \A j \in E : i <= j
  BY <1>4, <1>6
<1>8. Min(E) = i
  BY <1>5, <1>7, MinIs
<1> QED
  BY <1>3, <1>8

\* The row of the category reports a rule, or none if no row has the category.
LEMMA RowOfRule ==
  ASSUME tables \in Tables, NEW f, NEW i \in Rules(f)
  PROVE  LET c == tables.rules[i].cat
         IN  Trie(f).row[c] = IF Named(c) = {} THEN NoRow ELSE Min(Named(c))
<1> DEFINE c == tables.rules[i].cat
           N == Named(c)
           own == {j \in Rows(f) : tables.categories[j].cat = c}
           ruled == {j \in DOMAIN tables.categories :
                       /\ tables.categories[j].cat = c
                       /\ \E r \in Rules(f) : tables.rules[r].cat = c}
           E == own \union ruled \union {NoRow}
<1>1. i \in DOMAIN tables.rules
  BY DEF Rules
<1>2. c \in Cats
  BY <1>1 DEF Cats
<1>3. Trie(f).row[c] = Min(E)
  BY <1>2 DEF Trie, RowOf
<1>4. E = N \union {NoRow}
  BY DEF Named, Rows
<1>5. N \in SUBSET (1..Len(tables.categories)) /\ Len(tables.categories) \in Nat
  BY RowNumbers DEF Named
<1>6. NoRow = Len(tables.categories) + 1
  BY DEF NoRow
<1> HIDE DEF E, N
<1>7. /\ E \in SUBSET Int /\ NoRow \in E
      /\ \A y \in N : y < NoRow
  <2>1. NoRow \in Int /\ \A y \in N : y \in Int /\ y < NoRow
    <3> SUFFICES ASSUME NEW y \in N PROVE NoRow \in Int /\ y \in Int /\ y < NoRow
      BY <1>5, <1>6
    <3>1. y \in 1..Len(tables.categories)
      BY <1>5
    <3> QED
      BY <1>5, <1>6, <3>1
  <2> QED
    BY <1>4, <2>1
<1>8. CASE N = {}
  <2>1. Min(E) = NoRow
    <3>1. \A y \in E : NoRow <= y
      BY <1>4, <1>5, <1>6, <1>8
    <3> QED
      BY <1>7, <3>1, MinIs
  <2> QED
    BY <1>3, <1>8, <2>1 DEF N
<1>9. CASE N # {}
  <2>1. Min(N) \in N /\ \A y \in N : Min(N) <= y
    BY <1>5, <1>9, LeastIs
  <2>2. Min(N) \in E /\ \A y \in E : Min(N) <= y
    <3> DEFINE m == Min(N)
    <3>1. m \in N /\ \A y \in N : m <= y
      BY <2>1
    <3> HIDE DEF m
    <3>2. m \in E /\ m < NoRow /\ m \in Int /\ NoRow \in Int
      BY <1>4, <1>7, <3>1
    <3>3. \A y \in E : m <= y
      BY <1>4, <3>1, <3>2
    <3> QED
      BY <3>2, <3>3 DEF m
  <2>3. Min(E) = Min(N)
    BY <1>7, <2>2, MinIs
  <2> QED
    BY <1>3, <1>9, <2>3 DEF N
<1> QED
  BY <1>8, <1>9

------------------------------------------------------------------------------
(* A scan with a finished automaton.                                       *)

Finished(f, a) == Shaped(f, a) /\ Exact(f, a)

\* The enabled rows with a signature that ends after n bytes, and the terms that
\* have ended by then.
Hits(f, text, skip, n) ==
  {i \in Rows(f) : /\ tables.categories[i].cat \notin skip
                   /\ \E w \in tables.categories[i].sigs : EndsAt(w, text, n)}
Seen(f, text, n) == {t \in Terms(f) : \E j \in 1..n : EndsAt(t[2], text, j)}
TermsAt(f, text, n) == {t \in Terms(f) : EndsAt(t[2], text, n)}
CatsOf(H) == {tables.categories[i].cat : i \in H}

LEMMA HitRows ==
  ASSUME tables \in Tables, NEW f, NEW text, NEW skip, NEW n, Hits(f, text, skip, n) # {}
  PROVE  LET least == Min(Hits(f, text, skip, n))
         IN  /\ least \in Hits(f, text, skip, n) /\ least # NoRow
             /\ \A i \in Hits(f, text, skip, n) : least <= i
<1> DEFINE H == Hits(f, text, skip, n)
           rows == Len(tables.categories)
<1>1. H \in SUBSET (1..rows) /\ rows \in Nat /\ H # {}
  BY RowNumbers DEF Hits, Rows
<1>2. NoRow = rows + 1
  BY DEF NoRow
<1> HIDE DEF H, rows
<1>3. Min(H) \in H /\ \A i \in H : Min(H) <= i
  BY <1>1, LeastIs
<1> DEFINE m == Min(H)
<1>4. m \in 1..rows
  BY <1>1, <1>3
<1> HIDE DEF m
<1>5. m # NoRow
  BY <1>1, <1>2, <1>4
<1> QED
  BY <1>3, <1>5 DEF H, m

LEMMA WinnerIs ==
  ASSUME tables \in Tables, NEW f, NEW a, Finished(f, a), NEW H \in SUBSET Rows(f)
  PROVE  Winner(a, CatsOf(H)) = Min(H)
<1>1. a.row = Trie(f).row
  BY DEF Finished, Shaped
<1>2. \A i \in H : a.row[tables.categories[i].cat] = i
  BY <1>1, OwnRow
<1>3. {a.row[c] : c \in CatsOf(H)} = {a.row[tables.categories[i].cat] : i \in H}
  BY DEF CatsOf
<1>4. {a.row[tables.categories[i].cat] : i \in H} = H
  BY <1>2
<1> QED
  BY <1>3, <1>4 DEF Winner

AcceptsThere(f, a, text, skip, n, s) ==
  /\ a.out[s] \ skip = CatsOf(Hits(f, text, skip, n))
  /\ a.rout[s] = TermsAt(f, text, n)

\* What is accepted in the state reached is what ends there in the text.
LEMMA LiveAre ==
  ASSUME tables \in Tables, NEW f, NEW a, Finished(f, a), NEW text \in Text, NEW skip,
         NEW n \in 0..Len(text), NEW s, Tracks(States(f), Upto(text, n), s)
  PROVE  AcceptsThere(f, a, text, skip, n, s)
<1> DEFINE S == States(f)
           x == Upto(text, n)
<1>1. Closed(S) /\ Words(f) \subseteq S
  BY StatesClosed
<1>2. x \in Text
  BY UptoIs
<1>3. s \in S /\ s \in Text
  BY <1>1 DEF Tracks, Closed
<1>4. ASSUME NEW w \in Words(f) PROVE w \in Suffixes(s) <=> EndsAt(w, text, n)
  <2>1. w \in S /\ w \in Text
    BY <1>1 DEF Closed
  <2>2. w \in Suffixes(s) <=> Ends(w, s)
    BY <1>3, <2>1, SuffixesAre
  <2>3. Ends(w, x) <=> Ends(w, s)
    <3> HIDE DEF x, S
    <3>1. Tracks(S, x, s)
      BY DEF x, S
    <3> QED
      BY <1>1, <1>2, <2>1, <3>1, TracksEnds
  <2>4. EndsAt(w, text, n) <=> Ends(w, x)
    BY <2>1, EndsThere
  <2> QED
    BY <2>2, <2>3, <2>4
<1>5. a.out[s] = EndCats(f, s) /\ a.rout[s] = EndTerms(f, s)
  BY <1>3 DEF Finished, Exact
<1>6. \A t \in Terms(f) : t[2] \in Suffixes(s) <=> EndsAt(t[2], text, n)
  BY <1>4, WordsAre
<1>7. ASSUME NEW i \in Rows(f)
      PROVE  tables.categories[i].sigs \cap Suffixes(s) # {}
               <=> \E w \in tables.categories[i].sigs : EndsAt(w, text, n)
  <2>1. \A w \in tables.categories[i].sigs : w \in Suffixes(s) <=> EndsAt(w, text, n)
    BY <1>4, WordsAre
  <2> QED
    BY <2>1
<1>8. a.rout[s] = TermsAt(f, text, n)
  BY <1>5, <1>6 DEF EndTerms, TermsAt
<1>9. a.out[s] \ skip = CatsOf(Hits(f, text, skip, n))
  BY <1>5, <1>7 DEF EndCats, CatsOf, Hits
<1> QED
  BY <1>8, <1>9 DEF AcceptsThere

\* After n bytes: nothing found and all known that ends, or the row found.
Quiet(f, text, skip, n) == \A j \in 1..n : Hits(f, text, skip, j) = {}

ScanAt(f, text, skip, n, acc) ==
  /\ Quiet(f, text, skip, n) =>
       /\ acc.row = NoRow
       /\ Tracks(States(f), Upto(text, n), acc.s)
       /\ acc.seen = Seen(f, text, n)
  /\ \A m \in 1..n :
       Hits(f, text, skip, m) # {} /\ Quiet(f, text, skip, m - 1) =>
         acc.row = Min(Hits(f, text, skip, m))

LEMMA FirstHit ==
  ASSUME NEW f, NEW text, NEW skip, NEW n \in Nat, ~Quiet(f, text, skip, n)
  PROVE  \E m \in 1..n : Hits(f, text, skip, m) # {} /\ Quiet(f, text, skip, m - 1)
<1> DEFINE Bad == {j \in 1..n : Hits(f, text, skip, j) # {}}
<1>1. Bad \in SUBSET Nat /\ Bad # {}
  BY DEF Quiet
<1>2. PICK m \in Bad : \A k \in Nat : k < m => k \notin Bad
  <2> HIDE DEF Bad
  <2> QED
    BY <1>1, LeastBad
<1>3. \A j \in 1..(m - 1) : j \in Nat /\ j < m /\ j \in 1..n
  BY <1>2
<1>4. Quiet(f, text, skip, m - 1)
  BY <1>2, <1>3 DEF Quiet
<1> QED
  BY <1>2, <1>4

LEMMA ScanStep ==
  ASSUME tables \in Tables, NEW f, NEW a, Finished(f, a), NEW text \in Text, NEW skip,
         NEW n \in 0..(Len(text) - 1), NEW acc, ScanAt(f, text, skip, n, acc)
  PROVE  ScanAt(f, text, skip, n + 1, Scanned(a, skip, acc, text[n + 1]))
<1> DEFINE S == States(f)
           b == text[n + 1]
           new == Scanned(a, skip, acc, b)
           H == Hits(f, text, skip, n + 1)
<1>1. n \in Nat /\ n + 1 \in 0..Len(text) /\ n \in 0..Len(text)
  <2>1. Len(text) \in Nat
    BY LenText
  <2> QED
    BY <2>1
<1>2. CASE Quiet(f, text, skip, n)
  <2>1. acc.row = NoRow /\ Tracks(S, Upto(text, n), acc.s) /\ acc.seen = Seen(f, text, n)
    BY <1>2 DEF ScanAt
  <2> DEFINE s == a.next[acc.s][b]
             live == a.out[s] \ skip
  <2>2. Tracks(S, Upto(text, n + 1), s)
    <3>1. b \in Byte /\ Upto(text, n + 1) = Append(Upto(text, n), b)
      BY UptoNext
    <3>2. s = Go(S, acc.s, b)
      <4>1. acc.s \in S
        BY <2>1 DEF Tracks
      <4> QED
        BY <3>1, <4>1 DEF Finished, Exact
    <3>3. Closed(S) /\ Upto(text, n) \in Text
      BY <1>1, StatesClosed, UptoIs
    <3> HIDE DEF b, s, S
    <3>4. Tracks(S, Append(Upto(text, n), b), Go(S, acc.s, b))
      BY <2>1, <3>1, <3>3, GoTracks
    <3> QED
      BY <3>1, <3>2, <3>4
  <2>3. live = CatsOf(H) /\ a.rout[s] = TermsAt(f, text, n + 1)
    <3> DEFINE p == n + 1
    <3>1. p \in 0..Len(text) /\ Tracks(States(f), Upto(text, p), s)
      BY <1>1, <2>2
    <3> HIDE DEF s, p
    <3>2. AcceptsThere(f, a, text, skip, p, s)
      BY <3>1, LiveAre
    <3> QED
      BY <3>2 DEF p, AcceptsThere
  <2>4. new = [s |-> s, seen |-> acc.seen \union a.rout[s],
               row |-> IF live = {} THEN NoRow ELSE Winner(a, live)]
    BY <2>1 DEF Scanned
  <2>5. /\ new.s = s /\ new.seen = acc.seen \union a.rout[s]
        /\ new.row = IF live = {} THEN NoRow ELSE Winner(a, live)
    <3> HIDE DEF new, s, live
    <3> QED
      BY <2>4
  <2> HIDE DEF s, live, new, H
  <2>6. CatsOf(H) = {} <=> H = {}
    BY DEF CatsOf
  <2>7. H # {} => new.row = Min(H)
    <3>1. H \in SUBSET Rows(f)
      BY DEF H, Hits
    <3> QED
      BY <2>3, <2>5, <2>6, <3>1, WinnerIs
  <2>8. new.seen = Seen(f, text, n + 1)
    <3>1. \A j : j \in 1..(n + 1) <=> j \in 1..n \/ j = n + 1
      BY <1>1
    <3>2. Seen(f, text, n + 1) = Seen(f, text, n) \union TermsAt(f, text, n + 1)
      BY <3>1 DEF Seen, TermsAt
    <3> QED
      BY <2>1, <2>3, <2>5, <3>2
  <2>9. H = {} => new.row = NoRow
    BY <2>3, <2>5, <2>6
  <2>10. Quiet(f, text, skip, n + 1) => H = {}
    <3>1. n + 1 \in 1..(n + 1)
      BY <1>1
    <3> QED
      BY <3>1 DEF Quiet, H
  <2>11. ASSUME NEW m \in 1..(n + 1), Hits(f, text, skip, m) # {}
         PROVE  new.row = Min(Hits(f, text, skip, m))
    <3>1. m \in 1..n \/ m = n + 1
      BY <1>1
    <3>2. m = n + 1
      BY <1>2, <2>11, <3>1 DEF Quiet
    <3> QED
      BY <2>7, <2>11, <3>2 DEF H
  <2>12. ScanAt(f, text, skip, n + 1, new)
    BY <2>2, <2>5, <2>8, <2>9, <2>10, <2>11 DEF ScanAt, S
  <2> QED
    BY <2>12 DEF new, b
<1>3. CASE ~Quiet(f, text, skip, n)
  <2>1. PICK m \in 1..n : Hits(f, text, skip, m) # {} /\ Quiet(f, text, skip, m - 1)
    BY <1>1, <1>3, FirstHit
  <2>2. acc.row = Min(Hits(f, text, skip, m))
    BY <2>1 DEF ScanAt
  <2>3. acc.row # NoRow
    BY <2>1, <2>2, HitRows
  <2>4. new = acc
    BY <2>3 DEF Scanned
  <2>5. ~Quiet(f, text, skip, n + 1)
    <3>1. m \in 1..(n + 1)
      BY <1>1
    <3> QED
      BY <2>1, <3>1 DEF Quiet
  <2>6. ASSUME NEW k \in 1..(n + 1), Hits(f, text, skip, k) # {}, Quiet(f, text, skip, k - 1)
        PROVE  acc.row = Min(Hits(f, text, skip, k))
    <3>1. ~(m < k)
      <4>1. m < k => m \in 1..(k - 1)
        BY <1>1
      <4> QED
        BY <2>1, <2>6, <4>1 DEF Quiet
    <3>2. ~(k < m)
      <4>1. k < m => k \in 1..(m - 1)
        BY <1>1
      <4> QED
        BY <2>1, <2>6, <4>1 DEF Quiet
    <3>3. k = m
      BY <1>1, <3>1, <3>2
    <3> QED
      BY <2>2, <3>3
  <2> HIDE DEF new
  <2>7. ScanAt(f, text, skip, n + 1, new)
    BY <2>4, <2>5, <2>6 DEF ScanAt
  <2> QED
    BY <2>7 DEF new, b
<1> QED
  BY <1>2, <1>3

LEMMA ScanAlong ==
  ASSUME tables \in Tables, NEW f, NEW a, Finished(f, a), NEW text \in Text, NEW skip,
         NEW h, h[0] = ScanStart,
         \A k \in 0..(Len(text) - 1) : h[k + 1] = Scanned(a, skip, h[k], text[k + 1])
  PROVE  ScanAt(f, text, skip, Len(text), h[Len(text)])
<1> DEFINE n == Len(text)
           Bad == {k \in 0..n : ~ScanAt(f, text, skip, k, h[k])}
<1>1. n \in Nat
  BY LenText
<1>2. ScanAt(f, text, skip, 0, h[0])
  <2>1. Upto(text, 0) = <<>>
    BY UptoNone
  <2>2. Tracks(States(f), <<>>, <<>>)
    BY StatesClosed, TracksStart
  <2>3. Seen(f, text, 0) = {}
    BY DEF Seen
  <2> QED
    BY <2>1, <2>2, <2>3 DEF ScanAt, ScanStart
<1>3. Bad = {}
  <2> SUFFICES ASSUME Bad # {} PROVE FALSE
    OBVIOUS
  <2>1. Bad \in SUBSET Nat
    BY <1>1
  <2>2. PICK m \in Bad : \A k \in Nat : k < m => k \notin Bad
    <3> HIDE DEF Bad
    <3> QED
      BY <2>1, LeastBad
  <2>3. m # 0
    BY <1>2
  <2>4. m - 1 \in Nat /\ m - 1 < m /\ m - 1 \in 0..n /\ m - 1 \in 0..(n - 1) /\ (m - 1) + 1 = m
    BY <1>1, <2>3
  <2>5. ScanAt(f, text, skip, m - 1, h[m - 1])
    BY <2>2, <2>4
  <2> DEFINE p == m - 1
  <2>6. p \in 0..(Len(text) - 1) /\ p + 1 = m /\ ScanAt(f, text, skip, p, h[p])
    BY <2>4, <2>5
  <2> HIDE DEF p
  <2>7. h[p + 1] = Scanned(a, skip, h[p], text[p + 1])
    BY <2>6
  <2>8. ScanAt(f, text, skip, p + 1, h[p + 1])
    BY <2>6, <2>7, ScanStep
  <2> QED
    BY <2>6, <2>8
<1>4. n \in 0..n
  BY <1>1
<1> QED
  BY <1>3, <1>4

------------------------------------------------------------------------------
(* The scan of a text is the search for each word in it.                   *)

HitPlaces(f, text, skip) == {n \in DOMAIN text : Hits(f, text, skip, n) # {}}
Fired(f, text, skip) ==
  {i \in Rules(f) : /\ tables.rules[i].cat \notin skip
                    /\ Named(tables.rules[i].cat) # {}
                    /\ \A t \in tables.rules[i].terms : Occurs(t, text)}

LEMMA NaiveIs ==
  ASSUME NEW f, NEW text, NEW skip
  PROVE  NaiveScan(f, text, skip) =
           IF HitPlaces(f, text, skip) # {}
           THEN Min(Hits(f, text, skip, Min(HitPlaces(f, text, skip))))
           ELSE IF Fired(f, text, skip) = {} THEN NoRow
                ELSE Min(Named(tables.rules[Min(Fired(f, text, skip))].cat))
<1> DEFINE enabled == {i \in Rows(f) : tables.categories[i].cat \notin skip}
           HitsAt(n) == {i \in enabled : \E w \in tables.categories[i].sigs : EndsAt(w, text, n)}
           at == {n \in DOMAIN text : HitsAt(n) # {}}
           fired == {i \in Rules(f) : /\ tables.rules[i].cat \notin skip
                                      /\ Named(tables.rules[i].cat) # {}
                                      /\ \A t \in tables.rules[i].terms : Occurs(t, text)}
<1>1. NaiveScan(f, text, skip) =
        CASE at # {} -> Min(HitsAt(Min(at)))
          [] at = {} /\ fired # {} -> Min(Named(tables.rules[Min(fired)].cat))
          [] OTHER -> NoRow
  BY DEF NaiveScan, Named
<1>2. \A n : HitsAt(n) = Hits(f, text, skip, n)
  BY DEF Hits
<1>3. at = HitPlaces(f, text, skip)
  BY <1>2 DEF HitPlaces
<1>4. fired = Fired(f, text, skip)
  BY DEF Fired
<1> HIDE DEF HitsAt, at, fired
<1> QED
  BY <1>1, <1>2, <1>3, <1>4

\* The rules that are complete and reported are those that fire.
LEMMA RuleRowIs ==
  ASSUME tables \in Tables, NEW f, NEW a, Finished(f, a), NEW text \in Text, NEW skip
  PROVE  RuleRow(a, Seen(f, text, Len(text)), skip) =
           IF Fired(f, text, skip) = {} THEN NoRow
           ELSE Min(Named(tables.rules[Min(Fired(f, text, skip))].cat))
<1> DEFINE seen == Seen(f, text, Len(text))
           fired == {i \in DOMAIN tables.rules :
                       /\ Complete(a, i, seen)
                       /\ tables.rules[i].cat \notin skip
                       /\ a.row[tables.rules[i].cat] # NoRow}
           F == Fired(f, text, skip)
<1>1. a.row = Trie(f).row /\ a.need = [i \in DOMAIN tables.rules |-> {t \in Terms(f) : t[1] = i}]
  <2>1. a.row = Trie(f).row /\ a.need = Trie(f).need
    BY DEF Finished, Shaped
  <2> QED
    BY <2>1 DEF Trie
<1>2. Rules(f) \subseteq DOMAIN tables.rules
  BY DEF Rules
<1>3. DOMAIN text = 1..Len(text)
  BY LenText
<1>4. \A i, w : <<i, w>> \in Terms(f) <=> i \in Rules(f) /\ w \in tables.rules[i].terms
  BY DEF Terms
<1>5. \A t \in Terms(f) : t = <<t[1], t[2]>>
  BY DEF Terms
<1>6. ASSUME NEW i \in Rules(f), NEW w \in tables.rules[i].terms
      PROVE  <<i, w>> \in seen <=> Occurs(w, text)
  <2>1. <<i, w>> \in Terms(f) /\ <<i, w>>[2] = w
    BY <1>4
  <2> DEFINE t == <<i, w>>
  <2>2. t \in Terms(f) /\ t[2] = w
    BY <2>1
  <2> HIDE DEF t
  <2>3. t \in seen <=> \E j \in 1..Len(text) : EndsAt(w, text, j)
    BY <2>2 DEF Seen
  <2> QED
    BY <1>3, <2>3 DEF Occurs, t
<1>7. ASSUME NEW i \in DOMAIN tables.rules
      PROVE  Complete(a, i, seen)
               <=> i \in Rules(f) /\ \A w \in tables.rules[i].terms : <<i, w>> \in seen
  <2>1. a.need[i] = {t \in Terms(f) : t[1] = i}
    BY <1>1
  <2>2. tables.rules[i].terms # {}
    BY TablesTyped
  <2> HIDE DEF seen
  <2>3. ASSUME i \in Rules(f)
        PROVE  a.need[i] # {} /\ (a.need[i] \subseteq seen
                                    <=> \A w \in tables.rules[i].terms : <<i, w>> \in seen)
    <3>1. \A w \in tables.rules[i].terms : <<i, w>> \in a.need[i]
      BY <1>4, <2>1, <2>3
    <3>2. \A t \in a.need[i] : t = <<i, t[2]>> /\ t[2] \in tables.rules[i].terms
      <4> TAKE t \in a.need[i]
      <4>1. t \in Terms(f) /\ t[1] = i
        BY <2>1
      <4>2. t = <<i, t[2]>>
        BY <1>5, <4>1
      <4> QED
        BY <1>4, <4>1, <4>2
    <3>3. a.need[i] # {}
      BY <2>2, <3>1
    <3>4. ASSUME a.need[i] \subseteq seen
          PROVE  \A w \in tables.rules[i].terms : <<i, w>> \in seen
      BY <3>1, <3>4
    <3>5. ASSUME \A w \in tables.rules[i].terms : <<i, w>> \in seen
          PROVE  a.need[i] \subseteq seen
      <4> SUFFICES ASSUME NEW t \in a.need[i] PROVE t \in seen
        OBVIOUS
      <4>1. <<i, t[2]>> \in seen
        BY <3>2, <3>5
      <4> QED
        BY <3>2, <4>1
    <3> QED
      BY <3>3, <3>4, <3>5
  <2>4. ASSUME i \notin Rules(f) PROVE a.need[i] = {}
    <3> SUFFICES ASSUME NEW t \in a.need[i] PROVE FALSE
      OBVIOUS
    <3>1. t \in Terms(f) /\ t[1] = i
      BY <2>1
    <3>2. <<i, t[2]>> \in Terms(f)
      BY <1>5, <3>1
    <3> QED
      BY <1>4, <2>4, <3>2
  <2> QED
    BY <2>3, <2>4 DEF Complete
<1>8. ASSUME NEW i \in Rules(f)
      PROVE  a.row[tables.rules[i].cat]
               = IF Named(tables.rules[i].cat) = {} THEN NoRow ELSE Min(Named(tables.rules[i].cat))
  BY <1>1, RowOfRule
<1>9. ASSUME NEW c, Named(c) # {} PROVE Min(Named(c)) # NoRow
  <2> DEFINE rows == Len(tables.categories)
             N == Named(c)
  <2>1. N \in SUBSET (1..rows) /\ N # {} /\ rows \in Nat /\ NoRow = rows + 1
    BY <1>9, RowNumbers DEF Named, NoRow
  <2> HIDE DEF N, rows
  <2> DEFINE m == Min(N)
  <2>2. m \in N
    BY <2>1, LeastIs
  <2> HIDE DEF m
  <2>3. m \in 1..rows
    BY <2>1, <2>2
  <2>4. m # NoRow
    BY <2>1, <2>3
  <2> QED
    BY <2>4 DEF m, N
<1>10. ASSUME NEW i \in Rules(f)
       PROVE  a.row[tables.rules[i].cat] # NoRow <=> Named(tables.rules[i].cat) # {}
  BY <1>8, <1>9
<1>11. ASSUME NEW i \in DOMAIN tables.rules
       PROVE  i \in fired <=> i \in F
  <2>1. CASE i \notin Rules(f)
    BY <1>7, <2>1 DEF Fired
  <2>2. CASE i \in Rules(f)
    <3>1. Complete(a, i, seen) <=> \A w \in tables.rules[i].terms : Occurs(w, text)
      BY <1>6, <1>7, <2>2
    <3>2. a.row[tables.rules[i].cat] # NoRow <=> Named(tables.rules[i].cat) # {}
      BY <1>10, <2>2
    <3> HIDE DEF seen
    <3> QED
      BY <2>2, <3>1, <3>2 DEF Fired
  <2> QED
    BY <2>1, <2>2
<1>12. F \subseteq DOMAIN tables.rules
  BY <1>2 DEF Fired
<1>13. fired = F
  <2> HIDE DEF seen, F
  <2> QED
    BY <1>11, <1>12
<1>14. RuleRow(a, seen, skip) = IF seen = {} \/ fired = {} THEN NoRow
                                ELSE a.row[tables.rules[Min(fired)].cat]
  BY DEF RuleRow
<1> HIDE DEF fired
<1>15. CASE F = {}
  BY <1>13, <1>14, <1>15
<1>16. CASE F # {}
  <2> DEFINE rules == Len(tables.rules)
             m == Min(F)
  <2>1. F \in SUBSET (1..rules) /\ rules \in Nat
    BY <1>12, RowNumbers
  <2>2. m \in F
    <3> HIDE DEF F, rules
    <3> QED
      BY <1>16, <2>1, LeastIs
  <2> HIDE DEF m
  <2>3. m \in Rules(f) /\ Named(tables.rules[m].cat) # {}
        /\ \A w \in tables.rules[m].terms : Occurs(w, text)
    BY <2>2 DEF Fired
  <2>4. seen # {}
    <3>1. PICK w \in tables.rules[m].terms : TRUE
      BY <1>2, <2>3, TablesTyped
    <3>2. <<m, w>> \in seen
      BY <1>6, <2>3, <3>1
    <3> QED
      BY <3>2
  <2>5. a.row[tables.rules[m].cat] = Min(Named(tables.rules[m].cat))
    BY <1>8, <2>3
  <2> HIDE DEF seen, F
  <2>6. RuleRow(a, seen, skip) = Min(Named(tables.rules[m].cat))
    BY <1>13, <1>14, <1>16, <2>4, <2>5 DEF m
  <2> QED
    BY <1>16, <2>6 DEF m, F, seen
<1> QED
  BY <1>15, <1>16

\* The automaton reports what the reference does (ngx_http_shield_ac_scan).
LEMMA ScanIsNaive ==
  ASSUME tables \in Tables, NEW f, NEW a, Finished(f, a), NEW text \in Text, NEW skip
  PROVE  ac_scan(a, text, skip) = NaiveScan(f, text, skip)
<1> DEFINE n == Len(text)
           at == HitPlaces(f, text, skip)
<1>1. n \in Nat /\ DOMAIN text = 1..n
  BY LenText
<1>2. PICK h : /\ h[0] = ScanStart
               /\ \A k \in 0..(n - 1) : h[k + 1] = Scanned(a, skip, h[k], text[k + 1])
               /\ ac_scan(a, text, skip) = IF h[n].row # NoRow THEN h[n].row
                                           ELSE RuleRow(a, h[n].seen, skip)
  BY ScanReads
<1>3. ScanAt(f, text, skip, n, h[n])
  BY <1>2, ScanAlong
<1>4. Quiet(f, text, skip, n) <=> at = {}
  BY <1>1 DEF Quiet, HitPlaces
<1>5. CASE at = {}
  <2>1. h[n].row = NoRow /\ h[n].seen = Seen(f, text, n)
    BY <1>3, <1>4, <1>5 DEF ScanAt
  <2>2. ac_scan(a, text, skip) = RuleRow(a, Seen(f, text, n), skip)
    BY <1>2, <2>1
  <2> QED
    BY <1>5, <2>2, NaiveIs, RuleRowIs
<1>6. CASE at # {}
  <2>1. PICK m \in 1..n : Hits(f, text, skip, m) # {} /\ Quiet(f, text, skip, m - 1)
    BY <1>1, <1>4, <1>6, FirstHit
  <2>2. Min(at) = m
    <3>1. m \in at /\ at \in SUBSET Int
      BY <1>1, <2>1 DEF HitPlaces
    <3>2. ASSUME NEW j \in at PROVE m <= j
      <4>1. j \in 1..n /\ Hits(f, text, skip, j) # {}
        BY <1>1 DEF HitPlaces
      <4>2. j < m => j \in 1..(m - 1)
        BY <1>1, <4>1
      <4> QED
        BY <1>1, <2>1, <4>1, <4>2 DEF Quiet
    <3> HIDE DEF at
    <3> QED
      BY <3>1, <3>2, MinIs
  <2>3. h[n].row = Min(Hits(f, text, skip, m))
    BY <1>3, <2>1 DEF ScanAt
  <2>4. h[n].row # NoRow
    BY <2>1, <2>3, HitRows
  <2>5. ac_scan(a, text, skip) = Min(Hits(f, text, skip, m))
    BY <1>2, <2>3, <2>4
  <2>6. NaiveScan(f, text, skip) = Min(Hits(f, text, skip, Min(at)))
    BY <1>6, NaiveIs
  <2> QED
    BY <2>2, <2>5, <2>6
<1> QED
  BY <1>5, <1>6

------------------------------------------------------------------------------
(* The two copies of an input.                                             *)

LEMMA LowerIsText ==
  ASSUME NEW data \in Text
  PROVE  strlow(data) \in Text /\ plus_to_space(data) \in Text
<1>1. \A b \in Byte : Lower(b) \in Byte
  BY ByteAssumption
<1>2. " " \in Byte
  BY ByteAssumption
<1>3. Len(data) \in Nat /\ DOMAIN data = 1..Len(data) /\ \A i \in 1..Len(data) : data[i] \in Byte
  BY LenText
<1>4. \A m \in Nat : \A g \in [1..m -> Byte] : g \in Text
  BY DEF Text
<1>5. strlow(data) \in [1..Len(data) -> Byte]
  BY <1>1, <1>3 DEF strlow
<1>6. plus_to_space(data) \in [1..Len(data) -> Byte]
  BY <1>2, <1>3 DEF plus_to_space
<1> QED
  BY <1>3, <1>4, <1>5, <1>6

\* Between two bytes: what is decoded, and the escape so far.
Escape(q) == q \in Text /\ Len(q) <= 2 /\ (Len(q) = 2 => q[2] \in Digit)

Decoding(acc) ==
  /\ acc = [quoted |-> acc.quoted, text |-> acc.text]
  /\ acc.text \in Text /\ Escape(acc.quoted)

LEMMA DecodeStep ==
  ASSUME NEW acc, Decoding(acc), NEW b \in Byte
  PROVE  Decoding(Unescaped(acc, b))
<1> DEFINE t == acc.text
           q == acc.quoted
<1>1. acc = [quoted |-> q, text |-> t] /\ t \in Text /\ Escape(q)
  BY DEF Decoding
<1>2. /\ \A x : [acc EXCEPT !.quoted = x] = [quoted |-> x, text |-> t]
      /\ \A x : [acc EXCEPT !.text = x] = [quoted |-> q, text |-> x]
  <2> HIDE DEF t, q
  <2> QED
    BY <1>1
<1>3. /\ [acc EXCEPT !.quoted = <<b>>] = [quoted |-> <<b>>, text |-> t]
      /\ [acc EXCEPT !.text = Append(@, b)] = [quoted |-> q, text |-> Append(t, b)]
      /\ [acc EXCEPT !.quoted = Append(@, b)] = [quoted |-> Append(q, b), text |-> t]
  BY <1>2
<1>4. ASSUME NEW x, NEW y, y \in Text, Escape(x)
      PROVE  Decoding([quoted |-> x, text |-> y])
  BY <1>4 DEF Decoding
<1>5. ASSUME NEW c \in Byte PROVE Append(t, c) \in Text
  BY <1>1, Appended
<1>6. Escape(<<>>)
  <2>1. Len(<<>>) # 2 /\ Len(<<>>) <= 2
    BY NoText
  <2> QED
    BY <2>1, NoText DEF Escape
<1>7. CASE q = <<>>
  <2>1. Escape(<<b>>)
    <3>1. <<b>> \in Text /\ Len(<<b>>) = 1
      BY DEF Text
    <3> QED
      BY <3>1 DEF Escape
  <2>2. CASE b = "%"
    <3>1. Unescaped(acc, b) = [quoted |-> <<b>>, text |-> t]
      BY <1>3, <1>7, <2>2 DEF Unescaped
    <3> HIDE DEF t, q
    <3> QED
      BY <1>1, <1>4, <2>1, <3>1
  <2>3. CASE b # "%"
    <3>1. Unescaped(acc, b) = [quoted |-> q, text |-> Append(t, b)]
      BY <1>3, <1>7, <2>3 DEF Unescaped
    <3> HIDE DEF t, q
    <3> QED
      BY <1>1, <1>4, <1>5, <3>1
  <2> QED
    BY <2>2, <2>3
<1>8. CASE q # <<>> /\ Len(q) = 1
  <2>1. CASE b \in Digit
    <3>1. Unescaped(acc, b) = [quoted |-> Append(q, b), text |-> t]
      BY <1>3, <1>8, <2>1 DEF Unescaped
    <3>2. Escape(Append(q, b))
      <4> HIDE DEF q
      <4>1. q \in Text
        BY <1>1 DEF Escape
      <4>2. /\ Append(q, b) \in Text /\ Len(Append(q, b)) = Len(q) + 1
            /\ Append(q, b)[Len(q) + 1] = b
        BY <4>1, Appended
      <4>3. Len(q) + 1 = 2
        BY <1>8
      <4> QED
        BY <2>1, <4>2, <4>3 DEF Escape
    <3> HIDE DEF t, q
    <3> QED
      BY <1>1, <1>4, <3>1, <3>2
  <2>2. CASE b \notin Digit
    <3>1. Unescaped(acc, b) = [quoted |-> <<>>, text |-> Append(t, b)]
      BY <1>8, <2>2 DEF Unescaped
    <3> HIDE DEF t, q
    <3> QED
      BY <1>4, <1>5, <1>6, <3>1
  <2> QED
    BY <2>1, <2>2
<1>9. CASE q # <<>> /\ Len(q) = 2
  <2> DEFINE u == IF b \in Digit THEN Append(t, Hex(q[2], b)) ELSE t
  <2>1. Unescaped(acc, b) = [quoted |-> <<>>, text |-> u]
    BY <1>9 DEF Unescaped
  <2> HIDE DEF t, q
  <2>2. b \in Digit => Hex(q[2], b) \in Byte
    BY <1>1, <1>9, ByteAssumption DEF Escape
  <2>3. u \in Text
    BY <1>1, <1>5, <2>2
  <2> HIDE DEF u
  <2> QED
    BY <1>4, <1>6, <2>1, <2>3
<1>10. q # <<>> => Len(q) = 1 \/ Len(q) = 2
  <2> HIDE DEF q
  <2>1. q \in Text /\ Len(q) <= 2
    BY <1>1 DEF Escape
  <2> DEFINE n == Len(q)
  <2>2. n \in Nat /\ n <= 2 /\ (q = <<>> <=> n = 0)
    BY <2>1, LenText
  <2> HIDE DEF n
  <2>3. q # <<>> => n = 1 \/ n = 2
    BY <2>2
  <2> QED
    BY <2>3 DEF n
<1> QED
  BY <1>7, <1>8, <1>9, <1>10

LEMMA DecodeIsText ==
  ASSUME NEW data \in Text
  PROVE  unescape_uri(data) \in Text
<1> DEFINE n == Len(data)
<1>1. n \in Nat /\ \A k \in 1..n : data[k] \in Byte
  BY LenText
<1>2. PICK h : /\ h[0] = UnescapeStart
               /\ \A k \in 0..(n - 1) : h[k + 1] = Unescaped(h[k], data[k + 1])
               /\ unescape_uri(data) = h[n].text
  BY UnescapeReads
<1> HIDE DEF n
<1> DEFINE Bad == {k \in 0..n : ~Decoding(h[k])}
<1>3. Decoding(h[0])
  BY <1>2, NoText DEF Decoding, UnescapeStart, Escape
<1>4. Bad = {}
  <2> SUFFICES ASSUME Bad # {} PROVE FALSE
    OBVIOUS
  <2>1. Bad \in SUBSET Nat
    BY <1>1
  <2>2. PICK m \in Bad : \A k \in Nat : k < m => k \notin Bad
    <3> HIDE DEF Bad
    <3> QED
      BY <2>1, LeastBad
  <2>3. m # 0
    BY <1>3
  <2> DEFINE p == m - 1
  <2>4. p \in Nat /\ p < m /\ p \in 0..n /\ p \in 0..(n - 1) /\ p + 1 = m /\ p + 1 \in 1..n
    BY <1>1, <2>3
  <2> HIDE DEF p
  <2>5. Decoding(h[p]) /\ data[p + 1] \in Byte
    BY <1>1, <2>2, <2>4
  <2>6. Decoding(h[p + 1])
    BY <1>2, <2>4, <2>5, DecodeStep
  <2> QED
    BY <2>4, <2>6
<1>5. Decoding(h[n])
  BY <1>1, <1>4
<1> QED
  BY <1>2, <1>5 DEF Decoding

\* What the scanner reports of an input is what a search for every enabled word
\* reports, for all tables, alphabets, inputs and skip masks
\* (ngx_http_shield_scan_input).
THEOREM VerdictAlwaysReference == Spec => []VerdictIsReference
<1>1. Init => VerdictIsReference
  BY DEF Init, VerdictIsReference
<1>2. IInv /\ VerdictIsReference /\ [Next]_vars => VerdictIsReference'
  <2> SUFFICES ASSUME IInv, VerdictIsReference, [Next]_vars PROVE VerdictIsReference'
    OBVIOUS
  <2>1. CASE Scan
    <3>1. /\ phase = "serving" /\ UNCHANGED <<tables, phase, ac, fail, queue>>
          /\ \E data \in tables.inputs \ {<<>>}, skip \in SUBSET Cats :
               verdict' = [data |-> data, skip |-> skip, row |-> scan_input(data, skip)]
      BY <2>1 DEF Scan
    <3>2. PICK data \in tables.inputs \ {<<>>}, skip \in SUBSET Cats :
            verdict' = [data |-> data, skip |-> skip, row |-> scan_input(data, skip)]
      BY <3>1
    <3>3. tables \in Tables /\ Finished("raw", ac["raw"]) /\ Finished("decoded", ac["decoded"])
      BY <3>1 DEF IInv, Flavour, Finished
    <3>4. data \in Text
      BY <3>3, TableAssumption DEF Text
    <3>5. strlow(data) \in Text /\ Decode(data) \in Text
      BY <3>4, LowerIsText, DecodeIsText DEF Decode
    <3>6. /\ ac_scan(ac["raw"], strlow(data), skip) = NaiveScan("raw", strlow(data), skip)
          /\ ac_scan(ac["decoded"], Decode(data), skip) = NaiveScan("decoded", Decode(data), skip)
      BY <3>3, <3>5, ScanIsNaive
    <3>7. /\ verdict'.data = data /\ verdict'.skip = skip
          /\ verdict'.row = scan_input(data, skip)
      BY <3>2
    <3>8. /\ NoRow' = NoRow
          /\ \A f, text, s : NaiveScan(f, text, s)' = NaiveScan(f, text, s)
      BY <3>1 DEF NaiveScan, Rows, Rules, NoRow
    <3>9. VerdictIsReference' <=>
            LET raw == NaiveScan("raw", strlow(data), skip)
                decoded == NaiveScan("decoded", Decode(data), skip)
            IN  scan_input(data, skip) = IF raw # NoRow THEN raw ELSE decoded
      <4>1. verdict' # Nothing'
        <5>1. verdict'.data # <<>>
          BY <3>2, <3>7
        <5> QED
          BY <5>1 DEF Nothing
      <4> QED
        BY <3>7, <3>8, <4>1 DEF VerdictIsReference, Decode
    <3> QED
      BY <3>6, <3>9 DEF scan_input
  <2>2. CASE Again
    BY <2>2 DEF Again, VerdictIsReference, Nothing
  <2>3. CASE UNCHANGED <<tables, verdict>>
    <3>1. \A f, text, s : NaiveScan(f, text, s)' = NaiveScan(f, text, s)
      BY <2>3 DEF NaiveScan, Rows, Rules, NoRow
    <3> QED
      BY <2>3, <3>1 DEF VerdictIsReference, NoRow, Nothing
  <2>4. Scan \/ Again \/ UNCHANGED <<tables, verdict>>
    BY DEF Next, vars, BuildTrie, BuildFails, Flatten, Built, Refused
  <2> QED
    BY <2>1, <2>2, <2>3, <2>4
<1> QED
  BY <1>1, <1>2, ScanInvariant, PTL DEF Spec
==============================================================================
