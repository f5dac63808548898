-------------------------- MODULE ShieldInspectProof --------------------------
(***************************************************************************)
(* Proofs about ShieldInspect: a request let through is clean, a hit is    *)
(* there, and what is collected of a body is its start, for every request, *)
(* every skip set and every cap.                                           *)
(*                                                                         *)
(* First what the operators compute: a scan finds something exactly when   *)
(* something that counts is there (ScanFinds), the walk over the path      *)
(* agrees with the path's segments (DotfileExact), the code's tests of the *)
(* content type with the media type it has (ScannableIs), the two passes   *)
(* over the target with what counts in it (TwoPasses), and the buffers     *)
(* joined have each beginning of theirs as a beginning (JoinedBegin).      *)
(* Then the invariant: each place that the inspection has passed holds     *)
(* nothing, and what is collected is where the buffers say.                *)
(***************************************************************************)
EXTENDS ShieldInspect, WellFoundedInduction, TLAPS

------------------------------------------------------------------------------
(* What data is, the tables, and what one scan finds. *)

\* Pieces, and what the code itself compares them with.
Marks ==
  {"/", ".", "well-known", "multipart/form-data", "application/", "text/",
   "x-www-form-urlencoded", "json", "xml", "graphql", "x-ndjson", "json-seq", "yaml",
   "x-yaml", "+json", "+xml"}

Text == Seq(Piece \union Marks)

\* A set of numbers has a least one.
LEMMA LeastBad ==
  ASSUME NEW Bad \in SUBSET Nat, Bad # {}
  PROVE  \E m \in Bad : \A k \in Nat : k < m => k \notin Bad
<1> DEFINE R == {ss \in Nat \X Nat : ss[1] < ss[2]}
<1>1. IsWellFoundedOn(R, Nat)
  BY NatLessThanWellFounded DEF OpToRel
<1>2. \A j, k \in Nat : j < k => <<j, k>> \in R
  OBVIOUS
<1> HIDE DEF R
<1>3. PICK m \in Bad : \A k \in Bad : ~(<<k, m>> \in R)
  BY <1>1, WFMin, Zenon
<1> QED
  BY <1>2, <1>3

LEMMA MinIs ==
  ASSUME NEW S \in SUBSET Int, NEW m \in S, \A y \in S : m <= y
  PROVE  Min(S) = m
<1>1. \E x \in S : \A y \in S : x <= y
  OBVIOUS
<1>2. Min(S) \in S /\ \A y \in S : Min(S) <= y
  BY <1>1 DEF Min
<1>3. Min(S) <= m /\ m <= Min(S) /\ Min(S) \in Int /\ m \in Int
  BY <1>2
<1> QED
  BY <1>3

LEMMA MaxIs ==
  ASSUME NEW S \in SUBSET Int, NEW m \in S, \A y \in S : m >= y
  PROVE  Max(S) = m
<1>1. \E x \in S : \A y \in S : x >= y
  OBVIOUS
<1>2. Max(S) \in S /\ \A y \in S : Max(S) >= y
  BY <1>1 DEF Max
<1>3. Max(S) >= m /\ m >= Max(S) /\ Max(S) \in Int /\ m \in Int
  BY <1>2
<1> QED
  BY <1>3

LEMMA MinIn ==
  ASSUME NEW S \in SUBSET Nat, S # {}
  PROVE  Min(S) \in S /\ \A y \in S : Min(S) <= y
<1>1. PICK m \in S : \A k \in Nat : k < m => k \notin S
  BY LeastBad
<1>2. \A y \in S : m <= y
  BY <1>1
<1>3. Min(S) = m
  BY <1>2, MinIs
<1> QED
  BY <1>2, <1>3

LEMMA QueryMask == no_query_mask = {"xss", "sensitive_file"}
BY SMTT(30) DEF categories, Row, DECODED, RAW, NO_BODY, NO_QUERY, no_query_mask, Exempt

LEMMA BodyMask == no_body_mask = BodyExempt
BY DEF categories, Row, DECODED, RAW, NO_BODY, NO_QUERY, no_body_mask, Exempt, BodyExempt

LEMMA EveryRow ==
  \A i \in DOMAIN categories : RAW \subseteq categories[i].match \/ DECODED \subseteq categories[i].match
BY DEF categories, Row, DECODED, RAW, NO_BODY, NO_QUERY

LEMMA ReservedNames ==
  "none" \notin Scanned /\ "error" \notin Scanned
BY DEF categories, Row, DECODED, RAW, NO_BODY, NO_QUERY, Scanned
LEMMA RuleDomain == DOMAIN rules = 1..6
BY DEF rules
LEMMA RuleCats ==
  \A i \in DOMAIN rules : rules[i].cat \in {"exploit_path", "deserial", "ssrf_meta"}
<1>1. rules[1].cat = "exploit_path"
  BY DEF rules, Rule
<1>2. rules[2].cat = "deserial"
  BY DEF rules, Rule
<1>3. rules[3].cat = "exploit_path"
  BY DEF rules, Rule
<1>4. rules[4].cat = "exploit_path"
  BY DEF rules, Rule
<1>5. rules[5].cat = "ssrf_meta"
  BY DEF rules, Rule
<1>6. rules[6].cat = "exploit_path"
  BY DEF rules, Rule
<1> QED
  BY <1>1, <1>2, <1>3, <1>4, <1>5, <1>6, RuleDomain
LEMMA RuleTerms ==
  \A i \in DOMAIN rules : \E x : <<x>> \in rules[i].terms
<1>1. <<"requirepasswordchange=y">> \in rules[1].terms
  BY DEF rules, Rule
<1>2. <<"init=">> \in rules[2].terms
  BY DEF rules, Rule
<1>3. <<"remoting=true">> \in rules[3].terms
  BY DEF rules, Rule
<1>4. <<"${">> \in rules[4].terms
  BY DEF rules, Rule
<1>5. <<".nip.io">> \in rules[5].terms
  BY DEF rules, Rule
<1>6. <<"_cfclient=true">> \in rules[6].terms
  BY DEF rules, Rule
<1>7. \A i \in DOMAIN rules : i = 1 \/ i = 2 \/ i = 3 \/ i = 4 \/ i = 5 \/ i = 6
  BY RuleDomain
<1> QED
  BY <1>1, <1>2, <1>3, <1>4, <1>5, <1>6, <1>7, Zenon

LEMMA Scanned3 == {"exploit_path", "deserial", "ssrf_meta", "xss", "sensitive_file"} \subseteq Scanned
BY DEF categories, Row, Scanned, DECODED, RAW, NO_BODY, NO_QUERY

\* Nothing occurs in an empty text.
LEMMA EmptyHolds ==
  Contents(<<>>) = {} /\ RulesIn(<<>>) = {}
<1>1. \A x : ~Occurs(<<x>>, <<>>)
  BY DEF Occurs
<1>2. RulesIn(<<>>) = {}
  BY <1>1, RuleTerms DEF RulesIn
<1> QED
  BY <1>2 DEF Contents, ToSet

\* What the scanner reports of a buffer.
LEMMA ScanFinds ==
  ASSUME NEW data \in Text, NEW skip
  PROVE  LET held == (Contents(data) \union RulesIn(data)) \ skip
         IN  IF held = {} THEN scan_input(data, skip) = "none"
             ELSE scan_input(data, skip) \in held
<1> DEFINE held == (Contents(data) \union RulesIn(data)) \ skip
           Live(copy, n) == \E i \in DOMAIN categories :
              /\ categories[i].cat = data[n] /\ copy \subseteq categories[i].match
              /\ data[n] \notin skip
           at(copy) == {n \in DOMAIN data : Live(copy, n)}
           fired == {i \in DOMAIN rules : /\ rules[i].cat \notin skip
                                     /\ \A t \in rules[i].terms : Occurs(t, data)}
<1>1. DOMAIN data \subseteq Nat /\ DOMAIN rules \subseteq Nat
  BY RuleDomain DEF Text
<1>2. ASSUME NEW copy
      PROVE  IF at(copy) = {} THEN Found(copy, data, skip) = "none"
             ELSE Found(copy, data, skip) \in Contents(data) \ skip
  <2>1. CASE at(copy) = {}
    BY <2>1 DEF Found
  <2>2. CASE at(copy) # {}
    <3> DEFINE m == Min(at(copy))
    <3>1. m \in at(copy)
      BY <1>1, <2>2, MinIn
    <3>2. Found(copy, data, skip) = data[m]
      BY <2>2 DEF Found
    <3> HIDE DEF m
    <3>3. m \in DOMAIN data /\ data[m] \in Scanned /\ data[m] \notin skip
      BY <3>1 DEF Scanned
    <3> QED
      BY <2>2, <3>2, <3>3 DEF Contents, ToSet
  <2> QED
    BY <2>1, <2>2
<1>3. IF fired = {} THEN Ruled(data, skip) = "none"
      ELSE Ruled(data, skip) \in RulesIn(data) \ skip
  <2>1. CASE fired = {}
    BY <2>1 DEF Ruled
  <2>2. CASE fired # {}
    <3> DEFINE m == Min(fired)
    <3>1. m \in fired
      BY <1>1, <2>2, MinIn
    <3>2. Ruled(data, skip) = rules[m].cat
      BY <2>2 DEF Ruled
    <3> HIDE DEF m
    <3>3. rules[m].cat \in RulesIn(data) /\ rules[m].cat \notin skip
      BY <3>1 DEF RulesIn
    <3> QED
      BY <2>2, <3>2, <3>3
  <2> QED
    BY <2>1, <2>2
<1>4. (at(RAW) = {} /\ at(DECODED) = {}) => Contents(data) \ skip = {}
  BY EveryRow DEF Contents, ToSet, Scanned
<1>5. fired = {} => RulesIn(data) \ skip = {}
  BY DEF RulesIn
<1>6. "none" \notin Contents(data) /\ "none" \notin RulesIn(data)
  BY ReservedNames, RuleCats DEF Contents, RulesIn
<1> DEFINE none(copy) == at(copy) = {}
           quiet == fired = {}
<1> HIDE DEF at, fired
<1>7. CASE at(RAW) # {}
  BY <1>2, <1>6, <1>7 DEF scan_input
<1>8. CASE at(RAW) = {} /\ at(DECODED) # {}
  BY <1>2, <1>6, <1>8 DEF scan_input
<1>9. CASE at(RAW) = {} /\ at(DECODED) = {}
  BY <1>2, <1>3, <1>4, <1>5, <1>6, <1>9 DEF scan_input
<1> QED
  BY <1>7, <1>8, <1>9

------------------------------------------------------------------------------
(* The walk over the path, and the segments. *)

LEMMA SameText ==
  ASSUME NEW S, NEW s \in Seq(S), NEW t \in Seq(S), Len(s) = Len(t),
         \A i \in 1..Len(s) : s[i] = t[i]
  PROVE  s = t
OBVIOUS

LEMMA TextEqual ==
  ASSUME NEW s \in Text, NEW t \in Text
  PROVE  s = t <=> Len(s) = Len(t) /\ \A i \in 1..Len(s) : s[i] = t[i]
BY SameText, Zenon DEF Text

\* The texts that begin another.
LEMMA PrefixIs ==
  ASSUME NEW S, NEW s \in Seq(S), NEW t \in Seq(S)
  PROVE  IsPrefix(s, t) <=> Len(s) <= Len(t) /\ \A i \in 1..Len(s) : s[i] = t[i]
<1>1. CASE Len(s) <= Len(t)
  <2>1. /\ SubSeq(s, 1, Len(s)) = [i \in 1..Len(s) |-> s[i]]
        /\ SubSeq(t, 1, Len(s)) = [i \in 1..Len(s) |-> t[i]]
    BY <1>1
  <2> QED
    BY <1>1, <2>1 DEF IsPrefix
<1>2. CASE ~(Len(s) <= Len(t))
  BY <1>2 DEF IsPrefix
<1> QED
  BY <1>1, <1>2

LEMMA TextBegins ==
  ASSUME NEW s \in Text, NEW t \in Text
  PROVE  IsPrefix(s, t) <=> Len(s) <= Len(t) /\ \A i \in 1..Len(s) : s[i] = t[i]
BY PrefixIs, ZenonT(60) DEF Text

\* The segment that begins at position i of the path is s.
SegmentIs(uri, s, i) ==
  /\ i + Len(s) <= Len(uri) + 1
  /\ \A j \in 1..Len(s) : uri[i + j - 1] = s[j]
  /\ i + Len(s) = Len(uri) + 1 \/ uri[i + Len(s)] = "/"

LEMMA IsSegment ==
  ASSUME NEW uri \in Text, NEW i \in 1..Len(uri), NEW s \in Text
  PROVE  LET rest == SubSeq(uri, i, Len(uri))
         IN  (rest = s \/ IsPrefix(Append(s, "/"), rest)) <=> SegmentIs(uri, s, i)
<1> DEFINE rest == SubSeq(uri, i, Len(uri))
           n == Len(uri)
           m == Len(s)
           s1 == Append(s, "/")
<1>1. n \in Nat /\ m \in Nat /\ i \in 1..n
  BY DEF Text
<1>2. /\ rest \in Text /\ Len(rest) = n - i + 1
      /\ \A j \in 1..(n - i + 1) : rest[j] = uri[i + j - 1]
  BY DEF Text
<1>3. s1 \in Text /\ Len(s1) = m + 1 /\ s1[m + 1] = "/" /\ \A j \in 1..m : s1[j] = s[j]
  BY DEF Text, Marks
<1> HIDE DEF rest, s1
<1>4. rest = s <=> Len(rest) = m /\ \A j \in 1..m : rest[j] = s[j]
  BY <1>2, TextEqual
<1>5. IsPrefix(s1, rest) <=> Len(s1) <= Len(rest) /\ \A j \in 1..Len(s1) : s1[j] = rest[j]
  BY <1>2, <1>3, TextBegins
<1>6. rest = s <=> i + m = n + 1 /\ \A j \in 1..m : uri[i + j - 1] = s[j]
  BY <1>1, <1>2, <1>4
<1>7. IsPrefix(s1, rest) <=> /\ i + m <= n
                             /\ \A j \in 1..m : uri[i + j - 1] = s[j]
                             /\ uri[i + m] = "/"
  <2>1. m + 1 <= n - i + 1 <=> i + m <= n
    BY <1>1
  <2>2. \A j \in 1..(m + 1) : j \in 1..m \/ j = m + 1
    BY <1>1
  <2>3. i + m <= n => rest[m + 1] = uri[i + m]
    BY <1>1, <1>2
  <2>4. i + m <= n => \A j \in 1..m : rest[j] = uri[i + j - 1]
    BY <1>1, <1>2
  <2>5. ASSUME i + m <= n
        PROVE  (\A j \in 1..Len(s1) : s1[j] = rest[j]) <=>
                 (\A j \in 1..m : uri[i + j - 1] = s[j]) /\ uri[i + m] = "/"
    <3>1. (\A j \in 1..(m + 1) : s1[j] = rest[j]) <=>
            (\A j \in 1..m : s1[j] = rest[j]) /\ s1[m + 1] = rest[m + 1]
      BY <1>1, <2>2
    <3>2. (\A j \in 1..m : s1[j] = rest[j]) <=> (\A j \in 1..m : uri[i + j - 1] = s[j])
      BY <1>3, <2>4, <2>5
    <3> QED
      BY <1>3, <2>3, <2>5, <3>1, <3>2
  <2> QED
    BY <1>2, <1>3, <1>5, <2>1, <2>5
<1>8. i + m <= n + 1 <=> i + m = n + 1 \/ i + m <= n
  BY <1>1
<1> QED
  BY <1>6, <1>7, <1>8 DEF SegmentIs, rest, s1

LEMMA ShortSegments ==
  /\ <<".">> \in Text /\ <<".", ".">> \in Text /\ well_known \in Text
  /\ Len(<<".">>) = 1 /\ Len(<<".", ".">>) = 2 /\ Len(well_known) = 2
  /\ well_known[1] = "." /\ well_known[2] = "well-known"
BY DEF well_known, Text, Marks

\* The segment that begins at position i is a dotfile.
Hidden(uri, i) ==
  /\ i <= Len(uri) /\ uri[i] = "."
  /\ ~SegmentIs(uri, <<".">>, i) /\ ~SegmentIs(uri, <<".", ".">>, i)
  /\ ~SegmentIs(uri, well_known, i)

\* The walk of check_dotfile from position i on.
WalkAt(uri, i, f) ==
  [at_segment_start \in {0, 1} |->
     IF i > Len(uri) THEN "DECLINED"
     ELSE IF uri[i] = "/" THEN f[i + 1][1]
     ELSE IF uri[i] = "." /\ at_segment_start = 1
     THEN IF SegmentIs(uri, <<".">>, i) \/ SegmentIs(uri, <<".", ".">>, i) THEN f[i + 1][0]
          ELSE IF SegmentIs(uri, well_known, i) THEN f[i + 2][0]
          ELSE "OK"
     ELSE f[i + 1][0]]

Walks(uri, f) == f = [i \in 1..Len(uri) + 1 |-> WalkAt(uri, i, f)]

\* A dotfile at i, if a segment begins there, or after it.
Later(uri, i) == \E j \in i + 1..Len(uri) : uri[j - 1] = "/" /\ Hidden(uri, j)

Findings(uri) ==
  [i \in 1..Len(uri) + 1 |->
    [at_segment_start \in {0, 1} |->
       IF (at_segment_start = 1 /\ Hidden(uri, i)) \/ Later(uri, i) THEN "OK" ELSE "DECLINED"]]

LEMMA FindingsWalk ==
  ASSUME NEW uri \in Text
  PROVE  Walks(uri, Findings(uri))
<1> DEFINE f == Findings(uri)
           n == Len(uri)
<1>0. n \in Nat
  BY DEF Text
<1>1. \A i \in 1..(n + 1) : \A b \in {0, 1} :
        f[i][b] = IF (b = 1 /\ Hidden(uri, i)) \/ Later(uri, i) THEN "OK" ELSE "DECLINED"
  BY DEF Findings
<1>2. \A i \in 1..n : Later(uri, i) <=> (uri[i] = "/" /\ Hidden(uri, i + 1)) \/ Later(uri, i + 1)
  <2> TAKE i \in 1..n
  <2>1. \A j \in i + 1..n : j = i + 1 \/ j \in (i + 1) + 1..n
    BY <1>0
  <2>2. \A j \in (i + 1) + 1..n : j \in i + 1..n
    BY <1>0
  <2>3. Hidden(uri, i + 1) => i + 1 \in i + 1..n
    BY <1>0 DEF Hidden
  <2>4. (i + 1) - 1 = i
    BY <1>0
  <2> QED
    BY <2>1, <2>2, <2>3, <2>4 DEF Later
<1>3. ~Later(uri, n + 1) /\ ~Hidden(uri, n + 1)
  BY <1>0 DEF Later, Hidden
<1> HIDE DEF f
<1>4. ASSUME NEW i \in 1..(n + 1), NEW b \in {0, 1}
      PROVE  f[i][b] = WalkAt(uri, i, f)[b]
  <2>1. CASE i > n
    <3>1. i = n + 1
      BY <1>0, <2>1
    <3> QED
      BY <1>1, <1>3, <2>1, <3>1 DEF WalkAt
  <2>2. CASE i <= n
    <3>1. i \in 1..n /\ i + 1 \in 1..(n + 1) /\ ~(i > n)
      BY <1>0, <2>2
    <3>2. f[i][b] = IF \/ b = 1 /\ Hidden(uri, i)
                       \/ uri[i] = "/" /\ Hidden(uri, i + 1)
                       \/ Later(uri, i + 1) THEN "OK" ELSE "DECLINED"
      <4>1. Later(uri, i) <=> (uri[i] = "/" /\ Hidden(uri, i + 1)) \/ Later(uri, i + 1)
        BY <1>2, <3>1
      <4>2. f[i][b] = IF (b = 1 /\ Hidden(uri, i)) \/ Later(uri, i) THEN "OK" ELSE "DECLINED"
        BY <1>1
      <4> QED
        BY <4>1, <4>2
    <3>3. f[i + 1][1] = IF Hidden(uri, i + 1) \/ Later(uri, i + 1) THEN "OK" ELSE "DECLINED"
      BY <1>1, <3>1
    <3>4. f[i + 1][0] = IF Later(uri, i + 1) THEN "OK" ELSE "DECLINED"
      BY <1>1, <3>1
    <3>5. Hidden(uri, i) => uri[i] = "."
      BY DEF Hidden
    <3>6. WalkAt(uri, i, f)[b] =
            IF uri[i] = "/" THEN f[i + 1][1]
            ELSE IF uri[i] = "." /\ b = 1
            THEN IF SegmentIs(uri, <<".">>, i) \/ SegmentIs(uri, <<".", ".">>, i) THEN f[i + 1][0]
                 ELSE IF SegmentIs(uri, well_known, i) THEN f[i + 2][0]
                 ELSE "OK"
            ELSE f[i + 1][0]
      BY <3>1 DEF WalkAt
    <3>7. CASE uri[i] = "/"
      BY <3>2, <3>3, <3>5, <3>6, <3>7
    <3>8. CASE uri[i] # "/" /\ ~(uri[i] = "." /\ b = 1)
      BY <3>2, <3>4, <3>5, <3>6, <3>8
    <3>9. CASE uri[i] = "." /\ b = 1
      <4>1. CASE SegmentIs(uri, <<".">>, i) \/ SegmentIs(uri, <<".", ".">>, i)
        <5>1. ~Hidden(uri, i)
          BY <4>1 DEF Hidden
        <5> QED
          BY <3>2, <3>4, <3>6, <3>9, <4>1, <5>1
      <4>2. CASE ~(SegmentIs(uri, <<".">>, i) \/ SegmentIs(uri, <<".", ".">>, i)) /\ SegmentIs(uri, well_known, i)
        <5>1. ~Hidden(uri, i)
          BY <4>2 DEF Hidden
        <5>2. i + 2 <= n + 1 /\ uri[i + 1] = "well-known"
          <6>1. /\ i + Len(well_known) <= Len(uri) + 1
                /\ \A j \in 1..Len(well_known) : uri[i + j - 1] = well_known[j]
            BY <4>2 DEF SegmentIs
          <6>2. uri[i + 2 - 1] = well_known[2]
            BY <6>1, ShortSegments
          <6> QED
            BY <1>0, <3>1, <6>1, <6>2, ShortSegments
        <5>3. i + 1 \in 1..n /\ i + 2 \in 1..(n + 1) /\ (i + 1) + 1 = i + 2
          BY <1>0, <3>1, <5>2
        <5>4. Later(uri, i + 1) <=> Later(uri, i + 2)
          BY <1>2, <5>2, <5>3
        <5>5. f[i + 2][0] = IF Later(uri, i + 2) THEN "OK" ELSE "DECLINED"
          BY <1>1, <5>3
        <5> QED
          BY <3>2, <3>6, <3>9, <4>2, <5>1, <5>4, <5>5
      <4>3. CASE ~(SegmentIs(uri, <<".">>, i) \/ SegmentIs(uri, <<".", ".">>, i)) /\ ~SegmentIs(uri, well_known, i)
        <5>1. Hidden(uri, i)
          BY <3>1, <3>9, <4>3 DEF Hidden
        <5> QED
          BY <3>2, <3>6, <3>9, <4>3, <5>1
      <4> QED
        BY <4>1, <4>2, <4>3
    <3> QED
      BY <3>7, <3>8, <3>9
  <2> QED
    BY <1>0, <2>1, <2>2
<1>5. \A i \in 1..(n + 1) : f[i] = [b \in {0, 1} |-> f[i][b]] /\ WalkAt(uri, i, f) = [b \in {0, 1} |-> WalkAt(uri, i, f)[b]]
  BY DEF f, Findings, WalkAt
<1>6. \A i \in 1..(n + 1) : f[i] = WalkAt(uri, i, f)
  <2> TAKE i \in 1..(n + 1)
  <2>1. [b \in {0, 1} |-> f[i][b]] = [b \in {0, 1} |-> WalkAt(uri, i, f)[b]]
    BY <1>4
  <2> QED
    BY <1>5, <2>1, Zenon
<1>7. f = [i \in 1..n + 1 |-> f[i]]
  BY DEF f, Findings
<1> QED
  BY <1>6, <1>7 DEF Walks, f

\* The walk of check_dotfile, as a condition on its function.
Steps(uri, f, i) ==
  LET Rest == SubSeq(uri, i, Len(uri))
      Is(segment) == \/ Rest = segment
                     \/ IsPrefix(Append(segment, "/"), Rest)
  IN  [at_segment_start \in {0, 1} |->
        CASE i > Len(uri) -> "DECLINED"
          [] i <= Len(uri) /\ uri[i] = "/" -> f[i + 1][1]
          [] i <= Len(uri) /\ uri[i] = "." /\ at_segment_start = 1 ->
               CASE Is(<<".">>) \/ Is(<<".", ".">>) -> f[i + 1][0]
                 [] Is(well_known) -> f[i + Len(well_known)][0]
                 [] OTHER -> "OK"
          [] OTHER -> f[i + 1][0]]

LEMMA DotfileIs ==
  check_dotfile <=>
    (CHOOSE f : f = [i \in 1..Len(r.uri) + 1 |-> Steps(r.uri, f, i)])[1][1] = "OK"
BY DEF check_dotfile, Steps

\* No segment is two of the exempt ones.
LEMMA OneSegment ==
  ASSUME NEW uri \in Text, NEW i \in 1..Len(uri), SegmentIs(uri, well_known, i)
  PROVE  ~SegmentIs(uri, <<".">>, i) /\ ~SegmentIs(uri, <<".", ".">>, i)
<1>0. Len(uri) \in Nat
  BY DEF Text
<1>1. i + 2 <= Len(uri) + 1 /\ \A j \in 1..2 : uri[i + j - 1] = well_known[j]
  BY ShortSegments DEF SegmentIs
<1>2. uri[i + 2 - 1] = "well-known"
  BY <1>1, ShortSegments
<1>3. uri[i + 1] = "well-known" /\ i + 1 <= Len(uri)
  BY <1>0, <1>1, <1>2
<1>4. ~SegmentIs(uri, <<".">>, i)
  BY <1>0, <1>3 DEF SegmentIs
<1>5. ~SegmentIs(uri, <<".", ".">>, i)
  <2> SUFFICES ASSUME SegmentIs(uri, <<".", ".">>, i) PROVE FALSE
    OBVIOUS
  <2>1. \A j \in 1..2 : uri[i + j - 1] = <<".", ".">>[j]
    BY ShortSegments DEF SegmentIs
  <2>2. uri[i + 2 - 1] = "."
    BY <2>1
  <2> QED
    BY <1>0, <1>2, <2>2
<1> QED
  BY <1>4, <1>5

LEMMA StepsIs ==
  ASSUME NEW uri \in Text, NEW f, NEW i \in 1..Len(uri) + 1
  PROVE  Steps(uri, f, i) = WalkAt(uri, i, f)
<1>0. Len(uri) \in Nat
  BY DEF Text
<1> DEFINE rest == SubSeq(uri, i, Len(uri))
           Is(s) == rest = s \/ IsPrefix(Append(s, "/"), rest)
<1>1. CASE i > Len(uri)
  BY <1>0, <1>1 DEF Steps, WalkAt
<1>2. CASE i <= Len(uri)
  <2>1. i \in 1..Len(uri) /\ ~(i > Len(uri))
    BY <1>0, <1>2
  <2>2. /\ Is(<<".">>) <=> SegmentIs(uri, <<".">>, i)
        /\ Is(<<".", ".">>) <=> SegmentIs(uri, <<".", ".">>, i)
        /\ Is(well_known) <=> SegmentIs(uri, well_known, i)
    BY <2>1, IsSegment, ShortSegments
  <2> HIDE DEF Is
  <2>3. Steps(uri, f, i) =
          [at_segment_start \in {0, 1} |->
            CASE i > Len(uri) -> "DECLINED"
              [] i <= Len(uri) /\ uri[i] = "/" -> f[i + 1][1]
              [] i <= Len(uri) /\ uri[i] = "." /\ at_segment_start = 1 ->
                   CASE Is(<<".">>) \/ Is(<<".", ".">>) -> f[i + 1][0]
                     [] Is(well_known) -> f[i + Len(well_known)][0]
                     [] OTHER -> "OK"
              [] OTHER -> f[i + 1][0]]
    BY DEF Steps, Is
  <2> DEFINE one == SegmentIs(uri, <<".">>, i)
             two == SegmentIs(uri, <<".", ".">>, i)
             known == SegmentIs(uri, well_known, i)
             inner == CASE Is(<<".">>) \/ Is(<<".", ".">>) -> f[i + 1][0]
                        [] Is(well_known) -> f[i + Len(well_known)][0]
                        [] OTHER -> "OK"
             inner2 == IF one \/ two THEN f[i + 1][0] ELSE IF known THEN f[i + 2][0] ELSE "OK"
  <2>4. known => ~one /\ ~two
    BY <2>1, OneSegment
  <2>5. inner = inner2
    <3> HIDE DEF one, two, known
    <3>1. /\ Is(<<".">>) <=> one
          /\ Is(<<".", ".">>) <=> two
          /\ Is(well_known) <=> known
      BY <2>2 DEF one, two, known
    <3> QED
      BY <2>4, <3>1, ShortSegments
  <2>6. WalkAt(uri, i, f) =
          [at_segment_start \in {0, 1} |->
             IF i > Len(uri) THEN "DECLINED"
             ELSE IF uri[i] = "/" THEN f[i + 1][1]
             ELSE IF uri[i] = "." /\ at_segment_start = 1 THEN inner2
             ELSE f[i + 1][0]]
    BY DEF WalkAt
  <2>7. Steps(uri, f, i) =
          [at_segment_start \in {0, 1} |->
            CASE i > Len(uri) -> "DECLINED"
              [] i <= Len(uri) /\ uri[i] = "/" -> f[i + 1][1]
              [] i <= Len(uri) /\ uri[i] = "." /\ at_segment_start = 1 -> inner
              [] OTHER -> f[i + 1][0]]
    BY <2>3
  <2> HIDE DEF inner, inner2
  <2> QED
    BY <1>2, <2>1, <2>5, <2>6, <2>7
<1> QED
  BY <1>0, <1>1, <1>2

\* The walk has one outcome.
LEMMA WalkUnique ==
  ASSUME NEW uri \in Text, NEW f, Walks(uri, f)
  PROVE  f[1][1] = Findings(uri)[1][1]
<1> DEFINE n == Len(uri)
           g == Findings(uri)
           Bad == {k \in 0..n : f[n + 1 - k] # g[n + 1 - k]}
<1>0. n \in Nat
  BY DEF Text
<1>1. Walks(uri, g)
  BY FindingsWalk
<1> HIDE DEF g
<1>2. \A i \in 1..(n + 1) : f[i] = WalkAt(uri, i, f) /\ g[i] = WalkAt(uri, i, g)
  BY <1>1 DEF Walks
<1>3. Bad = {}
  <2> SUFFICES ASSUME Bad # {} PROVE FALSE
    OBVIOUS
  <2>1. Bad \in SUBSET Nat
    BY <1>0
  <2> HIDE DEF Bad
  <2>2. PICK m \in Bad : \A k \in Nat : k < m => k \notin Bad
    BY <2>1, LeastBad
  <2> DEFINE i == n + 1 - m
  <2>3. m \in 0..n /\ f[i] # g[i] /\ i \in 1..(n + 1)
    BY <1>0, <2>2 DEF Bad
  <2>4. \A j \in 1..(n + 1) : j > i => f[j] = g[j]
    <3> TAKE j \in 1..(n + 1)
    <3> SUFFICES ASSUME j > i PROVE f[j] = g[j]
      OBVIOUS
    <3>1. n + 1 - j \in Nat /\ n + 1 - j < m /\ n + 1 - j \in 0..n /\ n + 1 - (n + 1 - j) = j
      BY <1>0, <2>3
    <3>2. n + 1 - j \notin Bad
      BY <2>2, <3>1
    <3> QED
      BY <3>1, <3>2 DEF Bad
  <2> HIDE DEF i
  <2>5. CASE i > n
    BY <1>0, <1>2, <2>3, <2>5 DEF WalkAt
  <2>6. CASE i <= n
    <3>1. f[i + 1] = g[i + 1] /\ i \in 1..n
      BY <1>0, <2>3, <2>4, <2>6
    <3>2. SegmentIs(uri, well_known, i) => f[i + 2] = g[i + 2]
      <4>1. SegmentIs(uri, well_known, i) => i + 2 <= n + 1
        BY ShortSegments DEF SegmentIs
      <4> QED
        BY <1>0, <2>3, <2>4, <4>1
    <3>3. WalkAt(uri, i, f) = WalkAt(uri, i, g)
      BY <3>1, <3>2 DEF WalkAt
    <3> QED
      BY <1>2, <2>3, <3>3
  <2> QED
    BY <1>0, <2>3, <2>5, <2>6
<1>4. n \in 0..n /\ n + 1 - n = 1
  BY <1>0
<1>5. f[1] = g[1]
  BY <1>3, <1>4
<1> QED
  BY <1>5 DEF g

LEMMA DotfileFound ==
  ASSUME r.uri \in Text
  PROVE  check_dotfile <=> Hidden(r.uri, 1) \/ Later(r.uri, 1)
<1> DEFINE uri == r.uri
           P(f) == f = [i \in 1..Len(uri) + 1 |-> Steps(uri, f, i)]
           w == CHOOSE f : P(f)
<1>0. Len(uri) \in Nat /\ 1 \in 1..Len(uri) + 1
  BY DEF Text
<1>1. \A f : P(f) <=> Walks(uri, f)
  <2> TAKE f
  <2>1. [i \in 1..Len(uri) + 1 |-> Steps(uri, f, i)] = [i \in 1..Len(uri) + 1 |-> WalkAt(uri, i, f)]
    BY StepsIs
  <2> QED
    BY <2>1 DEF Walks
<1>2. P(Findings(uri))
  BY <1>1, FindingsWalk
<1>3. P(w)
  BY <1>2
<1> HIDE DEF P
<1>4. Walks(uri, w)
  BY <1>1, <1>3
<1>5. check_dotfile <=> w[1][1] = "OK"
  BY DotfileIs DEF P
<1> HIDE DEF w
<1>6. w[1][1] = Findings(uri)[1][1]
  BY <1>4, WalkUnique
<1>7. Findings(uri)[1][1] = IF Hidden(uri, 1) \/ Later(uri, 1) THEN "OK" ELSE "DECLINED"
  BY <1>0 DEF Findings
<1> QED
  BY <1>5, <1>6, <1>7

Slashes(uri) == {0, Len(uri) + 1} \union {i \in DOMAIN uri : uri[i] = "/"}

LEMMA SegmentOf ==
  ASSUME NEW uri \in Text, NEW i \in Slashes(uri) \ {Len(uri) + 1}
  PROVE  LET s == SubSeq(uri, i + 1, Min({j \in Slashes(uri) : j > i}) - 1)
         IN  IsDotfile(s) <=> Hidden(uri, i + 1)
<1> DEFINE n == Len(uri)
           after == {j \in Slashes(uri) : j > i}
           e == Min(after)
           p == i + 1
           s == SubSeq(uri, p, e - 1)
<1>0. n \in Nat /\ DOMAIN uri = 1..n
  BY DEF Text
<1>1. i \in 0..n /\ Slashes(uri) \subseteq 0..(n + 1) /\ n + 1 \in Slashes(uri)
  BY <1>0 DEF Slashes
<1>2. after \in SUBSET Nat /\ after # {}
  BY <1>0, <1>1
<1> HIDE DEF e
<1>3. e \in after /\ \A j \in after : e <= j
  BY <1>2, MinIn DEF e
<1>4. /\ e \in p..(n + 1) /\ p \in 1..(n + 1)
      /\ e = n + 1 \/ uri[e] = "/"
      /\ \A j \in p..(e - 1) : uri[j] # "/"
  <2>1. e \in p..(n + 1) /\ p \in 1..(n + 1)
    BY <1>0, <1>1, <1>3
  <2>2. e = n + 1 \/ uri[e] = "/"
    BY <1>0, <1>1, <1>3, <2>1 DEF Slashes
  <2>3. ASSUME NEW j \in p..(e - 1), uri[j] = "/" PROVE FALSE
    <3>1. j \in 1..n /\ j > i /\ j < e
      BY <1>0, <1>1, <2>1
    <3>2. j \in after
      BY <1>0, <2>3, <3>1 DEF Slashes
    <3> QED
      BY <1>3, <2>1, <3>1, <3>2
  <2> QED
    BY <2>1, <2>2, <2>3
<1>5. /\ s \in Text /\ Len(s) = e - p
      /\ \A k \in 1..(e - p) : s[k] = uri[p + k - 1]
  BY <1>0, <1>4 DEF Text
<1> HIDE DEF s, p, after
<1>6. ASSUME NEW t \in Text, \A k \in 1..Len(t) : t[k] # "/"
      PROVE  SegmentIs(uri, t, p) <=> s = t
  <2> DEFINE m == Len(t)
  <2>0. m \in Nat
    BY DEF Text
  <2>1. s = t <=> e - p = m /\ \A k \in 1..(e - p) : uri[p + k - 1] = t[k]
    <3>1. s \in Text
      BY <1>5
    <3>2. s = t <=> Len(s) = Len(t) /\ \A k \in 1..Len(s) : s[k] = t[k]
      BY <3>1, TextEqual
    <3> QED
      BY <1>5, <3>2
  <2>2. ASSUME s = t PROVE SegmentIs(uri, t, p)
    <3>1. e - p = m /\ p + m = e /\ \A k \in 1..m : uri[p + k - 1] = t[k]
      BY <1>4, <2>0, <2>1, <2>2
    <3> QED
      BY <1>4, <3>1 DEF SegmentIs
  <2>3. ASSUME SegmentIs(uri, t, p) PROVE s = t
    <3>1. /\ p + m <= n + 1
          /\ \A k \in 1..m : uri[p + k - 1] = t[k]
          /\ p + m = n + 1 \/ uri[p + m] = "/"
      BY <2>3 DEF SegmentIs
    <3>2. ~(e < p + m)
      <4> SUFFICES ASSUME e < p + m PROVE FALSE
        OBVIOUS
      <4> DEFINE k == e - p + 1
      <4>1. k \in 1..m /\ p + k - 1 = e /\ e # n + 1
        BY <1>4, <2>0, <3>1
      <4>2. uri[e] = t[k] /\ t[k] # "/"
        BY <1>6, <3>1, <4>1
      <4> QED
        BY <1>4, <4>1, <4>2
    <3>3. ~(p + m < e)
      <4> SUFFICES ASSUME p + m < e PROVE FALSE
        OBVIOUS
      <4>1. p + m \in p..(e - 1) /\ p + m # n + 1
        BY <1>0, <1>4, <2>0
      <4> QED
        BY <1>4, <3>1, <4>1
    <3>4. e - p = m
      BY <1>4, <2>0, <3>2, <3>3
    <3> QED
      BY <2>1, <3>1, <3>4
  <2> QED
    BY <2>2, <2>3
<1>7. /\ SegmentIs(uri, <<".">>, p) <=> s = <<".">>
      /\ SegmentIs(uri, <<".", ".">>, p) <=> s = <<".", ".">>
      /\ SegmentIs(uri, well_known, p) <=> s = well_known
  <2>1. \A k \in 1..Len(<<".">>) : <<".">>[k] # "/"
    OBVIOUS
  <2>2. \A k \in 1..Len(<<".", ".">>) : <<".", ".">>[k] # "/"
    OBVIOUS
  <2>3. \A k \in 1..Len(well_known) : well_known[k] # "/"
    BY DEF well_known
  <2> QED
    BY <1>6, <2>1, <2>2, <2>3, ShortSegments
<1>8. IsPrefix(<<".">>, s) <=> e - p >= 1 /\ uri[p] = "."
  <2>1. IsPrefix(<<".">>, s) <=> 1 <= e - p /\ \A k \in 1..1 : <<".">>[k] = s[k]
    BY <1>5, TextBegins, ShortSegments
  <2>2. e - p >= 1 => s[1] = uri[p]
    BY <1>4, <1>5
  <2> QED
    BY <1>4, <2>1, <2>2
<1>9. p <= n /\ uri[p] = "." => e - p >= 1
  BY <1>0, <1>4
<1>10. e - p >= 1 => p <= n
  BY <1>0, <1>4
<1>11. IsDotfile(s) <=> Hidden(uri, p)
  BY <1>7, <1>8, <1>9, <1>10 DEF IsDotfile, Hidden, well_known
<1> QED
  BY <1>11 DEF s, e, p, after

\* The walk finds what a look at each segment does.
LEMMA DotfileExact ==
  ASSUME r.uri \in Text
  PROVE  check_dotfile <=> \E s \in Segments(r.uri) : IsDotfile(s)
<1> DEFINE uri == r.uri
           n == Len(uri)
           S == Slashes(uri)
           Segment(i) == SubSeq(uri, i + 1, Min({j \in S : j > i}) - 1)
<1>0. n \in Nat /\ DOMAIN uri = 1..n
  BY DEF Text
<1>1. Segments(uri) = {Segment(i) : i \in S \ {n + 1}}
  BY DEF Segments, Slashes
<1>2. \A i \in S \ {n + 1} : IsDotfile(Segment(i)) <=> Hidden(uri, i + 1)
  BY SegmentOf
<1> HIDE DEF Segment
<1>3. (\E s \in Segments(uri) : IsDotfile(s)) <=> \E i \in S \ {n + 1} : Hidden(uri, i + 1)
  BY <1>1, <1>2
<1>4. \A i \in S \ {n + 1} : i = 0 \/ (i \in 1..n /\ uri[i] = "/")
  BY <1>0 DEF Slashes
<1>5. ASSUME NEW i \in S \ {n + 1}, Hidden(uri, i + 1) PROVE Hidden(uri, 1) \/ Later(uri, 1)
  <2>1. CASE i = 0
    BY <1>5, <2>1
  <2>2. CASE i \in 1..n /\ uri[i] = "/"
    <3>1. i + 1 <= n
      BY <1>5 DEF Hidden
    <3>2. i + 1 \in 1 + 1..n /\ (i + 1) - 1 = i
      BY <1>0, <2>2, <3>1
    <3> QED
      BY <1>5, <2>2, <3>2 DEF Later
  <2> QED
    BY <1>4, <2>1, <2>2
<1>6. ASSUME Hidden(uri, 1) \/ Later(uri, 1) PROVE \E i \in S \ {n + 1} : Hidden(uri, i + 1)
  <2>1. CASE Hidden(uri, 1)
    <3>1. 0 \in S \ {n + 1} /\ 0 + 1 = 1
      BY <1>0 DEF Slashes
    <3> QED
      BY <2>1, <3>1
  <2>2. CASE Later(uri, 1)
    <3>1. PICK j \in 1 + 1..n : uri[j - 1] = "/" /\ Hidden(uri, j)
      BY <2>2 DEF Later
    <3>2. j - 1 \in 1..n /\ j - 1 # n + 1 /\ (j - 1) + 1 = j
      BY <1>0, <3>1
    <3>3. j - 1 \in S \ {n + 1}
      BY <1>0, <3>1, <3>2 DEF Slashes
    <3> QED
      BY <3>1, <3>2, <3>3
  <2> QED
    BY <1>6, <2>1, <2>2
<1> QED
  BY <1>3, <1>5, <1>6, DotfileFound

------------------------------------------------------------------------------
(* The media type of a header value. *)

\* The first c of a text.
LEMMA FirstOf ==
  ASSUME NEW v \in Text, NEW c
  PROVE  LET q == First(c, v)
         IN  /\ q \in 0..Len(v)
             /\ q = 0 => \A i \in 1..Len(v) : v[i] # c
             /\ q # 0 => v[q] = c /\ \A i \in 1..(q - 1) : v[i] # c
<1> DEFINE q == First(c, v)
           I == {i \in 1..Len(v) : v[i] = c}
<1>0. Len(v) \in Nat
  BY DEF Text
<1>1. q = IF I # {} THEN Min(I) ELSE 0
  BY DEF First, SelectInSeq
<1>2. CASE I = {}
  BY <1>0, <1>1, <1>2
<1>3. CASE I # {}
  <2>1. I \in SUBSET Nat
    OBVIOUS
  <2> DEFINE m == Min(I)
  <2>2. m \in I /\ \A i \in I : m <= i
    <3> HIDE DEF I
    <3> QED
      BY <1>3, <2>1, MinIn
  <2>3. q = m
    BY <1>1, <1>3
  <2> HIDE DEF m, q
  <2>4. m \in 1..Len(v) /\ v[m] = c
    BY <2>2
  <2>5. \A i \in 1..(m - 1) : v[i] # c
    <3> TAKE i \in 1..(m - 1)
    <3>1. i \in 1..Len(v) /\ ~(m <= i)
      BY <1>0, <2>4
    <3> QED
      BY <2>2, <3>1
  <2>6. m # 0
    BY <2>4
  <2>7. QED
    BY <1>0, <2>3, <2>4, <2>5, <2>6 DEF q
<1> QED
  BY <1>2, <1>3

LEMMA MaxIn ==
  ASSUME NEW n \in Nat, NEW S \in SUBSET (0..n), S # {}
  PROVE  Max(S) \in S /\ \A y \in S : y <= Max(S)
<1> DEFINE T == {n - x : x \in S}
<1>1. T \in SUBSET Nat /\ T # {}
  <2>1. \A x \in S : x \in 0..n /\ n - x \in Nat
    OBVIOUS
  <2> QED
    BY <2>1
<1>2. PICK t \in T : \A y \in T : t <= y
  <2> HIDE DEF T
  <2> QED
    BY <1>1, MinIn
<1>3. PICK m \in S : t = n - m
  BY <1>2
<1>4. \A y \in S : m >= y
  <2> TAKE y \in S
  <2>1. n - y \in T
    OBVIOUS
  <2>2. t <= n - y
    BY <1>2, <2>1
  <2>3. y \in 0..n /\ m \in 0..n
    OBVIOUS
  <2> HIDE DEF T
  <2> QED
    BY <1>3, <2>2, <2>3
<1>5. S \in SUBSET Int
  OBVIOUS
<1>6. Max(S) = m
  BY <1>4, <1>5, MaxIs
<1> QED
  BY <1>4, <1>5, <1>6

Semi(c) == c = ";"

\* The media type of v is its first e pieces.
IsEnd(v, e) ==
  /\ e \in 0..Len(v)
  /\ \A j \in 1..e : ~Semi(v[j])
  /\ e = 0 \/ ~Blank(v[e])
  /\ \E k \in e..Len(v) : /\ \A j \in e + 1..k : Blank(v[j])
                          /\ k = Len(v) \/ Semi(v[k + 1])

LEMMA EndNotBefore ==
  ASSUME NEW v \in Text, NEW d, NEW e, IsEnd(v, d), IsEnd(v, e)
  PROVE  ~(d < e)
<1> SUFFICES ASSUME d < e PROVE FALSE
  OBVIOUS
<1>0. Len(v) \in Nat /\ d \in 0..Len(v) /\ e \in 0..Len(v)
  BY DEF IsEnd, Text
<1>1. PICK k \in d..Len(v) : /\ \A j \in d + 1..k : Blank(v[j])
                             /\ k = Len(v) \/ Semi(v[k + 1])
  BY DEF IsEnd
<1>2. ~Blank(v[e]) /\ \A j \in 1..e : ~Semi(v[j])
  BY <1>0 DEF IsEnd
<1>3. k < e
  <2>1. e \in d + 1..k => Blank(v[e])
    BY <1>1
  <2> QED
    BY <1>0, <1>2, <2>1
<1>4. k + 1 \in 1..e /\ k # Len(v)
  BY <1>0, <1>3
<1> QED
  BY <1>1, <1>2, <1>4

LEMMA EndUnique ==
  ASSUME NEW v \in Text, NEW d, NEW e, IsEnd(v, d), IsEnd(v, e)
  PROVE  d = e
<1>1. d \in 0..Len(v) /\ e \in 0..Len(v) /\ Len(v) \in Nat
  BY DEF IsEnd, Text
<1>2. ~(d < e) /\ ~(e < d)
  BY EndNotBefore, Zenon
<1> QED
  BY <1>1, <1>2

\* Where content_type_suffix looks for the suffix.
SuffixEnd(v) ==
  LET semi == First(";", v)
      type == IF semi = 0 THEN v ELSE SubSeq(v, 1, semi - 1)
  IN  Max({0} \union {i \in DOMAIN type : ~Blank(type[i])})

LEMMA SuffixEnds ==
  ASSUME NEW v \in Text
  PROVE  IsEnd(v, SuffixEnd(v))
<1> DEFINE n == Len(v)
           semi == First(";", v)
           type == IF semi = 0 THEN v ELSE SubSeq(v, 1, semi - 1)
           m == IF semi = 0 THEN n ELSE semi - 1
           S == {0} \union {i \in DOMAIN type : ~Blank(type[i])}
           e == Max(S)
<1>0. n \in Nat
  BY DEF Text
<1>1. /\ semi \in 0..n
      /\ semi = 0 => \A i \in 1..n : ~Semi(v[i])
      /\ semi # 0 => Semi(v[semi]) /\ \A i \in 1..(semi - 1) : ~Semi(v[i])
  BY FirstOf DEF Semi
<1> HIDE DEF semi
<1>2. /\ m \in 0..n
      /\ \A i \in 1..m : ~Semi(v[i])
      /\ m = n \/ Semi(v[m + 1])
  BY <1>0, <1>1
<1>3. DOMAIN type = 1..m /\ \A i \in 1..m : type[i] = v[i]
  <2>1. CASE semi = 0
    BY <2>1 DEF Text
  <2>2. CASE semi # 0
    BY <1>0, <1>1, <2>2 DEF Text
  <2> QED
    BY <2>1, <2>2
<1> HIDE DEF type, m
<1>4. S \in SUBSET (0..m) /\ S # {} /\ m \in Nat
  BY <1>2, <1>3
<1>5. e \in S /\ \A i \in S : i <= e
  <2> HIDE DEF S
  <2> QED
    BY <1>4, MaxIn
<1> HIDE DEF e
<1>6. e \in 0..m /\ (e = 0 \/ ~Blank(v[e]))
  BY <1>3, <1>4, <1>5
<1>7. \A j \in e + 1..m : Blank(v[j])
  <2> TAKE j \in e + 1..m
  <2>1. j \in 1..m /\ ~(j <= e)
    BY <1>4, <1>6
  <2>2. j \notin S
    <3> HIDE DEF S
    <3> QED
      BY <1>5, <2>1
  <2> QED
    BY <1>3, <2>1, <2>2
<1>8. m \in e..n /\ e \in 0..n /\ \A j \in 1..e : ~Semi(v[j])
  BY <1>0, <1>2, <1>4, <1>6
<1>9. IsEnd(v, e)
  BY <1>2, <1>6, <1>7, <1>8 DEF IsEnd
<1> QED
  BY <1>9 DEF SuffixEnd, e, S, type, semi

LEMMA MediaTypeIs ==
  ASSUME NEW v \in Text, NEW e, IsEnd(v, e)
  PROVE  MediaType(v) = SubSeq(v, 1, e)
<1> DEFINE n == Len(v)
           Q(t) == /\ ";" \notin ToSet(t)
                   /\ t = <<>> \/ ~Blank(Last(t))
                   /\ \E k \in Len(t)..Len(v) : /\ \A j \in Len(t) + 1..k : Blank(v[j])
                                                /\ k = Len(v) \/ Semi(v[k + 1])
<1>0. n \in Nat
  BY DEF Text
<1>1. ASSUME NEW l \in 0..n
      PROVE  Q(SubSeq(v, 1, l)) <=> IsEnd(v, l)
  <2> DEFINE t == SubSeq(v, 1, l)
  <2>1. DOMAIN t = 1..l /\ Len(t) = l /\ \A i \in 1..l : t[i] = v[i]
    BY <1>0 DEF Text
  <2>2. t = <<>> <=> l = 0
    BY <1>0 DEF Text
  <2> HIDE DEF t
  <2>3. ";" \notin ToSet(t) <=> \A j \in 1..l : ~Semi(v[j])
    BY <2>1 DEF ToSet, Semi
  <2>4. l # 0 => Last(t) = v[l]
    BY <2>1 DEF Last
  <2>5. Q(t) <=> IsEnd(v, l)
    BY <2>1, <2>2, <2>3, <2>4 DEF IsEnd
  <2> QED
    BY <2>5 DEF t
<1>2. MediaType(v) = CHOOSE t \in Prefixes(v) : Q(t)
  BY DEF MediaType, Semi
<1> HIDE DEF Q
<1>3. e \in 0..n /\ SubSeq(v, 1, e) \in Prefixes(v)
  BY DEF IsEnd, Prefixes
<1>4. Q(SubSeq(v, 1, e))
  BY <1>1, <1>3
<1>5. MediaType(v) \in Prefixes(v) /\ Q(MediaType(v))
  BY <1>2, <1>3, <1>4
<1>6. PICK l \in 0..n : MediaType(v) = SubSeq(v, 1, l)
  BY <1>5 DEF Prefixes
<1>7. IsEnd(v, l)
  BY <1>1, <1>5, <1>6
<1>8. l = e
  BY <1>7, EndUnique
<1> QED
  BY <1>6, <1>8

LEMMA TypeIs ==
  ASSUME NEW v \in Text, NEW type \in Text,
         \A i \in 1..Len(type) : ~Semi(type[i]) /\ ~Blank(type[i]), Len(type) # 0
  PROVE  content_type_is(v, type) <=> MediaType(v) = type
<1> DEFINE n == Len(v)
           m == Len(type)
           e == SuffixEnd(v)
<1>0. n \in Nat /\ m \in Nat /\ m # 0
  BY DEF Text
<1>1. IsEnd(v, e) /\ MediaType(v) = SubSeq(v, 1, e)
  BY SuffixEnds, MediaTypeIs
<1>2. e \in 0..n
  BY <1>1 DEF IsEnd
<1> HIDE DEF e
<1>3. /\ SubSeq(v, 1, e) \in Text /\ Len(SubSeq(v, 1, e)) = e
      /\ \A i \in 1..e : SubSeq(v, 1, e)[i] = v[i]
  BY <1>0, <1>2 DEF Text
<1>4. SubSeq(v, 1, e) = type <=> e = m /\ \A i \in 1..e : v[i] = type[i]
  <2> DEFINE t == SubSeq(v, 1, e)
  <2> HIDE DEF t
  <2>1. t = type <=> Len(t) = Len(type) /\ \A i \in 1..Len(t) : t[i] = type[i]
    BY <1>3, TextEqual DEF t
  <2> QED
    BY <1>3, <2>1 DEF t
<1>5. IsPrefix(type, v) <=> m <= n /\ \A i \in 1..m : type[i] = v[i]
  BY TextBegins
<1>6. ASSUME content_type_is(v, type) PROVE MediaType(v) = type
  <2>1. m <= n /\ \A i \in 1..m : type[i] = v[i]
    BY <1>5, <1>6 DEF content_type_is
  <2>2. PICK i \in m + 1..n + 1 : /\ \A j \in m + 1..i - 1 : Blank(v[j])
                                  /\ i = n + 1 \/ Semi(v[i])
    BY <1>6 DEF content_type_is, Semi
  <2>3. i - 1 \in m..n /\ (i - 1) + 1 = i /\ (i = n + 1 => i - 1 = n)
    BY <1>0, <2>2
  <2>4. m \in 0..n /\ ~Blank(v[m]) /\ \A j \in 1..m : ~Semi(v[j])
    BY <1>0, <2>1
  <2>5. IsEnd(v, m)
    BY <2>2, <2>3, <2>4 DEF IsEnd
  <2>6. e = m
    BY <1>1, <2>5, EndUnique
  <2> QED
    BY <1>1, <1>4, <2>1, <2>6
<1>7. ASSUME MediaType(v) = type PROVE content_type_is(v, type)
  <2>1. e = m /\ \A i \in 1..e : v[i] = type[i]
    BY <1>1, <1>4, <1>7
  <2>2. PICK k \in e..n : /\ \A j \in e + 1..k : Blank(v[j])
                          /\ k = n \/ Semi(v[k + 1])
    BY <1>1 DEF IsEnd
  <2>3. k + 1 \in m + 1..n + 1 /\ (k + 1) - 1 = k /\ (k = n => k + 1 = n + 1)
    BY <1>0, <2>1, <2>2
  <2>4. \A j \in m + 1..(k + 1) - 1 : Blank(v[j])
    BY <2>1, <2>2, <2>3
  <2>5. IsPrefix(type, v)
    BY <1>2, <1>5, <2>1
  <2> QED
    BY <2>2, <2>3, <2>4, <2>5 DEF content_type_is, Semi
<1> QED
  BY <1>6, <1>7

------------------------------------------------------------------------------
(* What is known of a request, and of its body. *)

LEMMA TextTypesAre ==
  ASSUME NEW type \in TextTypes
  PROVE  /\ type \in Text /\ Len(type) # 0
         /\ \A i \in 1..Len(type) : ~Semi(type[i]) /\ ~Blank(type[i])
<1> DEFINE T == {"x-www-form-urlencoded", "json", "xml", "graphql",
                 "x-ndjson", "json-seq", "yaml", "x-yaml"}
<1>1. CASE type = <<"multipart/form-data">>
  <2>1. "multipart/form-data" \in Piece \union Marks
    BY DEF Marks
  <2>2. ~Semi("multipart/form-data") /\ ~Blank("multipart/form-data")
    BY DEF Semi, Blank
  <2> QED
    BY <1>1, <2>1, <2>2 DEF Text
<1>2. ASSUME NEW t \in T, type = <<"application/", t>>
      PROVE  /\ type \in Text /\ Len(type) # 0
             /\ \A i \in 1..Len(type) : ~Semi(type[i]) /\ ~Blank(type[i])
  <2>1. "application/" \in Piece \union Marks /\ t \in Piece \union Marks
    BY DEF Marks
  <2>2. ~Semi("application/") /\ ~Blank("application/") /\ ~Semi(t) /\ ~Blank(t)
    BY DEF Semi, Blank
  <2> HIDE DEF T
  <2> QED
    BY <1>2, <2>1, <2>2 DEF Text
<1>3. type = <<"multipart/form-data">> \/ \E t \in T : type = <<"application/", t>>
  BY DEF TextTypes
<1> QED
  BY <1>1, <1>2, <1>3

LEMMA SuffixIs ==
  ASSUME NEW v \in Text, NEW suffix
  PROVE  content_type_suffix(v, suffix) <=>
           /\ IsPrefix(<<"application/">>, MediaType(v)) /\ Len(v) > 1
           /\ Last(MediaType(v)) = suffix
<1> DEFINE e == SuffixEnd(v)
           app == <<"application/">>
           t == SubSeq(v, 1, e)
<1>0. Len(v) \in Nat
  BY DEF Text
<1>1. IsEnd(v, e) /\ MediaType(v) = t
  BY SuffixEnds, MediaTypeIs
<1>2. e \in 0..Len(v)
  BY <1>1 DEF IsEnd
<1>3. content_type_suffix(v, suffix) <=>
        Len(v) > 1 /\ v[1] = "application/" /\ e > 0 /\ v[e] = suffix
  BY DEF content_type_suffix, SuffixEnd
<1> HIDE DEF e
<1>4. t \in Text /\ Len(t) = e /\ \A i \in 1..e : t[i] = v[i]
  BY <1>0, <1>2 DEF Text
<1> HIDE DEF t
<1>5. app \in Text /\ Len(app) = 1 /\ app[1] = "application/"
  BY DEF Text, Marks
<1> HIDE DEF app
<1>6. IsPrefix(app, t) <=> 1 <= e /\ \A i \in 1..1 : app[i] = t[i]
  BY <1>4, <1>5, TextBegins
<1>7. IsPrefix(app, t) <=> e > 0 /\ v[1] = "application/"
  BY <1>2, <1>4, <1>5, <1>6
<1>8. e > 0 => Last(t) = v[e]
  BY <1>2, <1>4 DEF Last
<1> QED
  BY <1>1, <1>3, <1>7, <1>8 DEF app

LEMMA ScannableIs ==
  ASSUME NEW v \in Text
  PROVE  content_type_value_scannable(v) <=> TextShaped(v)
<1>1. (\E type \in TextTypes : content_type_is(v, type)) <=> MediaType(v) \in TextTypes
  BY TypeIs, TextTypesAre
<1>2. (\E suffix \in {"+json", "+xml"} : content_type_suffix(v, suffix)) <=>
           /\ IsPrefix(<<"application/">>, MediaType(v)) /\ Len(v) > 1
           /\ Last(MediaType(v)) \in {"+json", "+xml"}
  BY SuffixIs
<1> QED
  BY <1>1, <1>2, Zenon DEF content_type_value_scannable, TextShaped

LEMMA SeqParts ==
  ASSUME NEW S, NEW s \in Seq(S)
  PROVE  Len(s) \in Nat /\ DOMAIN s = 1..Len(s) /\ \A i \in 1..Len(s) : s[i] \in S
OBVIOUS

\* What is known of a request.
Known ==
  /\ r.target \in Text /\ r.uri \in Text
  /\ Len(r.headers) \in Nat /\ DOMAIN r.headers = 1..Len(r.headers)
  /\ \A i \in 1..Len(r.headers) : r.headers[i].value \in Text
  /\ Len(r.bufs) \in Nat /\ DOMAIN r.bufs = 1..Len(r.bufs)
  /\ \A i \in 1..Len(r.bufs) : /\ r.bufs[i].data \in Text
                                /\ r.bufs[i].in \in {"memory", "file", "other"}
  /\ r.content_length_n \in Int

LEMMA RequestIs == r \in Requests => Known
<1> SUFFICES ASSUME r \in Requests PROVE Known
  OBVIOUS
<1> DEFINE H == [key : Piece, hash : BOOLEAN, value : Seq(Piece)]
           B == [in : {"memory", "file", "other"}, data : Seq(Piece)]
<1>1. /\ r.target \in Seq(Piece) /\ r.uri \in Seq(Piece)
      /\ r.content_length_n \in Int
  BY RequestAssumption
<1>2. r.headers \in Seq(H) /\ r.bufs \in Seq(B)
  BY RequestAssumption, Zenon
<1>3. Seq(Piece) \subseteq Text
  BY DEF Text
<1>4. (\A h \in H : h.value \in Text) /\ \A b \in B : b.data \in Text /\ b.in \in {"memory", "file", "other"}
  BY <1>3
<1> HIDE DEF H, B
<1>5. /\ Len(r.headers) \in Nat /\ DOMAIN r.headers = 1..Len(r.headers)
      /\ \A i \in 1..Len(r.headers) : r.headers[i] \in H
  BY <1>2, SeqParts, Zenon
<1>6. /\ Len(r.bufs) \in Nat /\ DOMAIN r.bufs = 1..Len(r.bufs)
      /\ \A i \in 1..Len(r.bufs) : r.bufs[i] \in B
  BY <1>2, SeqParts, Zenon
<1>7. r.target \in Text /\ r.uri \in Text
  BY <1>1, <1>3
<1>8. \A i \in 1..Len(r.headers) : r.headers[i].value \in Text
  BY <1>4, <1>5, Zenon
<1>9. \A i \in 1..Len(r.bufs) : /\ r.bufs[i].data \in Text
                                /\ r.bufs[i].in \in {"memory", "file", "other"}
  BY <1>4, <1>6, Zenon
<1> QED
  BY <1>1, <1>5, <1>6, <1>7, <1>8, <1>9, Zenon DEF Known

LEMMA BodyIsText == Known => (scannable_body <=> TextBody)
<1> SUFFICES ASSUME Known PROVE scannable_body <=> TextBody
  OBVIOUS
<1> DEFINE H == r.headers
<1>1. \A i \in DOMAIN H : H[i].value \in Text
  BY Zenon DEF Known
<1>2. \A i \in DOMAIN H : content_type_value_scannable(H[i].value) <=> TextShaped(H[i].value)
  BY <1>1, ScannableIs
<1> HIDE DEF H
<1> DEFINE types == {i \in DOMAIN H : H[i].key = "content-type"}
<1>3. scannable_body <=> /\ r.content_length_n > 0 \/ r.chunked
                         /\ types = {} \/ \E i \in types : content_type_value_scannable(H[i].value)
  BY DEF scannable_body, Named, H
<1>4. TextBody <=> /\ r.content_length_n > 0 \/ r.chunked
                   /\ \A i \in DOMAIN H : H[i].key = "content-type" =>
                        \E j \in DOMAIN H : H[j].key = "content-type" /\ TextShaped(H[j].value)
  BY DEF TextBody, H
<1>5. (types = {} \/ \E i \in types : content_type_value_scannable(H[i].value)) <=>
        \A i \in DOMAIN H : H[i].key = "content-type" =>
                        \E j \in DOMAIN H : H[j].key = "content-type" /\ TextShaped(H[j].value)
  BY <1>2
<1> QED
  BY <1>3, <1>4, <1>5, Zenon

------------------------------------------------------------------------------
(* Texts joined one after the other. *)

LEMMA Joins ==
  ASSUME NEW s \in Text, NEW t \in Text
  PROVE  /\ s \o t \in Text /\ Len(s \o t) = Len(s) + Len(t)
         /\ \A i \in 1..Len(s) : (s \o t)[i] = s[i]
         /\ \A i \in 1..Len(t) : (s \o t)[Len(s) + i] = t[i]
BY DEF Text

LEMMA Starts ==
  ASSUME NEW s \in Text, NEW n \in 0..Len(s)
  PROVE  /\ SubSeq(s, 1, n) \in Text /\ Len(SubSeq(s, 1, n)) = n
         /\ \A i \in 1..n : SubSeq(s, 1, n)[i] = s[i]
BY DEF Text

LEMMA LenText ==
  ASSUME NEW s \in Text
  PROVE  Len(s) \in Nat
BY DEF Text

\* The buffers one after the other.
Flattens(d, n, f) == f = [i \in 1..n |-> IF i = 1 THEN d[i] ELSE f[i - 1] \o d[i]]

LEMMA FlattenExists ==
  ASSUME NEW d, NEW n \in Nat
  PROVE  \E f : Flattens(d, n, f)
<1> DEFINE Bad == {k \in Nat : ~\E f : Flattens(d, k, f)}
<1>1. Bad = {}
  <2> SUFFICES ASSUME Bad # {} PROVE FALSE
    OBVIOUS
  <2>1. Bad \in SUBSET Nat
    OBVIOUS
  <2> HIDE DEF Bad
  <2>2. PICK m \in Bad : \A k \in Nat : k < m => k \notin Bad
    BY <2>1, LeastBad
  <2>3. m \in Nat /\ ~\E f : Flattens(d, m, f)
    BY <2>2 DEF Bad
  <2>4. CASE m = 0
    <3>1. Flattens(d, 0, [i \in 1..0 |-> d])
      BY DEF Flattens
    <3> QED
      BY <2>3, <2>4, <3>1
  <2>5. CASE m # 0
    <3>1. m - 1 \in Nat /\ m - 1 < m
      BY <2>3, <2>5
    <3>2. m - 1 \notin Bad
      BY <2>2, <3>1
    <3>3. PICK g : Flattens(d, m - 1, g)
      BY <3>1, <3>2 DEF Bad
    <3> DEFINE f == [i \in 1..m |-> IF i = 1 THEN d[i] ELSE g[i - 1] \o d[i]]
    <3>4. \A i \in 1..(m - 1) : f[i] = g[i]
      <4>1. \A i \in 1..(m - 1) : g[i] = IF i = 1 THEN d[i] ELSE g[i - 1] \o d[i]
        BY <3>3 DEF Flattens
      <4>2. \A i \in 1..(m - 1) : i \in 1..m
        BY <2>3
      <4> QED
        BY <4>1, <4>2
    <3>5. \A i \in 1..m : i # 1 => i - 1 \in 1..(m - 1)
      BY <2>3
    <3>6. \A i \in 1..m : f[i] = IF i = 1 THEN d[i] ELSE f[i - 1] \o d[i]
      BY <3>4, <3>5
    <3>7. f = [i \in 1..m |-> f[i]]
      OBVIOUS
    <3> HIDE DEF f
    <3>8. Flattens(d, m, f)
      BY <3>6, <3>7 DEF Flattens
    <3> QED
      BY <2>3, <3>8
  <2> QED
    BY <2>4, <2>5
<1> QED
  BY <1>1

\* f[k] is the first k buffers joined.
Joined(d, n, f) ==
  /\ f = [k \in 0..n |-> f[k]]
  /\ f[0] = <<>> /\ \A k \in 1..n : f[k] = f[k - 1] \o d[k]
  /\ f[n] = FlattenSeq(d)

LEMMA JoinedExists ==
  ASSUME NEW d, NEW n \in Nat, Len(d) = n, n = 0 => d = <<>>,
         \A i \in 1..n : d[i] \in Text
  PROVE  \E f : Joined(d, n, f)
<1> DEFINE flatten == CHOOSE f : Flattens(d, n, f)
           f == [k \in 0..n |-> IF k = 0 THEN <<>> ELSE flatten[k]]
<1>1. Flattens(d, n, flatten)
  BY FlattenExists
<1>2. FlattenSeq(d) = IF n = 0 THEN d ELSE flatten[n]
  BY DEF FlattenSeq, Flattens
<1> HIDE DEF flatten
<1>3. \A i \in 1..n : flatten[i] = IF i = 1 THEN d[i] ELSE flatten[i - 1] \o d[i]
  BY <1>1 DEF Flattens
<1>4. ASSUME NEW k \in 1..n PROVE f[k] = f[k - 1] \o d[k]
  <2>0. k \in 0..n /\ k - 1 \in 0..n /\ k # 0
    OBVIOUS
  <2>1. CASE k = 1
    <3>1. f[k] = d[k] /\ f[k - 1] = <<>> /\ d[k] \in Text
      BY <1>3, <2>0, <2>1
    <3>2. <<>> \o d[k] = d[k]
      BY <3>1 DEF Text
    <3> HIDE DEF f
    <3> QED
      BY <3>1, <3>2
  <2>2. CASE k # 1
    <3>1. k - 1 # 0
      BY <2>2
    <3>2. f[k] = flatten[k] /\ f[k - 1] = flatten[k - 1]
      BY <2>0, <3>1
    <3>3. flatten[k] = flatten[k - 1] \o d[k]
      BY <1>3, <2>2
    <3> HIDE DEF f
    <3> QED
      BY <3>2, <3>3
  <2> QED
    BY <2>1, <2>2
<1>5. f[0] = <<>> /\ f[n] = FlattenSeq(d)
  BY <1>2
<1>6. f = [k \in 0..n |-> f[k]]
  OBVIOUS
<1> HIDE DEF f
<1>7. Joined(d, n, f)
  BY <1>4, <1>5, <1>6 DEF Joined
<1> QED
  BY <1>7

LEMMA JoinedTexts ==
  ASSUME NEW d, NEW n \in Nat, \A i \in 1..n : d[i] \in Text,
         NEW f, Joined(d, n, f)
  PROVE  \A k \in 0..n : f[k] \in Text
<1> DEFINE Bad == {k \in 0..n : f[k] \notin Text}
<1>1. Bad = {}
  <2> SUFFICES ASSUME Bad # {} PROVE FALSE
    OBVIOUS
  <2>1. Bad \in SUBSET Nat
    OBVIOUS
  <2> HIDE DEF Bad
  <2>2. PICK m \in Bad : \A k \in Nat : k < m => k \notin Bad
    BY <2>1, LeastBad
  <2>3. m \in 0..n /\ f[m] \notin Text
    BY <2>2 DEF Bad
  <2>4. <<>> \in Text
    BY DEF Text
  <2>5. m # 0
    BY <2>3, <2>4 DEF Joined
  <2>6. m - 1 \in 0..n /\ m - 1 < m /\ m - 1 \in Nat /\ m \in 1..n
    BY <2>3, <2>5
  <2>7. f[m - 1] \in Text
    BY <2>2, <2>6 DEF Bad
  <2>8. f[m] = f[m - 1] \o d[m]
    BY <2>6 DEF Joined
  <2>9. d[m] \in Text
    BY <2>6
  <2> HIDE DEF Joined
  <2> QED
    BY <2>3, <2>7, <2>8, <2>9, Joins
<1> QED
  BY <1>1

\* Each is a beginning of all of them.
LEMMA JoinedBegin ==
  ASSUME NEW d, NEW n \in Nat, \A i \in 1..n : d[i] \in Text,
         NEW f, Joined(d, n, f), NEW k \in 0..n
  PROVE  Len(f[k]) <= Len(f[n]) /\ \A i \in 1..Len(f[k]) : f[n][i] = f[k][i]
<1> DEFINE Begins(j) == Len(f[k]) <= Len(f[j]) /\ \A i \in 1..Len(f[k]) : f[j][i] = f[k][i]
           Bad == {j \in 0..n : j >= k /\ ~Begins(j)}
<1>0. \A j \in 0..n : f[j] \in Text /\ Len(f[j]) \in Nat
  BY JoinedTexts, LenText
<1>1. Bad = {}
  <2> SUFFICES ASSUME Bad # {} PROVE FALSE
    OBVIOUS
  <2>1. Bad \in SUBSET Nat
    OBVIOUS
  <2> HIDE DEF Bad
  <2>2. PICK m \in Bad : \A j \in Nat : j < m => j \notin Bad
    BY <2>1, LeastBad
  <2>3. m \in 0..n /\ m >= k /\ ~Begins(m)
    BY <2>2 DEF Bad
  <2>4. Begins(k)
    BY <1>0
  <2>5. m # k
    BY <2>3, <2>4
  <2>6. m - 1 \in 0..n /\ m - 1 < m /\ m - 1 \in Nat /\ m \in 1..n /\ m - 1 >= k
    BY <2>3, <2>5
  <2> HIDE DEF Begins
  <2>7. Begins(m - 1)
    BY <2>2, <2>6 DEF Bad
  <2> DEFINE s == f[m - 1]
             t == d[m]
  <2>8. f[m] = s \o t /\ s \in Text /\ t \in Text
    BY <1>0, <2>6 DEF Joined
  <2> HIDE DEF s, t
  <2>9. Len(s \o t) = Len(s) + Len(t) /\ Len(s) \in Nat /\ Len(t) \in Nat /\ \A i \in 1..Len(s) : (s \o t)[i] = s[i]
    BY <2>8, Joins, LenText
  <2>10. Len(f[k]) <= Len(s) /\ \A i \in 1..Len(f[k]) : s[i] = f[k][i]
    BY <2>7 DEF Begins, s
  <2>11. Len(f[k]) \in Nat
    BY <1>0
  <2>12. Len(f[k]) <= Len(s) + Len(t) /\ \A i \in 1..Len(f[k]) : i \in 1..Len(s)
    BY <2>9, <2>10, <2>11
  <2>13. Begins(m)
    BY <2>8, <2>9, <2>10, <2>12 DEF Begins
  <2> QED
    BY <2>3, <2>13
<1>2. n \in 0..n /\ n >= k
  OBVIOUS
<1> QED
  BY <1>1, <1>2

------------------------------------------------------------------------------
(* What each check and scan looks for, and what may follow. *)

Oxy == At("header", {c \in {"httpoxy"} : \E i \in DOMAIN r.headers : r.headers[i].key = "proxy"})
Ranges == At("range", {c \in {"range_dos"} : check_range})
Ctrl == At("uri", {c \in {"ctrl_char"} : "control" \in ToSet(r.uri)})
Dot == At("uri", {c \in {"dotfile"} : \E s \in Segments(r.uri) : IsDotfile(s)})
Buffers == [i \in DOMAIN r.bufs |-> IF r.bufs[i].in = "other" THEN <<>> ELSE r.bufs[i].data]
Parts == CHOOSE f : Joined(Buffers, Len(r.bufs), f)
Held(data) == Contents(data) \union RulesIn(data)

\* All of these are of the request and the location, which nothing changes.
Fixed ==
  /\ UNCHANGED Oxy /\ UNCHANGED Ranges /\ UNCHANGED Ctrl /\ UNCHANGED Dot
  /\ UNCHANGED InTarget /\ \A h : UNCHANGED InHeader(h)
  /\ UNCHANGED InBody /\ UNCHANGED BodyStart /\ UNCHANGED TextBody
  /\ UNCHANGED max /\ UNCHANGED Parts /\ UNCHANGED Attack

LEMMA AllFixed ==
  ASSUME UNCHANGED <<r, slcf>>
  PROVE  Fixed
<1>1. UNCHANGED Oxy
  BY DEF Oxy, At
<1>2. UNCHANGED Ranges
  BY DEF Ranges, At, check_range, Named
<1>3. UNCHANGED Ctrl
  BY DEF Ctrl, At
<1>4. UNCHANGED Dot
  BY DEF Dot, At
<1>5. UNCHANGED path
  BY DEF path
<1>6. UNCHANGED InTarget
  BY <1>5 DEF InTarget, At
<1>7. \A h : UNCHANGED InHeader(h)
  BY DEF InHeader, At
<1>8. UNCHANGED max
  BY DEF max
<1>9. UNCHANGED BodyStart
  BY <1>8 DEF BodyStart
<1>10. UNCHANGED TextBody
  BY DEF TextBody
<1>11. UNCHANGED InBody
  BY <1>9, <1>10 DEF InBody, At
<1>12. UNCHANGED Parts
  BY DEF Parts, Buffers
<1>13. UNCHANGED InShape
  BY DEF InShape, At, check_range, Named
<1>14. UNCHANGED Attack
  BY <1>6, <1>7, <1>11, <1>13 DEF Attack
<1> QED
  BY <1>1, <1>2, <1>3, <1>4, <1>6, <1>7, <1>8, <1>9, <1>10, <1>11, <1>12, <1>14 DEF Fixed

LEMMA AttackParts ==
  Attack = Oxy \union Ranges \union Ctrl \union Dot \union InTarget \union InBody
             \union UNION {InHeader(r.headers[i]) : i \in DOMAIN r.headers}
BY DEF Attack, InShape, Oxy, Ranges, Ctrl, Dot

\* What a check or a scan may report where "found" is what counts there.
Reports(result, found) ==
  \/ result = "error"
  \/ result = "none" /\ found = {}
  \/ result \in found /\ result \notin {"none", "error"}

LEMMA ScanReports ==
  ASSUME NEW data \in Text, NEW skip, NEW result \in scan_r(data, skip)
  PROVE  Reports(result, Held(data) \ skip)
<1>1. CASE data = <<>>
  BY <1>1, EmptyHolds DEF scan_r, Reports, Held
<1>2. CASE data # <<>>
  <2>1. result = scan_input(data, skip) \/ result = "error"
    BY <1>2 DEF scan_r
  <2>2. IF Held(data) \ skip = {} THEN scan_input(data, skip) = "none"
        ELSE scan_input(data, skip) \in Held(data) \ skip
    BY ScanFinds DEF Held
  <2>3. "none" \notin Held(data) /\ "error" \notin Held(data)
    BY ReservedNames, RuleCats DEF Held, Contents, RulesIn
  <2> QED
    BY <2>1, <2>2, <2>3 DEF Reports
<1> QED
  BY <1>1, <1>2

\* What follows a report.
Follows(found, source, next) ==
  \/ found = {} /\ stage' = next /\ UNCHANGED <<rc, hit>>
  \/ stage' = "done" /\ rc' = "ERROR" /\ UNCHANGED hit
  \/ stage' = "done" /\ rc' = "OK" /\ \E c \in found : hit' = [cat |-> c, source |-> source]

LEMMA EndsIs ==
  ASSUME NEW result, NEW found, NEW source, NEW next,
         Reports(result, found), Ends(result, source, next)
  PROVE  Follows(found, source, next)
<1>1. CASE result = "error"
  BY <1>1 DEF Ends, Follows
<1>2. CASE result = "none" /\ found = {}
  BY <1>2 DEF Ends, Follows
<1>3. CASE result \in found /\ result # "none" /\ result # "error"
  BY <1>3 DEF Ends, Follows
<1> QED
  BY <1>1, <1>2, <1>3 DEF Reports

LEMMA CheckFollows ==
  ASSUME NEW this, NEW cat, NEW fires, NEW source, NEW next,
         Check(this, cat, fires, source, next), cat \notin {"none", "error"},
         fires \in BOOLEAN
  PROVE  /\ stage = this /\ UNCHANGED <<r, slcf, header, out, cl, done>>
         /\ Follows({c \in {cat} : fires} \ slcf.skip, source, next)
<1> DEFINE result == IF cat \notin slcf.skip /\ fires THEN cat ELSE "none"
           found == {c \in {cat} : fires} \ slcf.skip
<1>1. stage = this /\ Ends(result, source, next) /\ UNCHANGED <<r, slcf, header, out, cl, done>>
  BY DEF Check
<1>2. Reports(result, found)
  BY DEF Reports
<1> HIDE DEF result, found
<1>3. Follows(found, source, next)
  BY <1>1, <1>2, EndsIs
<1> QED
  BY <1>1, <1>3 DEF found

LEMMA PathIs ==
  ASSUME Known
  PROVE  /\ path \in Text
         /\ Contents(r.target) = Contents(path)
              \union Contents(SubSeq(r.target, Len(path) + 1, Len(r.target)))
<1> DEFINE t == r.target
           n == Len(t)
           q == First("?", t)
           k == IF q = 0 THEN n ELSE q - 1
           rest == SubSeq(t, k + 1, n)
<1>0. t \in Text /\ n \in Nat
  BY LenText DEF Known
<1>1. q \in 0..n
  BY <1>0, FirstOf
<1> HIDE DEF q
<1>2. k \in 0..n
  BY <1>0, <1>1
<1>3. SubSeq(t, 1, n) = t
  BY <1>0 DEF Text
<1>4. path = SubSeq(t, 1, k)
  BY <1>3 DEF path, q
<1> HIDE DEF t, n, k
<1>5. path \in Text /\ Len(path) = k /\ \A i \in 1..k : path[i] = t[i]
  BY <1>0, <1>2, <1>4, Starts DEF n
<1>6. DOMAIN t = 1..n /\ DOMAIN path = 1..k
  BY <1>0, <1>5 DEF Text, n
<1>7. DOMAIN rest = 1..(n - k) /\ \A i \in 1..(n - k) : rest[i] = t[k + i]
  BY <1>0, <1>2 DEF Text, n
<1> HIDE DEF rest
<1>8. ToSet(t) = ToSet(path) \union ToSet(rest)
  <2>1. ASSUME NEW i \in 1..n PROVE t[i] \in ToSet(path) \union ToSet(rest)
    <3>1. CASE i <= k
      <4>1. i \in 1..k
        BY <1>2, <3>1
      <4> QED
        BY <1>5, <1>6, <4>1 DEF ToSet
    <3>2. CASE ~(i <= k)
      <4>1. i - k \in 1..(n - k) /\ k + (i - k) = i
        BY <1>0, <1>2, <3>2
      <4>2. rest[i - k] = t[i]
        BY <1>7, <4>1
      <4> QED
        BY <1>7, <4>1, <4>2 DEF ToSet
    <3> QED
      BY <3>1, <3>2
  <2>2. ASSUME NEW i \in 1..k PROVE path[i] \in ToSet(t)
    <3>1. i \in 1..n
      BY <1>0, <1>2
    <3> QED
      BY <1>5, <1>6, <3>1 DEF ToSet
  <2>3. ASSUME NEW i \in 1..(n - k) PROVE rest[i] \in ToSet(t)
    <3>1. k + i \in 1..n
      BY <1>0, <1>2
    <3> QED
      BY <1>6, <1>7, <3>1 DEF ToSet
  <2>4. ToSet(t) \subseteq ToSet(path) \union ToSet(rest)
    BY <1>6, <2>1 DEF ToSet
  <2>5. ToSet(path) \subseteq ToSet(t) /\ ToSet(rest) \subseteq ToSet(t)
    BY <1>6, <1>7, <2>2, <2>3 DEF ToSet
  <2> QED
    BY <2>4, <2>5
<1>9. Contents(t) = Contents(path) \union Contents(rest)
  BY <1>8 DEF Contents
<1> QED
  BY <1>5, <1>9 DEF rest, t, n

LEMMA HeldIs ==
  ASSUME NEW data
  PROVE  Held(data) \subseteq Cats /\ RulesIn(data) \intersect {"xss", "sensitive_file"} = {}
<1>1. \A c \in RulesIn(data) : c \in {"exploit_path", "deserial", "ssrf_meta"}
  BY RuleCats DEF RulesIn
<1> QED
  BY <1>1, Scanned3 DEF Held, Contents, Cats

\* What the two passes over the target look for.
FirstPass == Held(r.target) \ (slcf.skip \union no_query_mask)
SecondPass ==
  IF no_query_mask \subseteq slcf.skip THEN {}
  ELSE Held(path) \ (slcf.skip \union (Cats \ no_query_mask))

LEMMA TwoPasses ==
  ASSUME Known
  PROVE  /\ \A c \in FirstPass \union SecondPass : [cat |-> c, source |-> "uri"] \in InTarget
         /\ FirstPass = {} /\ SecondPass = {} => InTarget = {}
<1> DEFINE mask == {"xss", "sensitive_file"}
           rest == SubSeq(r.target, Len(path) + 1, Len(r.target))
           counts == RulesIn(r.target) \union Contents(path) \union (Contents(rest) \ mask)
<1>1. Contents(r.target) = Contents(path) \union Contents(rest)
  BY PathIs
<1>2. /\ Held(r.target) = Contents(r.target) \union RulesIn(r.target)
      /\ Held(path) = Contents(path) \union RulesIn(path)
  BY DEF Held
<1>3. /\ RulesIn(r.target) \intersect mask = {} /\ RulesIn(path) \intersect mask = {}
      /\ Held(path) \subseteq Cats
  BY HeldIs
<1>4. InTarget = {[cat |-> c, source |-> "uri"] : c \in counts \ slcf.skip}
  BY DEF InTarget, At
<1>5. no_query_mask = mask
  BY QueryMask
<1> HIDE DEF mask, rest
<1>6. FirstPass \subseteq counts \ slcf.skip
  BY <1>1, <1>2, <1>5 DEF FirstPass
<1>7. SecondPass \subseteq counts \ slcf.skip
  BY <1>2, <1>3, <1>5 DEF SecondPass
<1>8. FirstPass = {} /\ SecondPass = {} => counts \ slcf.skip = {}
  <2> SUFFICES ASSUME FirstPass = {}, SecondPass = {}, NEW c \in counts, c \notin slcf.skip PROVE FALSE
    OBVIOUS
  <2>1. c \in Held(r.target) => c \in mask
    BY <1>5 DEF FirstPass
  <2>2. c \in Contents(path) /\ c \in mask => mask \subseteq slcf.skip
    BY <1>2, <1>5 DEF SecondPass
  <2> QED
    BY <1>1, <1>2, <1>3, <2>1, <2>2
<1> HIDE DEF counts
<1> QED
  BY <1>4, <1>6, <1>7, <1>8

\* What the scan of a header looks for.
HeaderPass(h) ==
  IF h.hash THEN Held(h.value) \ (slcf.skip \union (Cats \ Allowed(h.key))) ELSE {}

LEMMA HeaderIs ==
  ASSUME NEW h
  PROVE  InHeader(h) = {[cat |-> c, source |-> Source(h.key)] : c \in HeaderPass(h)}
<1>1. Held(h.value) \subseteq Cats
  BY HeldIs
<1>2. Held(h.value) \ (slcf.skip \union (Cats \ Allowed(h.key)))
        = (Held(h.value) \intersect Allowed(h.key)) \ slcf.skip
  BY <1>1
<1> QED
  BY <1>2 DEF InHeader, At, HeaderPass, Held

\* What the scan of a body looks for.
LEMMA BodyPass ==
  TextBody => InBody = {[cat |-> c, source |-> "body"] :
                          c \in Held(BodyStart) \ (slcf.skip \union no_body_mask)}
<1>1. Held(BodyStart) \ (slcf.skip \union no_body_mask) = (Held(BodyStart) \ BodyExempt) \ slcf.skip
  BY BodyMask
<1> QED
  BY <1>1 DEF InBody, At, Held

\* The inductive invariant.
Stages == {"httpoxy", "range", "ctrl_char", "dotfile", "target", "path", "headers",
           "collect", "done"}

Kept == r \in Requests /\ \E s \in Skips, m \in MaxBodies : slcf = [skip |-> s, max_body |-> m]

Ordered ==
  /\ stage \in Stages /\ rc \in {"OK", "DECLINED", "ERROR"}
  /\ rc # "DECLINED" => stage = "done"
  /\ header \in 1..Len(r.headers) + 1
  /\ stage \notin {"headers", "collect", "done"} => header = 1

HitFound == rc = "OK" => hit \in Attack

\* What was passed holds nothing.
Past(stages) == rc = "DECLINED" /\ stage \notin stages

Passed ==
  /\ Past({"httpoxy"}) => Oxy = {}
  /\ Past({"httpoxy", "range"}) => Ranges = {}
  /\ Past({"httpoxy", "range", "ctrl_char"}) => Ctrl = {}
  /\ Past({"httpoxy", "range", "ctrl_char", "dotfile"}) => Dot = {}
  /\ stage = "path" => FirstPass = {}
  /\ rc = "DECLINED" /\ stage \in {"headers", "collect", "done"} => InTarget = {}
  /\ stage = "headers" => \A i \in 1..header - 1 : InHeader(r.headers[i]) = {}
  /\ rc = "DECLINED" /\ stage \in {"collect", "done"} =>
       \A i \in 1..Len(r.headers) : InHeader(r.headers[i]) = {}
  /\ stage = "collect" => TextBody
  /\ rc = "DECLINED" /\ stage = "done" => InBody = {}

\* How far the collection is: between two buffers, or within a file.
Between ==
  /\ done = 0
  /\ \/ Len(out) = Len(Parts[cl - 1])
     \/ Len(out) = max /\ max <= Len(Parts[cl - 1])

Within ==
  /\ done # 0 /\ cl <= Len(r.bufs) /\ Buf.in = "file"
  /\ Len(out) = Len(Parts[cl - 1]) + done
  /\ done < Len(Buf.data) /\ Len(out) < max

Whole == Parts[Len(r.bufs)]

Collected ==
  /\ cl \in 1..Len(r.bufs) + 1 /\ done \in Nat /\ out \in Text
  /\ stage \notin {"collect", "done"} => out = <<>> /\ cl = 1 /\ done = 0
  /\ stage = "collect" =>
       /\ Len(out) <= max /\ Len(out) <= Len(Whole)
       /\ \A i \in 1..Len(out) : out[i] = Whole[i]
       /\ Between \/ Within

IInv == Kept /\ Ordered /\ HitFound /\ Passed /\ Collected

LEMMA MaxIsNat ==
  ASSUME Kept
  PROVE  max \in Nat /\ Known
<1>1. slcf.max_body \in Nat
  BY RequestAssumption DEF Kept
<1>2. Known
  BY RequestIs DEF Kept
<1>3. r.content_length_n \in Int
  BY <1>2 DEF Known
<1>4. CASE r.content_length_n > 0
  <2> DEFINE S == {slcf.max_body, r.content_length_n}
  <2>1. S \in SUBSET Nat /\ S # {}
    BY <1>1, <1>3, <1>4
  <2> HIDE DEF S
  <2>2. Min(S) \in Nat
    BY <2>1, MinIn
  <2> QED
    BY <1>2, <1>4, <2>2 DEF max, S
<1>5. CASE ~(r.content_length_n > 0)
  BY <1>1, <1>2, <1>5 DEF max
<1> QED
  BY <1>4, <1>5

LEMMA KeptStays ==
  ASSUME Kept, UNCHANGED <<r, slcf>>
  PROVE  Kept'
BY DEF Kept

\* What the joined buffers are.
LEMMA PartsAre ==
  ASSUME Kept
  PROVE  /\ \A k \in 0..Len(r.bufs) : Parts[k] \in Text /\ Len(Parts[k]) \in Nat
         /\ Parts[0] = <<>>
         /\ \A k \in 1..Len(r.bufs) :
              /\ Parts[k] = Parts[k - 1] \o Buffers[k]
              /\ Buffers[k] \in Text
              /\ Buffers[k] = IF r.bufs[k].in = "other" THEN <<>> ELSE r.bufs[k].data
         /\ \A k \in 0..Len(r.bufs) :
              /\ Len(Parts[k]) <= Len(Whole)
              /\ \A i \in 1..Len(Parts[k]) : Whole[i] = Parts[k][i]
         /\ BodyStart \in Text
         /\ Len(BodyStart) = IF max <= Len(Whole) THEN max ELSE Len(Whole)
         /\ \A i \in 1..Len(BodyStart) : BodyStart[i] = Whole[i]
<1> DEFINE n == Len(r.bufs)
           d == Buffers
<1>1. Known /\ max \in Nat
  BY MaxIsNat
<1>2. n \in Nat /\ DOMAIN r.bufs = 1..n /\ \A i \in 1..n : r.bufs[i].data \in Text
  BY <1>1 DEF Known
<1>3. d = [i \in 1..n |-> IF r.bufs[i].in = "other" THEN <<>> ELSE r.bufs[i].data]
  BY <1>2 DEF Buffers
<1>4. <<>> \in Text
  BY DEF Text
<1>5. \A i \in 1..n : d[i] = IF r.bufs[i].in = "other" THEN <<>> ELSE r.bufs[i].data
  BY <1>3
<1>6. \A i \in 1..n : d[i] \in Text
  BY <1>2, <1>4, <1>5
<1>7. d \in Seq(Text) /\ Len(d) = n
  <2> HIDE DEF n
  <2>1. d \in [1..n -> Text]
    BY <1>3, <1>6
  <2> QED
    BY <1>2, <2>1
<1>8. n = 0 => d = <<>>
  BY <1>7
<1>9. Parts = CHOOSE f : Joined(d, n, f)
  BY DEF Parts
<1> HIDE DEF n, d
<1>10. Joined(d, n, Parts)
  <2>1. \E f : Joined(d, n, f)
    BY <1>2, <1>6, <1>7, <1>8, JoinedExists
  <2> QED
    BY <1>9, <2>1, Zenon
<1>11. \A k \in 0..n : Parts[k] \in Text /\ Len(Parts[k]) \in Nat
  BY <1>2, <1>6, <1>10, JoinedTexts, LenText
<1>12. /\ Parts[0] = <<>> /\ \A k \in 1..n : Parts[k] = Parts[k - 1] \o d[k]
       /\ Parts[n] = FlattenSeq(d)
  BY <1>10, Zenon DEF Joined
<1>13. \A k \in 0..n : /\ Len(Parts[k]) <= Len(Parts[n])
                       /\ \A i \in 1..Len(Parts[k]) : Parts[n][i] = Parts[k][i]
  BY <1>2, <1>6, <1>10, JoinedBegin
<1>14. Whole = Parts[n]
  BY DEF Whole, n
<1>15. BodyStart = SubSeq(Whole, 1, Min({max, Len(Whole)}))
  BY <1>12, <1>14, Zenon DEF BodyStart, Buffers, d
<1>16. Whole \in Text /\ Len(Whole) \in Nat
  BY <1>2, <1>11, <1>14
<1>17. Min({max, Len(Whole)}) = IF max <= Len(Whole) THEN max ELSE Len(Whole)
  <2> DEFINE m == IF max <= Len(Whole) THEN max ELSE Len(Whole)
  <2>1. {max, Len(Whole)} \in SUBSET Int /\ m \in {max, Len(Whole)} /\ \A y \in {max, Len(Whole)} : m <= y
    BY <1>1, <1>16
  <2> HIDE DEF m
  <2>2. Min({max, Len(Whole)}) = m
    BY <2>1, MinIs
  <2> QED
    BY <2>2 DEF m
<1>18. Min({max, Len(Whole)}) \in 0..Len(Whole)
  BY <1>1, <1>16, <1>17
<1> DEFINE m == Min({max, Len(Whole)})
<1>19. /\ BodyStart \in Text /\ Len(BodyStart) = m
       /\ \A i \in 1..m : BodyStart[i] = Whole[i]
  <2>1. m \in 0..Len(Whole) /\ BodyStart = SubSeq(Whole, 1, m)
    BY <1>15, <1>18
  <2> HIDE DEF m
  <2> QED
    BY <1>16, <2>1, Starts
<1>20. \A k \in 1..n : /\ Parts[k] = Parts[k - 1] \o Buffers[k] /\ Buffers[k] \in Text
                      /\ Buffers[k] = IF r.bufs[k].in = "other" THEN <<>> ELSE r.bufs[k].data
  BY <1>5, <1>6, <1>12 DEF d
<1> QED
  BY <1>11, <1>12, <1>13, <1>14, <1>17, <1>19, <1>20 DEF n

------------------------------------------------------------------------------
(* The inductive invariant, step by step: the structural checks. *)

LEMMA InitHolds == Init => IInv
<1> SUFFICES ASSUME Init PROVE IInv
  OBVIOUS
<1>1. r \in Requests /\ slcf \in [skip : Skips, max_body : MaxBodies]
  BY DEF Init
<1>2. /\ stage = "httpoxy" /\ header = 1 /\ out = <<>> /\ cl = 1 /\ done = 0
      /\ rc = "DECLINED"
  BY DEF Init
<1>3. Kept
  <2>1. PICK s \in Skips, m \in MaxBodies : slcf = [skip |-> s, max_body |-> m]
    BY <1>1
  <2> QED
    BY <1>1, <2>1, Zenon DEF Kept
<1>4. Known
  BY <1>3, MaxIsNat
<1>5. Ordered
  BY <1>2, <1>4 DEF Ordered, Stages, Known
<1>6. HitFound
  BY <1>2 DEF HitFound
<1>7. Passed
  BY <1>2 DEF Passed, Past
<1>8. Collected
  <2>1. <<>> \in Text
    BY DEF Text
  <2> QED
    BY <1>2, <1>4, <2>1 DEF Collected, Known
<1> QED
  BY <1>3, <1>5, <1>6, <1>7, <1>8 DEF IInv

\* What a report of what is there leaves true.
LEMMA Reported ==
  ASSUME IInv, stage # "done", UNCHANGED <<r, slcf>>,
         NEW found, NEW source, NEW next \in Stages, Follows(found, source, next),
         \A c \in found : [cat |-> c, source |-> source] \in Attack
  PROVE  /\ Fixed /\ Kept' /\ HitFound' /\ rc = "DECLINED"
         /\ stage' \in Stages /\ rc' \in {"OK", "DECLINED", "ERROR"}
         /\ rc' # "DECLINED" => stage' = "done"
         /\ rc' = "DECLINED" => found = {} /\ stage' = next
<1>1. Fixed /\ Kept'
  BY AllFixed, KeptStays DEF IInv
<1>2. Attack' = Attack
  BY <1>1 DEF Fixed
<1>3. rc = "DECLINED"
  BY DEF IInv, Ordered
<1>4. "done" \in Stages
  BY DEF Stages
<1>5. CASE found = {} /\ stage' = next /\ UNCHANGED <<rc, hit>>
  <2>1. rc' = "DECLINED"
    BY <1>3, <1>5
  <2> QED
    BY <1>1, <1>3, <1>5, <2>1 DEF HitFound
<1>6. CASE stage' = "done" /\ rc' = "ERROR" /\ UNCHANGED hit
  BY <1>1, <1>3, <1>4, <1>6 DEF HitFound
<1>7. CASE stage' = "done" /\ rc' = "OK" /\ \E c \in found : hit' = [cat |-> c, source |-> source]
  <2>1. hit' \in Attack
    BY <1>7
  <2> QED
    BY <1>1, <1>2, <1>3, <1>4, <1>7, <2>1 DEF HitFound
<1> QED
  BY <1>5, <1>6, <1>7 DEF Follows

\* Nothing is collected before the body.
LEMMA NotYet ==
  ASSUME Collected, stage \notin {"collect", "done"}, stage' # "collect",
         UNCHANGED <<r, out, cl, done>>
  PROVE  Collected'
BY DEF Collected

LEMMA HeaderStays ==
  ASSUME Ordered, UNCHANGED <<r, header>>, stage' \in Stages,
         rc' \in {"OK", "DECLINED", "ERROR"}, rc' # "DECLINED" => stage' = "done",
         stage \in {"headers", "collect", "done"} => stage' \in {"headers", "collect", "done"}
  PROVE  Ordered'
BY DEF Ordered, Stages

\* One of the structural checks.
LEMMA CheckKeeps ==
  ASSUME IInv, NEW this, NEW cat, NEW fires, NEW source, NEW next,
         Check(this, cat, fires, source, next), cat \notin {"none", "error"},
         fires \in BOOLEAN, this \notin {"headers", "collect", "done"},
         next \in Stages, next # "collect",
         NEW held, held = {[cat |-> c, source |-> source] : c \in {c \in {cat} : fires} \ slcf.skip},
         held \subseteq Attack
  PROVE  /\ Fixed /\ Kept' /\ Ordered' /\ HitFound' /\ Collected'
         /\ stage = this /\ rc = "DECLINED" /\ UNCHANGED <<r, slcf, header>>
         /\ stage' = "done" \/ stage' = next
         /\ rc' = "DECLINED" => held = {} /\ stage' = next
         /\ rc' # "DECLINED" => stage' = "done"
<1> DEFINE found == {c \in {cat} : fires} \ slcf.skip
<1>1. /\ stage = this /\ UNCHANGED <<r, slcf, header, out, cl, done>>
      /\ Follows(found, source, next)
  BY CheckFollows
<1>2. held = {[cat |-> c, source |-> source] : c \in found}
  OBVIOUS
<1> HIDE DEF found
<1>3. \A c \in found : [cat |-> c, source |-> source] \in Attack
  BY <1>2
<1>4. stage # "done" /\ UNCHANGED <<r, slcf>>
  BY <1>1
<1>5. /\ Fixed /\ Kept' /\ HitFound' /\ rc = "DECLINED"
      /\ stage' \in Stages /\ rc' \in {"OK", "DECLINED", "ERROR"}
      /\ rc' # "DECLINED" => stage' = "done"
      /\ rc' = "DECLINED" => found = {} /\ stage' = next
  BY <1>1, <1>3, <1>4, Reported
<1>6. Ordered'
  BY <1>1, <1>5, HeaderStays DEF IInv
<1>7. stage' = "done" \/ stage' = next
  BY <1>5
<1>8. Collected'
  BY <1>1, <1>7, NotYet DEF IInv
<1> QED
  BY <1>1, <1>2, <1>5, <1>6, <1>7, <1>8

\* A hit or an error leaves nothing to be said of what was passed.
LEMMA NotPassed == rc' # "DECLINED" /\ stage' = "done" => Passed'
BY DEF Passed, Past

LEMMA HttpoxyKeeps == IInv /\ CheckHttpoxy => IInv'
<1> SUFFICES ASSUME IInv, CheckHttpoxy PROVE IInv'
  OBVIOUS
<1>1. Oxy = {[cat |-> c, source |-> "header"] : c \in {c \in {"httpoxy"} : check_httpoxy} \ slcf.skip}
  BY DEF Oxy, At, check_httpoxy, Named
<1>2. Oxy \subseteq Attack
  BY AttackParts
<1>3. check_httpoxy \in BOOLEAN /\ "range" \in Stages
  BY DEF check_httpoxy, Stages
<1> HIDE DEF Oxy
<1>4. /\ Fixed /\ Kept' /\ Ordered' /\ HitFound' /\ Collected'
      /\ stage = "httpoxy" /\ rc = "DECLINED" /\ UNCHANGED <<r, slcf, header>>
      /\ stage' = "done" \/ stage' = "range"
      /\ rc' = "DECLINED" => Oxy = {} /\ stage' = "range"
      /\ rc' # "DECLINED" => stage' = "done"
  BY <1>1, <1>2, <1>3, CheckKeeps DEF CheckHttpoxy
<1>5. CASE rc' = "DECLINED"
  <2>1. Oxy' = {} /\ stage' = "range"
    BY <1>4, <1>5 DEF Fixed
  <2>2. Passed'
    BY <2>1 DEF Passed, Past
  <2> QED
    BY <1>4, <2>2 DEF IInv
<1>6. CASE rc' # "DECLINED"
  BY <1>4, <1>6, NotPassed DEF IInv
<1> QED
  BY <1>5, <1>6

LEMMA RangeKeeps == IInv /\ CheckRange => IInv'
<1> SUFFICES ASSUME IInv, CheckRange PROVE IInv'
  OBVIOUS
<1>1. Ranges = {[cat |-> c, source |-> "range"] : c \in {c \in {"range_dos"} : check_range} \ slcf.skip}
  BY DEF Ranges, At
<1>2. Ranges \subseteq Attack
  BY AttackParts
<1>3. check_range \in BOOLEAN /\ "ctrl_char" \in Stages
  BY DEF check_range, Stages
<1>4. /\ Fixed /\ Kept' /\ Ordered' /\ HitFound' /\ Collected'
      /\ stage = "range" /\ rc = "DECLINED" /\ UNCHANGED <<r, slcf, header>>
      /\ stage' = "done" \/ stage' = "ctrl_char"
      /\ rc' = "DECLINED" => Ranges = {} /\ stage' = "ctrl_char"
      /\ rc' # "DECLINED" => stage' = "done"
  BY <1>1, <1>2, <1>3, CheckKeeps DEF CheckRange
<1>5. CASE rc' = "DECLINED"
  <2>1. Oxy' = {} /\ Ranges' = {} /\ stage' = "ctrl_char"
    BY <1>4, <1>5 DEF Fixed, IInv, Passed, Past
  <2>2. Passed'
    BY <2>1 DEF Passed, Past
  <2> QED
    BY <1>4, <2>2 DEF IInv
<1>6. CASE rc' # "DECLINED"
  BY <1>4, <1>6, NotPassed DEF IInv
<1> QED
  BY <1>5, <1>6

LEMMA CtrlCharKeeps == IInv /\ CheckCtrlChar => IInv'
<1> SUFFICES ASSUME IInv, CheckCtrlChar PROVE IInv'
  OBVIOUS
<1>0. check_ctrl_char <=> "control" \in ToSet(r.uri)
  BY DEF check_ctrl_char, ToSet
<1>1. Ctrl = {[cat |-> c, source |-> "uri"] : c \in {c \in {"ctrl_char"} : check_ctrl_char} \ slcf.skip}
  BY <1>0 DEF Ctrl, At
<1>2. Ctrl \subseteq Attack
  BY AttackParts
<1>3. check_ctrl_char \in BOOLEAN /\ "dotfile" \in Stages
  BY DEF check_ctrl_char, Stages
<1>4. /\ Fixed /\ Kept' /\ Ordered' /\ HitFound' /\ Collected'
      /\ stage = "ctrl_char" /\ rc = "DECLINED" /\ UNCHANGED <<r, slcf, header>>
      /\ stage' = "done" \/ stage' = "dotfile"
      /\ rc' = "DECLINED" => Ctrl = {} /\ stage' = "dotfile"
      /\ rc' # "DECLINED" => stage' = "done"
  BY <1>1, <1>2, <1>3, CheckKeeps DEF CheckCtrlChar
<1>5. CASE rc' = "DECLINED"
  <2>1. Oxy' = {} /\ Ranges' = {} /\ Ctrl' = {} /\ stage' = "dotfile"
    BY <1>4, <1>5 DEF Fixed, IInv, Passed, Past
  <2>2. Passed'
    BY <2>1 DEF Passed, Past
  <2> QED
    BY <1>4, <2>2 DEF IInv
<1>6. CASE rc' # "DECLINED"
  BY <1>4, <1>6, NotPassed DEF IInv
<1> QED
  BY <1>5, <1>6

LEMMA DotfileKeeps == IInv /\ CheckDotfile => IInv'
<1> SUFFICES ASSUME IInv, CheckDotfile PROVE IInv'
  OBVIOUS
<1>0. check_dotfile <=> \E s \in Segments(r.uri) : IsDotfile(s)
  BY DotfileExact, MaxIsNat DEF IInv, Known
<1>1. Dot = {[cat |-> c, source |-> "uri"] : c \in {c \in {"dotfile"} : check_dotfile} \ slcf.skip}
  BY <1>0 DEF Dot, At
<1>2. Dot \subseteq Attack
  BY AttackParts
<1>3. check_dotfile \in BOOLEAN /\ "target" \in Stages
  BY DEF check_dotfile, Stages
<1>4. /\ Fixed /\ Kept' /\ Ordered' /\ HitFound' /\ Collected'
      /\ stage = "dotfile" /\ rc = "DECLINED" /\ UNCHANGED <<r, slcf, header>>
      /\ stage' = "done" \/ stage' = "target"
      /\ rc' = "DECLINED" => Dot = {} /\ stage' = "target"
      /\ rc' # "DECLINED" => stage' = "done"
  BY <1>1, <1>2, <1>3, CheckKeeps DEF CheckDotfile
<1>5. CASE rc' = "DECLINED"
  <2>1. Oxy' = {} /\ Ranges' = {} /\ Ctrl' = {} /\ Dot' = {} /\ stage' = "target"
    BY <1>4, <1>5 DEF Fixed, IInv, Passed, Past
  <2>2. Passed'
    BY <2>1 DEF Passed, Past
  <2> QED
    BY <1>4, <2>2 DEF IInv
<1>6. CASE rc' # "DECLINED"
  BY <1>4, <1>6, NotPassed DEF IInv
<1> QED
  BY <1>5, <1>6

------------------------------------------------------------------------------
(* The scans of the target and the headers. *)

\* A scan, of the target, the path or a header.
LEMMA ScanKeeps ==
  ASSUME IInv, NEW found, NEW source, NEW next \in Stages \ {"collect"},
         NEW result, Reports(result, found), Ends(result, source, next),
         stage \notin {"collect", "done"}, UNCHANGED <<r, slcf, out, cl, done>>,
         \A c \in found : [cat |-> c, source |-> source] \in Attack
  PROVE  /\ Fixed /\ Kept' /\ HitFound' /\ Collected' /\ rc = "DECLINED"
         /\ stage' \in Stages /\ rc' \in {"OK", "DECLINED", "ERROR"}
         /\ rc' = "DECLINED" => found = {} /\ stage' = next
         /\ rc' # "DECLINED" => stage' = "done"
<1>1. Follows(found, source, next)
  BY EndsIs
<1>2. /\ Fixed /\ Kept' /\ HitFound' /\ rc = "DECLINED"
      /\ stage' \in Stages /\ rc' \in {"OK", "DECLINED", "ERROR"}
      /\ rc' # "DECLINED" => stage' = "done"
      /\ rc' = "DECLINED" => found = {} /\ stage' = next
  BY <1>1, Reported
<1>3. stage' # "collect"
  BY <1>2
<1>4. Collected'
  BY <1>3, NotYet DEF IInv
<1> QED
  BY <1>2, <1>4

LEMMA TargetKeeps == IInv /\ ScanTarget => IInv'
<1> SUFFICES ASSUME IInv, ScanTarget PROVE IInv'
  OBVIOUS
<1>0. Known
  BY MaxIsNat DEF IInv
<1>1. PICK result \in scan_r(r.target, slcf.skip \union no_query_mask) :
        Ends(result, "uri", "path")
  BY DEF ScanTarget
<1>2. stage = "target" /\ UNCHANGED <<r, slcf, header, out, cl, done>>
  BY DEF ScanTarget
<1>3. r.target \in Text
  BY <1>0 DEF Known
<1>4. Reports(result, FirstPass)
  BY <1>1, <1>3, ScanReports DEF FirstPass
<1>5. \A c \in FirstPass : [cat |-> c, source |-> "uri"] \in Attack
  BY <1>0, TwoPasses, AttackParts
<1>6. "path" \in Stages \ {"collect"}
  BY DEF Stages
<1>7. /\ Fixed /\ Kept' /\ HitFound' /\ Collected' /\ rc = "DECLINED"
      /\ stage' \in Stages /\ rc' \in {"OK", "DECLINED", "ERROR"}
      /\ rc' = "DECLINED" => FirstPass = {} /\ stage' = "path"
      /\ rc' # "DECLINED" => stage' = "done"
  <2> HIDE DEF Ends
  <2> QED
    BY <1>1, <1>2, <1>4, <1>5, <1>6, ScanKeeps
<1>8. Ordered'
  BY <1>2, <1>7, HeaderStays DEF IInv
<1>9. CASE rc' = "DECLINED"
  <2>1. FirstPass' = FirstPass
    BY <1>2 DEF FirstPass
  <2>2. /\ Oxy' = {} /\ Ranges' = {} /\ Ctrl' = {} /\ Dot' = {} /\ FirstPass' = {}
        /\ stage' = "path"
    BY <1>2, <1>7, <1>9, <2>1 DEF Fixed, IInv, Passed, Past
  <2>3. Passed'
    BY <2>2 DEF Passed, Past
  <2> QED
    BY <1>7, <1>8, <2>3 DEF IInv
<1>10. CASE rc' # "DECLINED"
  BY <1>7, <1>8, <1>10, NotPassed DEF IInv
<1> QED
  BY <1>9, <1>10

LEMMA PathKeeps == IInv /\ ScanPath => IInv'
<1> SUFFICES ASSUME IInv, ScanPath PROVE IInv'
  OBVIOUS
<1>0. Known
  BY MaxIsNat DEF IInv
<1>1. PICK result \in IF no_query_mask \subseteq slcf.skip THEN {"none"}
                      ELSE scan_r(path, slcf.skip \union (Cats \ no_query_mask)) :
        Ends(result, "uri", "headers")
  BY DEF ScanPath
<1>2. stage = "path" /\ UNCHANGED <<r, slcf, header, out, cl, done>>
  BY DEF ScanPath
<1>3. path \in Text
  BY <1>0, PathIs
<1>4. Reports(result, SecondPass)
  <2>1. CASE no_query_mask \subseteq slcf.skip
    <3>1. result = "none" /\ SecondPass = {}
      BY <1>1, <2>1 DEF SecondPass
    <3> QED
      BY <3>1 DEF Reports
  <2>2. CASE ~(no_query_mask \subseteq slcf.skip)
    <3>1. result \in scan_r(path, slcf.skip \union (Cats \ no_query_mask))
      BY <1>1, <2>2
    <3>2. SecondPass = Held(path) \ (slcf.skip \union (Cats \ no_query_mask))
      BY <2>2 DEF SecondPass
    <3> QED
      BY <1>3, <3>1, <3>2, ScanReports
  <2> QED
    BY <2>1, <2>2
<1>5. \A c \in SecondPass : [cat |-> c, source |-> "uri"] \in Attack
  BY <1>0, TwoPasses, AttackParts
<1>6. "headers" \in Stages \ {"collect"}
  BY DEF Stages
<1>7. /\ Fixed /\ Kept' /\ HitFound' /\ Collected' /\ rc = "DECLINED"
      /\ stage' \in Stages /\ rc' \in {"OK", "DECLINED", "ERROR"}
      /\ rc' = "DECLINED" => SecondPass = {} /\ stage' = "headers"
      /\ rc' # "DECLINED" => stage' = "done"
  BY <1>1, <1>2, <1>4, <1>5, <1>6, ScanKeeps
<1>8. Ordered'
  BY <1>2, <1>7, HeaderStays DEF IInv
<1>9. CASE rc' = "DECLINED"
  <2>1. FirstPass = {}
    BY <1>2 DEF IInv, Passed
  <2>2. InTarget = {}
    BY <1>0, <1>7, <1>9, <2>1, TwoPasses
  <2>3. header = 1
    BY <1>2 DEF IInv, Ordered
  <2>4. /\ Oxy' = {} /\ Ranges' = {} /\ Ctrl' = {} /\ Dot' = {} /\ InTarget' = {}
        /\ stage' = "headers" /\ header' = 1
    BY <1>2, <1>7, <1>9, <2>2, <2>3 DEF Fixed, IInv, Passed, Past
  <2>5. Passed'
    BY <2>4 DEF Passed, Past
  <2> QED
    BY <1>7, <1>8, <2>5 DEF IInv
<1>10. CASE rc' # "DECLINED"
  BY <1>7, <1>8, <1>10, NotPassed DEF IInv
<1> QED
  BY <1>9, <1>10

LEMMA HeaderKeeps == IInv /\ ScanHeader => IInv'
<1> SUFFICES ASSUME IInv, ScanHeader PROVE IInv'
  OBVIOUS
<1> DEFINE h == r.headers[header]
           found == HeaderPass(h)
           n == Len(r.headers)
<1>0. Known /\ n \in Nat
  BY MaxIsNat DEF IInv, Known
<1>1. PICK result \in IF ~h.hash THEN {"none"}
                      ELSE scan_r(h.value, slcf.skip \union (Cats \ Allowed(h.key))) :
        Ends(result, Source(h.key), "headers")
  BY DEF ScanHeader
<1>2. /\ stage = "headers" /\ header <= n /\ header' = header + 1
      /\ UNCHANGED <<r, slcf, out, cl, done>>
  BY DEF ScanHeader
<1>3. header \in 1..n
  BY <1>0, <1>2 DEF IInv, Ordered
<1>4. h.value \in Text
  BY <1>0, <1>3 DEF Known
<1>5. Reports(result, found)
  <2> HIDE DEF h
  <2>1. CASE ~h.hash
    <3>1. result = "none" /\ found = {}
      BY <1>1, <2>1 DEF HeaderPass
    <3> QED
      BY <3>1 DEF Reports
  <2>2. CASE h.hash
    <3>1. result \in scan_r(h.value, slcf.skip \union (Cats \ Allowed(h.key)))
      BY <1>1, <2>2
    <3>2. found = Held(h.value) \ (slcf.skip \union (Cats \ Allowed(h.key)))
      BY <2>2 DEF HeaderPass
    <3> QED
      BY <1>4, <3>1, <3>2, ScanReports
  <2> QED
    BY <2>1, <2>2
<1>6. InHeader(h) = {[cat |-> c, source |-> Source(h.key)] : c \in found}
  BY HeaderIs
<1>7. InHeader(h) \subseteq Attack
  <2>1. header \in DOMAIN r.headers
    BY <1>0, <1>3 DEF Known
  <2> QED
    BY <2>1, AttackParts
<1> HIDE DEF found
<1>8. \A c \in found : [cat |-> c, source |-> Source(h.key)] \in Attack
  BY <1>6, <1>7
<1>9. "headers" \in Stages \ {"collect"}
  BY DEF Stages
<1>10. /\ Fixed /\ Kept' /\ HitFound' /\ Collected' /\ rc = "DECLINED"
       /\ stage' \in Stages /\ rc' \in {"OK", "DECLINED", "ERROR"}
       /\ rc' = "DECLINED" => found = {} /\ stage' = "headers"
       /\ rc' # "DECLINED" => stage' = "done"
  <2> HIDE DEF h
  <2> QED
    BY <1>1, <1>2, <1>5, <1>8, <1>9, ScanKeeps
<1>11. Ordered'
  <2>1. header' \in 1..n + 1
    BY <1>0, <1>2, <1>3
  <2> QED
    BY <1>2, <1>10, <2>1 DEF Ordered
<1>12. CASE rc' = "DECLINED"
  <2>1. InHeader(h) = {}
    BY <1>6, <1>10, <1>12
  <2>2. \A i \in 1..header - 1 : InHeader(r.headers[i]) = {}
    BY <1>2 DEF IInv, Passed
  <2>3. \A i \in 1..header : InHeader(r.headers[i]) = {}
    <3> HIDE DEF n
    <3>1. \A i \in 1..header : i \in 1..header - 1 \/ i = header
      BY <1>3
    <3> QED
      BY <2>1, <2>2, <3>1
  <2>4. \A i \in 1..header' - 1 : InHeader(r.headers[i])' = {}
    <3>1. header' - 1 = header
      BY <1>2, <1>3
    <3>2. \A i : InHeader(r.headers[i])' = InHeader(r.headers[i])
      BY <1>2 DEF InHeader, At
    <3> QED
      BY <2>3, <3>1, <3>2
  <2>5. /\ Oxy' = {} /\ Ranges' = {} /\ Ctrl' = {} /\ Dot' = {} /\ InTarget' = {}
        /\ stage' = "headers"
    BY <1>2, <1>10, <1>12 DEF Fixed, IInv, Passed, Past
  <2>6. Passed'
    BY <2>4, <2>5 DEF Passed, Past
  <2> QED
    BY <1>10, <1>11, <2>6 DEF IInv
<1>13. CASE rc' # "DECLINED"
  BY <1>10, <1>11, <1>13, NotPassed DEF IInv
<1> QED
  BY <1>12, <1>13

------------------------------------------------------------------------------
(* The collection of the body. *)

LEMMA DecideKeeps == IInv /\ DecideBody => IInv'
<1> SUFFICES ASSUME IInv, DecideBody PROVE IInv'
  OBVIOUS
<1> DEFINE n == Len(r.headers)
<1>0. Known /\ n \in Nat /\ max \in Nat /\ Len(r.bufs) \in Nat
  BY MaxIsNat DEF IInv, Known
<1>1. /\ stage = "headers" /\ header > n
      /\ stage' = IF scannable_body THEN "collect" ELSE "done"
      /\ UNCHANGED <<r, slcf, header, out, cl, done, rc, hit>>
  BY DEF DecideBody
<1>2. rc = "DECLINED" /\ rc' = "DECLINED" /\ header = n + 1
  BY <1>0, <1>1 DEF IInv, Ordered
<1>3. stage' = IF TextBody THEN "collect" ELSE "done"
  BY <1>0, <1>1, BodyIsText
<1>4. Fixed /\ Kept'
  BY <1>1, AllFixed, KeptStays DEF IInv
<1>5. Ordered'
  BY <1>0, <1>1, <1>2, <1>3 DEF IInv, Ordered, Stages
<1>6. HitFound'
  BY <1>2 DEF HitFound
<1>7. Passed'
  <2>1. \A i \in 1..n : InHeader(r.headers[i]) = {}
    <3>1. header - 1 = n
      BY <1>0, <1>2
    <3> QED
      BY <1>1, <3>1 DEF IInv, Passed
  <2>2. \A i \in 1..Len(r.headers)' : InHeader(r.headers[i])' = {}
    <3>1. \A i : InHeader(r.headers[i])' = InHeader(r.headers[i])
      BY <1>1 DEF InHeader, At
    <3> QED
      BY <1>1, <2>1, <3>1
  <2>3. Oxy' = {} /\ Ranges' = {} /\ Ctrl' = {} /\ Dot' = {} /\ InTarget' = {}
    BY <1>1, <1>2, <1>4 DEF Fixed, IInv, Passed, Past
  <2>4. stage' = "collect" => TextBody'
    BY <1>3, <1>4 DEF Fixed
  <2>5. stage' = "done" => InBody' = {}
    <3>1. ~TextBody => InBody = {}
      BY DEF InBody
    <3> QED
      BY <1>3, <1>4, <3>1 DEF Fixed
  <2>6. stage' = "collect" \/ stage' = "done"
    BY <1>3
  <2> QED
    BY <2>2, <2>3, <2>4, <2>5, <2>6 DEF Passed, Past
<1>8. Collected'
  <2>1. out' = <<>> /\ cl' = 1 /\ done' = 0 /\ Len(out') = 0 /\ <<>> \in Text
    BY <1>1 DEF IInv, Collected, Text
  <2>2. Parts'[0] = <<>> /\ Len(Whole) \in Nat /\ max' = max
    BY <1>0, <1>4, PartsAre DEF IInv, Fixed, Whole
  <2>3. Whole' = Whole
    BY <1>1, <1>4 DEF Whole, Fixed
  <2>4. Between'
    BY <2>1, <2>2 DEF Between
  <2> HIDE DEF Between, Whole, max
  <2> QED
    BY <1>0, <1>1, <2>1, <2>2, <2>3, <2>4 DEF Collected
<1> QED
  BY <1>4, <1>5, <1>6, <1>7, <1>8 DEF IInv

\* A step of the collection.
LEMMA CollectStep ==
  ASSUME IInv, stage = "collect", UNCHANGED <<r, slcf, stage, header, rc, hit>>, Collected'
  PROVE  IInv'
<1>1. Fixed /\ Kept'
  BY AllFixed, KeptStays DEF IInv
<1>2. Ordered'
  BY DEF IInv, Ordered
<1>3. HitFound'
  BY <1>1 DEF IInv, HitFound, Fixed
<1>4. \A i : InHeader(r.headers[i])' = InHeader(r.headers[i])
  BY DEF InHeader, At
<1>5. Passed'
  BY <1>1, <1>4 DEF IInv, Passed, Past, Fixed
<1> QED
  BY <1>1, <1>2, <1>3, <1>5 DEF IInv

\* w starts with s.
Begins(s, w) == Len(s) <= Len(w) /\ \A i \in 1..Len(s) : s[i] = w[i]

\* o2 is o and m more bytes of b, of which a follow p in o already.
Takes(p, b, o, a, m, o2) ==
  /\ p \in Text /\ b \in Text /\ o \in Text /\ a \in Nat /\ m \in Nat
  /\ a + m <= Len(b) /\ Len(o) = Len(p) + a
  /\ o2 = o \o SubSeq(b, a + 1, a + m)

\* What is taken of a buffer is what comes next of the whole.
LEMMA TakesNext ==
  ASSUME NEW p, NEW b, NEW w \in Text, NEW o, NEW a, NEW m, NEW o2,
         Takes(p, b, o, a, m, o2), Begins(p \o b, w), Begins(o, w)
  PROVE  o2 \in Text /\ Len(o2) = Len(p) + a + m /\ Begins(o2, w)
<1> DEFINE t == SubSeq(b, a + 1, a + m)
<1> USE DEF Takes
<1>0. Len(p) \in Nat /\ Len(b) \in Nat /\ Len(w) \in Nat /\ Len(o) \in Nat
  BY LenText
<1>00. /\ Len(p \o b) <= Len(w) /\ \A i \in 1..Len(p \o b) : w[i] = (p \o b)[i]
       /\ \A i \in 1..Len(o) : o[i] = w[i]
  BY DEF Begins
<1>1. t \in Text /\ Len(t) = m /\ \A i \in 1..m : t[i] = b[a + i]
  <2>1. a + 1 \in 1..Len(b) + 1 /\ a + m \in a..Len(b)
    BY <1>0
  <2>2. \A k \in 1..Len(b) : b[k] \in Piece \union Marks
    BY DEF Text
  <2> QED
    BY <1>0, <2>1, <2>2 DEF Text
<1>2. o2 = o \o t
  OBVIOUS
<1> HIDE DEF t
<1>3. /\ o \o t \in Text /\ Len(o \o t) = Len(o) + Len(t)
      /\ \A i \in 1..Len(o) : (o \o t)[i] = o[i]
      /\ \A i \in 1..Len(t) : (o \o t)[Len(o) + i] = t[i]
  BY <1>1, Joins
<1>4. Len(p \o b) = Len(p) + Len(b) /\ \A i \in 1..Len(b) : (p \o b)[Len(p) + i] = b[i]
  BY Joins
<1>5. o2 \in Text /\ Len(o2) = Len(p) + a + m
  BY <1>0, <1>1, <1>2, <1>3
<1>6. Len(p) + a + m <= Len(w)
  BY <1>0, <1>00, <1>4
<1>7. ASSUME NEW i \in 1..Len(p) + a + m PROVE o2[i] = w[i]
  <2>1. CASE i <= Len(o)
    BY <1>0, <1>00, <1>2, <1>3, <2>1
  <2>2. CASE ~(i <= Len(o))
    <3> DEFINE j == i - Len(o)
    <3>1. j \in 1..m /\ Len(o) + j = i /\ a + j \in 1..Len(b) /\ Len(p) + (a + j) = i
      BY <1>0, <2>2
    <3> HIDE DEF j
    <3>2. (o \o t)[i] = b[a + j]
      BY <1>1, <1>3, <3>1
    <3>3. (p \o b)[i] = b[a + j]
      BY <1>4, <3>1
    <3>4. i \in 1..Len(p \o b)
      BY <1>0, <1>4
    <3> QED
      BY <1>00, <1>2, <3>2, <3>3, <3>4
  <2> QED
    BY <2>1, <2>2
<1> QED
  BY <1>5, <1>6, <1>7 DEF Begins

\* One read, or copy, of m bytes of the buffer cl.
LEMMA Taken ==
  ASSUME IInv, stage = "collect", cl <= Len(r.bufs), NEW m, NEW o2,
         Takes(Parts[cl - 1], Buffers[cl], out, done, m, o2)
  PROVE  /\ o2 \in Text /\ Len(o2) = Len(Parts[cl - 1]) + done + m /\ Begins(o2, Whole)
         /\ Len(Parts[cl]) = Len(Parts[cl - 1]) + Len(Buffers[cl])
         /\ Len(Parts[cl]) \in Nat /\ Len(Parts[cl - 1]) \in Nat
<1> DEFINE n == Len(r.bufs)
           p == Parts[cl - 1]
           b == Buffers[cl]
<1>1. n \in Nat /\ cl \in 1..n
  BY MaxIsNat DEF IInv, Collected, Known
<1>2. cl - 1 \in 0..n /\ cl \in 0..n /\ n \in 0..n
  BY <1>1
<1>3. p \in Text /\ b \in Text /\ Parts[cl] = p \o b /\ Whole \in Text
  <2>1. Kept
    BY DEF IInv
  <2> QED
    BY <1>1, <1>2, <2>1, PartsAre DEF Whole
<1>4. /\ Len(Parts[cl]) <= Len(Whole)
      /\ \A i \in 1..Len(Parts[cl]) : Whole[i] = Parts[cl][i]
  BY <1>2, PartsAre DEF IInv
<1>5. Len(p \o b) = Len(p) + Len(b)
  BY <1>3, Joins
<1>6. Len(p) \in Nat /\ Len(b) \in Nat
  BY <1>3, LenText
<1>7. Begins(Parts[cl], Whole)
  BY <1>4 DEF Begins
<1>8. Begins(out, Whole)
  BY DEF Begins, IInv, Collected
<1>9. Takes(p, b, out, done, m, o2)
  OBVIOUS
<1> HIDE DEF p, b, n
<1>10. o2 \in Text /\ Len(o2) = Len(p) + done + m /\ Begins(o2, Whole)
  BY <1>3, <1>7, <1>8, <1>9, TakesNext
<1>11. Len(Parts[cl]) = Len(p) + Len(b) /\ Len(Parts[cl]) \in Nat
  BY <1>3, <1>5, <1>6
<1> QED
  BY <1>6, <1>10, <1>11 DEF p, b

\* A step of the collection that ends between two buffers.
LEMMA EndsBetween ==
  ASSUME IInv, stage = "collect", UNCHANGED <<r, slcf, stage, header, rc, hit>>,
         cl <= Len(r.bufs), cl' = cl + 1, done' = 0, out' \in Text, Begins(out', Whole),
         Len(out') <= max,
         Len(out') = Len(Parts[cl]) \/ (Len(out') = max /\ max <= Len(Parts[cl]))
  PROVE  IInv'
<1>1. Fixed
  BY AllFixed
<1>2. cl \in Nat /\ cl' \in 1..Len(r.bufs) + 1 /\ cl' - 1 = cl /\ Len(r.bufs) \in Nat
  BY MaxIsNat DEF IInv, Collected, Known
<1>3. Parts'[cl' - 1] = Parts[cl] /\ max' = max
  BY <1>1, <1>2 DEF Fixed
<1>4. Between'
  BY <1>3 DEF Between
<1>5. Whole' = Whole
  BY <1>1 DEF Whole, Fixed
<1>6. Collected'
  BY <1>2, <1>3, <1>4, <1>5 DEF Collected, Begins
<1> QED
  BY <1>6, CollectStep

LEMMA BufLenIs ==
  ASSUME IInv, stage = "collect", cl <= Len(r.bufs)
  PROVE  LET left == max - (Len(out) - done)
         IN  /\ Len(Buf.data) \in Nat /\ Len(out) \in Nat /\ max \in Nat /\ Buf.data \in Text
             /\ Buf.in \in {"memory", "file", "other"}
             /\ BufLen = IF Len(Buf.data) <= left THEN Len(Buf.data) ELSE left
             /\ cl \in 1..Len(r.bufs) /\ done \in Nat /\ out \in Text
             /\ Buffers[cl] = IF Buf.in = "other" THEN <<>> ELSE Buf.data
             /\ Parts[cl - 1] \in Text /\ Len(Parts[cl - 1]) \in Nat
             /\ Len(out) <= max
<1> DEFINE left == max - (Len(out) - done)
           n == Len(Buf.data)
           m == IF n <= left THEN n ELSE left
<1>1. Known /\ max \in Nat /\ cl \in 1..Len(r.bufs) /\ done \in Nat /\ out \in Text
      /\ Len(out) <= max
  BY MaxIsNat DEF IInv, Collected, Known
<1>2. Buf.data \in Text /\ Buf.in \in {"memory", "file", "other"}
  BY <1>1 DEF Known, Buf
<1>3. n \in Nat /\ Len(out) \in Nat
  BY <1>1, <1>2, LenText
<1>4. left \in Int
  BY <1>1, <1>3
<1>5. BufLen = Min({n, left})
  BY DEF BufLen
<1>6. /\ Buffers[cl] = IF Buf.in = "other" THEN <<>> ELSE Buf.data
      /\ Parts[cl - 1] \in Text /\ Len(Parts[cl - 1]) \in Nat
  <2>1. Kept /\ cl - 1 \in 0..Len(r.bufs)
    BY <1>1 DEF IInv, Known
  <2> QED
    BY <1>1, <2>1, PartsAre DEF Buf
<1> HIDE DEF left, n
<1>7. {n, left} \in SUBSET Int /\ m \in {n, left} /\ \A y \in {n, left} : m <= y
  BY <1>3, <1>4
<1>8. BufLen = m
  <2> HIDE DEF m
  <2> QED
    BY <1>5, <1>7, MinIs
<1> QED
  BY <1>1, <1>2, <1>3, <1>6, <1>8 DEF left, n

LEMMA CopyKeeps == IInv /\ CopyBuf => IInv'
<1> SUFFICES ASSUME IInv, CopyBuf PROVE IInv'
  OBVIOUS
<1> DEFINE p == Parts[cl - 1]
           b == Buffers[cl]
<1>1. /\ stage = "collect" /\ cl <= Len(r.bufs) /\ Len(out) < max /\ Buf.in # "file"
      /\ cl' = cl + 1 /\ done' = 0 /\ UNCHANGED <<r, slcf, stage, header, rc, hit>>
  BY DEF CopyBuf, Collecting, NextBuf
<1>2. out' = out \o (IF Buf.in = "memory" THEN SubSeq(Buf.data, 1, BufLen) ELSE <<>>)
  BY DEF CopyBuf
<1>3. LET left == max - (Len(out) - done)
      IN  /\ Len(Buf.data) \in Nat /\ Len(out) \in Nat /\ max \in Nat /\ Buf.data \in Text
          /\ Buf.in \in {"memory", "file", "other"}
          /\ BufLen = IF Len(Buf.data) <= left THEN Len(Buf.data) ELSE left
          /\ cl \in 1..Len(r.bufs) /\ done \in Nat /\ out \in Text
          /\ b = IF Buf.in = "other" THEN <<>> ELSE Buf.data
          /\ p \in Text /\ Len(p) \in Nat
          /\ Len(out) <= max
  BY <1>1, BufLenIs
<1>4. done = 0 /\ Len(out) = Len(p)
  <2>1. Between
    BY <1>1 DEF IInv, Collected, Within
  <2> QED
    BY <1>1, <1>3, <2>1 DEF Between
<1> DEFINE m == IF Buf.in = "memory" THEN BufLen ELSE 0
<1>5. /\ m \in Nat /\ m <= Len(b) /\ Len(out) + m <= max /\ b \in Text
      /\ m = Len(b) \/ Len(out) + m = max
  <2>1. <<>> \in Text /\ Len(<<>>) = 0
    BY DEF Text
  <2>2. CASE Buf.in = "memory"
    <3>1. m = BufLen /\ b = Buf.data
      BY <1>3, <2>2
    <3>2. LET n == Len(Buf.data)
              left == max - Len(out)
          IN  /\ n \in Nat /\ left \in Nat /\ Len(out) \in Nat /\ max \in Nat
              /\ BufLen = IF n <= left THEN n ELSE left
      BY <1>1, <1>3, <1>4
    <3> HIDE DEF b, m
    <3>3. Len(b) = Len(Buf.data) /\ b \in Text
      BY <1>3, <3>1
    <3> QED
      BY <3>1, <3>2, <3>3
  <2>3. CASE Buf.in # "memory"
    <3>1. m = 0 /\ b = <<>>
      BY <1>1, <1>3, <2>3
    <3> HIDE DEF b, m
    <3> QED
      BY <1>1, <1>3, <2>1, <3>1
  <2> QED
    BY <2>2, <2>3
<1>6. Takes(p, b, out, done, m, out')
  <2>1. out' = out \o SubSeq(b, done + 1, done + m)
    <3>1. done + 1 = 1 /\ done + m = m
      BY <1>4, <1>5
    <3>2. CASE Buf.in = "memory"
      <4>1. m = BufLen /\ b = Buf.data
        BY <1>3, <3>2
      <4> HIDE DEF b, m
      <4> QED
        BY <1>2, <3>1, <3>2, <4>1
    <3>3. CASE Buf.in # "memory"
      <4>1. m = 0 /\ b = <<>>
        BY <1>1, <1>3, <3>3
      <4>2. SubSeq(<<>>, 1, 0) = <<>>
        OBVIOUS
      <4> HIDE DEF b, m
      <4> QED
        BY <1>2, <3>1, <3>3, <4>1, <4>2
    <3> QED
      BY <3>2, <3>3
  <2> HIDE DEF b, m, p
  <2> QED
    BY <1>3, <1>4, <1>5, <2>1 DEF Takes
<1> HIDE DEF m
<1>7. /\ out' \in Text /\ Len(out') = Len(p) + done + m /\ Begins(out', Whole)
      /\ Len(Parts[cl]) = Len(p) + Len(b)
      /\ Len(Parts[cl]) \in Nat /\ Len(p) \in Nat
  BY <1>1, <1>6, Taken
<1>8. Len(b) \in Nat
  BY <1>5, LenText
<1>p. Len(Parts[cl]) = Len(p) + Len(b)
  BY <1>7
<1> HIDE DEF p, b
<1>9. Len(out') <= max
  BY <1>3, <1>4, <1>5, <1>7
<1>10. Len(out') = Len(Parts[cl]) \/ (Len(out') = max /\ max <= Len(Parts[cl]))
  BY <1>3, <1>4, <1>5, <1>7, <1>8, <1>p, SMTT(30)
<1> QED
  BY <1>1, <1>7, <1>9, <1>10, EndsBetween

LEMMA ReadKeeps == IInv /\ ReadFile => IInv'
<1> SUFFICES ASSUME IInv, ReadFile PROVE IInv'
  OBVIOUS
<1> DEFINE p == Parts[cl - 1]
           b == Buffers[cl]
<1>1. /\ stage = "collect" /\ cl <= Len(r.bufs) /\ Buf.in = "file"
      /\ UNCHANGED <<r, slcf, stage, header, rc, hit>>
  BY DEF ReadFile
<1>2. PICK n \in 1..BufLen - done :
        /\ out' = out \o SubSeq(Buf.data, done + 1, done + n)
        /\ IF done + n = BufLen THEN NextBuf ELSE done' = done + n /\ UNCHANGED cl
  BY Zenon DEF ReadFile, Offset
<1>3. /\ Len(Buf.data) \in Nat /\ Len(out) \in Nat /\ max \in Nat
      /\ BufLen = IF Len(Buf.data) <= max - (Len(out) - done) THEN Len(Buf.data)
                  ELSE max - (Len(out) - done)
      /\ cl \in 1..Len(r.bufs) /\ done \in Nat
  BY <1>1, BufLenIs
<1>4. /\ Buf.data \in Text /\ out \in Text /\ b = Buf.data
      /\ p \in Text /\ Len(p) \in Nat
  BY <1>1, BufLenIs
<1>5. Len(out) = Len(p) + done
  <2>1. CASE Between
    <3>1. done = 0 /\ (Len(out) = Len(p) \/ Len(out) = max)
      BY <2>1 DEF Between
    <3> HIDE DEF p, b
    <3>2. Len(out) # max
      BY <1>2, <1>3, <3>1
    <3> QED
      BY <1>3, <3>1, <3>2
  <2>2. CASE Within
    BY <2>2 DEF Within
  <2> QED
    BY <1>1, <2>1, <2>2 DEF IInv, Collected
<1>6. Takes(p, b, out, done, n, out')
  <2>1. Len(b) = Len(Buf.data) /\ b \in Text
    BY <1>4
  <2>2. out' = out \o SubSeq(b, done + 1, done + n)
    BY <1>2, <1>4
  <2>3. n \in Nat /\ done + n <= Len(Buf.data)
    BY <1>2, <1>3
  <2> HIDE DEF p, b
  <2> QED
    BY <1>3, <1>4, <1>5, <2>1, <2>2, <2>3 DEF Takes
<1>7. /\ out' \in Text /\ Len(out') = Len(p) + done + n /\ Begins(out', Whole)
      /\ Len(Parts[cl]) = Len(p) + Len(b)
      /\ Len(Parts[cl]) \in Nat /\ Len(p) \in Nat
  BY <1>1, <1>6, Taken
<1>8. Len(b) = Len(Buf.data)
  BY <1>4
<1>9. Len(p) = Len(Parts[cl - 1])
  OBVIOUS
<1> HIDE DEF p, b
<1>10. Len(out') <= max
  BY <1>2, <1>3, <1>5, <1>7
<1>11. CASE done + n = BufLen
  <2>1. cl' = cl + 1 /\ done' = 0
    BY <1>2, <1>11 DEF NextBuf
  <2>2. Len(out') = Len(Parts[cl]) \/ (Len(out') = max /\ max <= Len(Parts[cl]))
    BY <1>2, <1>3, <1>5, <1>7, <1>8, <1>11, SMTT(30)
  <2> QED
    BY <1>1, <1>7, <1>10, <2>1, <2>2, EndsBetween
<1>12. CASE done + n # BufLen
  <2>1. done' = done + n /\ cl' = cl
    BY <1>2, <1>12
  <2>2. done' \in Nat /\ done' # 0 /\ done' < Len(Buf.data) /\ Len(out') < max
        /\ Len(out') = Len(p) + done'
    <3>1. n \in Nat /\ n # 0 /\ BufLen \in Int /\ done + n < BufLen
      <4>1. BufLen \in Int /\ done \in Nat
        BY <1>3
      <4>2. n \in 1..BufLen - done
        OBVIOUS
      <4>3. n \in Nat /\ n # 0 /\ n <= BufLen - done
        BY <4>1, <4>2
      <4> QED
        BY <1>12, <4>1, <4>3
    <3>2. BufLen <= Len(Buf.data) /\ BufLen <= max - (Len(out) - done)
      BY <1>3
    <3>3. done' \in Nat /\ done' # 0 /\ done' < Len(Buf.data)
      BY <1>3, <2>1, <3>1, <3>2
    <3>4. Len(out') = Len(p) + done'
      BY <1>3, <1>7, <2>1, <3>1
    <3>5. Len(out') < max
      BY <1>3, <1>5, <1>7, <2>1, <3>1, <3>2, <3>4
    <3> QED
      BY <3>3, <3>4, <3>5
  <2>3. Fixed
    BY <1>1, AllFixed
  <2>4. Buf' = Buf /\ Whole' = Whole /\ Parts'[cl' - 1] = Parts[cl - 1] /\ max' = max
    BY <1>1, <2>1, <2>3 DEF Buf, Fixed, Whole
  <2>5. Within'
    BY <1>1, <1>9, <2>1, <2>2, <2>4 DEF Within
  <2>6. Collected'
    BY <1>1, <1>3, <1>7, <1>10, <2>1, <2>2, <2>4, <2>5 DEF Collected, Begins
  <2> QED
    BY <1>1, <2>6, CollectStep
<1> QED
  BY <1>11, <1>12

LEMMA EmptyKeeps == IInv /\ EmptyFile => IInv'
<1> SUFFICES ASSUME IInv, EmptyFile PROVE IInv'
  OBVIOUS
<1> DEFINE p == Parts[cl - 1]
           b == Buffers[cl]
<1>1. /\ stage = "collect" /\ cl <= Len(r.bufs) /\ Buf.in = "file" /\ Len(out) < max
      /\ Buf.data = <<>> /\ cl' = cl + 1 /\ done' = 0 /\ UNCHANGED out
      /\ UNCHANGED <<r, slcf, stage, header, rc, hit>>
  BY DEF EmptyFile, Collecting, NextBuf
<1>2. /\ Len(out) \in Nat /\ max \in Nat /\ cl \in 1..Len(r.bufs) /\ out \in Text
      /\ b = Buf.data /\ p \in Text /\ Len(p) \in Nat /\ Len(out) <= max
  BY <1>1, BufLenIs
<1>3. Len(b) = 0 /\ b = <<>> /\ b \in Text
  BY <1>1, <1>2 DEF Text
<1>4. done = 0 /\ Len(out) = Len(p)
  <2>1. Between
    <3>1. Len(Buf.data) = 0
      BY <1>1
    <3>2. ~Within
      BY <3>1 DEF Within, IInv, Collected
    <3> QED
      BY <1>1, <3>2 DEF IInv, Collected
  <2> QED
    BY <1>1, <1>2, <2>1 DEF Between
<1>5. Takes(p, b, out, done, 0, out')
  <2>1. SubSeq(<<>>, 1, 0) = <<>> /\ out \o <<>> = out
    BY <1>2 DEF Text
  <2>2. out' = out \o SubSeq(b, done + 1, done + 0)
    <3>1. done + 1 = 1 /\ done + 0 = 0
      BY <1>4
    <3> HIDE DEF b
    <3> QED
      BY <1>1, <1>3, <2>1, <3>1
  <2> HIDE DEF p, b
  <2> QED
    BY <1>2, <1>3, <1>4, <2>2 DEF Takes
<1>6. /\ out' \in Text /\ Begins(out', Whole)
      /\ Len(Parts[cl]) = Len(p) + Len(b)
  BY <1>1, <1>5, Taken
<1>7. Len(out') = Len(Parts[cl])
  <2> HIDE DEF p, b
  <2> QED
    BY <1>1, <1>2, <1>3, <1>4, <1>6
<1> QED
  BY <1>1, <1>2, <1>6, <1>7, EndsBetween

\* Nothing more is collected once the inspection has ended.
LEMMA Over ==
  ASSUME Collected, stage' = "done", UNCHANGED <<r, out, cl, done>>
  PROVE  Collected'
BY DEF Collected

LEMMA FailsKeeps == IInv /\ CollectFails => IInv'
<1> SUFFICES ASSUME IInv, CollectFails PROVE IInv'
  OBVIOUS
<1>1. /\ stage = "collect" /\ stage' = "done" /\ rc' = "ERROR"
      /\ UNCHANGED <<r, slcf, header, out, cl, done, hit>>
  BY DEF CollectFails, Collecting
<1>2. Kept' /\ Collected'
  BY <1>1, KeptStays, Over DEF IInv
<1>3. Ordered'
  BY <1>1, HeaderStays DEF IInv, Stages
<1>4. HitFound'
  BY <1>1 DEF HitFound
<1>5. Passed'
  BY <1>1, NotPassed
<1> QED
  BY <1>2, <1>3, <1>4, <1>5 DEF IInv

\* What was collected, once that is over.
LEMMA Complete ==
  ASSUME IInv, stage = "collect", done = 0, ~Collecting
  PROVE  out = BodyStart
<1>1. /\ Between /\ Len(out) <= max /\ Len(out) <= Len(Whole) /\ out \in Text
      /\ \A i \in 1..Len(out) : out[i] = Whole[i]
  BY DEF IInv, Collected, Within
<1>2. Len(r.bufs) \in Nat /\ max \in Nat /\ cl \in 1..Len(r.bufs) + 1 /\ Len(out) \in Nat
  BY <1>1, MaxIsNat, LenText DEF IInv, Known, Collected
<1>3. /\ Len(Whole) \in Nat /\ BodyStart \in Text
      /\ Len(BodyStart) = IF max <= Len(Whole) THEN max ELSE Len(Whole)
      /\ \A i \in 1..Len(BodyStart) : BodyStart[i] = Whole[i]
  <2>1. Kept /\ Len(r.bufs) \in 0..Len(r.bufs)
    BY <1>2 DEF IInv
  <2> QED
    BY <2>1, PartsAre DEF Whole
<1>4. Len(out) = Len(BodyStart)
  <2>1. CASE cl <= Len(r.bufs)
    <3>1. ~(Len(out) < max)
      BY <2>1 DEF Collecting
    <3> QED
      BY <1>1, <1>2, <1>3, <3>1
  <2>2. CASE ~(cl <= Len(r.bufs))
    <3>1. cl - 1 = Len(r.bufs)
      BY <1>2, <2>2
    <3>2. Len(out) = Len(Whole) \/ Len(out) = max
      BY <1>1, <3>1 DEF Between, Whole
    <3> QED
      BY <1>1, <1>2, <1>3, <3>2
  <2> QED
    BY <2>1, <2>2
<1>5. \A i \in 1..Len(out) : out[i] = BodyStart[i]
  BY <1>1, <1>3, <1>4
<1> QED
  BY <1>1, <1>3, <1>4, <1>5, TextEqual

LEMMA BodyKeeps == IInv /\ ScanBody => IInv'
<1> SUFFICES ASSUME IInv, ScanBody PROVE IInv'
  OBVIOUS
<1> DEFINE found == Held(BodyStart) \ (slcf.skip \union no_body_mask)
<1>1. /\ stage = "collect" /\ done = 0 /\ ~Collecting
      /\ UNCHANGED <<r, slcf, header, out, cl, done>>
  BY DEF ScanBody
<1>2. PICK result \in scan_r(out, slcf.skip \union no_body_mask) : Ends(result, "body", "done")
  BY DEF ScanBody
<1>3. out = BodyStart /\ out \in Text
  BY <1>1, Complete DEF IInv, Collected
<1>4. Reports(result, found)
  BY <1>2, <1>3, ScanReports
<1>5. InBody = {[cat |-> c, source |-> "body"] : c \in found}
  BY <1>1, BodyPass DEF IInv, Passed
<1>6. InBody \subseteq Attack
  BY AttackParts
<1> HIDE DEF found
<1>7. \A c \in found : [cat |-> c, source |-> "body"] \in Attack
  BY <1>5, <1>6
<1>8. Follows(found, "body", "done")
  BY <1>2, <1>4, EndsIs
<1>9. /\ Fixed /\ Kept' /\ HitFound' /\ rc = "DECLINED"
      /\ stage' \in Stages /\ rc' \in {"OK", "DECLINED", "ERROR"}
      /\ rc' # "DECLINED" => stage' = "done"
      /\ rc' = "DECLINED" => found = {} /\ stage' = "done"
  <2>1. "done" \in Stages /\ stage # "done" /\ UNCHANGED <<r, slcf>>
    BY <1>1 DEF Stages
  <2> QED
    BY <1>7, <1>8, <2>1, Reported
<1>10. stage' = "done"
  BY <1>9
<1>11. Ordered' /\ Collected'
  BY <1>1, <1>9, <1>10, HeaderStays, Over DEF IInv
<1>12. CASE rc' = "DECLINED"
  <2>1. InBody = {}
    BY <1>5, <1>9, <1>12
  <2>2. \A i \in 1..Len(r.headers)' : InHeader(r.headers[i])' = {}
    <3>1. \A i : InHeader(r.headers[i])' = InHeader(r.headers[i])
      BY <1>1 DEF InHeader, At
    <3> QED
      BY <1>1, <1>9, <3>1 DEF IInv, Passed
  <2>3. /\ Oxy' = {} /\ Ranges' = {} /\ Ctrl' = {} /\ Dot' = {} /\ InTarget' = {}
        /\ InBody' = {}
    BY <1>1, <1>9, <2>1 DEF Fixed, IInv, Passed, Past
  <2>4. Passed'
    BY <1>10, <2>2, <2>3 DEF Passed, Past
  <2> QED
    BY <1>9, <1>11, <2>4 DEF IInv
<1>13. CASE rc' # "DECLINED"
  BY <1>9, <1>10, <1>11, <1>13, NotPassed DEF IInv
<1> QED
  BY <1>12, <1>13

------------------------------------------------------------------------------
(* The theorems. *)

LEMMA StepHolds == IInv /\ [Next]_vars => IInv'
<1> SUFFICES ASSUME IInv, [Next]_vars PROVE IInv'
  OBVIOUS
<1>1. CASE CheckHttpoxy
  BY <1>1, HttpoxyKeeps
<1>2. CASE CheckRange
  BY <1>2, RangeKeeps
<1>3. CASE CheckCtrlChar
  BY <1>3, CtrlCharKeeps
<1>4. CASE CheckDotfile
  BY <1>4, DotfileKeeps
<1>5. CASE ScanTarget
  BY <1>5, TargetKeeps
<1>6. CASE ScanPath
  BY <1>6, PathKeeps
<1>7. CASE ScanHeader
  BY <1>7, HeaderKeeps
<1>8. CASE DecideBody
  BY <1>8, DecideKeeps
<1>9. CASE CopyBuf
  BY <1>9, CopyKeeps
<1>10. CASE ReadFile
  BY <1>10, ReadKeeps
<1>11. CASE EmptyFile
  BY <1>11, EmptyKeeps
<1>12. CASE CollectFails
  BY <1>12, FailsKeeps
<1>13. CASE ScanBody
  BY <1>13, BodyKeeps
<1>14. CASE UNCHANGED vars
  <2>1. UNCHANGED r /\ UNCHANGED slcf /\ UNCHANGED stage /\ UNCHANGED header
        /\ UNCHANGED out /\ UNCHANGED cl /\ UNCHANGED done /\ UNCHANGED rc /\ UNCHANGED hit
    BY <1>14 DEF vars
  <2>2. Fixed /\ Kept'
    BY <2>1, AllFixed, KeptStays DEF IInv
  <2>3. Ordered' /\ HitFound'
    BY <2>1, <2>2 DEF IInv, Ordered, HitFound, Fixed
  <2>4. \A i : InHeader(r.headers[i])' = InHeader(r.headers[i])
    BY <2>1 DEF InHeader, At
  <2>5. FirstPass' = FirstPass
    BY <2>1 DEF FirstPass
  <2>6. Passed'
    BY <2>1, <2>2, <2>4, <2>5 DEF IInv, Passed, Past, Fixed
  <2>7. Between' = Between /\ Within' = Within /\ Whole' = Whole
    BY <2>1, <2>2 DEF Between, Within, Whole, Buf, Fixed
  <2>8. Collected'
    BY <2>1, <2>2, <2>7 DEF IInv, Collected, Fixed
  <2> QED
    BY <2>2, <2>3, <2>6, <2>8 DEF IInv
<1>15. CASE Stop
  BY <1>14, <1>15 DEF Stop
<1> QED
  BY <1>1, <1>2, <1>3, <1>4, <1>5, <1>6, <1>7, <1>8, <1>9, <1>10, <1>11, <1>12, <1>13,
     <1>14, <1>15 DEF Next

\* The invariant holds in every state: where the inspection is, what it found,
\* that what it passed holds nothing, and how far the body is collected.
THEOREM InspectionInvariant == Spec => []IInv
BY InitHolds, StepHolds, PTL DEF Spec

\* For every request, cap and way the body is split and read: what was collected
\* of it is its start, whole once the collection is over.
THEOREM CollectedAlwaysStart == Spec => []CollectedIsStart
<1>1. IInv => CollectedIsStart
  <2> SUFFICES ASSUME IInv, stage = "collect"
               PROVE  /\ IsPrefix(out, BodyStart)
                      /\ ~Collecting /\ done = 0 => out = BodyStart
    BY DEF CollectedIsStart
  <2>1. /\ out \in Text /\ Len(out) <= max /\ Len(out) <= Len(Whole)
        /\ \A i \in 1..Len(out) : out[i] = Whole[i]
    BY DEF IInv, Collected
  <2>2. Len(out) \in Nat /\ max \in Nat /\ Len(r.bufs) \in Nat
    BY <2>1, MaxIsNat, LenText DEF IInv, Known
  <2>3. /\ Len(Whole) \in Nat /\ BodyStart \in Text
        /\ Len(BodyStart) = IF max <= Len(Whole) THEN max ELSE Len(Whole)
        /\ \A i \in 1..Len(BodyStart) : BodyStart[i] = Whole[i]
    <3>1. Kept /\ Len(r.bufs) \in 0..Len(r.bufs)
      BY <2>2 DEF IInv
    <3> QED
      BY <3>1, PartsAre DEF Whole
  <2>4. Len(out) <= Len(BodyStart) /\ \A i \in 1..Len(out) : out[i] = BodyStart[i]
    BY <2>1, <2>2, <2>3
  <2>5. IsPrefix(out, BodyStart)
    BY <2>1, <2>3, <2>4, TextBegins
  <2> QED
    BY <2>5, Complete
<1> QED
  BY <1>1, InspectionInvariant, PTL

\* A request let through holds nothing, in any place where it counts, that its
\* location does not skip.
THEOREM CleanAlwaysClean == Spec => []CleanIsClean
<1>1. IInv => CleanIsClean
  <2> SUFFICES ASSUME IInv, stage = "done", rc = "DECLINED" PROVE Attack = {}
    BY DEF CleanIsClean
  <2>1. /\ Oxy = {} /\ Ranges = {} /\ Ctrl = {} /\ Dot = {} /\ InTarget = {} /\ InBody = {}
        /\ \A i \in 1..Len(r.headers) : InHeader(r.headers[i]) = {}
    BY DEF IInv, Passed, Past
  <2>2. DOMAIN r.headers = 1..Len(r.headers)
    BY MaxIsNat DEF IInv, Known
  <2>3. UNION {InHeader(r.headers[i]) : i \in DOMAIN r.headers} = {}
    BY <2>1, <2>2
  <2> QED
    BY <2>1, <2>3, AttackParts
<1> QED
  BY <1>1, InspectionInvariant, PTL

\* A hit is for what the request holds, at the place it names, and not skipped.
THEOREM HitAlwaysThere == Spec => []HitIsThere
<1>1. IInv => HitIsThere
  BY DEF IInv, HitFound, HitIsThere
<1> QED
  BY <1>1, InspectionInvariant, PTL

==============================================================================
