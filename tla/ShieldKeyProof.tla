---------------------------- MODULE ShieldKeyProof ----------------------------
(***************************************************************************)
(* The key of a request, for every client, every list of trusted proxies   *)
(* and every header a client may send.  What a proxy that reports appends  *)
(* is the last token of the last line, whatever stands before it.  And the *)
(* tree the key is looked up in, for every number of nodes and any shape:  *)
(* the nodes are in order, and both descents follow the order.             *)
(***************************************************************************)
EXTENDS ShieldKey, SequenceTheorems, WellFoundedInduction, TLAPS

Text == Seq(STRING)

\* What a request that has arrived may look like.
Arrived ==
  /\ client \in Clients
  /\ \/ peer = client
     \/ /\ peer \in Proxies
        /\ lines = <<>> \/ \E sent \in Forged : lines \in Report(client, sent)

KeyInv ==
  /\ slcf.trusted \subseteq Proxies
  /\ stage = "arrived" => Arrived
  /\ KeyIsSeenClient

------------------------------------------------------------------------------
(* The last token of a line. *)

LEMMA MaxIs ==
  ASSUME NEW S \in SUBSET Int, NEW m \in S, \A y \in S : m >= y
  PROVE  Max(S) = m
<1>1. \E x \in S : \A y \in S : x >= y
  OBVIOUS
<1>2. Max(S) \in S /\ \A y \in S : Max(S) >= y
  BY <1>1 DEF Max
<1>3. Max(S) >= m /\ m >= Max(S) /\ Max(S) \in Int /\ m \in Int
  BY <1>2
<1> QED
  BY <1>3

LEMMA MinIs ==
  ASSUME NEW S \in SUBSET Int, NEW m \in S, \A y \in S : m <= y
  PROVE  Min(S) = m
<1>1. \E x \in S : \A y \in S : x <= y
  OBVIOUS
<1>2. Min(S) \in S /\ \A y \in S : Min(S) <= y
  BY <1>1 DEF Min
<1>3. Min(S) <= m /\ m <= Min(S) /\ Min(S) \in Int /\ m \in Int
  BY <1>2
<1> QED
  BY <1>3

\* What is trimmed off are the blanks before and after.
LEMMA Trimmed ==
  ASSUME NEW S, NEW s \in Seq(S), NEW first \in 1..Len(s), NEW last \in first..Len(s),
         ~Blank(s[first]), ~Blank(s[last]),
         \A i \in 1..Len(s) : i < first \/ i > last => Blank(s[i])
  PROVE  Trim(s) = SubSeq(s, first, last)
<1> DEFINE kept == {i \in DOMAIN s : ~Blank(s[i])}
<1>1. Len(s) \in Nat /\ DOMAIN s = 1..Len(s)
  BY LenProperties
<1>2. kept \in SUBSET Int /\ first \in kept /\ last \in kept
  BY <1>1
<1>3. \A i \in kept : first <= i /\ i <= last
  BY <1>1
<1> HIDE DEF kept
<1>4. Min(kept) = first /\ Max(kept) = last
  BY <1>2, <1>3, MinIs, MaxIs
<1> QED
  BY <1>2, <1>4 DEF Trim, kept

\* The pieces by name.
Comma == ","
Space == " "
Port == ":port"

LEMMA Separators ==
  /\ {Comma, Space, Port} \subseteq STRING
  /\ Blank(Space) /\ ~Blank(Comma) /\ ~Blank(Port) /\ Comma # Space /\ Comma # Port
  /\ \A seen \in Clients : /\ seen \in STRING /\ ~Blank(seen)
                           /\ seen # Comma /\ seen # None
BY PieceAssumption DEF Comma, Space, Port, Blank

\* The token starts after the last comma.
LEMMA AfterComma ==
  ASSUME NEW S, NEW line \in Seq(S), NEW k \in 0..Len(line),
         k = 0 \/ line[k] = Comma,
         \A i \in (k + 1)..Len(line) : line[i] # Comma
  PROVE  xff_last_token(line) = Trim(SubSeq(line, k + 1, Len(line)))
<1> DEFINE commas == {0} \union {i \in DOMAIN line : line[i] = Comma}
<1>1. Len(line) \in Nat /\ DOMAIN line = 1..Len(line)
  BY LenProperties
<1>2. xff_last_token(line) = Trim(SubSeq(line, Max(commas) + 1, Len(line)))
  BY DEF xff_last_token, Comma
<1>3. commas \in SUBSET Int /\ k \in commas /\ \A i \in commas : k >= i
  BY <1>1
<1> HIDE DEF commas
<1>4. Max(commas) = k
  BY <1>3, MaxIs
<1> QED
  BY <1>2, <1>4

\* A token that ends the line is what follows the last comma and the blanks.
LEMMA TokenEndsLine ==
  ASSUME NEW S, NEW line \in Seq(S), NEW k \in 0..Len(line), NEW first \in (k + 1)..Len(line),
         k = 0 \/ line[k] = Comma,
         \A i \in (k + 1)..Len(line) : line[i] # Comma,
         \A i \in (k + 1)..(first - 1) : Blank(line[i]),
         ~Blank(line[first]), ~Blank(line[Len(line)])
  PROVE  xff_last_token(line) = SubSeq(line, first, Len(line))
<1> DEFINE n == Len(line)
           rest == SubSeq(line, k + 1, n)
<1>1. n \in Nat /\ k \in Nat /\ first \in Nat /\ k + 1 <= first /\ first <= n
  BY LenProperties
<1>2. \A i \in 1..n : line[i] \in S
  BY ElementOfSeq
<1>3. /\ rest \in Seq(S) /\ Len(rest) = n - k
      /\ \A i \in 1..(n - k) : rest[i] = line[k + i]
  <2>1. k + 1 \in Int /\ n \in Int /\ \A i \in (k + 1)..n : line[i] \in S
    BY <1>1, <1>2
  <2>2. /\ rest \in Seq(S)
        /\ Len(rest) = IF k + 1 <= n THEN n - (k + 1) + 1 ELSE 0
        /\ \A i \in 1..(n - (k + 1) + 1) : rest[i] = line[(k + 1) + i - 1]
    BY <2>1, SubSeqProperties
  <2>3. n - (k + 1) + 1 = n - k /\ k + 1 <= n
    BY <1>1
  <2>4. \A i \in 1..(n - k) : (k + 1) + i - 1 = k + i
    BY <1>1
  <2> QED
    BY <2>2, <2>3, <2>4
<1>4. xff_last_token(line) = Trim(rest)
  BY AfterComma
<1> HIDE DEF rest
<1> DEFINE m == n - k
           f == first - k
<1>5. m \in Nat /\ f \in 1..m /\ m \in f..m /\ k + f = first /\ k + m = n
  BY <1>1
<1>6. rest[f] = line[first] /\ rest[m] = line[n]
  BY <1>3, <1>5
<1>7. \A i \in 1..m : i < f \/ i > m => Blank(rest[i])
  <2> SUFFICES ASSUME NEW i \in 1..m, i < f
               PROVE  Blank(rest[i])
    BY <1>5
  <2>1. k + i \in (k + 1)..(first - 1)
    BY <1>1, <1>5
  <2> QED
    BY <2>1, <1>3
<1>8. Trim(rest) = SubSeq(rest, f, m)
  <2>1. Len(rest) = m
    BY <1>3
  <2>2. ~Blank(rest[f]) /\ ~Blank(rest[m])
    BY <1>6
  <2> QED
    BY <2>1, <2>2, <1>3, <1>5, <1>7, Trimmed
<1>9. SubSeq(rest, f, m) = SubSeq(line, first, n)
  <2> DEFINE a == SubSeq(rest, f, m)
             b == SubSeq(line, first, n)
  <2>1. f <= m /\ first <= n /\ m - f + 1 = n - first + 1
    BY <1>1, <1>5
  <2>2. /\ a \in Seq(S) /\ Len(a) = m - f + 1
        /\ \A i \in 1..(m - f + 1) : a[i] = rest[f + i - 1]
    <3>1. \A i \in f..m : rest[i] \in S
      BY <1>1, <1>2, <1>3, <1>5
    <3>2. f \in Int /\ m \in Int
      BY <1>5
    <3> QED
      BY <3>1, <3>2, <2>1, <1>3, SubSeqProperties
  <2>3. /\ b \in Seq(S) /\ Len(b) = m - f + 1
        /\ \A i \in 1..(m - f + 1) : b[i] = line[first + i - 1]
    <3>1. \A i \in first..n : line[i] \in S
      BY <1>1, <1>2
    <3>2. first \in Int /\ n \in Int
      BY <1>1
    <3>3. /\ b \in Seq(S) /\ Len(b) = n - first + 1
          /\ \A i \in 1..(n - first + 1) : b[i] = line[first + i - 1]
      BY <3>1, <3>2, <2>1, SubSeqProperties
    <3> QED
      BY <3>3, <2>1
  <2>4. \A i \in 1..(m - f + 1) : rest[f + i - 1] = line[first + i - 1]
    <3> SUFFICES ASSUME NEW i \in 1..(m - f + 1)
                 PROVE  rest[f + i - 1] = line[first + i - 1]
      OBVIOUS
    <3>1. f + i - 1 \in 1..m /\ k + (f + i - 1) = first + i - 1
      BY <1>1, <1>5
    <3> QED
      BY <3>1, <1>3
  <2> HIDE DEF a, b
  <2>5. Len(a) = Len(b) /\ \A i \in 1..Len(a) : a[i] = b[i]
    BY <2>2, <2>3, <2>4
  <2>6. a = b
    BY <2>2, <2>3, <2>5, SeqEqual
  <2> QED
    BY <2>6 DEF a, b
<1> QED
  BY <1>4, <1>8, <1>9

\* A part of one element.
LEMMA OneElement ==
  ASSUME NEW S, NEW s \in Seq(S), NEW n \in 1..Len(s)
  PROVE  SubSeq(s, n, n) = <<s[n]>>
<1> DEFINE one == SubSeq(s, n, n)
<1>1. n \in Int /\ s[n] \in S
  BY LenProperties, ElementOfSeq
<1> HIDE DEF one
<1>2. one \in Seq(S) /\ Len(one) = 1 /\ one[1] = s[n]
  <2>1. \A i \in n..n : s[i] \in S
    BY <1>1
  <2>2. /\ one \in Seq(S) /\ Len(one) = n - n + 1
        /\ \A i \in 1..(n - n + 1) : one[i] = s[n + i - 1]
    <3>1. one = SubSeq(s, n, n) /\ n <= n
      BY <1>1 DEF one
    <3> QED
      BY <3>1, <2>1, <1>1, SubSeqProperties
  <2>3. n - n + 1 = 1 /\ n + 1 - 1 = n /\ 1 \in 1..1
    BY <1>1
  <2>4. \A i \in 1..1 : one[i] = s[n + i - 1]
    BY <2>2, <2>3
  <2> QED
    BY <2>2, <2>3, <2>4
<1> DEFINE x == s[n]
<1> HIDE DEF one, x
<1>3. <<x>> \in Seq(S) /\ Len(<<x>>) = 1 /\ <<x>>[1] = x
  BY <1>1 DEF x
<1>4. one = <<x>>
  <2>1. Len(one) = Len(<<x>>) /\ \A i \in 1..Len(one) : one[i] = <<x>>[i]
    BY <1>2, <1>3 DEF x
  <2> QED
    BY <2>1, <1>2, <1>3, SeqEqual
<1> QED
  BY <1>4 DEF one, x

\* What stands at the end of two lines that are put together.
LEMMA EndOf ==
  ASSUME NEW S, NEW s \in Seq(S), NEW t \in Seq(S), NEW all, all = s \o t
  PROVE  /\ all \in Seq(S) /\ Len(all) = Len(s) + Len(t)
         /\ \A i \in 1..Len(t) : all[Len(s) + i] = t[i]
BY ConcatProperties, LenProperties

LEMMA One ==
  ASSUME NEW S, NEW a \in S
  PROVE  <<a>> \in Seq(S) /\ Len(<<a>>) = 1 /\ <<a>>[1] = a
OBVIOUS

LEMMA Two ==
  ASSUME NEW S, NEW a \in S, NEW b \in S
  PROVE  <<a, b>> \in Seq(S) /\ Len(<<a, b>>) = 2 /\ <<a, b>>[1] = a /\ <<a, b>>[2] = b
OBVIOUS

LEMMA Three ==
  ASSUME NEW S, NEW a \in S, NEW b \in S, NEW c \in S
  PROVE  /\ <<a, b, c>> \in Seq(S) /\ Len(<<a, b, c>>) = 3
         /\ <<a, b, c>>[1] = a /\ <<a, b, c>>[2] = b /\ <<a, b, c>>[3] = c
OBVIOUS

\* A line from whose end the address of who was seen is parsed.
Reads(line, seen) ==
  /\ xff_last_token(line) # <<>>
  /\ parse_addr_port(xff_last_token(line)) = IF seen \in Addr THEN seen ELSE None

LEMMA OneReads ==
  ASSUME NEW line, NEW seen, xff_last_token(line) = <<seen>>
  PROVE  Reads(line, seen)
<1> DEFINE token == <<seen>>
<1>1. Len(token) = 1 /\ token[1] = seen /\ token # <<>>
  OBVIOUS
<1> HIDE DEF token
<1>2. xff_last_token(line) = token
  BY DEF token
<1> QED
  BY <1>1, <1>2 DEF Reads, parse_addr_port

\* The ways a proxy writes it: after a comma and a blank, after a comma, alone,
\* and with a port.
LEMMA ReadAfterBlank ==
  ASSUME NEW s \in Text, NEW seen \in Clients
  PROVE  Reads(s \o <<Comma, Space, seen>>, seen)
<1> DEFINE S == STRING
           end == <<Comma, Space, seen>>
           n == Len(s)
           line == s \o end
<1>1. Comma \in S /\ Space \in S /\ seen \in S
  BY Separators
<1> HIDE DEF S
<1>2. s \in Seq(S)
  BY DEF S, Text
<1>3. end \in Seq(S) /\ Len(end) = 3 /\ end[1] = Comma /\ end[2] = Space /\ end[3] = seen
  BY <1>1, Three
<1> HIDE DEF end
<1>4. /\ line \in Seq(S) /\ Len(line) = n + 3
      /\ line[n + 1] = Comma /\ line[n + 2] = Space /\ line[n + 3] = seen
  <2> HIDE DEF line
  <2>0. line = s \o end
    BY DEF line
  <2>1. line \in Seq(S) /\ Len(line) = n + Len(end) /\ \A i \in 1..Len(end) : line[n + i] = end[i]
    <3>1. end \in Seq(S)
      BY <1>3
    <3>2. line \in Seq(S)
      BY <2>0, <3>1, <1>2, EndOf
    <3>3. Len(line) = Len(s) + Len(end)
      BY <2>0, <3>1, <1>2, EndOf
    <3>4. \A i \in 1..Len(end) : line[Len(s) + i] = end[i]
      BY <2>0, <3>1, <1>2, EndOf
    <3> QED
      BY <3>2, <3>3, <3>4
  <2>2. 1 \in 1..Len(end) /\ 2 \in 1..Len(end) /\ 3 \in 1..Len(end)
    BY <1>3
  <2> QED
    BY <1>3, <2>1, <2>2
<1>5. n \in Nat
  BY <1>2, LenProperties
<1> HIDE DEF line, n
<1>6. Comma # Space /\ seen # Comma /\ Blank(Space) /\ ~Blank(seen)
  BY Separators
<1>7. xff_last_token(line) = SubSeq(line, n + 3, n + 3)
  <2>1. n + 1 \in 0..Len(line) /\ n + 3 \in ((n + 1) + 1)..Len(line)
    BY <1>4, <1>5
  <2>2. \A i \in ((n + 1) + 1)..Len(line) : i = n + 2 \/ i = n + 3
    BY <1>4, <1>5
  <2>3. \A i \in ((n + 1) + 1)..Len(line) : line[i] # Comma
    BY <1>4, <1>6, <2>2
  <2>4. \A i \in ((n + 1) + 1)..((n + 3) - 1) : i = n + 2
    BY <1>5
  <2>5. \A i \in ((n + 1) + 1)..((n + 3) - 1) : Blank(line[i])
    BY <1>4, <1>6, <2>4
  <2>6. ~Blank(line[n + 3]) /\ ~Blank(line[Len(line)]) /\ line[n + 1] = Comma
    BY <1>4, <1>6
  <2>7. xff_last_token(line) = SubSeq(line, n + 3, Len(line))
    BY <1>4, <2>1, <2>3, <2>5, <2>6, TokenEndsLine
  <2> QED
    BY <2>7, <1>4
<1>8. SubSeq(line, n + 3, n + 3) = <<seen>>
  <2>1. n + 3 \in 1..Len(line)
    BY <1>4, <1>5
  <2> QED
    BY <2>1, <1>4, OneElement
<1>9. Reads(line, seen)
  BY <1>7, <1>8, OneReads
<1> QED
  BY <1>9 DEF line, end

LEMMA ReadAfterComma ==
  ASSUME NEW s \in Text, NEW seen \in Clients
  PROVE  Reads(s \o <<Comma, seen>>, seen)
<1> DEFINE S == STRING
           end == <<Comma, seen>>
           n == Len(s)
           line == s \o end
<1>1. Comma \in S /\ seen \in S
  BY Separators
<1> HIDE DEF S
<1>2. s \in Seq(S)
  BY DEF S, Text
<1>3. end \in Seq(S) /\ Len(end) = 2 /\ end[1] = Comma /\ end[2] = seen
  BY <1>1, Two
<1> HIDE DEF end
<1>4. /\ line \in Seq(S) /\ Len(line) = n + 2
      /\ line[n + 1] = Comma /\ line[n + 2] = seen
  <2> HIDE DEF line
  <2>0. line = s \o end
    BY DEF line
  <2>1. line \in Seq(S) /\ Len(line) = n + Len(end) /\ \A i \in 1..Len(end) : line[n + i] = end[i]
    <3>1. end \in Seq(S)
      BY <1>3
    <3>2. line \in Seq(S)
      BY <2>0, <3>1, <1>2, EndOf
    <3>3. Len(line) = Len(s) + Len(end)
      BY <2>0, <3>1, <1>2, EndOf
    <3>4. \A i \in 1..Len(end) : line[Len(s) + i] = end[i]
      BY <2>0, <3>1, <1>2, EndOf
    <3> QED
      BY <3>2, <3>3, <3>4
  <2>2. 1 \in 1..Len(end) /\ 2 \in 1..Len(end)
    BY <1>3
  <2> QED
    BY <1>3, <2>1, <2>2
<1>5. n \in Nat
  BY <1>2, LenProperties
<1> HIDE DEF line, n
<1>6. seen # Comma /\ ~Blank(seen)
  BY Separators
<1>7. xff_last_token(line) = SubSeq(line, n + 2, n + 2)
  <2>1. n + 1 \in 0..Len(line) /\ n + 2 \in ((n + 1) + 1)..Len(line)
    BY <1>4, <1>5
  <2>2. \A i \in ((n + 1) + 1)..Len(line) : i = n + 2
    BY <1>4, <1>5
  <2>3. \A i \in ((n + 1) + 1)..Len(line) : line[i] # Comma
    BY <1>4, <1>6, <2>2
  <2>4. \A i \in ((n + 1) + 1)..((n + 2) - 1) : Blank(line[i])
    BY <1>5
  <2>5. ~Blank(line[n + 2]) /\ ~Blank(line[Len(line)]) /\ line[n + 1] = Comma
    BY <1>4, <1>6
  <2>6. xff_last_token(line) = SubSeq(line, n + 2, Len(line))
    BY <1>4, <2>1, <2>3, <2>4, <2>5, TokenEndsLine
  <2> QED
    BY <2>6, <1>4
<1>8. SubSeq(line, n + 2, n + 2) = <<seen>>
  <2>1. n + 2 \in 1..Len(line)
    BY <1>4, <1>5
  <2> QED
    BY <2>1, <1>4, OneElement
<1>9. Reads(line, seen)
  BY <1>7, <1>8, OneReads
<1> QED
  BY <1>9 DEF line, end

LEMMA ReadAlone ==
  ASSUME NEW seen \in Clients
  PROVE  Reads(<<seen>>, seen)
<1> DEFINE S == STRING
           line == <<seen>>
<1>1. seen \in S /\ seen # Comma /\ ~Blank(seen)
  BY Separators
<1> HIDE DEF S
<1>2. line \in Seq(S) /\ Len(line) = 1 /\ line[1] = seen
  BY <1>1
<1> HIDE DEF line
<1>3. xff_last_token(line) = SubSeq(line, 1, 1)
  <2>1. 0 \in 0..Len(line) /\ 1 \in (0 + 1)..Len(line) /\ 1 \in 1..Len(line)
    BY <1>2
  <2>2. \A i \in (0 + 1)..Len(line) : line[i] # Comma
    BY <1>1, <1>2
  <2>3. \A i \in (0 + 1)..(1 - 1) : Blank(line[i])
    OBVIOUS
  <2>4. ~Blank(line[1]) /\ ~Blank(line[Len(line)])
    BY <1>1, <1>2
  <2>5. xff_last_token(line) = SubSeq(line, 1, Len(line))
    BY <1>2, <2>1, <2>2, <2>3, <2>4, TokenEndsLine
  <2> QED
    BY <2>5, <1>2
<1>4. SubSeq(line, 1, 1) = <<seen>>
  <2>1. 1 \in 1..Len(line)
    BY <1>2
  <2> QED
    BY <2>1, <1>2, OneElement
<1>5. Reads(line, seen)
  BY <1>3, <1>4, OneReads
<1> QED
  BY <1>5 DEF line

LEMMA ReadWithPort ==
  ASSUME NEW seen \in Clients
  PROVE  Reads(<<seen, Port>>, seen)
<1> DEFINE S == STRING
           line == <<seen, Port>>
<1>1. seen \in S /\ Port \in S /\ seen # Comma /\ ~Blank(seen) /\ Comma # Port /\ ~Blank(Port)
  BY Separators
<1> HIDE DEF S
<1>2. line \in Seq(S) /\ Len(line) = 2 /\ line[1] = seen /\ line[2] = Port
  BY <1>1, Two
<1> HIDE DEF line
<1>3. xff_last_token(line) = SubSeq(line, 1, 2)
  <2>1. 0 \in 0..Len(line) /\ 1 \in (0 + 1)..Len(line)
    BY <1>2
  <2>2. \A i \in (0 + 1)..Len(line) : i = 1 \/ i = 2
    BY <1>2
  <2>3. \A i \in (0 + 1)..Len(line) : line[i] # Comma
    BY <1>1, <1>2, <2>2
  <2>4. \A i \in (0 + 1)..(1 - 1) : Blank(line[i])
    OBVIOUS
  <2>5. ~Blank(line[1]) /\ ~Blank(line[Len(line)])
    BY <1>1, <1>2
  <2>6. xff_last_token(line) = SubSeq(line, 1, Len(line))
    BY <1>2, <2>1, <2>3, <2>4, <2>5, TokenEndsLine
  <2> QED
    BY <2>6, <1>2
<1> DEFINE token == SubSeq(line, 1, 2)
<1>4. Len(token) = 2 /\ token[1] = seen /\ token[2] = Port
  <2>1. \A i \in 1..2 : line[i] \in S
    <3>1. \A i \in 1..2 : i = 1 \/ i = 2
      OBVIOUS
    <3> QED
      BY <3>1, <1>1, <1>2
  <2>2. Len(token) = 2 - 1 + 1 /\ \A i \in 1..(2 - 1 + 1) : token[i] = line[1 + i - 1]
    BY <2>1, <1>2, SubSeqProperties
  <2> QED
    BY <2>2, <1>2
<1> HIDE DEF token
<1>5. token # <<>>
  BY <1>4
<1>6. parse_addr_port(token) = IF seen \in Addr THEN seen ELSE None
  BY <1>4 DEF parse_addr_port, Port
<1>7. xff_last_token(line) = token
  BY <1>3 DEF token
<1>8. Reads(line, seen)
  BY <1>5, <1>6, <1>7 DEF Reads
<1> QED
  BY <1>8 DEF line

------------------------------------------------------------------------------
(* The lines a proxy joins make a line. *)

\* Of the numbers for which something fails there is a least.
LEMMA LeastBad ==
  ASSUME NEW Bad \in SUBSET Nat, Bad # {}
  PROVE  \E m \in Bad : \A k \in Nat : k < m => k \notin Bad
<1> DEFINE R == {ss \in Nat \X Nat : ss[1] < ss[2]}
<1>1. IsWellFoundedOn(R, Nat)
  BY NatLessThanWellFounded DEF OpToRel
<1>2. \A j, k \in Nat : j < k => <<j, k>> \in R
  OBVIOUS
<1> HIDE DEF R
<1>3. PICK m \in Bad : \A k \in Bad : ~(<<k, m>> \in R)
  BY <1>1, WFMin, Zenon
<1> QED
  BY <1>2, <1>3

\* The fold, as a function of the set of lines joined.
Unrolled(sent, k, h) ==
  h = [s \in SUBSET (1..k) |->
         IF s = {} THEN <<>> ELSE Join(h[s \ {Max(s)}], sent[Max(s)])]

\* There is one for any number of lines: the last of them comes last.
LEMMA UnrolledExists ==
  ASSUME NEW sent, NEW n \in Nat
  PROVE  \E h : Unrolled(sent, n, h)
<1> DEFINE Bad == {k \in Nat : ~\E h : Unrolled(sent, k, h)}
<1>3. Bad = {}
  <2> SUFFICES ASSUME Bad # {} PROVE FALSE
    OBVIOUS
  <2>1. Bad \in SUBSET Nat
    OBVIOUS
  <2> HIDE DEF Bad
  <2>2. PICK m \in Bad : \A k \in Nat : k < m => k \notin Bad
    BY <2>1, LeastBad
  <2> USE DEF Bad
  <2>3. CASE m = 0
    <3> DEFINE h == [s \in SUBSET (1..0) |-> <<>>]
    <3>1. \A s \in SUBSET (1..0) : s = {}
      OBVIOUS
    <3>2. Unrolled(sent, 0, h)
      BY <3>1 DEF Unrolled
    <3> QED
      BY <2>2, <2>3, <3>2
  <2>4. CASE m # 0
    <3>1. m \in Nat /\ m - 1 \in Nat /\ m - 1 < m
      BY <2>4
    <3>2. m - 1 \notin Bad
      <4> HIDE DEF Bad
      <4> QED
        BY <2>2, <3>1
    <3>3. PICK g : Unrolled(sent, m - 1, g)
      BY <3>1, <3>2
    <3> DEFINE h == [s \in SUBSET (1..m) |->
                       IF m \in s THEN Join(g[s \ {m}], sent[m]) ELSE g[s]]
    <3>4. \A s \in SUBSET (1..m) : m \in s => Max(s) = m /\ s \ {m} \in SUBSET (1..(m - 1))
      BY <3>1, MaxIs
    <3>5. \A s \in SUBSET (1..m) : m \notin s => s \in SUBSET (1..(m - 1))
      BY <3>1
    <3>6. ASSUME NEW s \in SUBSET (1..m)
          PROVE  h[s] = IF s = {} THEN <<>>
                        ELSE Join(h[s \ {Max(s)}], sent[Max(s)])
      <4>1. CASE m \in s
        <5>1. Max(s) = m /\ s # {} /\ s \ {m} \in SUBSET (1..m) /\ m \notin s \ {m}
          BY <3>4, <4>1
        <5>2. h[s \ {m}] = g[s \ {m}]
          BY <5>1
        <5> QED
          BY <4>1, <5>1, <5>2
      <4>2. CASE m \notin s
        <5>1. s \in SUBSET (1..(m - 1)) /\ h[s] = g[s]
          BY <3>5, <4>2
        <5>2. g[s] = IF s = {} THEN <<>>
                     ELSE Join(g[s \ {Max(s)}], sent[Max(s)])
          BY <3>3, <5>1 DEF Unrolled
        <5>3. h[s \ {Max(s)}] = g[s \ {Max(s)}]
          BY <4>2
        <5> QED
          BY <5>1, <5>2, <5>3
      <4> QED
        BY <4>1, <4>2
    <3>7. h = [s \in SUBSET (1..m) |-> h[s]]
      OBVIOUS
    <3> HIDE DEF h
    <3>8. Unrolled(sent, m, h)
      BY <3>6, <3>7 DEF Unrolled
    <3> QED
      BY <2>2, <3>8
  <2> QED
    BY <2>3, <2>4
<1> QED
  BY <1>3

LEMMA LastOf ==
  ASSUME NEW k \in Nat
  PROVE  /\ Max(1..(k + 1)) = k + 1
         /\ (1..(k + 1)) \ {k + 1} = 1..k
         /\ 1..(k + 1) # {}
<1>1. k + 1 \in 1..(k + 1) /\ 1..(k + 1) \in SUBSET Int
  OBVIOUS
<1>2. \A y \in 1..(k + 1) : k + 1 >= y
  OBVIOUS
<1>3. \A y : y \in (1..(k + 1)) \ {k + 1} <=> y \in 1..k
  OBVIOUS
<1> QED
  BY <1>1, <1>2, <1>3, MaxIs

\* The line after k of those that are joined.
LEMMA JoinUnrolls ==
  ASSUME NEW sent, sent \in Seq(Text)
  PROVE  \E h : /\ h[0] = <<>>
                /\ \A k \in 0..(Len(sent) - 1) : h[k + 1] = Join(h[k], sent[k + 1])
                /\ FoldLeft(Join, <<>>, sent) = h[Len(sent)]
<1> DEFINE n == Len(sent)
           iter == CHOOSE h : Unrolled(sent, n, h)
           h == [k \in 0..n |-> iter[1..k]]
<1>1. n \in Nat /\ DOMAIN sent = 1..n
  BY LenProperties
<1>2. FoldLeft(Join, <<>>, sent) = iter[1..n]
  BY <1>1 DEF FoldLeft, MapThenFoldSet, Unrolled
<1>3. Unrolled(sent, n, iter)
  BY <1>1, UnrolledExists
<1> HIDE DEF iter, n
<1>4. \A k \in 0..n : 1..k \in SUBSET (1..n)
  BY <1>1
<1>5. iter[1..0] = <<>>
  BY <1>1, <1>3, <1>4 DEF Unrolled
<1>6. ASSUME NEW k \in 0..(n - 1)
      PROVE  iter[1..(k + 1)] = Join(iter[1..k], sent[k + 1])
  <2>1. k + 1 \in 1..(k + 1) /\ 1..(k + 1) \in SUBSET (1..n) /\ 1..(k + 1) \in SUBSET Int
    BY <1>1
  <2>0. k \in Nat
    BY <1>1
  <2>2. /\ Max(1..(k + 1)) = k + 1
        /\ (1..(k + 1)) \ {k + 1} = 1..k /\ 1..(k + 1) # {}
    BY <2>0, LastOf
  <2> QED
    BY <1>3, <2>1, <2>2 DEF Unrolled
<1>7. /\ h[0] = <<>>
      /\ \A k \in 0..(n - 1) : h[k + 1] = Join(h[k], sent[k + 1])
      /\ h[n] = iter[1..n]
  BY <1>1, <1>5, <1>6
<1> HIDE DEF h
<1> QED
  BY <1>2, <1>7 DEF n

LEMMA JoinIsLine ==
  ASSUME NEW all \in Text, NEW line \in Text
  PROVE  Join(all, line) \in Text
<1> DEFINE S == STRING
           C == <<Comma>>
<1>1. Comma \in S
  BY Separators
<1> HIDE DEF S
<1>2. C \in Seq(S) /\ all \in Seq(S) /\ line \in Seq(S)
  <2>1. C \in Seq(S)
    BY <1>1, One
  <2>2. all \in Seq(S) /\ line \in Seq(S)
    BY DEF S, Text
  <2> QED
    BY <2>1, <2>2
<1> HIDE DEF C
<1>3. all \o C \in Seq(S)
  BY <1>2, ConcatProperties
<1>4. (all \o C) \o line \in Seq(S)
  BY <1>2, <1>3, ConcatProperties
<1>5. Join(all, line) = IF all = <<>> THEN line ELSE (all \o C) \o line
  BY DEF Join, C, Comma
<1> QED
  BY <1>2, <1>4, <1>5 DEF S, Text

LEMMA NoText == <<>> \in Text
BY DEF Text

LEMMA JoinedIsLine ==
  ASSUME NEW sent \in Seq(Text)
  PROVE  FoldLeft(Join, <<>>, sent) \in Text
<1> DEFINE n == Len(sent)
<1>1. n \in Nat /\ \A k \in 1..n : sent[k] \in Text
  BY LenProperties, ElementOfSeq
<1>2. PICK h : /\ h[0] = <<>>
               /\ \A k \in 0..(n - 1) : h[k + 1] = Join(h[k], sent[k + 1])
               /\ FoldLeft(Join, <<>>, sent) = h[n]
  BY JoinUnrolls
<1> HIDE DEF n
<1> DEFINE Bad == {k \in 0..n : h[k] \notin Text}
<1>3. Bad = {}
  <2> SUFFICES ASSUME Bad # {} PROVE FALSE
    OBVIOUS
  <2>1. Bad \in SUBSET Nat
    BY <1>1
  <2> HIDE DEF Bad
  <2>2. PICK m \in Bad : \A k \in Nat : k < m => k \notin Bad
    BY <2>1, LeastBad
  <2>3. m \in 0..n /\ h[m] \notin Text
    BY <2>2 DEF Bad
  <2>4. CASE m = 0
    BY <1>2, <2>3, <2>4, NoText
  <2>5. CASE m # 0
    <3>1. m - 1 \in Nat /\ m - 1 < m /\ m - 1 \in 0..n /\ m - 1 \in 0..(n - 1)
          /\ (m - 1) + 1 = m /\ m \in 1..n
      BY <1>1, <2>3, <2>5
    <3>2. m - 1 \notin Bad
      BY <2>2, <3>1
    <3>3. h[m - 1] \in Text
      BY <3>1, <3>2 DEF Bad
    <3>4. h[m] = Join(h[m - 1], sent[m]) /\ sent[m] \in Text
      BY <1>1, <1>2, <3>1
    <3>5. Join(h[m - 1], sent[m]) \in Text
      BY <3>3, <3>4, JoinIsLine
    <3> QED
      BY <2>3, <3>4, <3>5
  <2> QED
    BY <2>4, <2>5
<1>4. n \in 0..n
  BY <1>1
<1>5. h[n] \in Text
  BY <1>3, <1>4
<1> QED
  BY <1>2, <1>5

------------------------------------------------------------------------------
(* What a proxy makes of the lines of its peer is read as that peer. *)

LEMMA LastOfOne ==
  ASSUME NEW x
  PROVE  Last(<<x>>) = x
BY DEF Last

LEMMA LastAppended ==
  ASSUME NEW S, NEW s \in Seq(S), NEW x \in S
  PROVE  Last(Append(s, x)) = x
BY AppendProperties, LenProperties DEF Last

\* A line with the address after it, and all but the last of some lines.
LEMMA LongerIsLine ==
  ASSUME NEW line \in Text, NEW seen \in Clients
  PROVE  line \o <<Comma, seen>> \in Text
<1> DEFINE S == STRING
           end == <<Comma, seen>>
<1>1. Comma \in S /\ seen \in S
  BY Separators
<1> HIDE DEF S
<1>2. line \in Seq(S)
  BY DEF S, Text
<1>3. end \in Seq(S)
  BY <1>1, Two
<1> HIDE DEF end
<1>4. line \o end \in Seq(S)
  BY <1>2, <1>3, ConcatProperties
<1> QED
  BY <1>4 DEF S, Text, end

LEMMA FrontIsLines ==
  ASSUME NEW S, NEW s \in Seq(S), s # <<>>
  PROVE  Front(s) \in Seq(S) /\ Last(s) \in S
<1>1. Len(s) \in Nat /\ Len(s) # 0
  BY LenProperties, EmptySeq
<1>2. \A i \in 1..Len(s) : s[i] \in S
  BY ElementOfSeq
<1>3. Last(s) \in S
  BY <1>1, <1>2 DEF Last
<1>4. 1 \in Int /\ Len(s) - 1 \in Int /\ \A i \in 1..(Len(s) - 1) : s[i] \in S
  BY <1>1, <1>2
<1>5. SubSeq(s, 1, Len(s) - 1) \in Seq(S)
  BY <1>4, SubSeqProperties
<1> QED
  BY <1>3, <1>5 DEF Front

LEMMA ReportReads ==
  ASSUME NEW seen \in Clients, NEW sent \in Forged, NEW made \in Report(seen, sent)
  PROVE  made # <<>> /\ Reads(Last(made), seen)
<1>1. sent \in Seq(Text)
  BY PieceAssumption DEF Text
<1> DEFINE joined == FoldLeft(Join, <<>>, sent)
<1>2. joined \in Text
  BY <1>1, JoinedIsLine
<1>3. <<seen>> \in Text
  BY Separators, One DEF Text
<1>4. \/ made = Append(sent, <<seen>>)
      \/ made = <<joined \o <<Comma, Space, seen>>>>
      \/ made = <<<<seen, Port>>>>
      \/ sent # <<>> /\ made = Append(Front(sent), Last(sent) \o <<Comma, seen>>)
  BY DEF Report, Comma, Space, Port
<1> HIDE DEF joined
<1>5. CASE made = Append(sent, <<seen>>)
  <2>1. Last(made) = <<seen>> /\ made # <<>>
    BY <1>1, <1>3, <1>5, LastAppended, AppendProperties
  <2> QED
    BY <2>1, ReadAlone
<1>6. CASE made = <<joined \o <<Comma, Space, seen>>>>
  <2> DEFINE line == joined \o <<Comma, Space, seen>>
  <2>1. Reads(line, seen)
    BY <1>2, ReadAfterBlank
  <2>2. made = <<line>>
    BY <1>6
  <2> HIDE DEF line
  <2>3. Last(made) = line /\ made # <<>>
    BY <2>2, LastOfOne
  <2> QED
    BY <2>1, <2>3
<1>7. CASE made = <<<<seen, Port>>>>
  <2> DEFINE line == <<seen, Port>>
  <2>1. Reads(line, seen)
    BY ReadWithPort
  <2>2. made = <<line>>
    BY <1>7
  <2> HIDE DEF line
  <2>3. Last(made) = line /\ made # <<>>
    BY <2>2, LastOfOne
  <2> QED
    BY <2>1, <2>3
<1>8. CASE sent # <<>> /\ made = Append(Front(sent), Last(sent) \o <<Comma, seen>>)
  <2> DEFINE line == Last(sent) \o <<Comma, seen>>
  <2>1. Front(sent) \in Seq(Text) /\ Last(sent) \in Text
    BY <1>1, <1>8, FrontIsLines
  <2>2. Reads(line, seen) /\ line \in Text
    BY <2>1, ReadAfterComma, LongerIsLine
  <2>3. made = Append(Front(sent), line)
    BY <1>8
  <2> HIDE DEF line
  <2>4. Last(made) = line /\ made # <<>>
    BY <2>1, <2>2, <2>3, LastAppended, AppendProperties
  <2> QED
    BY <2>2, <2>4
<1> QED
  BY <1>4, <1>5, <1>6, <1>7, <1>8

------------------------------------------------------------------------------
(* The key. *)

\* The address the request is counted for, of whatever shape its lines are.
LEMMA KeyOfArrived ==
  ASSUME slcf.trusted \subseteq Proxies, Arrived
  PROVE  ban_addr = ban_sockaddr_bytes(IF /\ slcf.ban_key = "forwarded" /\ peer \in slcf.trusted
                                          /\ lines # <<>> /\ client \in Addr
                                       THEN client ELSE peer)
<1>1. CASE slcf.ban_key # "forwarded" \/ peer \notin slcf.trusted \/ lines = <<>>
  BY <1>1 DEF ban_addr, ban_peer_trusted
<1>2. CASE slcf.ban_key = "forwarded" /\ peer \in slcf.trusted /\ lines # <<>>
  <2>1. client \in Clients /\ peer # client
    BY <1>2, KeyAssumption DEF Arrived
  <2>2. PICK sent \in Forged : lines \in Report(client, sent)
    BY <1>2, <2>1 DEF Arrived
  <2>3. Reads(XffLine, client)
    BY <2>1, <2>2, ReportReads DEF XffLine
  <2> DEFINE token == xff_last_token(XffLine)
  <2>4. token # <<>> /\ parse_addr_port(token) = IF client \in Addr THEN client ELSE None
    BY <2>3 DEF Reads
  <2>5. client # None
    BY <2>1, Separators
  <2> HIDE DEF token
  <2>6. ban_addr = IF parse_addr_port(token) = None THEN ban_sockaddr_bytes(peer)
                   ELSE ban_sockaddr_bytes(parse_addr_port(token))
    BY <1>2, <2>4 DEF ban_addr, ban_peer_trusted, token
  <2> QED
    BY <1>2, <2>4, <2>5, <2>6
<1> QED
  BY <1>1, <1>2

LEMMA KeyInit == Init => KeyInv
BY DEF Init, KeyInv, KeyIsSeenClient

LEMMA KeyNext == KeyInv /\ [Next]_vars => KeyInv'
<1> SUFFICES ASSUME KeyInv, [Next]_vars PROVE KeyInv'
  OBVIOUS
<1>1. slcf' = slcf
  BY DEF Next, Arrive, Key, Record, Evict, vars
<1>2. CASE Arrive
  <2>1. stage' = "arrived"
    BY <1>2 DEF Arrive
  <2>2. Arrived'
    BY <1>2 DEF Arrive, Arrived
  <2> QED
    BY <1>1, <2>1, <2>2 DEF KeyInv, KeyIsSeenClient
<1>3. CASE Key
  <2>1. stage = "arrived" /\ key' = ban_addr /\ stage' = "keyed"
        /\ lines' = lines /\ peer' = peer /\ client' = client
    BY <1>3 DEF Key
  <2>2. key' = ban_sockaddr_bytes(IF /\ slcf.ban_key = "forwarded" /\ peer \in slcf.trusted
                                     /\ lines # <<>> /\ client \in Addr
                                  THEN client ELSE peer)
    BY <2>1, KeyOfArrived DEF KeyInv
  <2>3. KeyIsSeenClient'
    BY <1>1, <2>1, <2>2 DEF KeyIsSeenClient, ban_sockaddr_bytes
  <2> QED
    BY <1>1, <2>1, <2>3 DEF KeyInv
<1>4. CASE Record \/ Evict
  <2>1. stage' = "idle"
    BY <1>4 DEF Record, Evict
  <2> QED
    BY <1>1, <2>1 DEF KeyInv, KeyIsSeenClient
<1>5. CASE UNCHANGED vars
  BY <1>5 DEF vars, KeyInv, KeyIsSeenClient, Arrived
<1> QED
  BY <1>2, <1>3, <1>4, <1>5 DEF Next

\* Behind a trusted proxy that reports, a request is counted for the client the
\* proxy saw, and else for its peer, for every client, every list of trusted
\* proxies and every header a client sends: no client chooses its key.
THEOREM NoClientChoosesItsKey == Spec => []KeyIsSeenClient
<1>1. KeyInv => KeyIsSeenClient
  BY DEF KeyInv
<1> QED
  BY <1>1, KeyInit, KeyNext, PTL DEF Spec

------------------------------------------------------------------------------
(* The order of addresses. *)

\* a is before b within n bytes.
LexLess(a, b, n) ==
  \E d \in 1..n : (\A i \in 1..(d - 1) : a[i] = b[i]) /\ a[d] < b[d]

\* The sign of memcmp is the order of the bytes.
LEMMA MemcmpSign ==
  ASSUME NEW n \in Nat, NEW a, NEW b, \A i \in 1..n : a[i] \in Int /\ b[i] \in Int
  PROVE  /\ memcmp(a, b, n) \in Int
         /\ memcmp(a, b, n) < 0 => LexLess(a, b, n)
         /\ memcmp(a, b, n) > 0 => LexLess(b, a, n)
         /\ memcmp(a, b, n) = 0 => \A i \in 1..n : a[i] = b[i]
<1> DEFINE differ == {i \in 1..n : a[i] # b[i]}
<1>1. CASE differ = {}
  <2>1. memcmp(a, b, n) = 0
    BY <1>1 DEF memcmp
  <2> QED
    BY <1>1, <2>1
<1>2. CASE differ # {}
  <2>1. differ \in SUBSET Nat /\ differ \in SUBSET Int
    OBVIOUS
  <2>2. PICK d \in differ : \A k \in Nat : k < d => k \notin differ
    <3> HIDE DEF differ
    <3> QED
      BY <1>2, <2>1, LeastBad
  <2>3. d \in 1..n /\ a[d] # b[d] /\ \A i \in 1..(d - 1) : a[i] = b[i]
    <3>1. \A i \in 1..(d - 1) : i \in Nat /\ i < d /\ i \in 1..n
      OBVIOUS
    <3> QED
      BY <2>2, <3>1
  <2>4. Min(differ) = d
    <3>1. \A y \in differ : d <= y
      <4> SUFFICES ASSUME NEW y \in differ PROVE ~(y < d)
        BY <2>1, <2>3
      <4> HIDE DEF differ
      <4> QED
        BY <2>1, <2>2
    <3> HIDE DEF differ
    <3> QED
      BY <2>1, <2>2, <3>1, MinIs
  <2>5. memcmp(a, b, n) = a[d] - b[d]
    BY <1>2, <2>4 DEF memcmp
  <2>6. a[d] \in Int /\ b[d] \in Int
    BY <2>3
  <2>7. a[d] < b[d] => LexLess(a, b, n)
    BY <2>3 DEF LexLess
  <2>8. b[d] < a[d] => LexLess(b, a, n)
    BY <2>3 DEF LexLess
  <2> QED
    BY <2>3, <2>5, <2>6, <2>7, <2>8
<1> QED
  BY <1>1, <1>2

\* That is an order.
LEMMA LexOrder ==
  ASSUME NEW n \in Nat, NEW a, NEW b, NEW c,
         \A i \in 1..n : a[i] \in Int /\ b[i] \in Int /\ c[i] \in Int
  PROVE  /\ ~LexLess(a, a, n)
         /\ LexLess(a, b, n) /\ LexLess(b, c, n) => LexLess(a, c, n)
<1>1. ~LexLess(a, a, n)
  BY DEF LexLess
<1>2. ASSUME LexLess(a, b, n), LexLess(b, c, n) PROVE LexLess(a, c, n)
  <2>1. PICK d \in 1..n : (\A i \in 1..(d - 1) : a[i] = b[i]) /\ a[d] < b[d]
    BY <1>2 DEF LexLess
  <2>2. PICK e \in 1..n : (\A i \in 1..(e - 1) : b[i] = c[i]) /\ b[e] < c[e]
    BY <1>2 DEF LexLess
  <2>3. CASE d < e
    <3>1. \A i \in 1..(d - 1) : i \in 1..(e - 1)
      BY <2>3
    <3>2. d \in 1..(e - 1)
      BY <2>3
    <3>3. \A i \in 1..(d - 1) : a[i] = c[i]
      BY <2>1, <2>2, <3>1
    <3>4. a[d] < c[d]
      BY <2>1, <2>2, <3>2
    <3> QED
      BY <3>3, <3>4 DEF LexLess
  <2>4. CASE e < d
    <3>1. \A i \in 1..(e - 1) : i \in 1..(d - 1)
      BY <2>4
    <3>2. e \in 1..(d - 1)
      BY <2>4
    <3>3. \A i \in 1..(e - 1) : a[i] = c[i]
      BY <2>1, <2>2, <3>1
    <3>4. a[e] < c[e]
      BY <2>1, <2>2, <3>2
    <3> QED
      BY <3>3, <3>4 DEF LexLess
  <2>5. CASE d = e
    <3>1. a[d] \in Int /\ b[d] \in Int /\ c[d] \in Int
      OBVIOUS
    <3>2. a[d] < c[d]
      BY <2>1, <2>2, <2>5, <3>1
    <3>3. \A i \in 1..(d - 1) : a[i] = c[i]
      BY <2>1, <2>2, <2>5
    <3> QED
      BY <3>2, <3>3 DEF LexLess
  <2> QED
    BY <2>3, <2>4, <2>5
<1> QED
  BY <1>1, <1>2

\* What an address is made of.
LEMMA BytesTyped ==
  ASSUME NEW x \in Addr
  PROVE  /\ Hash(x) \in Int /\ Len(Bytes(x)) \in Nat /\ Bytes(x) \in Seq(Int)
         /\ \A i \in 1..Len(Bytes(x)) : Bytes(x)[i] \in Int
BY AddressAssumption, LenProperties, ElementOfSeq

\* Each sign means one of the three.
LEMMA MemcmpSwaps ==
  ASSUME NEW n \in Nat, NEW a, NEW b, \A i \in 1..n : a[i] \in Int /\ b[i] \in Int
  PROVE  /\ memcmp(a, b, n) < 0 <=> LexLess(a, b, n)
         /\ memcmp(a, b, n) = 0 <=> \A i \in 1..n : a[i] = b[i]
         /\ memcmp(a, b, n) > 0 <=> LexLess(b, a, n)
<1>1. LexLess(a, b, n) => ~LexLess(b, a, n)
  BY LexOrder
<1>2. LexLess(a, b, n) \/ LexLess(b, a, n) => ~\A i \in 1..n : a[i] = b[i]
  BY DEF LexLess
<1>3. memcmp(a, b, n) < 0 \/ memcmp(a, b, n) = 0 \/ memcmp(a, b, n) > 0
  BY MemcmpSign
<1> QED
  BY <1>1, <1>2, <1>3, MemcmpSign

\* GoesLeft, by its three parts.
LEMMA GoesLeftIs ==
  ASSUME NEW x \in Addr, NEW y \in Addr
  PROVE  GoesLeft(x, y) <=>
           \/ Hash(x) < Hash(y)
           \/ /\ Hash(x) = Hash(y)
              /\ \/ Len(Bytes(x)) < Len(Bytes(y))
                 \/ /\ Len(Bytes(x)) = Len(Bytes(y))
                    /\ LexLess(Bytes(x), Bytes(y), Len(Bytes(x)))
<1>1. ASSUME Len(Bytes(x)) = Len(Bytes(y))
      PROVE  memcmp(Bytes(x), Bytes(y), Len(Bytes(x))) < 0
               <=> LexLess(Bytes(x), Bytes(y), Len(Bytes(x)))
  <2> DEFINE n == Len(Bytes(x))
             a == Bytes(x)
             b == Bytes(y)
  <2>1. n \in Nat /\ \A i \in 1..n : a[i] \in Int /\ b[i] \in Int
    BY <1>1, BytesTyped
  <2> HIDE DEF n, a, b
  <2>2. memcmp(a, b, n) < 0 <=> LexLess(a, b, n)
    BY <2>1, MemcmpSwaps
  <2> QED
    BY <2>2 DEF n, a, b
<1> QED
  BY <1>1 DEF GoesLeft

\* It is a strict total order.
LEMMA Ordered ==
  ASSUME NEW x \in Addr, NEW y \in Addr, NEW z \in Addr
  PROVE  /\ ~GoesLeft(x, x)
         /\ GoesLeft(x, y) /\ GoesLeft(y, z) => GoesLeft(x, z)
         /\ x = y \/ GoesLeft(x, y) \/ GoesLeft(y, x)
<1> DEFINE a == Bytes(x)
           b == Bytes(y)
           c == Bytes(z)
<1>1. /\ Hash(x) \in Int /\ Len(a) \in Nat /\ \A i \in 1..Len(a) : a[i] \in Int
      /\ Hash(y) \in Int /\ Len(b) \in Nat /\ \A i \in 1..Len(b) : b[i] \in Int
      /\ Hash(z) \in Int /\ Len(c) \in Nat /\ \A i \in 1..Len(c) : c[i] \in Int
      /\ a \in Seq(Int) /\ b \in Seq(Int)
  BY BytesTyped
<1>2. a = b => x = y
  BY AddressAssumption
<1>3. Len(a) = Len(b) /\ (\A i \in 1..Len(a) : a[i] = b[i]) => a = b
  BY <1>1, SeqEqual
<1>4. /\ GoesLeft(x, y) <=> \/ Hash(x) < Hash(y)
                            \/ Hash(x) = Hash(y) /\ Len(a) < Len(b)
                            \/ Hash(x) = Hash(y) /\ Len(a) = Len(b) /\ LexLess(a, b, Len(a))
      /\ GoesLeft(y, z) <=> \/ Hash(y) < Hash(z)
                            \/ Hash(y) = Hash(z) /\ Len(b) < Len(c)
                            \/ Hash(y) = Hash(z) /\ Len(b) = Len(c) /\ LexLess(b, c, Len(b))
      /\ GoesLeft(x, z) <=> \/ Hash(x) < Hash(z)
                            \/ Hash(x) = Hash(z) /\ Len(a) < Len(c)
                            \/ Hash(x) = Hash(z) /\ Len(a) = Len(c) /\ LexLess(a, c, Len(a))
      /\ GoesLeft(y, x) <=> \/ Hash(y) < Hash(x)
                            \/ Hash(y) = Hash(x) /\ Len(b) < Len(a)
                            \/ Hash(y) = Hash(x) /\ Len(b) = Len(a) /\ LexLess(b, a, Len(b))
      /\ GoesLeft(x, x) <=> \/ Hash(x) < Hash(x)
                            \/ Hash(x) = Hash(x) /\ Len(a) < Len(a)
                            \/ Hash(x) = Hash(x) /\ Len(a) = Len(a) /\ LexLess(a, a, Len(a))
  BY GoesLeftIs
<1> HIDE DEF a, b, c
<1>5. ~GoesLeft(x, x)
  BY <1>1, <1>4, LexOrder
<1>6. ASSUME GoesLeft(x, y), GoesLeft(y, z) PROVE GoesLeft(x, z)
  <2>1. CASE Hash(x) # Hash(y) \/ Hash(y) # Hash(z)
    BY <1>1, <1>4, <1>6, <2>1
  <2>2. CASE Hash(x) = Hash(y) /\ Hash(y) = Hash(z) /\ (Len(a) # Len(b) \/ Len(b) # Len(c))
    BY <1>1, <1>4, <1>6, <2>2
  <2>3. CASE Hash(x) = Hash(y) /\ Hash(y) = Hash(z) /\ Len(a) = Len(b) /\ Len(b) = Len(c)
    <3>1. LexLess(a, b, Len(a)) /\ LexLess(b, c, Len(a))
      BY <1>1, <1>4, <1>6, <2>3
    <3>2. \A i \in 1..Len(a) : a[i] \in Int /\ b[i] \in Int /\ c[i] \in Int
      BY <1>1, <2>3
    <3>3. LexLess(a, c, Len(a))
      BY <1>1, <3>1, <3>2, LexOrder
    <3> QED
      BY <1>4, <2>3, <3>3
  <2> QED
    BY <2>1, <2>2, <2>3
<1>7. x = y \/ GoesLeft(x, y) \/ GoesLeft(y, x)
  <2>1. CASE Hash(x) # Hash(y) \/ Len(a) # Len(b)
    BY <1>1, <1>4, <2>1
  <2>2. CASE Hash(x) = Hash(y) /\ Len(a) = Len(b)
    <3>1. \A i \in 1..Len(a) : a[i] \in Int /\ b[i] \in Int
      BY <1>1, <2>2
    <3>2. \/ LexLess(a, b, Len(a)) \/ LexLess(b, a, Len(a))
          \/ \A i \in 1..Len(a) : a[i] = b[i]
      <4>1. memcmp(a, b, Len(a)) < 0 \/ memcmp(a, b, Len(a)) = 0 \/ memcmp(a, b, Len(a)) > 0
        BY <1>1, <3>1, MemcmpSign
      <4> QED
        BY <1>1, <3>1, <4>1, MemcmpSwaps
    <3> QED
      BY <1>2, <1>3, <1>4, <2>2, <3>2
  <2> QED
    BY <2>1, <2>2
<1> QED
  BY <1>5, <1>6, <1>7

------------------------------------------------------------------------------
(* The shape of the tree. *)

Shaped == tree.addr \in Seq(Addr) /\ tree.rank \in Ranks(Len(tree.addr))

\* What the ranks of a tree are.
LEMMA ShapeIs ==
  ASSUME Shaped
  PROVE  /\ Len(tree.addr) \in Nat
         /\ Nodes = 1..Len(tree.addr)
         /\ \A i \in Nodes : tree.addr[i] \in Addr
         /\ \A i \in Nodes : tree.rank[i] \in 1..Len(tree.addr)
         /\ \A i, j \in Nodes : tree.rank[i] = tree.rank[j] => i = j
<1>1. Len(tree.addr) \in Nat /\ Nodes = 1..Len(tree.addr)
  BY LenProperties DEF Shaped, Nodes
<1>2. \A i \in Nodes : tree.addr[i] \in Addr
  BY <1>1, ElementOfSeq DEF Shaped
<1>3. tree.rank \in [1..Len(tree.addr) -> 1..Len(tree.addr)] /\ IsInjective(tree.rank)
  BY DEF Shaped, Ranks
<1>4. \A i, j \in 1..Len(tree.addr) : tree.rank[i] = tree.rank[j] => i = j
  BY <1>3 DEF IsInjective
<1> QED
  BY <1>1, <1>2, <1>3, <1>4

\* The top of some nodes is above the others.
LEMMA TopIs ==
  ASSUME Shaped, NEW S \in SUBSET Nodes, S # {}
  PROVE  Top(S) \in S /\ \A j \in S : tree.rank[Top(S)] <= tree.rank[j]
<1> DEFINE Taken == {tree.rank[j] : j \in S}
<1>1. Taken \in SUBSET Nat /\ Taken # {}
  BY ShapeIs
<1> HIDE DEF Taken
<1>2. PICK m \in Taken : \A k \in Nat : k < m => k \notin Taken
  BY <1>1, LeastBad
<1>3. \A k \in Taken : m <= k
  BY <1>1, <1>2
<1> USE DEF Taken
<1>4. PICK i \in S : tree.rank[i] = m
  BY <1>2
<1>5. \A j \in S : tree.rank[i] <= tree.rank[j]
  BY <1>3, <1>4
<1> QED
  BY <1>5 DEF Top

\* What a descent to node i has left to search: the nodes between lo and hi.
Covers(i, lo, hi) ==
  /\ lo \in 0..(i - 1) /\ hi \in (i + 1)..(Len(tree.addr) + 1)
  /\ \A k \in (lo + 1)..(hi - 1) : tree.rank[i] <= tree.rank[k]
  /\ lo > 0 => tree.rank[lo] < tree.rank[i]
  /\ hi <= Len(tree.addr) => tree.rank[hi] < tree.rank[i]

\* The root covers all nodes.
LEMMA RootCovers ==
  ASSUME Shaped
  PROVE  IF Len(tree.addr) = 0 THEN root = Nil
         ELSE root \in Nodes /\ Covers(root, 0, Len(tree.addr) + 1)
<1>1. Len(tree.addr) \in Nat /\ Nodes = 1..Len(tree.addr)
  BY ShapeIs
<1>2. CASE Len(tree.addr) = 0
  BY <1>1, <1>2 DEF root, Top
<1>3. CASE Len(tree.addr) # 0
  <2>1. Nodes # {}
    BY <1>1, <1>3
  <2>2. root \in Nodes /\ \A j \in Nodes : tree.rank[root] <= tree.rank[j]
    BY <2>1, TopIs DEF root
  <2> QED
    BY <1>1, <1>3, <2>2 DEF Covers
<1> QED
  BY <1>2, <1>3

\* Its left child covers those before it.
LEMMA LeftCovers ==
  ASSUME Shaped, NEW i \in Nodes, NEW lo, NEW hi, Covers(i, lo, hi)
  PROVE  IF lo + 1 = i THEN left(i) = Nil
         ELSE /\ left(i) \in Nodes /\ Covers(left(i), lo, i)
              /\ tree.rank[left(i)] > tree.rank[i]
<1> DEFINE n == Len(tree.addr)
           r == tree.rank
           S == {j \in 1..i - 1 : \A k \in j..i - 1 : r[k] > r[i]}
<1>1. n \in Nat /\ i \in 1..n /\ Nodes = 1..n
  BY ShapeIs
<1>2. \A k \in 1..n : r[k] \in 1..n
  BY <1>1, ShapeIs
<1>3. \A k \in 1..n : r[k] = r[i] => k = i
  BY <1>1, ShapeIs
<1>4. /\ lo \in 0..(i - 1) /\ hi \in (i + 1)..(n + 1)
      /\ \A k \in (lo + 1)..(hi - 1) : r[i] <= r[k]
      /\ lo > 0 => r[lo] < r[i]
  BY DEF Covers
<1>5. left(i) = Top(S)
  BY DEF left
<1> HIDE DEF r, n
<1>6. \A k \in (lo + 1)..(i - 1) : r[k] > r[i]
  <2> SUFFICES ASSUME NEW k \in (lo + 1)..(i - 1) PROVE r[k] > r[i]
    OBVIOUS
  <2>1. k \in (lo + 1)..(hi - 1) /\ k \in 1..n /\ k # i
    BY <1>1, <1>4
  <2> QED
    BY <1>1, <1>2, <1>3, <1>4, <2>1
<1>7. \A j \in 1..(i - 1) : j \in S <=> j \in (lo + 1)..(i - 1)
  <2>1. ASSUME NEW j \in (lo + 1)..(i - 1) PROVE j \in S
    <3>1. j \in 1..(i - 1) /\ \A k \in j..(i - 1) : k \in (lo + 1)..(i - 1)
      BY <1>1, <1>4
    <3> QED
      BY <1>6, <3>1
  <2>2. ASSUME NEW j \in S, j \notin (lo + 1)..(i - 1) PROVE FALSE
    <3>1. lo > 0 /\ lo \in j..(i - 1)
      BY <1>1, <1>4, <2>2
    <3>2. r[lo] > r[i]
      BY <2>2, <3>1
    <3>3. lo \in 1..n
      BY <1>1, <1>4, <3>1
    <3> QED
      BY <1>1, <1>2, <1>4, <3>1, <3>2, <3>3
  <2> QED
    BY <2>1, <2>2
<1>8. S = (lo + 1)..(i - 1)
  <2>1. \A j \in (lo + 1)..(i - 1) : j \in 1..(i - 1)
    BY <1>1, <1>4
  <2> QED
    BY <1>7, <2>1
<1> HIDE DEF S
<1>9. CASE lo + 1 = i
  <2>1. S = {}
    BY <1>1, <1>4, <1>8, <1>9
  <2> QED
    BY <1>5, <1>9, <2>1 DEF Top
<1>10. CASE lo + 1 # i
  <2>1. S # {} /\ S \in SUBSET Nodes
    <3>1. i - 1 \in S
      BY <1>1, <1>4, <1>8, <1>10
    <3>2. \A j \in S : j \in 1..n
      BY <1>1, <1>4, <1>8
    <3> QED
      BY <1>1, <3>1, <3>2
  <2>2. Top(S) \in S /\ \A j \in S : r[Top(S)] <= r[j]
    BY <2>1, TopIs DEF r
  <2>3. r[Top(S)] > r[i]
    BY <1>6, <1>8, <2>2
  <2>4. Top(S) \in Nodes /\ lo \in 0..(Top(S) - 1) /\ i \in (Top(S) + 1)..(n + 1)
    BY <1>1, <1>4, <1>8, <2>1, <2>2
  <2>5. r[i] < r[Top(S)] /\ (lo > 0 => r[lo] < r[Top(S)])
    <3>1. lo > 0 => lo \in 1..n
      BY <1>1, <1>4
    <3> QED
      BY <1>1, <1>2, <1>4, <2>3, <2>4, <3>1
  <2>6. Covers(Top(S), lo, i)
    BY <1>8, <2>2, <2>4, <2>5 DEF Covers, r, n
  <2> QED
    BY <1>5, <1>10, <2>3, <2>4, <2>6 DEF r
<1> QED
  BY <1>9, <1>10

\* Its right child covers those after it.
LEMMA RightCovers ==
  ASSUME Shaped, NEW i \in Nodes, NEW lo, NEW hi, Covers(i, lo, hi)
  PROVE  IF i + 1 = hi THEN right(i) = Nil
         ELSE /\ right(i) \in Nodes /\ Covers(right(i), i, hi)
              /\ tree.rank[right(i)] > tree.rank[i]
<1> DEFINE n == Len(tree.addr)
           r == tree.rank
           S == {j \in i + 1..n : \A k \in i + 1..j : r[k] > r[i]}
<1>1. n \in Nat /\ i \in 1..n /\ Nodes = 1..n
  BY ShapeIs
<1>2. \A k \in 1..n : r[k] \in 1..n
  BY <1>1, ShapeIs
<1>3. \A k \in 1..n : r[k] = r[i] => k = i
  BY <1>1, ShapeIs
<1>4. /\ lo \in 0..(i - 1) /\ hi \in (i + 1)..(n + 1)
      /\ \A k \in (lo + 1)..(hi - 1) : r[i] <= r[k]
      /\ hi <= n => r[hi] < r[i]
  BY DEF Covers
<1>5. right(i) = Top(S)
  BY DEF right
<1> HIDE DEF r, n
<1>6. \A k \in (i + 1)..(hi - 1) : r[k] > r[i]
  <2> SUFFICES ASSUME NEW k \in (i + 1)..(hi - 1) PROVE r[k] > r[i]
    OBVIOUS
  <2>1. k \in (lo + 1)..(hi - 1) /\ k \in 1..n /\ k # i
    BY <1>1, <1>4
  <2> QED
    BY <1>1, <1>2, <1>3, <1>4, <2>1
<1>7. \A j \in (i + 1)..n : j \in S <=> j \in (i + 1)..(hi - 1)
  <2>1. ASSUME NEW j \in (i + 1)..(hi - 1) PROVE j \in S
    <3>1. j \in (i + 1)..n /\ \A k \in (i + 1)..j : k \in (i + 1)..(hi - 1)
      BY <1>1, <1>4
    <3> QED
      BY <1>6, <3>1
  <2>2. ASSUME NEW j \in S, j \notin (i + 1)..(hi - 1) PROVE FALSE
    <3>1. hi <= n /\ hi \in (i + 1)..j
      BY <1>1, <1>4, <2>2
    <3>2. r[hi] > r[i]
      BY <2>2, <3>1
    <3>3. hi \in 1..n
      BY <1>1, <1>4, <3>1
    <3> QED
      BY <1>1, <1>2, <1>4, <3>1, <3>2, <3>3
  <2> QED
    BY <2>1, <2>2
<1>8. S = (i + 1)..(hi - 1)
  <2>1. \A j \in (i + 1)..(hi - 1) : j \in (i + 1)..n
    BY <1>1, <1>4
  <2> QED
    BY <1>7, <2>1
<1> HIDE DEF S
<1>9. CASE i + 1 = hi
  <2>1. S = {}
    BY <1>1, <1>4, <1>8, <1>9
  <2> QED
    BY <1>5, <1>9, <2>1 DEF Top
<1>10. CASE i + 1 # hi
  <2>1. S # {} /\ S \in SUBSET Nodes
    <3>1. i + 1 \in S
      BY <1>1, <1>4, <1>8, <1>10
    <3>2. \A j \in S : j \in 1..n
      BY <1>1, <1>4, <1>8
    <3> QED
      BY <1>1, <3>1, <3>2
  <2>2. Top(S) \in S /\ \A j \in S : r[Top(S)] <= r[j]
    BY <2>1, TopIs DEF r
  <2>3. r[Top(S)] > r[i]
    BY <1>6, <1>8, <2>2
  <2>4. Top(S) \in Nodes /\ i \in 0..(Top(S) - 1) /\ hi \in (Top(S) + 1)..(n + 1)
    BY <1>1, <1>4, <1>8, <2>1, <2>2
  <2>5. r[i] < r[Top(S)] /\ (hi <= n => r[hi] < r[Top(S)])
    <3>1. hi <= n => hi \in 1..n
      BY <1>1, <1>4
    <3> QED
      BY <1>1, <1>2, <1>4, <2>3, <2>4, <3>1
  <2>6. Covers(Top(S), i, hi)
    BY <1>8, <2>2, <2>4, <2>5 DEF Covers, r, n
  <2> QED
    BY <1>5, <1>10, <2>3, <2>4, <2>6 DEF r
<1> QED
  BY <1>9, <1>10

\* The greater its rank, the nearer a node is to the end of a descent.
LEMMA Nearer ==
  ASSUME NEW n \in Nat, NEW a \in 1..n, NEW b \in 1..n, b > a
  PROVE  n - b \in Nat /\ n - b < n - a
OBVIOUS

\* What f finds from each node: its value where the descent ends, and else what is
\* found from the next node.
Descends(f, N, ends, value, next) ==
  f = [i \in N |-> IF ends[i] THEN value[i] ELSE f[next[i]]]

\* A descent that goes to nodes of greater rank ends: what it finds is defined.
LEMMA DescentExists ==
  ASSUME NEW N, NEW n \in Nat, NEW rank, \A i \in N : rank[i] \in 0..n,
         NEW ends, NEW value, NEW next,
         \A i \in N : ~ends[i] => next[i] \in N /\ rank[next[i]] > rank[i]
  PROVE  \E f : Descends(f, N, ends, value, next)
<1> DEFINE Deep(k) == {i \in N : rank[i] > n - k}
           From(k, f) == f = [i \in Deep(k) |-> IF ends[i] THEN value[i] ELSE f[next[i]]]
           Bad == {k \in Nat : ~\E f : From(k, f)}
<1>1. Bad = {}
  <2> SUFFICES ASSUME Bad # {} PROVE FALSE
    OBVIOUS
  <2>1. Bad \in SUBSET Nat
    OBVIOUS
  <2> HIDE DEF Bad
  <2>2. PICK m \in Bad : \A k \in Nat : k < m => k \notin Bad
    BY <2>1, LeastBad
  <2> USE DEF Bad
  <2>3. CASE m = 0
    <3>1. Deep(0) = {}
      BY SMT
    <3>2. From(0, [i \in Deep(0) |-> 0])
      BY <3>1
    <3> QED
      BY <2>2, <2>3, <3>2
  <2>4. CASE m # 0
    <3>1. m \in Nat /\ m - 1 \in Nat /\ m - 1 < m
      BY <2>4
    <3>2. m - 1 \notin Bad
      <4> HIDE DEF Bad
      <4> QED
        BY <2>2, <3>1
    <3>3. PICK g : From(m - 1, g)
      BY <3>1, <3>2
    <3> DEFINE f == [i \in Deep(m) |-> IF ends[i] THEN value[i] ELSE g[next[i]]]
    <3>4. \A i \in Deep(m) : ~ends[i] => next[i] \in Deep(m - 1) /\ next[i] \in Deep(m)
      <4> SUFFICES ASSUME NEW i \in Deep(m), ~ends[i]
                   PROVE  next[i] \in Deep(m - 1) /\ next[i] \in Deep(m)
        OBVIOUS
      <4>1. /\ i \in N /\ rank[i] \in 0..n /\ rank[i] > n - m
            /\ next[i] \in N /\ rank[next[i]] > rank[i] /\ rank[next[i]] \in 0..n
        OBVIOUS
      <4>2. rank[next[i]] > n - (m - 1) /\ rank[next[i]] > n - m
        BY <3>1, <4>1
      <4> QED
        BY <4>1, <4>2
    <3>5. \A j \in Deep(m - 1) :
            j \in Deep(m) /\ g[j] = IF ends[j] THEN value[j] ELSE g[next[j]]
      <4>1. \A j \in Deep(m - 1) : j \in Deep(m)
        BY <3>1
      <4>2. \A j \in Deep(m - 1) : g[j] = IF ends[j] THEN value[j] ELSE g[next[j]]
        BY <3>3
      <4> QED
        BY <4>1, <4>2
    <3>6. \A j \in Deep(m - 1) : f[j] = g[j]
      BY <3>5
    <3>7. \A i \in Deep(m) : f[i] = IF ends[i] THEN value[i] ELSE f[next[i]]
      BY <3>4, <3>6
    <3>8. f = [i \in Deep(m) |-> f[i]]
      OBVIOUS
    <3> HIDE DEF f
    <3>9. From(m, f)
      BY <3>7, <3>8
    <3> QED
      BY <2>2, <3>9
  <2> QED
    BY <2>3, <2>4
<1>2. PICK f : From(n + 1, f)
  <2>1. n + 1 \in Nat
    OBVIOUS
  <2>2. n + 1 \notin Bad
    <3> HIDE DEF Bad
    <3> QED
      BY <1>1
  <2> HIDE DEF From
  <2> QED
    BY <2>1, <2>2
<1>3. Deep(n + 1) = N
  <2>1. \A i \in N : rank[i] > n - (n + 1)
    OBVIOUS
  <2> QED
    BY <2>1
<1> QED
  BY <1>2, <1>3 DEF Descends

------------------------------------------------------------------------------
(* What a descent finds. *)

Sorted == \A i, j \in Nodes : i < j => GoesLeft(tree.addr[i], tree.addr[j])

\* The child on the side of x.
Onward(x, i) == IF GoesLeft(x, tree.addr[i]) THEN left(i) ELSE right(i)

\* A child is of greater rank.
LEMMA Below ==
  ASSUME Shaped, NEW i \in Nodes, NEW x
  PROVE  \/ Onward(x, i) = Nil
         \/ Onward(x, i) \in Nodes /\ tree.rank[Onward(x, i)] > tree.rank[i]
<1> DEFINE n == Len(tree.addr)
           L == {j \in 1..i - 1 : \A k \in j..i - 1 : tree.rank[k] > tree.rank[i]}
           R == {j \in i + 1..n : \A k \in i + 1..j : tree.rank[k] > tree.rank[i]}
<1>1. n \in Nat /\ i \in 1..n /\ Nodes = 1..n
  BY ShapeIs
<1>2. left(i) = Top(L) /\ right(i) = Top(R)
  BY DEF left, right
<1>3. L \in SUBSET Nodes /\ \A j \in L : tree.rank[j] > tree.rank[i]
  BY <1>1
<1>4. R \in SUBSET Nodes /\ \A j \in R : tree.rank[j] > tree.rank[i]
  BY <1>1
<1> HIDE DEF L, R
<1>5. \A S \in SUBSET Nodes : Top(S) = Nil \/ Top(S) \in S
  BY TopIs DEF Top
<1> QED
  BY <1>2, <1>3, <1>4, <1>5 DEF Onward

\* How ban_lookup compares addresses of one hash.
rcOf(x, i) ==
  IF Len(Bytes(x)) # Len(Bytes(tree.addr[i]))
  THEN Len(Bytes(x)) - Len(Bytes(tree.addr[i]))
  ELSE memcmp(Bytes(x), Bytes(tree.addr[i]), Len(Bytes(x)))

\* Lookup and insertion go the same way, and lookup stops at the address.
LEMMA SameWay ==
  ASSUME Shaped, NEW x \in Addr, NEW i \in Nodes
  PROVE  /\ Hash(x) \in Int /\ Hash(tree.addr[i]) \in Int /\ rcOf(x, i) \in Int
         /\ Hash(x) < Hash(tree.addr[i]) => x # tree.addr[i] /\ GoesLeft(x, tree.addr[i])
         /\ Hash(x) > Hash(tree.addr[i]) => x # tree.addr[i] /\ ~GoesLeft(x, tree.addr[i])
         /\ Hash(x) = Hash(tree.addr[i]) =>
              /\ rcOf(x, i) = 0 <=> x = tree.addr[i]
              /\ rcOf(x, i) < 0 <=> GoesLeft(x, tree.addr[i])
<1> DEFINE y == tree.addr[i]
           a == Bytes(x)
           b == Bytes(y)
<1>1. y \in Addr
  BY ShapeIs
<1>2. /\ Hash(x) \in Int /\ Len(a) \in Nat /\ \A k \in 1..Len(a) : a[k] \in Int
      /\ Hash(y) \in Int /\ Len(b) \in Nat /\ \A k \in 1..Len(b) : b[k] \in Int
      /\ a \in Seq(Int) /\ b \in Seq(Int)
  BY <1>1, BytesTyped
<1>3. a = b => x = y
  BY <1>1, AddressAssumption
<1>4. Len(a) = Len(b) /\ (\A k \in 1..Len(a) : a[k] = b[k]) => a = b
  BY <1>2, SeqEqual
<1>5. x = y => a = b
  OBVIOUS
<1>6. GoesLeft(x, y) <=> \/ Hash(x) < Hash(y)
                         \/ /\ Hash(x) = Hash(y)
                            /\ \/ Len(a) < Len(b)
                               \/ Len(a) = Len(b) /\ memcmp(a, b, Len(a)) < 0
  BY DEF GoesLeft
<1>7. rcOf(x, i) = IF Len(a) # Len(b) THEN Len(a) - Len(b) ELSE memcmp(a, b, Len(a))
  BY DEF rcOf
<1>8. x = y => Hash(x) = Hash(y)
  OBVIOUS
<1> HIDE DEF a, b, y
<1>9. Len(a) = Len(b) =>
        /\ memcmp(a, b, Len(a)) \in Int
        /\ memcmp(a, b, Len(a)) = 0 <=> \A k \in 1..Len(a) : a[k] = b[k]
  <2> SUFFICES ASSUME Len(a) = Len(b)
               PROVE  /\ memcmp(a, b, Len(a)) \in Int
                      /\ memcmp(a, b, Len(a)) = 0 <=> \A k \in 1..Len(a) : a[k] = b[k]
    OBVIOUS
  <2>1. Len(a) \in Nat /\ \A k \in 1..Len(a) : a[k] \in Int /\ b[k] \in Int
    BY <1>2
  <2>2. memcmp(a, b, Len(a)) \in Int
    BY <2>1, MemcmpSign
  <2>3. memcmp(a, b, Len(a)) = 0 <=> \A k \in 1..Len(a) : a[k] = b[k]
    BY <2>1, MemcmpSwaps
  <2> QED
    BY <2>2, <2>3
<1>10. rcOf(x, i) \in Int
  BY <1>2, <1>7, <1>9
<1>11. rcOf(x, i) = 0 <=> a = b
  BY <1>2, <1>4, <1>7, <1>9
<1>12. Hash(x) = Hash(y) => (rcOf(x, i) < 0 <=> GoesLeft(x, y))
  BY <1>2, <1>6, <1>7, <1>9
<1>13. /\ Hash(x) < Hash(y) => x # y /\ GoesLeft(x, y)
       /\ Hash(x) > Hash(y) => x # y /\ ~GoesLeft(x, y)
  BY <1>2, <1>6, <1>8
<1>14. Hash(x) = Hash(y) => (rcOf(x, i) = 0 <=> x = y)
  BY <1>3, <1>5, <1>11
<1> QED
  BY <1>2, <1>10, <1>12, <1>13, <1>14 DEF y

\* The function of the nodes that ban_lookup takes at the root.
Looks(x, f) ==
  f = [i \in Nodes \union {Nil} |->
         CASE i = Nil -> Nil
           [] i # Nil /\ Hash(x) < Hash(tree.addr[i]) -> f[left(i)]
           [] i # Nil /\ Hash(x) > Hash(tree.addr[i]) -> f[right(i)]
           [] OTHER -> IF rcOf(x, i) = 0 THEN i
                       ELSE f[IF rcOf(x, i) < 0 THEN left(i) ELSE right(i)]]

\* It goes onward until it is there.
LEMMA LooksDown ==
  ASSUME Shaped, NEW x \in Addr, NEW f
  PROVE  Looks(x, f) <=>
           f = [i \in Nodes \union {Nil} |->
                  IF i = Nil \/ x = tree.addr[i] THEN i ELSE f[Onward(x, i)]]
<1> SUFFICES ASSUME NEW i \in Nodes \union {Nil}
             PROVE  (CASE i = Nil -> Nil
                       [] i # Nil /\ Hash(x) < Hash(tree.addr[i]) -> f[left(i)]
                       [] i # Nil /\ Hash(x) > Hash(tree.addr[i]) -> f[right(i)]
                       [] OTHER -> IF rcOf(x, i) = 0 THEN i
                                   ELSE f[IF rcOf(x, i) < 0 THEN left(i) ELSE right(i)])
                    = IF i = Nil \/ x = tree.addr[i] THEN i ELSE f[Onward(x, i)]
  BY DEF Looks
<1>1. CASE i = Nil
  BY <1>1
<1>2. CASE i # Nil
  <2>1. i \in Nodes
    BY <1>2
  <2>2. CASE Hash(x) < Hash(tree.addr[i])
    <3>1. ~(Hash(x) > Hash(tree.addr[i]))
      BY <2>1, <2>2, SameWay
    <3> QED
      BY <1>2, <2>1, <2>2, <3>1, SameWay DEF Onward
  <2>3. CASE Hash(x) > Hash(tree.addr[i])
    <3>1. ~(Hash(x) < Hash(tree.addr[i]))
      BY <2>1, <2>3, SameWay
    <3> QED
      BY <1>2, <2>1, <2>3, <3>1, SameWay DEF Onward
  <2>4. CASE Hash(x) = Hash(tree.addr[i])
    <3>1. ~(Hash(x) < Hash(tree.addr[i])) /\ ~(Hash(x) > Hash(tree.addr[i]))
      BY <2>1, <2>4, SameWay
    <3> QED
      BY <1>2, <2>1, <2>4, <3>1, SameWay DEF Onward
  <2> QED
    BY <2>1, <2>2, <2>3, <2>4, SameWay
<1> QED
  BY <1>1, <1>2

\* There is one, since a child is of greater rank.
LEMMA LooksExists ==
  ASSUME Shaped, NEW x \in Addr
  PROVE  Looks(x, CHOOSE f : Looks(x, f))
<1> DEFINE N == Nodes \union {Nil}
           n == Len(tree.addr) + 1
           rank == [i \in N |-> IF i = Nil THEN n ELSE tree.rank[i]]
           ends == [i \in N |-> i = Nil \/ x = tree.addr[i]]
           value == [i \in N |-> i]
           next == [i \in N |-> Onward(x, i)]
<1>1. Len(tree.addr) \in Nat /\ Nodes = 1..Len(tree.addr) /\ n \in Nat
  BY ShapeIs
<1>2. \A i \in Nodes : tree.rank[i] \in 1..Len(tree.addr) /\ i # Nil
  BY <1>1, ShapeIs DEF Nil
<1>3. \A i \in N : rank[i] \in 0..n
  BY <1>1, <1>2
<1>4. \A i \in N : ~ends[i] => next[i] \in N /\ rank[next[i]] > rank[i]
  <2> SUFFICES ASSUME NEW i \in Nodes
               PROVE  Onward(x, i) \in N /\ rank[Onward(x, i)] > tree.rank[i]
    BY <1>2
  <2>1. CASE Onward(x, i) = Nil
    BY <1>1, <1>2, <2>1
  <2>2. CASE Onward(x, i) \in Nodes /\ tree.rank[Onward(x, i)] > tree.rank[i]
    BY <1>2, <2>2
  <2> QED
    BY <2>1, <2>2, Below
<1>5. \A f : Descends(f, N, ends, value, next) => Looks(x, f)
  <2> SUFFICES ASSUME NEW f, Descends(f, N, ends, value, next)
               PROVE  Looks(x, f)
    OBVIOUS
  <2>1. f = [i \in N |-> IF i = Nil \/ x = tree.addr[i] THEN i ELSE f[Onward(x, i)]]
    BY DEF Descends
  <2> QED
    BY <2>1, LooksDown
<1> HIDE DEF N, n, rank, ends, value, next
<1>6. \E f : Descends(f, N, ends, value, next)
  BY <1>1, <1>3, <1>4, DescentExists
<1> QED
  BY <1>5, <1>6

LEMMA LookupIs == \A x : ban_lookup(x) = (CHOOSE f : Looks(x, f))[root]
BY DEF ban_lookup, Looks, rcOf

\* An address of the tree is found where it is.
LEMMA LooksUp ==
  ASSUME Shaped, Sorted, NEW p \in Nodes
  PROVE  ban_lookup(tree.addr[p]) = p
<1> DEFINE n == Len(tree.addr)
           x == tree.addr[p]
           f == CHOOSE f : Looks(x, f)
           Lost(i) == f[i] # p /\ \E lo, hi \in Int : Covers(i, lo, hi) /\ lo < p /\ p < hi
           Bad == {n - tree.rank[i] : i \in {j \in Nodes : Lost(j)}}
<1>1. n \in Nat /\ Nodes = 1..n /\ \A i \in Nodes : tree.rank[i] \in 1..n /\ tree.addr[i] \in Addr
  BY ShapeIs
<1>2. f = [i \in Nodes \union {Nil} |-> IF i = Nil \/ x = tree.addr[i] THEN i ELSE f[Onward(x, i)]]
  BY <1>1, LooksExists, LooksDown
<1> HIDE DEF f
<1>3. \A i \in Nodes : f[i] = IF x = tree.addr[i] THEN i ELSE f[Onward(x, i)]
  BY <1>1, <1>2 DEF Nil
<1>4. Bad = {}
  <2> SUFFICES ASSUME Bad # {} PROVE FALSE
    OBVIOUS
  <2>1. Bad \in SUBSET Nat
    BY <1>1
  <2> HIDE DEF Bad
  <2>2. PICK m \in Bad : \A k \in Nat : k < m => k \notin Bad
    BY <2>1, LeastBad
  <2> USE DEF Bad
  <2>3. PICK i \in Nodes : Lost(i) /\ m = n - tree.rank[i]
    BY <2>2
  <2>4. PICK lo, hi \in Int : Covers(i, lo, hi) /\ lo < p /\ p < hi
    BY <2>3
  <2>5. ASSUME NEW j \in Nodes, tree.rank[j] > tree.rank[i] PROVE ~Lost(j)
    <3>1. n - tree.rank[j] \in Nat /\ n - tree.rank[j] < m
      <4>1. m = n - tree.rank[i]
        BY <2>3
      <4> HIDE DEF n
      <4> QED
        BY <1>1, <2>5, <4>1, Nearer
    <3>2. n - tree.rank[j] \notin Bad
      <4> HIDE DEF Bad
      <4> QED
        BY <2>2, <3>1
    <3> HIDE DEF Lost
    <3> QED
      BY <3>2
  <2>6. CASE p = i
    BY <1>3, <2>3, <2>6
  <2>7. CASE p < i
    <3>1. GoesLeft(x, tree.addr[i]) /\ x # tree.addr[i]
      BY <1>1, <2>7, Ordered DEF Sorted
    <3>2. f[i] = f[left(i)]
      BY <1>3, <3>1 DEF Onward
    <3>3. lo + 1 # i
      BY <1>1, <2>4, <2>7
    <3>4. left(i) \in Nodes /\ Covers(left(i), lo, i) /\ tree.rank[left(i)] > tree.rank[i]
      BY <2>4, <3>3, LeftCovers
    <3>5. ~Lost(left(i))
      <4> HIDE DEF Lost
      <4> QED
        BY <2>5, <3>4
    <3>6. f[left(i)] = p
      BY <1>1, <2>4, <2>7, <3>4, <3>5
    <3> QED
      BY <2>3, <3>2, <3>6
  <2>8. CASE p > i
    <3>1. ~GoesLeft(x, tree.addr[i]) /\ x # tree.addr[i]
      BY <1>1, <2>8, Ordered DEF Sorted
    <3>2. f[i] = f[right(i)]
      BY <1>3, <3>1 DEF Onward
    <3>3. i + 1 # hi
      BY <1>1, <2>4, <2>8
    <3>4. right(i) \in Nodes /\ Covers(right(i), i, hi) /\ tree.rank[right(i)] > tree.rank[i]
      BY <2>4, <3>3, RightCovers
    <3>5. ~Lost(right(i))
      <4> HIDE DEF Lost
      <4> QED
        BY <2>5, <3>4
    <3>6. f[right(i)] = p
      BY <1>1, <2>4, <2>8, <3>4, <3>5
    <3> QED
      BY <2>3, <3>2, <3>6
  <2> QED
    BY <1>1, <2>6, <2>7, <2>8
<1>5. root \in Nodes /\ Covers(root, 0, n + 1)
  BY <1>1, RootCovers
<1>6. ~Lost(root)
  BY <1>4, <1>5
<1>7. f[root] = p
  BY <1>1, <1>5, <1>6
<1> QED
  BY <1>7, LookupIs DEF f

\* No other address is found.
LEMMA LooksAway ==
  ASSUME Shaped, NEW x \in Addr, \A i \in Nodes : tree.addr[i] # x
  PROVE  ban_lookup(x) = Nil
<1> DEFINE n == Len(tree.addr)
           f == CHOOSE f : Looks(x, f)
           Bad == {n - tree.rank[i] : i \in {j \in Nodes : f[j] # Nil}}
<1>1. n \in Nat /\ Nodes = 1..n /\ \A i \in Nodes : tree.rank[i] \in 1..n
  BY ShapeIs
<1>2. f = [i \in Nodes \union {Nil} |-> IF i = Nil \/ x = tree.addr[i] THEN i ELSE f[Onward(x, i)]]
  BY LooksExists, LooksDown
<1> HIDE DEF f
<1>3. f[Nil] = Nil /\ \A i \in Nodes : f[i] = f[Onward(x, i)]
  BY <1>1, <1>2 DEF Nil
<1>4. Bad = {}
  <2> SUFFICES ASSUME Bad # {} PROVE FALSE
    OBVIOUS
  <2>1. Bad \in SUBSET Nat
    BY <1>1
  <2> HIDE DEF Bad
  <2>2. PICK m \in Bad : \A k \in Nat : k < m => k \notin Bad
    BY <2>1, LeastBad
  <2> USE DEF Bad
  <2>3. PICK i \in Nodes : f[i] # Nil /\ m = n - tree.rank[i]
    BY <2>2
  <2>4. ASSUME NEW j \in Nodes, tree.rank[j] > tree.rank[i] PROVE f[j] = Nil
    <3>1. n - tree.rank[j] \in Nat /\ n - tree.rank[j] < m
      <4>1. m = n - tree.rank[i]
        BY <2>3
      <4> HIDE DEF n
      <4> QED
        BY <1>1, <2>4, <4>1, Nearer
    <3>2. n - tree.rank[j] \notin Bad
      <4> HIDE DEF Bad
      <4> QED
        BY <2>2, <3>1
    <3> QED
      BY <3>2
  <2> QED
    BY <1>3, <2>3, <2>4, Below
<1>5. root = Nil \/ root \in Nodes
  BY RootCovers
<1>6. f[root] = Nil
  BY <1>3, <1>4, <1>5
<1> QED
  BY <1>6, LookupIs DEF f

\* The function of the nodes that Place takes at the root.
Falls(x, f) ==
  f = [i \in Nodes |->
         IF GoesLeft(x, tree.addr[i])
         THEN IF left(i) = Nil THEN i ELSE f[left(i)]
         ELSE IF right(i) = Nil THEN i + 1 ELSE f[right(i)]]

\* There is one.
LEMMA FallsExists ==
  ASSUME Shaped, NEW x
  PROVE  Falls(x, CHOOSE f : Falls(x, f))
<1> DEFINE n == Len(tree.addr)
           rank == tree.rank
           ends == [i \in Nodes |-> Onward(x, i) = Nil]
           value == [i \in Nodes |-> IF GoesLeft(x, tree.addr[i]) THEN i ELSE i + 1]
           next == [i \in Nodes |-> Onward(x, i)]
<1>1. n \in Nat /\ \A i \in Nodes : rank[i] \in 0..n
  BY ShapeIs
<1>2. \A i \in Nodes : ~ends[i] => next[i] \in Nodes /\ rank[next[i]] > rank[i]
  BY Below
<1>3. \A f : Descends(f, Nodes, ends, value, next) => Falls(x, f)
  <2> SUFFICES ASSUME NEW f, Descends(f, Nodes, ends, value, next)
               PROVE  Falls(x, f)
    OBVIOUS
  <2>1. f = [i \in Nodes |->
               IF Onward(x, i) = Nil
               THEN IF GoesLeft(x, tree.addr[i]) THEN i ELSE i + 1
               ELSE f[Onward(x, i)]]
    BY DEF Descends
  <2>2. \A i \in Nodes :
          (IF Onward(x, i) = Nil
           THEN IF GoesLeft(x, tree.addr[i]) THEN i ELSE i + 1
           ELSE f[Onward(x, i)])
          = IF GoesLeft(x, tree.addr[i])
            THEN IF left(i) = Nil THEN i ELSE f[left(i)]
            ELSE IF right(i) = Nil THEN i + 1 ELSE f[right(i)]
    BY DEF Onward
  <2> QED
    BY <2>1, <2>2 DEF Falls
<1> HIDE DEF n, rank, ends, value, next
<1>4. \E f : Descends(f, Nodes, ends, value, next)
  BY <1>1, <1>2, DescentExists
<1> QED
  BY <1>3, <1>4

LEMMA PlaceIs ==
  \A x : Place(x) = IF root = Nil THEN 1 ELSE (CHOOSE f : Falls(x, f))[root]
BY DEF Place, Falls

\* Where x belongs: behind those before it and ahead of those after it.
Belongs(x, q) ==
  /\ q \in 1..(Len(tree.addr) + 1)
  /\ \A j \in Nodes : j < q => GoesLeft(tree.addr[j], x)
  /\ \A j \in Nodes : j >= q => GoesLeft(x, tree.addr[j])

\* A new address belongs somewhere.
LEMMA SomewhereBelongs ==
  ASSUME Shaped, Sorted, NEW x \in Addr, \A i \in Nodes : tree.addr[i] # x
  PROVE  \E q : Belongs(x, q)
<1> DEFINE n == Len(tree.addr)
           After == {j \in Nodes : GoesLeft(x, tree.addr[j])} \union {n + 1}
<1>1. n \in Nat /\ Nodes = 1..n /\ \A i \in Nodes : tree.addr[i] \in Addr
  BY ShapeIs
<1>2. After \in SUBSET Nat /\ n + 1 \in After
  BY <1>1
<1> HIDE DEF After
<1>3. PICK q \in After : \A k \in Nat : k < q => k \notin After
  BY <1>2, LeastBad
<1> USE DEF After
<1>4. q \in 1..(n + 1)
  BY <1>1
<1>5. ASSUME NEW j \in Nodes, j < q PROVE GoesLeft(tree.addr[j], x)
  <2>1. ~GoesLeft(x, tree.addr[j])
    BY <1>1, <1>3, <1>5
  <2> QED
    BY <1>1, <2>1, Ordered
<1>6. ASSUME NEW j \in Nodes, j >= q PROVE GoesLeft(x, tree.addr[j])
  <2>1. q \in Nodes /\ GoesLeft(x, tree.addr[q])
    BY <1>1, <1>6
  <2>2. j = q \/ GoesLeft(tree.addr[q], tree.addr[j])
    BY <1>1, <1>6, <2>1 DEF Sorted
  <2> QED
    BY <1>1, <2>1, <2>2, Ordered
<1> QED
  BY <1>4, <1>5, <1>6 DEF Belongs

\* The insertion comes down where it does.
LEMMA PlaceBelongs ==
  ASSUME Shaped, NEW x \in Addr, NEW q, Belongs(x, q)
  PROVE  Place(x) = q
<1> DEFINE n == Len(tree.addr)
           f == CHOOSE f : Falls(x, f)
           Astray(i) == f[i] # q /\ \E lo, hi \in Int : Covers(i, lo, hi) /\ lo < q /\ q <= hi
           Bad == {n - tree.rank[i] : i \in {j \in Nodes : Astray(j)}}
<1>1. n \in Nat /\ Nodes = 1..n /\ \A i \in Nodes : tree.rank[i] \in 1..n /\ tree.addr[i] \in Addr
  BY ShapeIs
<1>2. Falls(x, f)
  BY FallsExists
<1> HIDE DEF f
<1>3. \A i \in Nodes : f[i] = IF GoesLeft(x, tree.addr[i])
                              THEN IF left(i) = Nil THEN i ELSE f[left(i)]
                              ELSE IF right(i) = Nil THEN i + 1 ELSE f[right(i)]
  BY <1>2 DEF Falls
<1>4. /\ q \in 1..(n + 1)
      /\ \A j \in Nodes : j < q => ~GoesLeft(x, tree.addr[j])
      /\ \A j \in Nodes : j >= q => GoesLeft(x, tree.addr[j])
  <2>1. \A j \in Nodes : GoesLeft(tree.addr[j], x) => ~GoesLeft(x, tree.addr[j])
    BY <1>1, Ordered
  <2> QED
    BY <2>1 DEF Belongs
<1>5. Bad = {}
  <2> SUFFICES ASSUME Bad # {} PROVE FALSE
    OBVIOUS
  <2>1. Bad \in SUBSET Nat
    BY <1>1
  <2> HIDE DEF Bad
  <2>2. PICK m \in Bad : \A k \in Nat : k < m => k \notin Bad
    BY <2>1, LeastBad
  <2> USE DEF Bad
  <2>3. PICK i \in Nodes : Astray(i) /\ m = n - tree.rank[i]
    BY <2>2
  <2>4. PICK lo, hi \in Int : Covers(i, lo, hi) /\ lo < q /\ q <= hi
    BY <2>3
  <2>5. ASSUME NEW j \in Nodes, tree.rank[j] > tree.rank[i] PROVE ~Astray(j)
    <3>1. n - tree.rank[j] \in Nat /\ n - tree.rank[j] < m
      <4>1. m = n - tree.rank[i]
        BY <2>3
      <4> HIDE DEF n
      <4> QED
        BY <1>1, <2>5, <4>1, Nearer
    <3>2. n - tree.rank[j] \notin Bad
      <4> HIDE DEF Bad
      <4> QED
        BY <2>2, <3>1
    <3> HIDE DEF Astray
    <3> QED
      BY <3>2
  <2>6. lo \in 0..(i - 1) /\ hi \in (i + 1)..(n + 1) /\ i \in Nat
    BY <1>1, <2>4 DEF Covers
  <2>7. CASE q <= i
    <3>1. GoesLeft(x, tree.addr[i])
      BY <1>1, <1>4, <2>7
    <3>2. CASE lo + 1 = i
      <4>1. left(i) = Nil
        BY <2>4, <3>2, LeftCovers
      <4>2. f[i] = i
        BY <1>3, <3>1, <4>1
      <4> QED
        BY <1>4, <2>3, <2>4, <2>6, <2>7, <3>2, <4>2
    <3>3. CASE lo + 1 # i
      <4>1. left(i) \in Nodes /\ Covers(left(i), lo, i) /\ tree.rank[left(i)] > tree.rank[i]
        BY <2>4, <3>3, LeftCovers
      <4>2. f[i] = f[left(i)]
        BY <1>1, <1>3, <3>1, <4>1 DEF Nil
      <4>3. ~Astray(left(i))
        <5> HIDE DEF Astray
        <5> QED
          BY <2>5, <4>1
      <4>4. f[left(i)] = q
        BY <2>4, <2>6, <2>7, <4>1, <4>3
      <4> QED
        BY <2>3, <4>2, <4>4
    <3> QED
      BY <3>2, <3>3
  <2>8. CASE q > i
    <3>1. ~GoesLeft(x, tree.addr[i])
      BY <1>1, <1>4, <2>8
    <3>2. CASE i + 1 = hi
      <4>1. right(i) = Nil
        BY <2>4, <3>2, RightCovers
      <4>2. f[i] = i + 1
        BY <1>3, <3>1, <4>1
      <4> QED
        BY <1>4, <2>3, <2>4, <2>6, <2>8, <3>2, <4>2
    <3>3. CASE i + 1 # hi
      <4>1. right(i) \in Nodes /\ Covers(right(i), i, hi) /\ tree.rank[right(i)] > tree.rank[i]
        BY <2>4, <3>3, RightCovers
      <4>2. f[i] = f[right(i)]
        BY <1>1, <1>3, <3>1, <4>1 DEF Nil
      <4>3. ~Astray(right(i))
        <5> HIDE DEF Astray
        <5> QED
          BY <2>5, <4>1
      <4>4. f[right(i)] = q
        BY <2>4, <2>6, <2>8, <4>1, <4>3
      <4> QED
        BY <2>3, <4>2, <4>4
    <3> QED
      BY <3>2, <3>3
  <2> QED
    BY <1>4, <2>6, <2>7, <2>8
<1>6. CASE n = 0
  <2>1. root = Nil /\ q = 1
    BY <1>4, <1>6, RootCovers
  <2> QED
    BY <2>1, PlaceIs
<1>7. CASE n # 0
  <2>1. root \in Nodes /\ Covers(root, 0, n + 1)
    BY <1>7, RootCovers
  <2>2. ~Astray(root)
    BY <1>5, <2>1
  <2>3. f[root] = q
    BY <1>1, <1>4, <2>1, <2>2
  <2>4. root # Nil
    BY <1>1, <2>1 DEF Nil
  <2> QED
    BY <2>3, <2>4, PlaceIs DEF f
<1> QED
  BY <1>6, <1>7

------------------------------------------------------------------------------
(* Insertion and removal keep the order. *)

\* An inserted element shifts those from its place on by one.
LEMMA InsertAtShifts ==
  ASSUME NEW S, NEW s \in Seq(S), NEW k \in 1..(Len(s) + 1), NEW e \in S
  PROVE  /\ InsertAt(s, k, e) \in Seq(S)
         /\ Len(InsertAt(s, k, e)) = Len(s) + 1
         /\ \A j \in 1..(Len(s) + 1) :
              InsertAt(s, k, e)[j] = IF j < k THEN s[j] ELSE IF j = k THEN e ELSE s[j - 1]
<1> DEFINE n == Len(s)
           front == SubSeq(s, 1, k - 1)
           back == SubSeq(s, k, Len(s))
<1>1. n \in Nat /\ k \in 1..(n + 1) /\ \A j \in 1..n : s[j] \in S
  BY LenProperties, ElementOfSeq
<1>2. /\ front \in Seq(S) /\ Len(front) = k - 1
      /\ \A j \in 1..(k - 1) : front[j] = s[j]
  OBVIOUS
<1>3. /\ back \in Seq(S) /\ Len(back) = n - k + 1
      /\ \A j \in 1..(n - k + 1) : back[j] = s[k + j - 1]
  OBVIOUS
<1>4. InsertAt(s, k, e) = front \o <<e>> \o back
  BY DEF InsertAt
<1> HIDE DEF front, back, n
<1>5. /\ front \o <<e>> \in Seq(S) /\ Len(front \o <<e>>) = k
      /\ \A j \in 1..k : (front \o <<e>>)[j] = IF j < k THEN s[j] ELSE e
  <2>1. <<e>> \in Seq(S) /\ Len(<<e>>) = 1 /\ <<e>>[1] = e
    OBVIOUS
  <2> DEFINE one == <<e>>
             some == front \o one
  <2>2. one \in Seq(S) /\ Len(one) = 1 /\ one[1] = e
    BY <2>1
  <2> HIDE DEF one
  <2>3. some \in Seq(S)
    BY <1>2, <2>2, ConcatProperties
  <2>4. Len(some) = Len(front) + Len(one)
    BY <1>2, <2>2, ConcatProperties
  <2>5. \A j \in 1..(Len(front) + Len(one)) :
          some[j] = IF j <= Len(front) THEN front[j] ELSE one[j - Len(front)]
    BY <1>2, <2>2, ConcatProperties
  <2> HIDE DEF some
  <2>6. Len(some) = k /\ Len(front) + Len(one) = k
    BY <1>1, <1>2, <2>2, <2>4
  <2>7. \A j \in 1..k : some[j] = IF j < k THEN s[j] ELSE e
    BY <1>1, <1>2, <2>2, <2>5, <2>6
  <2> QED
    BY <2>3, <2>6, <2>7 DEF some, one
<1> DEFINE head == front \o <<e>>
           all == head \o back
<1>6. /\ head \in Seq(S) /\ Len(head) = k
      /\ \A j \in 1..k : head[j] = IF j < k THEN s[j] ELSE e
  BY <1>5
<1> HIDE DEF head
<1>7. /\ all \in Seq(S) /\ Len(all) = k + (n - k + 1)
      /\ \A j \in 1..(k + (n - k + 1)) : all[j] = IF j <= k THEN head[j] ELSE back[j - k]
  <2>1. all \in Seq(S)
    BY <1>3, <1>6, ConcatProperties
  <2>2. Len(all) = k + (n - k + 1)
    <3>1. Len(all) = Len(head) + Len(back)
      BY <1>3, <1>6, ConcatProperties
    <3> QED
      BY <1>3, <1>6, <3>1
  <2>3. \A j \in 1..(k + (n - k + 1)) : all[j] = IF j <= k THEN head[j] ELSE back[j - k]
    BY <1>3, <1>6, ConcatProperties
  <2> QED
    BY <2>1, <2>2, <2>3
<1>8. InsertAt(s, k, e) = all
  BY <1>4 DEF head
<1> HIDE DEF all
<1>9. k + (n - k + 1) = n + 1
  BY <1>1
<1>10. ASSUME NEW j \in 1..(n + 1)
       PROVE  all[j] = IF j < k THEN s[j] ELSE IF j = k THEN e ELSE s[j - 1]
  <2>1. all[j] = IF j <= k THEN head[j] ELSE back[j - k]
    BY <1>7, <1>9
  <2>2. CASE j <= k
    BY <1>1, <1>6, <2>1, <2>2
  <2>3. CASE j > k
    <3>1. j - k \in 1..(n - k + 1) /\ k + (j - k) - 1 = j - 1
      BY <1>1, <2>3
    <3>2. back[j - k] = s[j - 1]
      BY <1>3, <3>1
    <3> QED
      BY <1>1, <2>1, <2>3, <3>2
  <2> QED
    BY <1>1, <2>2, <2>3
<1> QED
  BY <1>7, <1>8, <1>9, <1>10 DEF n

\* A removed one lets those after it move up.
LEMMA RemoveAtShifts ==
  ASSUME NEW S, NEW s \in Seq(S), NEW k \in 1..Len(s)
  PROVE  /\ RemoveAt(s, k) \in Seq(S)
         /\ Len(RemoveAt(s, k)) = Len(s) - 1
         /\ \A j \in 1..(Len(s) - 1) :
              RemoveAt(s, k)[j] = IF j < k THEN s[j] ELSE s[j + 1]
<1> DEFINE n == Len(s)
           front == SubSeq(s, 1, k - 1)
           back == SubSeq(s, k + 1, Len(s))
<1>1. n \in Nat /\ k \in 1..n
  BY LenProperties
<1>2. /\ front \in Seq(S) /\ Len(front) = k - 1
      /\ \A j \in 1..(k - 1) : front[j] = s[j]
  OBVIOUS
<1>3. /\ back \in Seq(S) /\ Len(back) = n - k
      /\ \A j \in 1..(n - k) : back[j] = s[k + j]
  OBVIOUS
<1>4. RemoveAt(s, k) = front \o back
  BY DEF RemoveAt
<1> DEFINE all == front \o back
<1> HIDE DEF front, back, n
<1>5. /\ all \in Seq(S) /\ Len(all) = (k - 1) + (n - k)
      /\ \A j \in 1..((k - 1) + (n - k)) :
           all[j] = IF j <= k - 1 THEN front[j] ELSE back[j - (k - 1)]
  <2>1. all \in Seq(S)
    BY <1>2, <1>3, ConcatProperties
  <2>2. Len(all) = (k - 1) + (n - k)
    <3>1. Len(all) = Len(front) + Len(back)
      BY <1>2, <1>3, ConcatProperties
    <3> QED
      BY <1>2, <1>3, <3>1
  <2>3. \A j \in 1..((k - 1) + (n - k)) :
          all[j] = IF j <= k - 1 THEN front[j] ELSE back[j - (k - 1)]
    BY <1>2, <1>3, ConcatProperties
  <2> QED
    BY <2>1, <2>2, <2>3
<1> HIDE DEF all
<1>6. (k - 1) + (n - k) = n - 1
  BY <1>1
<1>7. ASSUME NEW j \in 1..(n - 1)
      PROVE  all[j] = IF j < k THEN s[j] ELSE s[j + 1]
  <2>1. all[j] = IF j <= k - 1 THEN front[j] ELSE back[j - (k - 1)]
    BY <1>5, <1>6
  <2>2. CASE j < k
    BY <1>1, <1>2, <2>1, <2>2
  <2>3. CASE j >= k
    <3>1. j - (k - 1) \in 1..(n - k) /\ k + (j - (k - 1)) = j + 1
      BY <1>1, <2>3
    <3>2. back[j - (k - 1)] = s[j + 1]
      BY <1>3, <3>1
    <3> QED
      BY <1>1, <2>1, <2>3, <3>2
  <2> QED
    BY <1>1, <2>2, <2>3
<1> QED
  BY <1>4, <1>5, <1>6, <1>7 DEF n, all

\* The tree is a tree over addresses in order.
TreeInv == Shaped /\ Sorted

\* An address that is not found is put where it belongs.
LEMMA InsertKeepsOrder ==
  ASSUME TreeInv, NEW x \in Addr, ban_lookup(x) = Nil, ban_rbtree_insert(x)
  PROVE  TreeInv'
<1> DEFINE n == Len(tree.addr)
           s == tree.addr
           t == tree'.addr
<1>1. n \in Nat /\ Nodes = 1..n /\ s \in Seq(Addr) /\ \A i \in Nodes : s[i] \in Addr
  BY ShapeIs DEF TreeInv, Shaped
<1>2. \A i \in Nodes : s[i] # x
  <2> SUFFICES ASSUME NEW i \in Nodes, s[i] = x PROVE FALSE
    OBVIOUS
  <2>1. ban_lookup(x) = i
    BY LooksUp DEF TreeInv
  <2> QED
    BY <1>1, <2>1 DEF Nil
<1>3. PICK q : Belongs(x, q)
  BY <1>2, SomewhereBelongs DEF TreeInv
<1>4. Place(x) = q
  BY <1>3, PlaceBelongs DEF TreeInv
<1>5. t = InsertAt(s, q, x) /\ tree'.rank \in Ranks(n + 1)
  BY <1>4 DEF ban_rbtree_insert
<1>6. /\ q \in 1..(n + 1)
      /\ \A j \in 1..n : j < q => GoesLeft(s[j], x)
      /\ \A j \in 1..n : j >= q => GoesLeft(x, s[j])
  BY <1>1, <1>3 DEF Belongs
<1>7. /\ t \in Seq(Addr) /\ Len(t) = n + 1
      /\ \A j \in 1..(n + 1) : t[j] = IF j < q THEN s[j] ELSE IF j = q THEN x ELSE s[j - 1]
  <2> HIDE DEF n, s, t
  <2>1. q \in 1..(Len(s) + 1) /\ Len(s) = n
    BY <1>6 DEF n, s
  <2>2. s \in Seq(Addr)
    BY <1>1
  <2>3. InsertAt(s, q, x) \in Seq(Addr)
    BY <2>1, <2>2, InsertAtShifts
  <2>4. Len(InsertAt(s, q, x)) = Len(s) + 1
    BY <2>1, <2>2, InsertAtShifts
  <2>5. ASSUME NEW j \in 1..(Len(s) + 1)
        PROVE  InsertAt(s, q, x)[j] = IF j < q THEN s[j] ELSE IF j = q THEN x ELSE s[j - 1]
    BY <2>1, <2>2, InsertAtShifts
  <2> QED
    BY <1>5, <2>1, <2>3, <2>4, <2>5
<1>8. \A i, j \in 1..n : i < j => GoesLeft(s[i], s[j])
  BY <1>1 DEF TreeInv, Sorted
<1>9. DOMAIN t = 1..(n + 1)
  BY <1>7, LenProperties
<1>10. Shaped'
  BY <1>5, <1>7 DEF Shaped
<1> HIDE DEF n, s, t
<1>11. ASSUME NEW i \in 1..(n + 1), NEW j \in 1..(n + 1), i < j
       PROVE  GoesLeft(t[i], t[j])
  <2>1. t[i] = (IF i < q THEN s[i] ELSE IF i = q THEN x ELSE s[i - 1])
        /\ t[j] = (IF j < q THEN s[j] ELSE IF j = q THEN x ELSE s[j - 1])
    BY <1>7
  <2>2. CASE j < q
    BY <1>1, <1>6, <1>8, <1>11, <2>1, <2>2
  <2>3. CASE j = q
    BY <1>1, <1>6, <1>11, <2>1, <2>3
  <2>4. CASE j > q
    <3>1. j - 1 \in 1..n /\ t[j] = s[j - 1]
      BY <1>1, <1>6, <2>1, <2>4
    <3>2. CASE i < q
      <4>1. i \in 1..n /\ i < j - 1 /\ t[i] = s[i]
        BY <1>1, <1>6, <1>11, <2>1, <2>4, <3>2
      <4> QED
        BY <1>8, <3>1, <4>1
    <3>3. CASE i = q
      <4>1. j - 1 >= q /\ t[i] = x
        BY <1>1, <1>6, <2>1, <2>4, <3>3
      <4> QED
        BY <1>6, <3>1, <4>1
    <3>4. CASE i > q
      <4>1. i - 1 \in 1..n /\ i - 1 < j - 1 /\ t[i] = s[i - 1]
        BY <1>1, <1>6, <1>11, <2>1, <3>4
      <4> QED
        BY <1>8, <3>1, <4>1
    <3> QED
      BY <1>6, <3>2, <3>3, <3>4
  <2> QED
    BY <1>6, <2>2, <2>3, <2>4
<1>12. Sorted'
  BY <1>9, <1>11 DEF Sorted, Nodes, t
<1> QED
  BY <1>10, <1>12 DEF TreeInv

\* A removal leaves the others in order.
LEMMA DeleteKeepsOrder ==
  ASSUME TreeInv, NEW k \in Nodes, rbtree_delete(k)
  PROVE  TreeInv'
<1> DEFINE n == Len(tree.addr)
           s == tree.addr
           t == tree'.addr
<1>1. n \in Nat /\ Nodes = 1..n /\ s \in Seq(Addr) /\ k \in 1..n
  BY ShapeIs DEF TreeInv, Shaped
<1>2. t = RemoveAt(s, k) /\ tree'.rank \in Ranks(n - 1)
  BY DEF rbtree_delete
<1>3. /\ t \in Seq(Addr) /\ Len(t) = n - 1
      /\ \A j \in 1..(n - 1) : t[j] = IF j < k THEN s[j] ELSE s[j + 1]
  BY <1>1, <1>2, RemoveAtShifts
<1>4. \A i, j \in 1..n : i < j => GoesLeft(s[i], s[j])
  BY <1>1 DEF TreeInv, Sorted
<1>5. DOMAIN t = 1..(n - 1)
  BY <1>3, LenProperties
<1>6. Shaped'
  BY <1>2, <1>3 DEF Shaped
<1> HIDE DEF n, s, t
<1>7. ASSUME NEW i \in 1..(n - 1), NEW j \in 1..(n - 1), i < j
      PROVE  GoesLeft(t[i], t[j])
  <2>1. PICK a \in 1..n : t[i] = s[a] /\ a = IF i < k THEN i ELSE i + 1
    BY <1>1, <1>3
  <2>2. PICK b \in 1..n : t[j] = s[b] /\ b = IF j < k THEN j ELSE j + 1
    BY <1>1, <1>3
  <2>3. a < b
    BY <1>1, <1>7, <2>1, <2>2
  <2> QED
    BY <1>4, <2>1, <2>2, <2>3
<1>8. Sorted'
  BY <1>5, <1>7 DEF Sorted, Nodes, t
<1> QED
  BY <1>6, <1>8 DEF TreeInv

LEMMA TreeInvInit == Init => TreeInv /\ key \in Addr \union {None}
<1> SUFFICES ASSUME Init PROVE TreeInv
  BY DEF Init
<1>1. tree.addr = <<>> /\ tree.rank = <<>>
  BY DEF Init, EmptyTree
<1>2. Len(tree.addr) = 0 /\ Nodes = {} /\ tree.addr \in Seq(Addr)
  BY <1>1 DEF Nodes
<1>3. tree.rank \in Ranks(0)
  BY <1>1 DEF Ranks, IsInjective
<1> QED
  BY <1>2, <1>3 DEF TreeInv, Shaped, Sorted

LEMMA TreeInvNext ==
  TreeInv /\ key \in Addr \union {None} /\ [Next]_vars
    => (TreeInv /\ key \in Addr \union {None})'
<1> SUFFICES ASSUME TreeInv, key \in Addr \union {None}, [Next]_vars
             PROVE  TreeInv' /\ key' \in Addr \union {None}
  OBVIOUS
<1>1. tree' = tree => TreeInv'
  BY DEF TreeInv, Shaped, Sorted, Nodes
<1>2. CASE Arrive
  BY <1>1, <1>2 DEF Arrive
<1>3. CASE Key
  BY <1>1, <1>3 DEF Key, ban_addr, ban_sockaddr_bytes
<1>4. CASE Record
  <2>1. key' = None
    BY <1>4 DEF Record
  <2>2. CASE key = None \/ ban_lookup(key) # Nil \/ Len(tree.addr) = MaxNodes
    BY <1>1, <1>4, <2>1, <2>2 DEF Record
  <2>3. CASE ~(key = None \/ ban_lookup(key) # Nil \/ Len(tree.addr) = MaxNodes)
    <3>1. key \in Addr /\ ban_lookup(key) = Nil /\ ban_rbtree_insert(key)
      BY <1>4, <2>3 DEF Record
    <3> QED
      BY <2>1, <3>1, InsertKeepsOrder
  <2> QED
    BY <2>2, <2>3
<1>5. CASE Evict
  <2>1. key' = key /\ \E i \in Nodes : rbtree_delete(i)
    BY <1>5 DEF Evict
  <2> QED
    BY <2>1, DeleteKeepsOrder
<1>6. CASE UNCHANGED vars
  BY <1>1, <1>6 DEF vars
<1> QED
  BY <1>2, <1>3, <1>4, <1>5, <1>6 DEF Next

\* In a tree in order each address is found where it is.
LEMMA OrderMakesExact == TreeInv => LookupExact
<1> SUFFICES ASSUME TreeInv PROVE LookupExact
  OBVIOUS
<1>1. /\ Shaped /\ Sorted /\ Nodes \in SUBSET Int
      /\ \A i \in Nodes : tree.addr[i] \in Addr
  BY ShapeIs DEF TreeInv
<1>2. \A i, j \in Nodes : tree.addr[i] = tree.addr[j] => i = j
  <2> SUFFICES ASSUME NEW i \in Nodes, NEW j \in Nodes, i < j, tree.addr[i] = tree.addr[j]
               PROVE  FALSE
    BY <1>1
  <2>1. GoesLeft(tree.addr[i], tree.addr[i])
    BY <1>1 DEF Sorted
  <2> QED
    BY <1>1, <2>1, Ordered
<1>3. ASSUME NEW x \in Addr
      PROVE  ban_lookup(x) = IF x \in InTree THEN CHOOSE i \in Nodes : tree.addr[i] = x ELSE Nil
  <2>1. CASE x \in InTree
    <3>1. PICK p \in Nodes : tree.addr[p] = x
      BY <2>1 DEF InTree, ToSet, Nodes
    <3>2. ban_lookup(x) = p
      BY <1>1, <3>1, LooksUp
    <3>3. (CHOOSE i \in Nodes : tree.addr[i] = x) = p
      BY <1>2, <3>1
    <3> QED
      BY <2>1, <3>2, <3>3
  <2>2. CASE x \notin InTree
    <3>1. \A i \in Nodes : tree.addr[i] # x
      BY <2>2 DEF InTree, ToSet, Nodes
    <3> QED
      BY <1>1, <2>2, <3>1, LooksAway
  <2> QED
    BY <2>1, <2>2
<1>4. IsInjective(tree.addr)
  BY <1>2 DEF IsInjective, Nodes
<1> QED
  BY <1>3, <1>4 DEF LookupExact

\* Whatever was inserted and removed, and however the tree was rebalanced, each
\* address with a node is found at that node, which is its only one, and no other
\* address is found, for every number of nodes, any addresses and any hash.
THEOREM LookupAlwaysExact == Spec => []LookupExact
<1>1. Spec => [](TreeInv /\ key \in Addr \union {None})
  BY TreeInvInit, TreeInvNext, PTL DEF Spec
<1> QED
  BY <1>1, OrderMakesExact, PTL
==============================================================================
