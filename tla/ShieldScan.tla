------------------------------ MODULE ShieldScan ------------------------------
(***************************************************************************)
(* The scanner of ngx_http_shield_scan.c: two automatons, one for the raw  *)
(* and one for the decoded copy of an input, built once from the tables of *)
(* signatures and rules, then run over every input.                        *)
(*                                                                         *)
(* A state of an automaton is named by the bytes that lead to it: the root *)
(* is <<>>, which is no target of the trie and so also stands for "absent" *)
(* while the automaton is built, as state 0 does in the code.              *)
(***************************************************************************)
EXTENDS Integers, Sequences, SequencesExt, FiniteSetsExt

CONSTANTS
  Tables,     \* compiled-in tables: their categories, their rules, and the
              \* inputs they are run on
  Byte,       \* the bytes of signatures and inputs
  Lower(_),   \* the lower-case form of a byte
  Hex(_, _),  \* the byte two hexadecimal digits stand for
  Digit,      \* the hexadecimal digits
  MAX_STATES, \* NGX_HTTP_SHIELD_AC_MAX_STATES
  MAX_TERMS   \* the bits of a term mask (64)

Flavour == {"raw", "decoded"}

\* There are finitely many bytes; decoding makes bytes of bytes.
ASSUME ByteAssumption ==
  /\ IsFiniteSet(Byte) /\ Digit \cup {"%", "+", " "} \subseteq Byte
  /\ \A b \in Byte : Lower(b) \in Byte
  /\ \A x, y \in Digit : Hex(x, y) \in Byte

\* A row has its category to itself, and nothing matches the empty text.
ASSUME TableAssumption ==
  \A t \in Tables :
    /\ t.categories \in Seq([cat : Nat, match : SUBSET Flavour, sigs : SUBSET Seq(Byte)])
    /\ t.rules \in Seq([cat : Nat, match : SUBSET Flavour, terms : SUBSET Seq(Byte)])
    /\ t.inputs \subseteq Seq(Byte)
    /\ \A i, j \in DOMAIN t.categories :
         t.categories[i].cat = t.categories[j].cat => i = j
    /\ \A i \in DOMAIN t.categories :
         IsFiniteSet(t.categories[i].sigs) /\ <<>> \notin t.categories[i].sigs
    /\ \A i \in DOMAIN t.rules :
         IsFiniteSet(t.rules[i].terms) /\ t.rules[i].terms # {} /\ <<>> \notin t.rules[i].terms

VARIABLES
  tables,   \* the tables of this build
  phase,    \* what is built next; "serving" once both automatons are
  ac,       \* the automatons
  fail,     \* fail links of the automaton being built
  queue,    \* its states whose transitions are not yet flattened
  verdict   \* the last input, its skip mask and what was found

vars == <<tables, phase, ac, fail, queue, verdict>>

NoRow == Len(tables.categories) + 1

Nothing == [data |-> <<>>, skip |-> {}, row |-> 0]

------------------------------------------------------------------------------
(* Building, for one flavour. *)

\* The rows and rules that take part.
Rows(f) == {i \in DOMAIN tables.categories : f \in tables.categories[i].match}
Rules(f) == {i \in DOMAIN tables.rules : f \in tables.rules[i].match}

\* A term is one bit, in both automatons the same.
Terms(f) == UNION {{i} \X tables.rules[i].terms : i \in Rules(f)}

Words(f) ==
  (UNION {tables.categories[i].sigs : i \in Rows(f)}) \union {t[2] : t \in Terms(f)}

\* Mutant: the terms of the rules take no room.
CapOfSigs(f) ==
  1 + MapThenSumSet(LAMBDA i : MapThenSumSet(Len, tables.categories[i].sigs), Rows(f))

\* The size the tables are allocated with: a state for every byte.
Cap(f) ==
  1 + MapThenSumSet(LAMBDA i : MapThenSumSet(Len, tables.categories[i].sigs), Rows(f))
    + MapThenSumSet(LAMBDA i : MapThenSumSet(Len, tables.rules[i].terms), Rules(f))

TooLarge(f) ==
  \/ MapThenSumSet(LAMBDA i : Cardinality(tables.rules[i].terms), DOMAIN tables.rules) > MAX_TERMS
  \/ Cap(f) > MAX_STATES

\* Which row reports a category: its own if it takes part, or any row if a rule
\* that takes part names the category.
RowOf(f, c) ==
  LET own == {i \in Rows(f) : tables.categories[i].cat = c}
      ruled == {i \in DOMAIN tables.categories :
                  /\ tables.categories[i].cat = c
                  /\ \E r \in Rules(f) : tables.rules[r].cat = c}
  IN  Min(own \union ruled \union {NoRow})

Cats == {tables.categories[i].cat : i \in DOMAIN tables.categories}
          \union {tables.rules[i].cat : i \in DOMAIN tables.rules}

\* The trie: a state for each prefix, with what ends in it.
Trie(f) ==
  LET states == {<<>>} \union UNION {Prefixes(w) : w \in Words(f)}
  IN  [next |-> [s \in states |-> [b \in Byte |->
                   IF Append(s, b) \in states THEN Append(s, b) ELSE <<>>]],
       out |-> [s \in states |->
                  {tables.categories[i].cat : i \in
                     {r \in Rows(f) : s \in tables.categories[r].sigs}}],
       rout |-> [s \in states |-> {t \in Terms(f) : t[2] = s}],
       need |-> [i \in DOMAIN tables.rules |-> {t \in Terms(f) : t[1] = i}],
       row |-> [c \in Cats |-> RowOf(f, c)]]

\* The targets of a state, in some order.
Children(a, s) == SetToSeq({a.next[s][b] : b \in Byte} \ {<<>>})

\* ngx_http_shield_init: the decoded automaton first; a failure of either stops
\* the configuration.
Init ==
  /\ tables \in Tables
  /\ phase = "decoded"
  /\ ac = <<>>
  /\ fail = <<>>
  /\ queue = <<>>
  /\ verdict = Nothing

BuildTrie ==
  /\ phase \in Flavour /\ phase \notin DOMAIN ac
  /\ ~TooLarge(phase)
  /\ ac' = [f \in DOMAIN ac \union {phase} |->
              IF f = phase THEN Trie(phase) ELSE ac[f]]
  /\ fail' = [s \in DOMAIN ac'[phase].next |-> <<>>]
  /\ queue' = Children(ac'[phase], <<>>)
  /\ UNCHANGED <<tables, phase, verdict>>

\* No room for the tables, or in the masks and state numbers.
BuildFails ==
  /\ phase \in Flavour /\ phase \notin DOMAIN ac
  /\ phase' = "failed"
  /\ UNCHANGED <<tables, ac, fail, queue, verdict>>

\* Mutant: a state that accepts a category of its own takes no other.
InheritIfNone(own, failed) == IF own = {} THEN failed ELSE own

\* What a state accepts besides what ends in it: all that its fail state does.
Inherit(own, failed) == own \union failed

\* One state of the queue: its absent transitions become those of its fail
\* state, its targets get their fail links and what these accept.
Flatten ==
  /\ phase \in DOMAIN ac /\ queue # <<>>
  /\ LET a == ac[phase]
         s == Head(queue)
         target == [b \in Byte |-> a.next[s][b]]
         back == [b \in Byte |-> a.next[fail[s]][b]]
         From(v) == back[CHOOSE b \in Byte : target[b] = v]
         targets == ToSet(Children(a, s))
     IN  /\ ac' = [ac EXCEPT ![phase] = [a EXCEPT
              !.next[s] = [b \in Byte |-> IF target[b] = <<>> THEN back[b] ELSE target[b]],
              !.out = [v \in DOMAIN a.out |->
                IF v \in targets THEN Inherit(a.out[v], a.out[From(v)]) ELSE a.out[v]],
              !.rout = [v \in DOMAIN a.rout |->
                IF v \in targets THEN a.rout[v] \union a.rout[From(v)] ELSE a.rout[v]]]]
         /\ fail' = [v \in DOMAIN fail |-> IF v \in targets THEN From(v) ELSE fail[v]]
         /\ queue' = Tail(queue) \o Children(a, s)
  /\ UNCHANGED <<tables, phase, verdict>>

Built ==
  /\ phase \in DOMAIN ac /\ queue = <<>>
  /\ phase' = IF phase = "decoded" THEN "raw" ELSE "serving"
  /\ UNCHANGED <<tables, ac, fail, queue, verdict>>

------------------------------------------------------------------------------
(* Running. *)

\* Mutant: the lowest category number instead of the lowest table row.
LowestCat(a, live) == a.row[Min(live)]

\* Which of the categories accepted at one byte is reported.
Winner(a, live) == Min({a.row[c] : c \in live})

\* A rule of this automaton all of whose terms were seen.
Complete(a, i, seen) == a.need[i] # {} /\ a.need[i] \subseteq seen

\* No signature fired: the first complete rule whose category is not skipped.
RuleRow(a, seen, skip) ==
  LET fired == {i \in DOMAIN tables.rules :
                  /\ Complete(a, i, seen)
                  /\ tables.rules[i].cat \notin skip
                  /\ a.row[tables.rules[i].cat] # NoRow}
  IN  IF seen = {} \/ fired = {} THEN NoRow
      ELSE a.row[tables.rules[Min(fired)].cat]

\* One lookup a byte; the first byte at which an enabled category is accepted
\* decides.
ac_scan(a, text, skip) ==
  LET Step(acc, b) ==
        IF acc.row # NoRow THEN acc
        ELSE LET s == a.next[acc.s][b]
                 live == a.out[s] \ skip
             IN  [s |-> s, seen |-> acc.seen \union a.rout[s],
                  row |-> IF live = {} THEN NoRow ELSE Winner(a, live)]
      end == FoldLeft(Step, [s |-> <<>>, seen |-> {}, row |-> NoRow], text)
  IN  IF end.row # NoRow THEN end.row ELSE RuleRow(a, end.seen, skip)

\* Percent-decoding as ngx_unescape_uri does it, once: a percent sign that is not
\* followed by two digits is dropped, and so is a lone digit after it with what
\* follows.
unescape_uri(data) ==
  LET Step(acc, b) ==
        CASE acc.quoted = <<>> ->
               IF b = "%" THEN [acc EXCEPT !.quoted = <<b>>]
                          ELSE [acc EXCEPT !.text = Append(@, b)]
          [] Len(acc.quoted) = 1 ->
               IF b \in Digit THEN [acc EXCEPT !.quoted = Append(@, b)]
                              ELSE [quoted |-> <<>>, text |-> Append(acc.text, b)]
          [] Len(acc.quoted) = 2 ->
               [quoted |-> <<>>,
                text |-> IF b \in Digit THEN Append(acc.text, Hex(acc.quoted[2], b))
                                        ELSE acc.text]
  IN  FoldLeft(Step, [quoted |-> <<>>, text |-> <<>>], data).text

strlow(data) == [i \in DOMAIN data |-> Lower(data[i])]

plus_to_space(data) == [i \in DOMAIN data |-> IF data[i] = "+" THEN " " ELSE data[i]]

Decode(data) == strlow(plus_to_space(unescape_uri(data)))

\* Both copies, the raw one first.
scan_input(data, skip) ==
  LET raw == ac_scan(ac["raw"], strlow(data), skip)
  IN  IF raw # NoRow THEN raw ELSE ac_scan(ac["decoded"], Decode(data), skip)

Scan ==
  /\ phase = "serving" /\ verdict = Nothing
  /\ \E data \in tables.inputs \ {<<>>}, skip \in SUBSET Cats :
       verdict' = [data |-> data, skip |-> skip, row |-> scan_input(data, skip)]
  /\ UNCHANGED <<tables, phase, ac, fail, queue>>

\* The next input.
Again == verdict # Nothing /\ verdict' = Nothing /\ UNCHANGED <<tables, phase, ac, fail, queue>>

\* The configuration was refused.
Refused == phase = "failed" /\ UNCHANGED vars

Next == BuildTrie \/ BuildFails \/ Flatten \/ Built \/ Scan \/ Again \/ Refused

Spec == Init /\ [][Next]_vars

------------------------------------------------------------------------------
(* Properties. *)

\* The tables are never written past the size they were allocated with: a state
\* is queued once, and the states are at most the bytes of the words.
WithinAllocation ==
  phase \in DOMAIN ac =>
    /\ Cardinality(DOMAIN ac[phase].next) <= Cap(phase)
    /\ Len(queue) < Cap(phase)
    /\ \A i, j \in DOMAIN queue : queue[i] = queue[j] => i = j

Longest(S) == CHOOSE s \in S : \A t \in S : Len(t) <= Len(s)

\* A finished automaton is in the state that is the longest end of what it has
\* read, and accepts there exactly the categories with a signature, and records
\* the terms, that end there - nested, overlapping and shared ones included
\* (the flattened fail links and the unions along them).
AutomatonExact ==
  (phase \in DOMAIN ac /\ queue = <<>>) =>
    LET a == ac[phase]
        states == DOMAIN a.next
    IN  \A s \in states :
          /\ \A b \in Byte :
               a.next[s][b] = Longest(Suffixes(Append(s, b)) \cap states)
          /\ a.out[s] = {tables.categories[i].cat : i \in
               {r \in Rows(phase) : tables.categories[r].sigs \cap Suffixes(s) # {}}}
          /\ a.rout[s] = {t \in Terms(phase) : t[2] \in Suffixes(s)}

\* The reference: word by word over the text.
EndsAt(w, text, n) == Len(w) <= n /\ SubSeq(text, n - Len(w) + 1, n) = w
Occurs(w, text) == \E n \in DOMAIN text : EndsAt(w, text, n)

NaiveScan(f, text, skip) ==
  LET enabled == {i \in Rows(f) : tables.categories[i].cat \notin skip}
      Hits(n) == {i \in enabled : \E w \in tables.categories[i].sigs : EndsAt(w, text, n)}
      at == {n \in DOMAIN text : Hits(n) # {}}
      Named(c) == {i \in DOMAIN tables.categories : tables.categories[i].cat = c}
      fired == {i \in Rules(f) : /\ tables.rules[i].cat \notin skip
                                 /\ Named(tables.rules[i].cat) # {}
                                 /\ \A t \in tables.rules[i].terms : Occurs(t, text)}
  IN  CASE at # {} -> Min(Hits(Min(at)))
        [] at = {} /\ fired # {} -> Min(Named(tables.rules[Min(fired)].cat))
        [] OTHER -> NoRow

\* What the scanner reports of an input is what a search for each enabled word
\* reports: the raw copy before the decoded one; in a copy the signature that
\* ends first, of those the one first in the table; then the first rule all of
\* whose terms occur.  A skipped category is not reported and hides no other,
\* and neither does a rule whose category is in no row.
VerdictIsReference ==
  verdict # Nothing =>
    LET raw == NaiveScan("raw", strlow(verdict.data), verdict.skip)
        decoded == NaiveScan("decoded",
                     strlow(plus_to_space(unescape_uri(verdict.data))), verdict.skip)
    IN  verdict.row = IF raw # NoRow THEN raw ELSE decoded
==============================================================================
