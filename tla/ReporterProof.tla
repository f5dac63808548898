----------------------------- MODULE ReporterProof -----------------------------
(***************************************************************************)
(* That the reporter passes no line before it is settled, leaves no file   *)
(* before it is drained, posts no line again without a cause, and keeps    *)
(* the daily cap and the window of an address - whatever the log does      *)
(* meanwhile and whenever the daemon stops or dies.                        *)
(*                                                                         *)
(* Two invariants carry this.  The one about the position relates where    *)
(* the daemon and its offset file stand to the lines of the files; the one *)
(* about the suppression relates what the daemon and its suppression file  *)
(* remember to the reports there have been.                                *)
(***************************************************************************)
EXTENDS Reporter, FiniteSetTheorems, SequenceTheorems, TLAPS

Verdict ==
  {"unread", "skipped", "torn", "posted", "dropped", "failed", "reported"}

\* The inodes the log has had.
Inodes == {f \in File : f \in DOMAIN renamed \/ f = path}

TypeOK ==
  /\ clock \in Nat
  /\ log \in [File -> Seq(Ip \union {Junk})]
  /\ torn \subseteq File /\ \A f \in torn : log[f] # <<>>
  /\ pc \in {"open", "read", "post", "record", "advance", "stat", "down"}
  /\ offset \in Nat /\ rotation_eofs \in Nat
  /\ offset_file \in [offset : Nat, inode : Inodes \union {NoFile}]
  /\ {fh, saved_inode} \subseteq Inodes \union {NoFile}
  /\ verdict \in [File -> Seq(Verdict)]
  /\ \A f \in File : Len(verdict[f]) = Len(log[f])
  /\ \A f \in DOMAIN renamed : renamed[f] \in Nat
  /\ truncated \subseteq File
  /\ used \in [DOMAIN Bound -> Nat]

\* Inodes are used one after the other; nothing has been written to those to come.
InodesInOrder ==
  /\ \E n \in 0..(MaxFiles - 1) : DOMAIN renamed = 1..n /\ path \in {n + 1, NoFile}
  /\ nginx \in Inodes
  /\ \A f \in File \ Inodes : log[f] = <<>>

\* The daemon has a file open unless it is to open one or is down.
HoldsFile ==
  /\ pc \in {"open", "down"} <=> fh = NoFile
  /\ fh # NoFile => saved_inode = fh

InHand == pc \in {"post", "record", "advance"}

Within(f, end) == f \in File \ truncated => end <= Size(f)

\* The offsets lie within their files, and so does a line in hand, whole.
OffsetsWithin ==
  /\ Within(saved_inode, offset)
  /\ Within(offset_file.inode, offset_file.offset)
  /\ InHand => Within(fh, 2 * Current)

OffsetsSettled ==
  /\ SettledUpTo(saved_inode, offset)
  /\ SettledUpTo(offset_file.inode, offset_file.offset)

\* The saved offset is not ahead of the daemon's, in a file it is in or may open.
SavedBehind ==
  (pc # "down" /\ offset_file.inode \in {path, saved_inode} \ (truncated \union {NoFile}))
    => saved_inode = offset_file.inode /\ offset_file.offset <= offset

\* An empty read counts only when the file had lost the path before it; a file
\* holds the lines it had then.
EofsCounted ==
  /\ \A f \in DOMAIN renamed \ truncated : renamed[f] <= Len(log[f])
  /\ rotation_eofs > 0 =>
       /\ fh # NoFile /\ fh # path
       /\ (pc = "stat" /\ fh \notin truncated) => offset >= 2 * renamed[fh] - 1

\* A line not got to yet: behind the one in hand, or not before the offset.
Ahead(i) == IF InHand THEN i > Current ELSE 2 * i - 1 > offset

Unposted(f, i) == verdict[f][i] \in {"unread", "failed"}

\* As long as the daemon runs, the lines it has not got to are not posted, and
\* those of a file it has not opened neither.
AheadUnposted ==
  used.restarts = 0 =>
    /\ pc # "down" /\ (pc = "open" => saved_inode = NoFile)
    /\ \A f \in File \ (DOMAIN renamed \union {fh} \union truncated) :
         \A i \in DOMAIN verdict[f] : Unposted(f, i)
    /\ fh \in File \ truncated =>
         \A i \in DOMAIN verdict[fh] : Ahead(i) => Unposted(fh, i)

PositionInv ==
  /\ TypeOK /\ InodesInOrder /\ HoldsFile /\ OffsetsWithin /\ OffsetsSettled
  /\ SavedBehind /\ EofsCounted /\ AheadUnposted
------------------------------------------------------------------------------
(* The constants and operators. *)

LEMMA ConstantsTyped ==
  /\ {window_s, daily_cap, Day, MaxFiles} \subseteq Nat \ {0}
  /\ window_s \in Nat /\ daily_cap \in Nat /\ Day \in Nat \ {0} /\ MaxFiles \in Nat
  /\ File = 1..MaxFiles /\ NoFile \notin File
<1>1. {window_s, daily_cap, Day, SAVE_EVERY, MaxFiles} \subseteq Nat \ {0}
  BY ReporterAssumption
<1>2. NoFile \notin 1..MaxFiles
  BY ReporterAssumption
<1> QED
  BY <1>1, <1>2 DEF File

LEMMA UsesTyped ==
  ASSUME used \in [DOMAIN Bound -> Nat], NEW kinds, Uses(kinds)
  PROVE  /\ used' \in [DOMAIN Bound -> Nat]
         /\ "restarts" \notin kinds => used'.restarts = used.restarts
         /\ "restarts" \in kinds => used'.restarts > 0
<1>1. "restarts" \in DOMAIN Bound
  BY DEF Bound
<1>2. DOMAIN used = DOMAIN Bound
  OBVIOUS
<1>3. used' = [k \in DOMAIN used |-> IF k \in kinds THEN used[k] + 1 ELSE used[k]]
  BY DEF Uses
<1> QED
  BY <1>1, <1>2, <1>3

LEMMA SizeBounds ==
  ASSUME TypeOK, NEW f \in File
  PROVE  /\ Size(f) \in Nat /\ Len(log[f]) \in Nat
         /\ 2 * Len(log[f]) - 1 <= Size(f) /\ Size(f) <= 2 * Len(log[f])
         /\ DOMAIN verdict[f] = 1..Len(log[f])
<1>1. log[f] \in Seq(Ip \union {Junk}) /\ verdict[f] \in Seq(Verdict)
  BY DEF TypeOK
<1>2. Len(log[f]) \in Nat /\ DOMAIN verdict[f] = 1..Len(verdict[f])
  BY <1>1
<1>3. f \in torn => Len(log[f]) > 0
  BY <1>1, <1>2 DEF TypeOK
<1> QED
  BY <1>2, <1>3 DEF TypeOK, Size

\* The line at the offset is the first that does not end before it.
LEMMA CurrentBounds ==
  ASSUME offset \in Nat
  PROVE  /\ Current \in Nat \ {0}
         /\ offset < 2 * Current /\ 2 * (Current - 1) <= offset
         /\ offset % 2 = 0 => offset = 2 * (Current - 1)
  BY DEF Current

LEMMA JudgeSetsOne ==
  ASSUME TypeOK, fh \in File, NEW what \in Verdict, Judge(what)
  PROVE  /\ verdict' \in [File -> Seq(Verdict)]
         /\ \A f \in File : /\ Len(verdict'[f]) = Len(verdict[f])
                            /\ DOMAIN verdict'[f] = DOMAIN verdict[f]
         /\ \A f \in File : \A i \in DOMAIN verdict[f] :
              verdict'[f][i] = IF f = fh /\ i = Current THEN what ELSE verdict[f][i]
<1>1. CASE Current \in DOMAIN verdict[fh]
  <2> DEFINE new == [verdict[fh] EXCEPT ![Current] = what]
  <2>1. verdict' = [verdict EXCEPT ![fh] = new]
    BY <1>1 DEF Judge
  <2>2. verdict[fh] \in Seq(Verdict) /\ verdict \in [File -> Seq(Verdict)]
    BY DEF TypeOK
  <2>3. Current \in 1..Len(verdict[fh])
    BY <1>1, <2>2
  <2>4. /\ new \in Seq(Verdict) /\ Len(new) = Len(verdict[fh])
        /\ \A i \in 1..Len(verdict[fh]) :
             new[i] = IF i = Current THEN what ELSE verdict[fh][i]
    BY <2>2, <2>3, ExceptSeq
  <2>5. \A f \in File : DOMAIN verdict[f] = 1..Len(verdict[f])
    BY <2>2
  <2>6. DOMAIN new = DOMAIN verdict[fh]
    OBVIOUS
  <2> HIDE DEF new
  <2>7. /\ verdict' \in [File -> Seq(Verdict)]
        /\ \A f \in File : verdict'[f] = IF f = fh THEN new ELSE verdict[f]
    BY <2>1, <2>2, <2>4
  <2> QED
    BY <2>4, <2>5, <2>6, <2>7
<1>2. CASE Current \notin DOMAIN verdict[fh]
  BY <1>2 DEF Judge, TypeOK
<1> QED
  BY <1>1, <1>2

------------------------------------------------------------------------------
(* The log. *)

\* What nginx and logrotate may do to what the daemon knows: a file only grows,
\* by unread lines, unless it is truncated, and an inode at the path is new.
WorldGrows ==
  /\ UNCHANGED daemon /\ used'.restarts = used.restarts
  /\ Inodes \subseteq Inodes' /\ (path' = path \/ path' \notin Inodes)
  /\ truncated \subseteq truncated' /\ DOMAIN renamed \subseteq DOMAIN renamed'
  /\ \A f \in DOMAIN renamed' :
       IF f \in DOMAIN renamed THEN renamed'[f] = renamed[f]
       ELSE renamed'[f] <= Len(log'[f])
  /\ \A f \in File \ truncated' :
       /\ Len(log[f]) <= Len(log'[f]) /\ Size(f) <= Size(f)'
       /\ \A i \in DOMAIN verdict'[f] :
            IF i \in DOMAIN verdict[f] THEN verdict'[f][i] = verdict[f][i]
            ELSE verdict'[f][i] = "unread" /\ Size(f) < 2 * i

\* That is all the position depends on.
LEMMA PositionKeptByWorld ==
  ASSUME PositionInv, WorldGrows, TypeOK', InodesInOrder'
  PROVE  PositionInv'
<1> USE DEF WorldGrows, PositionInv
<1>1. UNCHANGED <<pc, fh, offset, saved_inode, rotation_eofs, offset_file>>
  BY DEF daemon, position, files
<1>2. Current' = Current /\ InHand' = InHand
  BY <1>1 DEF Current, InHand
<1>3. /\ {saved_inode, offset_file.inode, fh} \subseteq Inodes \union {NoFile}
      /\ Inodes \subseteq File /\ NoFile \notin File
      /\ offset \in Nat /\ offset_file.offset \in Nat /\ Current \in Nat
  BY CurrentBounds, ReporterAssumption DEF TypeOK, Inodes, File
<1>4. ASSUME NEW f \in File
      PROVE  Size(f) \in Int /\ Size(f)' \in Int
  BY DEF TypeOK, Size
<1>5. HoldsFile'
  BY <1>1 DEF HoldsFile
<1>6. OffsetsWithin'
  <2>1. ASSUME NEW f \in Inodes \union {NoFile}, NEW end \in Int, Within(f, end)
        PROVE  Within(f, end)'
    BY <1>4, <2>1 DEF Within
  <2> QED
    BY <1>1, <1>2, <1>3, <2>1 DEF OffsetsWithin
<1>7. OffsetsSettled'
  <2>1. ASSUME NEW f \in Inodes \union {NoFile}, NEW end \in Int,
               Within(f, end), SettledUpTo(f, end)
        PROVE  SettledUpTo(f, end)'
    <3> SUFFICES ASSUME f \in File \ truncated', NEW i \in DOMAIN verdict'[f],
                        2 * i <= end
                 PROVE  verdict'[f][i] \in Settled
      BY DEF SettledUpTo
    <3>1. i \in Int /\ end <= Size(f) /\ Size(f) \in Int
      BY <1>4, <2>1 DEF Within, TypeOK
    <3>2. i \in DOMAIN verdict[f]
      BY <3>1
    <3> QED
      BY <2>1, <3>2 DEF SettledUpTo
  <2> QED
    BY <1>1, <1>3, <2>1 DEF OffsetsSettled, OffsetsWithin
<1>8. SavedBehind'
  BY <1>1, <1>3 DEF SavedBehind
<1>9. EofsCounted'
  <2>1. ASSUME NEW f \in DOMAIN renamed' \ truncated'
        PROVE  renamed'[f] <= Len(log'[f])
    <3>1. f \in File
      BY ConstantsTyped DEF InodesInOrder
    <3>2. Len(log[f]) \in Int /\ Len(log'[f]) \in Int /\ renamed'[f] \in Int
      BY <3>1 DEF TypeOK
    <3> QED
      BY <3>1, <3>2 DEF EofsCounted
  <2>2. rotation_eofs > 0 => fh # NoFile /\ fh # path' /\ fh \in DOMAIN renamed
    BY <1>3 DEF EofsCounted, Inodes
  <2> QED
    BY <1>1, <2>1, <2>2 DEF EofsCounted
<1>10. AheadUnposted'
  BY <1>1, <1>2 DEF AheadUnposted, Unposted, Ahead
<1> QED
  BY <1>5, <1>6, <1>7, <1>8, <1>9, <1>10

\* The inodes of before are those below the next.
LEMMA InodesCounted ==
  ASSUME TypeOK, InodesInOrder
  PROVE  LET n == Cardinality(DOMAIN renamed)
         IN  /\ n \in 0..(MaxFiles - 1) /\ DOMAIN renamed = 1..n
             /\ path \in {n + 1, NoFile} /\ n + 1 \in File
<1>1. PICK n \in 0..(MaxFiles - 1) : DOMAIN renamed = 1..n /\ path \in {n + 1, NoFile}
  BY DEF InodesInOrder
<1>2. Cardinality(1..n) = n
  BY FS_Interval
<1> QED
  BY <1>1, <1>2, ConstantsTyped

LEMMA WriteGrows ==
  ASSUME PositionInv, Write \/ WriteRest
  PROVE  WorldGrows /\ TypeOK' /\ InodesInOrder'
<1> USE DEF PositionInv, daemon, position, files
<1>1. /\ UNCHANGED <<daemon, path, nginx, past, clock>> /\ used' \in [DOMAIN Bound -> Nat]
      /\ used'.restarts = used.restarts /\ Inodes' = Inodes
  <2>1. used' \in [DOMAIN Bound -> Nat] /\ used'.restarts = used.restarts
    BY UsesTyped DEF Write, WriteRest, TypeOK
  <2> QED
    BY <2>1 DEF Write, WriteRest, past, Inodes
<1>2. nginx \in File
  BY DEF InodesInOrder, Inodes
<1>3. ASSUME NEW f \in File
      PROVE  /\ log'[f] \in Seq(Ip \union {Junk}) /\ verdict'[f] \in Seq(Verdict)
             /\ Len(verdict'[f]) = Len(log'[f]) /\ Len(log[f]) <= Len(log'[f])
             /\ f \in torn' => log'[f] # <<>>
             /\ Size(f) <= Size(f)'
             /\ \A i \in DOMAIN verdict'[f] :
                  IF i \in DOMAIN verdict[f] THEN verdict'[f][i] = verdict[f][i]
                  ELSE verdict'[f][i] = "unread" /\ Size(f) < 2 * i
             /\ f # nginx => log'[f] = log[f]
  <2>1. /\ log[f] \in Seq(Ip \union {Junk}) /\ verdict[f] \in Seq(Verdict)
        /\ Len(verdict[f]) = Len(log[f]) /\ Len(log[f]) \in Nat
    BY DEF TypeOK
  <2>2. CASE WriteRest \/ f # nginx
    <3>1. /\ log'[f] = log[f] /\ verdict'[f] = verdict[f]
          /\ f \in torn' => f \in torn
      BY <2>1, <2>2 DEF Write, WriteRest, TypeOK
    <3>2. Size(f) <= Size(f)'
      BY <2>1, <3>1 DEF Size
    <3> QED
      BY <2>1, <3>1, <3>2 DEF TypeOK
  <2>3. CASE Write /\ f = nginx
    <3>1. PICK line \in Ip \union {Junk} : log' = [log EXCEPT ![nginx] = Append(@, line)]
      BY <2>3 DEF Write
    <3>2. /\ log'[f] = Append(log[f], line)
          /\ verdict'[f] = Append(verdict[f], "unread")
      BY <2>3, <3>1 DEF Write, TypeOK
    <3>3. "unread" \in Verdict
      BY DEF Verdict
    <3>4. /\ log'[f] \in Seq(Ip \union {Junk}) /\ verdict'[f] \in Seq(Verdict)
          /\ Len(log'[f]) = Len(log[f]) + 1 /\ Len(verdict'[f]) = Len(log[f]) + 1
          /\ DOMAIN verdict[f] = 1..Len(log[f]) /\ DOMAIN verdict'[f] = 1..(Len(log[f]) + 1)
          /\ \A i \in 1..Len(log[f]) : verdict'[f][i] = verdict[f][i]
          /\ verdict'[f][Len(log[f]) + 1] = "unread"
      BY <2>1, <3>2, <3>3, AppendProperties
    <3>5. Size(f) \in Int /\ Size(f) <= 2 * Len(log[f])
      BY SizeBounds
    <3>6. Len(log'[f]) \in Nat
      BY <2>1, <3>4
    <3>7. 2 * Len(log'[f]) - 1 <= Size(f)' /\ Size(f)' \in Int
      BY <3>6 DEF Size
    <3>8. Size(f) <= Size(f)'
      BY <2>1, <3>4, <3>5, <3>6, <3>7
    <3> QED
      BY <2>1, <2>3, <3>4, <3>5, <3>6, <3>8
  <2> QED
    BY <2>2, <2>3
<1>4. /\ log' \in [File -> Seq(Ip \union {Junk})]
      /\ verdict' \in [File -> Seq(Verdict)] /\ torn' \subseteq File
  BY <1>2, <1>3 DEF Write, WriteRest, TypeOK
<1>5. TypeOK'
  BY <1>1, <1>3, <1>4 DEF TypeOK, past
<1>6. InodesInOrder'
  BY <1>1, <1>3 DEF InodesInOrder, past
<1>7. WorldGrows
  BY <1>1, <1>3 DEF WorldGrows, past
<1> QED
  BY <1>5, <1>6, <1>7

LEMMA RotationGrows ==
  ASSUME PositionInv, Rename \/ Create \/ Reopen \/ Tick
  PROVE  WorldGrows /\ TypeOK' /\ InodesInOrder'
<1> USE DEF PositionInv, daemon, position, files
<1> DEFINE n == Cardinality(DOMAIN renamed)
<1>1. /\ n \in 0..(MaxFiles - 1) /\ DOMAIN renamed = 1..n /\ n + 1 \in File
      /\ path \in {n + 1, NoFile} /\ NoFile \notin File /\ MaxFiles \in Nat
      /\ File = 1..MaxFiles
  BY InodesCounted, ConstantsTyped DEF n
<1> HIDE DEF n
<1>2. UNCHANGED <<daemon, log, torn, verdict, truncated, used>> /\ clock' \in Nat
  BY DEF Rename, Create, Reopen, Tick, past, TypeOK
<1>3. /\ \E m \in 0..(MaxFiles - 1) : DOMAIN renamed' = 1..m /\ path' \in {m + 1, NoFile}
      /\ Inodes \subseteq Inodes' /\ DOMAIN renamed \subseteq DOMAIN renamed'
      /\ path' = path \/ path' \notin Inodes
      /\ \A f \in DOMAIN renamed' :
           IF f \in DOMAIN renamed THEN renamed'[f] = renamed[f]
           ELSE f = path /\ f \in File /\ renamed'[f] = Len(log[f])
  <2>1. CASE Rename
    <3>1. /\ path = n + 1 /\ n + 1 < MaxFiles /\ path' = NoFile
          /\ DOMAIN renamed' = DOMAIN renamed \union {path}
          /\ \A f \in DOMAIN renamed' :
               renamed'[f] = IF f = path THEN Len(log[path]) ELSE renamed[f]
      BY <1>1, <2>1 DEF Rename, Bind, n
    <3>2. DOMAIN renamed' = 1..(n + 1) /\ n + 1 \in 0..(MaxFiles - 1)
      BY <1>1, <3>1
    <3>3. path \notin DOMAIN renamed
      BY <1>1, <3>1
    <3> QED
      BY <1>1, <3>1, <3>2, <3>3 DEF Inodes
  <2>2. CASE Create
    <3>1. path = NoFile /\ path' = n + 1 /\ renamed' = renamed
      BY <2>2 DEF Create, past, n
    <3>2. path' \notin DOMAIN renamed
      BY <1>1, <3>1
    <3> QED
      BY <1>1, <3>1, <3>2 DEF Inodes
  <2>3. CASE Reopen \/ Tick
    BY <1>1, <2>3 DEF Reopen, Tick, past, Inodes
  <2> QED
    BY <2>1, <2>2, <2>3
<1>4. \A f \in File : Len(log[f]) \in Nat /\ Size(f) \in Int /\ Size(f)' = Size(f)
  BY <1>2 DEF TypeOK, Size
<1>5. TypeOK'
  <2>1. \A f \in DOMAIN renamed' : renamed'[f] \in Nat
    BY <1>3, <1>4 DEF TypeOK
  <2>2. /\ {fh', saved_inode'} \subseteq Inodes' \union {NoFile}
        /\ offset_file' \in [offset : Nat, inode : Inodes' \union {NoFile}]
    BY <1>2, <1>3 DEF TypeOK
  <2> QED
    BY <1>2, <2>1, <2>2 DEF TypeOK
<1>6. nginx' \in Inodes'
  BY <1>1, <1>3 DEF Rename, Create, Reopen, Tick, InodesInOrder, Inodes
<1>7. InodesInOrder'
  BY <1>2, <1>3, <1>6 DEF InodesInOrder
<1>8. WorldGrows
  BY <1>2, <1>3, <1>4 DEF WorldGrows
<1> QED
  BY <1>5, <1>7, <1>8

LEMMA TruncateGrows ==
  ASSUME PositionInv, Truncate
  PROVE  WorldGrows /\ TypeOK' /\ InodesInOrder'
<1> USE DEF PositionInv, daemon, position, files, Truncate
<1>1. path \in File
  BY InodesCounted
<1>2. /\ UNCHANGED <<daemon, path, nginx, renamed, clock, torn>>
      /\ truncated' = truncated \union {path} /\ path \notin torn
      /\ used' \in [DOMAIN Bound -> Nat] /\ used'.restarts = used.restarts
      /\ Inodes' = Inodes
  BY UsesTyped DEF TypeOK, Inodes
<1>3. ASSUME NEW f \in File
      PROVE  /\ log'[f] = IF f = path THEN <<>> ELSE log[f]
             /\ verdict'[f] = IF f = path THEN <<>> ELSE verdict[f]
             /\ f # path => Size(f)' = Size(f)
  BY <1>2 DEF TypeOK, Size
<1>4. /\ log' \in [File -> Seq(Ip \union {Junk})]
      /\ verdict' \in [File -> Seq(Verdict)]
  BY <1>1 DEF TypeOK
<1>5. TypeOK'
  BY <1>1, <1>2, <1>3, <1>4 DEF TypeOK
<1>6. InodesInOrder'
  BY <1>2, <1>3 DEF InodesInOrder
<1>7. \A f \in File : Len(log[f]) \in Int /\ Size(f) \in Int
  BY DEF TypeOK, Size
<1>8. WorldGrows
  BY <1>2, <1>3, <1>7 DEF WorldGrows
<1> QED
  BY <1>5, <1>6, <1>8
------------------------------------------------------------------------------
(* The daemon and its position. *)

\* The log is the same to a step of the daemon.
LEMMA LogKept ==
  ASSUME PositionInv, UNCHANGED <<disk, past>>
  PROVE  /\ UNCHANGED <<clock, log, torn, path, nginx, renamed, truncated>>
         /\ Inodes' = Inodes /\ \A f \in File : Size(f)' = Size(f)
         /\ InodesInOrder'
         /\ NoFile \notin File /\ Inodes \subseteq File /\ path \notin DOMAIN renamed
         /\ {fh, saved_inode, offset_file.inode} \subseteq Inodes \union {NoFile}
         /\ offset \in Nat /\ offset_file.offset \in Nat
<1>1. UNCHANGED <<clock, log, torn, path, nginx, renamed, truncated>>
  BY DEF disk, past
<1>2. Inodes' = Inodes /\ \A f \in File : Size(f)' = Size(f)
  BY <1>1 DEF Inodes, Size
<1>3. InodesInOrder'
  BY <1>1, <1>2 DEF PositionInv, InodesInOrder
<1>4. path \notin DOMAIN renamed
  <2> DEFINE n == Cardinality(DOMAIN renamed)
  <2>1. /\ n \in 0..(MaxFiles - 1) /\ DOMAIN renamed = 1..n /\ path \in {n + 1, NoFile}
        /\ NoFile \notin File /\ File = 1..MaxFiles /\ MaxFiles \in Nat
    BY InodesCounted, ConstantsTyped DEF PositionInv
  <2> HIDE DEF n
  <2> QED
    BY <2>1
<1> QED
  BY <1>1, <1>2, <1>3, <1>4, ConstantsTyped DEF PositionInv, TypeOK, Inodes

\* A step that settles the current line and passes it, in whole or up to where
\* the file ends.
Passes(what, end) ==
  /\ UNCHANGED <<disk, past, used, fh, saved_inode>>
  /\ pc \in {"read", "post", "advance"} /\ pc' = "read"
  /\ Judge(what) /\ offset' = end
  /\ end \in Nat /\ offset < end /\ end <= 2 * Current /\ Within(fh, end)
  /\ offset_file' \in {offset_file, [offset |-> end, inode |-> fh]}
  /\ rotation_eofs' \in {0, rotation_eofs}

LEMMA PassKeeps ==
  ASSUME PositionInv, NEW what \in Settled, NEW end, Passes(what, end)
  PROVE  PositionInv'
<1> USE DEF PositionInv
<1>1. /\ UNCHANGED <<fh, saved_inode, used>> /\ pc' = "read" /\ offset' = end
      /\ end \in Nat /\ offset < end /\ end <= 2 * Current
      /\ offset_file' \in {offset_file, [offset |-> end, inode |-> fh]}
      /\ rotation_eofs' \in {0, rotation_eofs}
  BY DEF Passes
<1>2. /\ UNCHANGED <<clock, log, torn, path, nginx, renamed, truncated>>
      /\ Inodes' = Inodes /\ \A f \in File : Size(f)' = Size(f)
      /\ InodesInOrder' /\ NoFile \notin File /\ Inodes \subseteq File
      /\ {fh, saved_inode, offset_file.inode} \subseteq Inodes \union {NoFile}
      /\ offset \in Nat /\ offset_file.offset \in Nat
  BY LogKept DEF Passes
<1>3. /\ fh \in File /\ fh # NoFile /\ fh = saved_inode
  BY <1>2 DEF Passes, HoldsFile
<1>4. what \in Verdict
  BY DEF Settled, Verdict
<1>5. /\ verdict' \in [File -> Seq(Verdict)]
      /\ \A f \in File : /\ Len(verdict'[f]) = Len(verdict[f])
                         /\ DOMAIN verdict'[f] = DOMAIN verdict[f]
      /\ \A f \in File : \A i \in DOMAIN verdict[f] :
           verdict'[f][i] = IF f = fh /\ i = Current THEN what ELSE verdict[f][i]
  BY <1>3, <1>4, JudgeSetsOne DEF Passes
<1>6. /\ Current \in Nat \ {0} /\ offset < 2 * Current /\ 2 * (Current - 1) <= offset
  BY <1>2, CurrentBounds
<1>7. \A f \in File : \A i \in DOMAIN verdict[f] : i \in Nat
  BY SizeBounds
<1>8. ~InHand'
  BY <1>1 DEF InHand
<1>9. TypeOK'
  BY <1>1, <1>2, <1>3, <1>5 DEF TypeOK
<1>10. HoldsFile'
  BY <1>1, <1>3 DEF HoldsFile
<1>11. OffsetsWithin'
  BY <1>1, <1>2, <1>3, <1>8 DEF OffsetsWithin, Within, Passes
<1>12. ASSUME fh \notin truncated, NEW i \in DOMAIN verdict'[fh], 2 * i <= end
       PROVE  verdict'[fh][i] \in Settled
  <2>1. i \in DOMAIN verdict[fh] /\ i \in Nat
    BY <1>3, <1>5, <1>7
  <2>2. CASE i = Current
    BY <1>3, <1>5, <2>1, <2>2
  <2>3. CASE i # Current
    <3>1. 2 * i <= offset
      BY <1>1, <1>2, <1>6, <1>12, <2>1, <2>3
    <3>2. verdict[fh][i] \in Settled
      BY <1>3, <1>12, <2>1, <3>1 DEF OffsetsSettled, SettledUpTo
    <3> QED
      BY <1>3, <1>5, <2>1, <2>3, <3>2
  <2> QED
    BY <2>2, <2>3
<1>13. ASSUME NEW f \in File \ truncated, NEW i \in DOMAIN verdict'[f],
              f = offset_file.inode, 2 * i <= offset_file.offset
       PROVE  verdict'[f][i] \in Settled
  <2>1. i \in DOMAIN verdict[f]
    BY <1>5
  <2>2. verdict[f][i] \in Settled
    BY <1>13, <2>1 DEF OffsetsSettled, SettledUpTo
  <2> QED
    BY <1>5, <2>1, <2>2
<1>14. OffsetsSettled'
  BY <1>1, <1>2, <1>3, <1>12, <1>13 DEF OffsetsSettled, SettledUpTo
<1>15. SavedBehind'
  BY <1>1, <1>2, <1>3 DEF SavedBehind, Passes
<1>16. EofsCounted'
  BY <1>1, <1>2 DEF EofsCounted, TypeOK
<1>17. AheadUnposted'
  <2>1. ASSUME NEW i \in DOMAIN verdict[fh], 2 * i - 1 > end
        PROVE  i # Current /\ Ahead(i)
    BY <1>1, <1>2, <1>3, <1>6, <1>7, <2>1 DEF Ahead
  <2> SUFFICES ASSUME used.restarts = 0
               PROVE  AheadUnposted'
    BY <1>1 DEF AheadUnposted
  <2>2. \A f \in File \ (DOMAIN renamed \union {fh} \union truncated) :
          \A i \in DOMAIN verdict'[f] : Unposted(f, i)'
    BY <1>5 DEF AheadUnposted, Unposted
  <2>3. fh \notin truncated =>
          \A i \in DOMAIN verdict'[fh] : 2 * i - 1 > end => Unposted(fh, i)'
    BY <1>1, <1>3, <1>5, <2>1 DEF AheadUnposted, Unposted
  <2> QED
    BY <1>1, <1>2, <1>8, <2>2, <2>3 DEF AheadUnposted, Ahead
<1> QED
  BY <1>2, <1>9, <1>10, <1>11, <1>14, <1>15, <1>16, <1>17

\* A step that only marks the current line: taken in hand, or put back.
LEMMA MarkKeeps ==
  ASSUME PositionInv, Take \/ Retry
  PROVE  PositionInv'
<1> USE DEF PositionInv
<1>1. PICK what \in {"posted", "failed"} :
        /\ Judge(what)
        /\ what = "posted" => Take
        /\ what = "failed" => pc = "post" /\ pc' = "read" /\ Uses({"failures"})
                              /\ UNCHANGED position
  BY DEF Take, Retry
<1>2. /\ UNCHANGED <<disk, past, fh, saved_inode, offset, offset_file>>
      /\ rotation_eofs' \in {0, rotation_eofs} /\ pc' \in {"post", "read"}
      /\ used' \in [DOMAIN Bound -> Nat] /\ used'.restarts = used.restarts
  BY UsesTyped DEF Take, Retry, position, files, TypeOK
<1>3. /\ UNCHANGED <<clock, log, torn, path, nginx, renamed, truncated>>
      /\ Inodes' = Inodes /\ \A f \in File : Size(f)' = Size(f)
      /\ InodesInOrder' /\ NoFile \notin File /\ Inodes \subseteq File
      /\ {fh, saved_inode, offset_file.inode} \subseteq Inodes \union {NoFile}
      /\ offset \in Nat /\ offset_file.offset \in Nat
  BY <1>2, LogKept
<1>4. /\ fh \in File /\ fh # NoFile /\ fh = saved_inode
  BY <1>3 DEF Take, Reading, Retry, HoldsFile
<1>5. /\ verdict' \in [File -> Seq(Verdict)]
      /\ \A f \in File : /\ Len(verdict'[f]) = Len(verdict[f])
                         /\ DOMAIN verdict'[f] = DOMAIN verdict[f]
      /\ \A f \in File : \A i \in DOMAIN verdict[f] :
           verdict'[f][i] = IF f = fh /\ i = Current THEN what ELSE verdict[f][i]
  BY <1>1, <1>4, JudgeSetsOne DEF Verdict
<1>6. /\ Current \in Nat \ {0} /\ offset < 2 * Current /\ 2 * (Current - 1) <= offset
      /\ Current' = Current
  BY <1>2, <1>3, CurrentBounds DEF Current
<1>7. \A f \in File : \A i \in DOMAIN verdict[f] : i \in Nat
  BY SizeBounds
<1>8. TypeOK'
  BY <1>2, <1>3, <1>5 DEF TypeOK
<1>9. HoldsFile'
  BY <1>2, <1>4 DEF HoldsFile
<1>10. OffsetsWithin'
  <2>1. InHand' => Within(fh, 2 * Current)
    <3>1. CASE what = "failed"
      BY <1>1, <3>1 DEF InHand
    <3>2. CASE what = "posted"
      <4>1. Size(fh) \in Nat
        BY <1>4, SizeBounds
      <4>2. LineEnd = 2 * Current
        BY <1>1, <3>2 DEF Take, Whole
      <4> QED
        BY <1>6, <4>1, <4>2 DEF LineEnd, Within
    <3> QED
      BY <3>1, <3>2
  <2> QED
    BY <1>2, <1>3, <1>4, <1>6, <2>1 DEF OffsetsWithin, Within
<1>11. ASSUME NEW f \in File \ truncated, NEW i \in DOMAIN verdict'[f],
              \/ f = fh /\ 2 * i <= offset
              \/ f = offset_file.inode /\ 2 * i <= offset_file.offset
       PROVE  verdict'[f][i] \in Settled
  <2>1. i \in DOMAIN verdict[f] /\ i \in Nat
    BY <1>5, <1>7
  <2>2. verdict[f][i] \in Settled
    BY <1>4, <1>11, <2>1 DEF OffsetsSettled, SettledUpTo
  <2>3. f = fh => 2 * i <= offset
    <3>1. f = fh /\ f = offset_file.inode => offset_file.offset <= offset
      BY <1>4, <1>11 DEF SavedBehind, Take, Reading, Retry
    <3> QED
      BY <1>3, <1>11, <2>1, <3>1
  <2>4. ~(f = fh /\ i = Current)
    BY <1>3, <1>6, <2>1, <2>3
  <2> QED
    BY <1>5, <2>1, <2>2, <2>4
<1>12. OffsetsSettled'
  BY <1>2, <1>3, <1>4, <1>11 DEF OffsetsSettled, SettledUpTo
<1>13. SavedBehind'
  BY <1>2, <1>3 DEF SavedBehind, Take, Reading, Retry
<1>14. EofsCounted'
  BY <1>2, <1>3 DEF EofsCounted, TypeOK
<1>15. AheadUnposted'
  <2>1. ASSUME NEW i \in DOMAIN verdict[fh], Ahead(i)'
        PROVE  (i = Current /\ what = "failed") \/ (i # Current /\ Ahead(i))
    <3>1. i \in Nat
      BY <1>4, <1>7
    <3>2. CASE what = "failed"
      BY <1>1, <1>2, <1>3, <1>6, <2>1, <3>1, <3>2 DEF Ahead, InHand
    <3>3. CASE what = "posted"
      BY <1>1, <1>2, <1>3, <1>6, <2>1, <3>1, <3>3 DEF Ahead, InHand, Take, Reading
    <3> QED
      BY <3>2, <3>3
  <2>2. \A f \in File \ (DOMAIN renamed \union {fh} \union truncated) :
          used.restarts = 0 => \A i \in DOMAIN verdict'[f] : Unposted(f, i)'
    BY <1>5 DEF AheadUnposted, Unposted
  <2>3. ASSUME fh \notin truncated, used.restarts = 0,
               NEW i \in DOMAIN verdict'[fh], Ahead(i)'
        PROVE  verdict'[fh][i] \in {"unread", "failed"}
    <3>1. i \in DOMAIN verdict[fh]
      BY <1>4, <1>5
    <3>2. (i = Current /\ what = "failed") \/ (i # Current /\ Ahead(i))
      BY <2>1, <2>3, <3>1
    <3>3. Ahead(i) => verdict[fh][i] \in {"unread", "failed"}
      BY <1>4, <2>3, <3>1 DEF AheadUnposted, Unposted
    <3>4. verdict'[fh][i] = IF i = Current THEN what ELSE verdict[fh][i]
      BY <1>4, <1>5, <3>1
    <3> QED
      BY <3>2, <3>3, <3>4
  <2>4. (fh \notin truncated /\ used.restarts = 0) =>
          \A i \in DOMAIN verdict'[fh] : Ahead(i)' => Unposted(fh, i)'
    BY <1>2, <2>3 DEF Unposted
  <2> QED
    BY <1>2, <1>3, <2>2, <2>4 DEF AheadUnposted
<1> QED
  BY <1>3, <1>8, <1>9, <1>10, <1>12, <1>13, <1>14, <1>15

\* A step in the middle of a line in hand.
LEMMA InHandKeeps ==
  ASSUME PositionInv, Accept \/ Record
  PROVE  PositionInv'
<1> USE DEF PositionInv
<1>1. /\ UNCHANGED <<disk, past, fh, saved_inode, offset, offset_file, rotation_eofs,
                     verdict>>
      /\ pc \in {"post", "record"} /\ pc' \in {"record", "advance"}
      /\ used' \in [DOMAIN Bound -> Nat] /\ used'.restarts = used.restarts
  BY UsesTyped DEF Accept, Record, position, files, TypeOK
<1>2. /\ UNCHANGED <<clock, log, torn, path, nginx, renamed, truncated>>
      /\ Inodes' = Inodes /\ \A f \in File : Size(f)' = Size(f)
      /\ InodesInOrder'
  BY <1>1, LogKept
<1>3. Current' = Current /\ InHand /\ InHand'
  BY <1>1 DEF Current, InHand
<1>4. TypeOK'
  BY <1>1, <1>2 DEF TypeOK
<1>5. HoldsFile' /\ OffsetsWithin' /\ OffsetsSettled' /\ SavedBehind' /\ EofsCounted'
  BY <1>1, <1>2, <1>3
    DEF HoldsFile, OffsetsWithin, Within, OffsetsSettled, SettledUpTo, SavedBehind,
        EofsCounted
<1>6. AheadUnposted'
  BY <1>1, <1>2, <1>3 DEF AheadUnposted, Unposted, Ahead
<1> QED
  BY <1>2, <1>4, <1>5, <1>6

\* The steps that leave the lines alone: what is left to show of each.
LEMMA LinesKept ==
  ASSUME PositionInv, UNCHANGED <<disk, past, verdict>>,
         used' \in [DOMAIN Bound -> Nat], ~InHand',
         pc' \in {"open", "read", "stat", "down"},
         fh' \in Inodes \union {NoFile}, saved_inode' \in Inodes \union {NoFile},
         offset' \in Nat, rotation_eofs' \in Nat,
         \/ saved_inode' = saved_inode /\ offset' = offset
         \/ saved_inode' = offset_file.inode /\ offset' = offset_file.offset
         \/ offset' = 0,
         \/ offset_file' = offset_file
         \/ offset_file' = [offset |-> offset, inode |-> saved_inode],
         HoldsFile', SavedBehind', EofsCounted', AheadUnposted'
  PROVE  PositionInv'
<1> USE DEF PositionInv
<1>1. /\ UNCHANGED <<clock, log, torn, path, nginx, renamed, truncated>>
      /\ Inodes' = Inodes /\ \A f \in File : Size(f)' = Size(f)
      /\ InodesInOrder' /\ NoFile \notin File /\ Inodes \subseteq File
      /\ {fh, saved_inode, offset_file.inode} \subseteq Inodes \union {NoFile}
      /\ offset \in Nat /\ offset_file.offset \in Nat
  BY LogKept
<1>2. \A f \in File : Size(f) \in Nat /\ \A i \in DOMAIN verdict[f] : i \in Nat \ {0}
  BY SizeBounds
<1>3. TypeOK'
  BY <1>1 DEF TypeOK
<1>4. OffsetsWithin'
  BY <1>1, <1>2 DEF OffsetsWithin, Within
<1>5. ASSUME NEW f, NEW end, SettledUpTo(f, end)
      PROVE  SettledUpTo(f, end)'
  BY <1>1, <1>5 DEF SettledUpTo
<1>6. \A f : SettledUpTo(f, 0)
  BY <1>2 DEF SettledUpTo
<1>7. OffsetsSettled'
  BY <1>5, <1>6 DEF OffsetsSettled
<1> QED
  BY <1>1, <1>3, <1>4, <1>7

LEMMA EofKeeps ==
  ASSUME PositionInv, AtEof
  PROVE  PositionInv'
<1> USE DEF PositionInv
<1>1. /\ UNCHANGED <<disk, past, used, verdict, fh, saved_inode, offset, rotation_eofs>>
      /\ pc = "read" /\ pc' = "stat" /\ offset >= Size(fh)
      /\ offset_file' \in {offset_file, [offset |-> offset, inode |-> fh]}
  BY DEF AtEof, Reading, position
<1>2. /\ UNCHANGED <<path, renamed, truncated>> /\ Inodes' = Inodes
      /\ NoFile \notin File /\ Inodes \subseteq File
      /\ {fh, saved_inode, offset_file.inode} \subseteq Inodes \union {NoFile}
      /\ offset \in Nat
  BY <1>1, LogKept
<1>3. fh \in File /\ fh # NoFile /\ saved_inode = fh
  BY <1>1, <1>2 DEF HoldsFile
<1>4. ~InHand /\ ~InHand'
  BY <1>1 DEF InHand
<1>5. HoldsFile' /\ SavedBehind'
  BY <1>1, <1>2, <1>3 DEF HoldsFile, SavedBehind
<1>6. ASSUME rotation_eofs > 0, fh \notin truncated
      PROVE  offset >= 2 * renamed[fh] - 1
  <2>1. fh \in DOMAIN renamed \ truncated
    BY <1>2, <1>3, <1>6 DEF EofsCounted, Inodes
  <2>2. renamed[fh] <= Len(log[fh]) /\ renamed[fh] \in Nat
    BY <2>1 DEF EofsCounted, TypeOK
  <2>3. 2 * Len(log[fh]) - 1 <= Size(fh) /\ Size(fh) \in Nat /\ Len(log[fh]) \in Nat
    BY <1>3, SizeBounds
  <2> QED
    BY <1>1, <1>2, <2>2, <2>3
<1>7. EofsCounted'
  BY <1>1, <1>2, <1>6, LogKept DEF EofsCounted
<1>8. AheadUnposted'
  BY <1>1, <1>2, <1>4 DEF AheadUnposted, Unposted, Ahead
<1> QED
  BY <1>1, <1>2, <1>3, <1>4, <1>5, <1>7, <1>8, LinesKept DEF TypeOK

\* The look at the path: nothing new, a file truncated in place, or one that has
\* lost the path, which is left at the second empty read.
LEMMA StatKeeps ==
  ASSUME PositionInv, StatSame \/ StatTruncated \/ StatRotated
  PROVE  PositionInv'
<1> USE DEF PositionInv
<1>1. /\ UNCHANGED <<disk, past, used, verdict>> /\ pc = "stat"
      /\ used' \in [DOMAIN Bound -> Nat]
  BY DEF StatSame, StatTruncated, StatRotated, TypeOK
<1>2. /\ UNCHANGED <<log, path, renamed, truncated>> /\ Inodes' = Inodes
      /\ NoFile \notin File /\ Inodes \subseteq File /\ path \notin DOMAIN renamed
      /\ {fh, saved_inode, offset_file.inode} \subseteq Inodes \union {NoFile}
      /\ offset \in Nat /\ rotation_eofs \in Nat
  BY <1>1, LogKept DEF TypeOK
<1>3. fh \in Inodes /\ fh \in File /\ fh # NoFile /\ saved_inode = fh
  BY <1>1, <1>2 DEF HoldsFile
<1>4. CASE pc' = "read" /\ UNCHANGED <<fh, offset, saved_inode, offset_file>>
  <2>1. rotation_eofs' \in Nat /\ (rotation_eofs' > 0 => rotation_eofs > 0 \/ fh # path)
    <3>1. CASE StatSame
      BY <1>2, <3>1 DEF StatSame, position
    <3>2. CASE StatRotated
      BY <1>2, <1>4, <3>2 DEF StatRotated, Close
    <3> QED
      BY <1>4, <3>1, <3>2 DEF StatTruncated
  <2>2. ~InHand /\ ~InHand'
    BY <1>1, <1>4 DEF InHand
  <2>3. HoldsFile' /\ SavedBehind' /\ EofsCounted'
    BY <1>1, <1>2, <1>3, <1>4, <2>1 DEF HoldsFile, SavedBehind, EofsCounted
  <2>4. AheadUnposted'
    BY <1>1, <1>2, <1>4, <2>2 DEF AheadUnposted, Unposted, Ahead
  <2> QED
    BY <1>1, <1>2, <1>3, <1>4, <2>1, <2>2, <2>3, <2>4, LinesKept
<1>5. CASE pc' = "open"
  <2>1. /\ fh' = NoFile /\ offset' = 0 /\ saved_inode' = NoFile
        /\ offset_file' \in {offset_file, [offset |-> offset, inode |-> fh]}
    BY <1>5 DEF StatSame, StatTruncated, StatRotated, Close, files
  <2>2. fh # path \/ fh \in truncated
    <3>1. CASE StatTruncated
      <4>1. Size(fh) < offset /\ Size(fh) \in Nat
        BY <1>3, <3>1, SizeBounds DEF StatTruncated
      <4> QED
        BY <1>2, <1>3, <4>1 DEF OffsetsWithin, Within
    <3> QED
      BY <1>5, <3>1 DEF StatSame, StatRotated
  <2>3. rotation_eofs' = 0
    BY <1>2, <1>5 DEF StatSame, StatTruncated, StatRotated, Close, EofsCounted
  <2>4. ~InHand'
    BY <1>5 DEF InHand
  <2>5. fh \in DOMAIN renamed \union truncated
    BY <1>3, <2>2 DEF Inodes
  <2>6. HoldsFile'
    BY <1>5, <2>1 DEF HoldsFile
  <2>7. SavedBehind'
    <3>1. offset_file.inode = path => path \in truncated \/ fh # path
      BY <2>2
    <3>2. CASE StatTruncated
      <4>1. path = fh /\ offset_file' = offset_file
        BY <3>2 DEF StatTruncated, files
      <4> QED
        BY <1>2, <1>3, <2>1, <2>2, <4>1 DEF SavedBehind
    <3>3. CASE StatRotated
      <4>1. path # fh /\ offset_file' = [offset |-> offset, inode |-> fh]
        BY <1>5, <3>3 DEF StatRotated
      <4> QED
        BY <1>2, <1>3, <2>1, <4>1 DEF SavedBehind
    <3> QED
      BY <1>5, <3>2, <3>3 DEF StatSame
  <2>8. EofsCounted'
    BY <1>2, <2>3 DEF EofsCounted
  <2>9. AheadUnposted'
    BY <1>1, <1>2, <1>5, <2>1, <2>5 DEF AheadUnposted, Unposted
  <2> QED
    BY <1>1, <1>3, <1>5, <2>1, <2>3, <2>4, <2>6, <2>7, <2>8, <2>9, LinesKept
<1> QED
  BY <1>4, <1>5 DEF StatSame, StatTruncated, StatRotated, Close, position, files

LEMMA OpenKeeps ==
  ASSUME PositionInv, Open
  PROVE  PositionInv'
<1> USE DEF PositionInv
<1>1. /\ UNCHANGED <<disk, past, used, verdict, rotation_eofs, offset_file>>
      /\ pc = "open" /\ pc' = "read" /\ path # NoFile
      /\ fh' = path /\ saved_inode' = path
      /\ offset' = IF path = saved_inode /\ offset <= Size(path) THEN offset ELSE 0
      /\ used' \in [DOMAIN Bound -> Nat]
  BY DEF Open, files, TypeOK
<1>2. /\ UNCHANGED <<log, path, renamed, truncated>> /\ Inodes' = Inodes
      /\ NoFile \notin File /\ Inodes \subseteq File /\ path \notin DOMAIN renamed
      /\ offset \in Nat /\ rotation_eofs \in Nat
  BY <1>1, LogKept DEF TypeOK
<1>3. path \in Inodes /\ path \in File
  <2>1. path \in File
    BY <1>1, InodesCounted
  <2> QED
    BY <2>1 DEF Inodes
<1>4. fh = NoFile /\ rotation_eofs = 0 /\ ~InHand'
  BY <1>1, <1>2 DEF HoldsFile, EofsCounted, InHand
<1>5. HoldsFile' /\ EofsCounted'
  BY <1>1, <1>2, <1>3, <1>4 DEF HoldsFile, EofsCounted
<1>6. SavedBehind'
  <2> SUFFICES ASSUME offset_file.inode = path, path \notin truncated
               PROVE  offset_file.offset <= offset'
    BY <1>1, <1>2 DEF SavedBehind
  <2>1. saved_inode = path /\ offset_file.offset <= offset
    BY <1>1, <1>2, <1>3 DEF SavedBehind
  <2>2. offset <= Size(path)
    BY <1>3, <2>1 DEF OffsetsWithin, Within
  <2> QED
    BY <1>1, <2>1, <2>2
<1>7. AheadUnposted'
  BY <1>1, <1>2, <1>3, <1>4 DEF AheadUnposted, Unposted, Ahead
<1> QED
  BY <1>1, <1>2, <1>3, <1>4, <1>5, <1>6, <1>7, LinesKept

\* The end of the daemon and its start.
LEMMA RestartKeeps ==
  ASSUME PositionInv, Stop \/ Crash \/ Start
  PROVE  PositionInv'
<1> USE DEF PositionInv
<1>1. /\ UNCHANGED <<disk, past, verdict>> /\ fh' = NoFile /\ rotation_eofs' = 0
      /\ used' \in [DOMAIN Bound -> Nat]
      /\ \/ pc' = "down"
         \/ (pc = "down" /\ pc' = "open" /\ used' = used)
      /\ pc' = "down" =>
           (used'.restarts > 0 /\ offset' = 0 /\ saved_inode' = NoFile)
  <2>1. CASE Stop \/ Crash
    BY <2>1, UsesTyped DEF Stop, Crash, Down, TypeOK
  <2>2. CASE Start
    <3>1. fh = NoFile /\ rotation_eofs = 0
      BY <2>2 DEF Start, HoldsFile, EofsCounted, TypeOK
    <3> QED
      BY <2>2, <3>1 DEF Start, TypeOK
  <2> QED
    BY <2>1, <2>2
<1>2. /\ UNCHANGED <<log, path, renamed, truncated>> /\ Inodes' = Inodes
      /\ NoFile \notin File /\ Inodes \subseteq File
      /\ {fh, saved_inode, offset_file.inode} \subseteq Inodes \union {NoFile}
      /\ offset \in Nat /\ offset_file.offset \in Nat
  BY <1>1, LogKept
<1>3. /\ offset_file' \in {offset_file, [offset |-> offset, inode |-> saved_inode]}
      /\ pc' = "open" => /\ saved_inode' = offset_file.inode
                         /\ offset' = offset_file.offset /\ offset_file' = offset_file
  BY <1>2 DEF Stop, Crash, Start, Down, files, HoldsFile
<1>4. ~InHand'
  BY <1>1 DEF InHand
<1>5. HoldsFile' /\ SavedBehind' /\ EofsCounted'
  BY <1>1, <1>2, <1>3 DEF HoldsFile, SavedBehind, EofsCounted
<1>6. AheadUnposted'
  BY <1>1, <1>3 DEF AheadUnposted, TypeOK
<1> QED
  BY <1>1, <1>2, <1>3, <1>4, <1>5, <1>6, LinesKept DEF TypeOK

\* The four steps that are done with a line: two skip it, one after a refusal
\* for good and one after a report.
LEMMA LinePassed ==
  ASSUME PositionInv, Skip \/ SkipTorn \/ Drop \/ Advance
  PROVE  PositionInv'
<1> USE DEF PositionInv
<1>1. offset \in Nat /\ fh \in Inodes \union {NoFile} /\ Inodes \subseteq File
  BY DEF TypeOK, Inodes
<1>2. /\ pc \in {"read", "post", "advance"} /\ fh \in File
      /\ Size(fh) \in Nat
  <2>1. pc \in {"read", "post", "advance"}
    BY DEF Skip, SkipTorn, Drop, Advance, Reading
  <2>2. fh \in File
    BY <1>1, <2>1 DEF HoldsFile
  <2> QED
    BY <2>1, <2>2, SizeBounds
<1>3. Current \in Nat \ {0} /\ offset < 2 * Current /\ 2 * (Current - 1) <= offset
  BY <1>1, CurrentBounds
<1>4. ASSUME NEW end, Pass(end)
      PROVE  /\ offset' = end /\ pc' = "read" /\ UNCHANGED <<fh, saved_inode>>
             /\ offset_file' \in {offset_file, [offset |-> end, inode |-> fh]}
  BY <1>4 DEF Pass, Checkpoint
<1>5. CASE SkipTorn
  <2>1. LineEnd \in Nat /\ offset < LineEnd /\ LineEnd <= 2 * Current
        /\ LineEnd <= Size(fh)
    BY <1>1, <1>2, <1>3, <1>5 DEF LineEnd, SkipTorn
  <2>2. Passes("torn", LineEnd)
    BY <1>2, <1>4, <1>5, <2>1 DEF SkipTorn, Passes, Within, Reading
  <2> QED
    BY <2>2, PassKeeps DEF Settled
<1>6. CASE Skip \/ Drop \/ Advance
  <2>1. Within(fh, 2 * Current)
    <3>1. CASE Skip
      <4>1. LineEnd = 2 * Current
        BY <3>1 DEF Skip, Whole
      <4> QED
        BY <1>2, <1>3, <4>1 DEF LineEnd, Within
    <3>2. CASE Drop \/ Advance
      BY <3>2 DEF OffsetsWithin, InHand, Drop, Advance
    <3> QED
      BY <1>6, <3>1, <3>2
  <2>2. 2 * Current \in Nat
    BY <1>3
  <2>3. PICK what \in Settled :
          /\ UNCHANGED <<disk, past, used>> /\ Judge(what) /\ Pass(2 * Current)
          /\ rotation_eofs' \in {0, rotation_eofs}
    BY <1>6 DEF Skip, Drop, Advance, Settled
  <2>4. Passes(what, 2 * Current)
    BY <1>2, <1>3, <1>4, <2>1, <2>2, <2>3 DEF Passes
  <2> QED
    BY <2>4, PassKeeps
<1> QED
  BY <1>5, <1>6

LEMMA PositionInvAlways == Spec => []PositionInv
<1> USE DEF PositionInv
<1>1. Init => PositionInv
  <2> SUFFICES ASSUME Init PROVE PositionInv
    OBVIOUS
  <2> USE DEF Init
  <2>1. File = 1..MaxFiles /\ 1 \in File /\ NoFile \notin File /\ MaxFiles \in Nat
    BY ConstantsTyped
  <2>2. DOMAIN renamed = {} /\ Inodes = {1}
    BY <2>1 DEF Inodes
  <2>3. TypeOK
    BY <2>1, <2>2 DEF TypeOK
  <2>4. InodesInOrder
    <3>1. 0 \in 0..(MaxFiles - 1) /\ DOMAIN renamed = 1..0 /\ path \in {0 + 1, NoFile}
      BY <2>1, <2>2
    <3> QED
      BY <2>2, <3>1 DEF InodesInOrder
  <2>5. HoldsFile /\ OffsetsWithin /\ SavedBehind /\ EofsCounted
    BY <2>1, <2>2
      DEF HoldsFile, OffsetsWithin, Within, InHand, SavedBehind, EofsCounted
  <2>6. \A f \in File : DOMAIN verdict[f] = {}
    OBVIOUS
  <2>7. OffsetsSettled /\ AheadUnposted
    BY <2>1, <2>6 DEF OffsetsSettled, SettledUpTo, AheadUnposted
  <2> QED
    BY <2>3, <2>4, <2>5, <2>7
<1>2. PositionInv /\ [Next]_vars => PositionInv'
  <2> SUFFICES ASSUME PositionInv, [Next]_vars
               PROVE  PositionInv'
    OBVIOUS
  <2>1. CASE Write \/ WriteRest
    BY <2>1, WriteGrows, PositionKeptByWorld
  <2>2. CASE Rename \/ Create \/ Reopen \/ Tick
    BY <2>2, RotationGrows, PositionKeptByWorld
  <2>3. CASE Truncate
    BY <2>3, TruncateGrows, PositionKeptByWorld
  <2>4. CASE Skip \/ SkipTorn \/ Drop \/ Advance
    BY <2>4, LinePassed
  <2>5. CASE Take \/ Retry
    BY <2>5, MarkKeeps
  <2>6. CASE Accept \/ Record
    BY <2>6, InHandKeeps
  <2>7. CASE AtEof
    BY <2>7, EofKeeps
  <2>8. CASE StatSame \/ StatTruncated \/ StatRotated
    BY <2>8, StatKeeps
  <2>9. CASE Open
    BY <2>9, OpenKeeps
  <2>10. CASE Stop \/ Crash \/ Start
    BY <2>10, RestartKeeps
  <2>11. CASE UNCHANGED vars
    <3>1. /\ UNCHANGED <<disk, past, pc, fh, saved_inode, offset, offset_file, used,
                         rotation_eofs, verdict>>
      BY <2>11 DEF vars, position, files
    <3>2. /\ UNCHANGED <<clock, log, torn, path, nginx, renamed, truncated>>
          /\ Inodes' = Inodes /\ \A f \in File : Size(f)' = Size(f)
          /\ InodesInOrder'
      BY <3>1, LogKept
    <3>3. TypeOK' /\ HoldsFile'
      BY <3>1, <3>2 DEF TypeOK, HoldsFile
    <3>4. Current' = Current /\ InHand' = InHand
      BY <3>1 DEF Current, InHand
    <3>5. OffsetsWithin' /\ OffsetsSettled' /\ SavedBehind' /\ EofsCounted'
      BY <3>1, <3>2, <3>4
        DEF OffsetsWithin, Within, OffsetsSettled, SettledUpTo, SavedBehind, EofsCounted
    <3>6. AheadUnposted'
      BY <3>1, <3>2, <3>4 DEF AheadUnposted, Ahead, Unposted
    <3> QED
      BY <3>2, <3>3, <3>5, <3>6
  <2> QED
    BY <2>1, <2>2, <2>3, <2>4, <2>5, <2>6, <2>7, <2>8, <2>9, <2>10, <2>11
      DEF Next, DaemonStep
<1> QED
  BY <1>1, <1>2, PTL DEF Spec

\* Neither the daemon's offset nor the saved one is past a line that is not
\* settled (follow, and the saves of the offset at its end and in its loop).
THEOREM PassedAreSettled == Spec => []PassedIsSettled
<1>1. ASSUME PositionInv PROVE PassedIsSettled
  <2>1. fh = NoFile \/ fh = saved_inode
    BY <1>1 DEF PositionInv, HoldsFile
  <2>2. NoFile \notin File
    BY ConstantsTyped
  <2> QED
    BY <1>1, <2>1, <2>2 DEF PositionInv, OffsetsSettled, PassedIsSettled, SettledUpTo
<1> QED
  BY <1>1, PositionInvAlways, PTL

\* A file that lost the path is left only when every line it had then is passed
\* (the second empty read, rotation_eofs).
THEOREM LeftFilesAreDrained == Spec => LeavesDrained
<1>1. ASSUME PositionInv, NEW f \in DOMAIN renamed \ truncated,
             StatRotated, fh = f, fh' # f
      PROVE  offset >= 2 * renamed[f] - 1
  <2>1. rotation_eofs \in Nat /\ rotation_eofs + 1 >= 2 /\ pc = "stat"
    BY <1>1 DEF StatRotated, ROTATION_EOF_GRACE, PositionInv, TypeOK
  <2> QED
    BY <1>1, <2>1 DEF PositionInv, EofsCounted
<1>2. PositionInv /\ [Next]_vars =>
        [\A f \in DOMAIN renamed \ truncated :
           (StatRotated /\ fh = f /\ fh' # f) => offset >= 2 * renamed[f] - 1]_vars
  BY <1>1
<1> QED
  BY <1>2, PositionInvAlways, PTL DEF Spec, LeavesDrained

\* A running daemon posts a line for the first time, or again after a failure
\* that may pass (process_line and the retries of follow).
THEOREM RepostsHaveCause == Spec => RepostHasCause
<1>1. ASSUME PositionInv, Take, fh \notin truncated, used.restarts = 0
      PROVE  verdict[fh][Current] \in {"unread", "failed"}
  <2> USE <1>1 DEF PositionInv
  <2>1. offset \in Nat /\ fh \in File
    BY DEF TypeOK, Inodes, Take, Reading, HoldsFile
  <2>2. /\ Current \in Nat \ {0} /\ offset % 2 = 0 /\ LineEnd = 2 * Current
        /\ offset = 2 * (Current - 1) /\ ~InHand
    BY <2>1, CurrentBounds DEF Take, Whole, Reading, InHand
  <2>3. 2 * Current <= 2 * Len(log[fh]) /\ DOMAIN verdict[fh] = 1..Len(log[fh])
        /\ Len(log[fh]) \in Nat
    BY <2>1, <2>2, SizeBounds DEF LineEnd
  <2>4. Current \in DOMAIN verdict[fh] /\ Ahead(Current)
    BY <2>2, <2>3 DEF Ahead
  <2> QED
    BY <2>1, <2>4 DEF AheadUnposted, Unposted
<1>2. PositionInv => used.restarts \in Nat
  BY DEF PositionInv, TypeOK, Bound
<1>3. PositionInv /\ [Next]_vars =>
        [Take /\ fh \notin truncated =>
           \/ verdict[fh][Current] \in {"unread", "failed"}
           \/ used.restarts > 0]_vars
  BY <1>1, <1>2
<1> QED
  BY <1>3, PositionInvAlways, PTL DEF Spec, RepostHasCause
------------------------------------------------------------------------------
(* The suppression. *)

SupState == [day : Int, count : Nat, last : UNION {[D -> Nat] : D \in SUBSET Ip}]

\* The reports of one day.
OfDay(reports, day) == {q \in reports : q.at \div Day = day}

\* A suppression state accounts for the reports there have been: it counts those
\* of its day at least, there is none of a later one, and it knows the last of
\* each address that is less than window_s ago.
Covers(s, reports, now) ==
  /\ s.day <= now \div Day
  /\ Cardinality(OfDay(reports, s.day)) <= s.count
  /\ \A q \in reports : q.at \div Day <= s.day
  /\ \A q \in OfDay(reports, s.day) :
       \/ q.ip \in DOMAIN s.last /\ q.at <= s.last[q.ip]
       \/ q.at + window_s <= now

\* The report in hand is one more that the state of the daemon allows.
MayReport ==
  /\ item \in [ip : Ip, at : Nat] /\ item.at <= clock
  /\ item.at \div Day = sup.day /\ sup.count < daily_cap
  /\ \A q \in OfDay(recorded, sup.day) : q.ip = item.ip => item.at - q.at >= window_s

SuppressionInv ==
  /\ recorded \subseteq [ip : Ip, at : Nat] /\ IsFiniteSet(recorded)
  /\ sup \in SupState /\ sup_file \in SupState
  /\ pc # "down" => Covers(sup, recorded, clock)
  /\ Covers(sup_file, recorded, clock)
  /\ pc \in {"post", "record"} => MayReport
  /\ SuppressionKept

LEMMA StateFields ==
  ASSUME NEW s \in SupState
  PROVE  /\ s.day \in Int /\ s.count \in Nat
         /\ DOMAIN s.last \subseteq Ip /\ \A ip \in DOMAIN s.last : s.last[ip] \in Nat
<1>1. PICK D \in SUBSET Ip : s.last \in [D -> Nat]
  BY DEF SupState
<1> QED
  BY <1>1 DEF SupState

LEMMA FieldsMakeState ==
  ASSUME NEW day \in Int, NEW count \in Nat,
         NEW last \in UNION {[D -> Nat] : D \in SUBSET Ip}
  PROVE  [day |-> day, count |-> count, last |-> last] \in SupState
<1> DEFINE Lasts == UNION {[D -> Nat] : D \in SUBSET Ip}
<1>1. last \in Lasts /\ SupState = [day : Int, count : Nat, last : Lasts]
  BY DEF SupState
<1> HIDE DEF Lasts
<1> QED
  BY <1>1

LEMMA FinitelyMany ==
  ASSUME NEW reports, IsFiniteSet(reports), NEW day
  PROVE  /\ IsFiniteSet(OfDay(reports, day))
         /\ Cardinality(OfDay(reports, day)) \in Nat
<1>1. OfDay(reports, day) \in SUBSET reports
  BY DEF OfDay
<1> QED
  BY <1>1, FS_Subset, FS_CardinalityType

\* Time passes.
LEMMA LaterCovers ==
  ASSUME NEW s \in SupState, NEW reports \in SUBSET [ip : Ip, at : Nat],
         NEW now \in Nat, NEW later \in Nat, now <= later, Covers(s, reports, now)
  PROVE  Covers(s, reports, later)
<1>1. Day \in Nat \ {0} /\ window_s \in Nat
  BY ConstantsTyped
<1>2. now \div Day <= later \div Day /\ now \div Day \in Nat /\ later \div Day \in Nat
  BY <1>1
<1>3. \A q \in OfDay(reports, s.day) : q.at \in Nat
  BY DEF OfDay
<1> QED
  BY <1>1, <1>2, <1>3, StateFields DEF Covers

\* A new day starts from nothing, of which there are no reports yet.
LEMMA RollCovers ==
  ASSUME NEW s \in SupState, NEW reports \in SUBSET [ip : Ip, at : Nat],
         NEW now \in Nat, Covers(s, reports, now)
  PROVE  LET t == RollDay(s, now)
         IN  t \in SupState /\ Covers(t, reports, now) /\ t.day = now \div Day
<1>1. CASE s.day = now \div Day
  BY <1>1 DEF RollDay
<1>2. CASE s.day # now \div Day
  <2> DEFINE t == [day |-> now \div Day, count |-> 0, last |-> <<>>]
  <2>1. Day \in Nat \ {0} /\ now \div Day \in Nat
    BY ConstantsTyped
  <2>2. RollDay(s, now) = t
    BY <1>2 DEF RollDay
  <2>3. <<>> \in UNION {[D -> Nat] : D \in SUBSET Ip}
    <3>1. <<>> \in [{} -> Nat] /\ {} \in SUBSET Ip
      OBVIOUS
    <3> QED
      BY <3>1, Zenon
  <2>4. t \in SupState
    <3>1. now \div Day \in Int /\ 0 \in Nat
      BY <2>1
    <3> QED
      BY <2>3, <3>1, FieldsMakeState, Zenon
  <2>5. ASSUME NEW q \in reports
        PROVE  q.at \div Day < now \div Day
    <3>1. q.at \div Day \in Nat
      BY <2>1
    <3> QED
      BY <1>2, <2>1, <3>1, StateFields DEF Covers
  <2>6. ASSUME NEW q \in reports
        PROVE  q.at \div Day \in Nat
    BY <2>1
  <2>7. OfDay(reports, t.day) = {}
    BY <2>1, <2>5, <2>6 DEF OfDay
  <2>8. /\ t.day <= now \div Day
        /\ \A q \in reports : q.at \div Day <= t.day
    BY <2>1, <2>5, <2>6
  <2>9. t.count = 0 /\ Cardinality(OfDay(reports, t.day)) <= t.count
    BY <2>7, FS_EmptySet
  <2>10. Covers(t, reports, now)
    BY <2>7, <2>8, <2>9 DEF Covers
  <2> QED
    BY <2>2, <2>4, <2>10
<1> QED
  BY <1>1, <1>2

\* A report that is allowed and recorded is accounted for.
LEMMA RecordedCovers ==
  ASSUME NEW s \in SupState, NEW reports \in SUBSET [ip : Ip, at : Nat],
         IsFiniteSet(reports), NEW now \in Nat, Covers(s, reports, now),
         NEW r \in [ip : Ip, at : Nat], r.at <= now, r.at \div Day = s.day,
         \A q \in OfDay(reports, s.day) : q.ip = r.ip => r.at - q.at >= window_s
  PROVE  LET t == Recorded(s, r.ip, r.at)
         IN  /\ t \in SupState
             /\ Covers(t, reports, now) /\ Covers(t, reports \union {r}, now)
<1> DEFINE kept == {ip \in DOMAIN s.last \union {r.ip} :
                      Bind(s.last, r.ip, r.at)[ip] >= r.at - window_s}
           last == Prune(Bind(s.last, r.ip, r.at), r.at)
           t == Recorded(s, r.ip, r.at)
           more == reports \union {r}
<1>1. Day \in Nat \ {0} /\ window_s \in Nat
  BY ConstantsTyped
<1>2. /\ s.day \in Int /\ s.count \in Nat
      /\ DOMAIN s.last \subseteq Ip /\ \A ip \in DOMAIN s.last : s.last[ip] \in Nat
  BY StateFields
<1>3. r.ip \in Ip /\ r.at \in Nat
  OBVIOUS
<1>4. RollDay(s, r.at) = s
  BY DEF RollDay
<1>5. t = [s EXCEPT !.count = @ + 1, !.last = last]
  BY <1>4 DEF Recorded
<1>6. /\ DOMAIN last = kept
      /\ \A ip \in kept : last[ip] = IF ip = r.ip THEN r.at ELSE s.last[ip]
  BY DEF Prune, Restrict, Bind
<1>7. kept \subseteq Ip /\ \A ip \in kept : last[ip] \in Nat
  BY <1>2, <1>3, <1>6
<1>8. last \in [kept -> Nat]
  <2>1. last = [ip \in kept |-> Bind(s.last, r.ip, r.at)[ip]]
    BY DEF Prune, Restrict, Bind
  <2> QED
    BY <1>6, <1>7, <2>1
<1>9. \A ip \in DOMAIN s.last \union {r.ip} :
        ip \notin kept => ~((IF ip = r.ip THEN r.at ELSE s.last[ip]) >= r.at - window_s)
  BY DEF Bind
<1> HIDE DEF kept, last, t
<1>10. last \in UNION {[D -> Nat] : D \in SUBSET Ip}
  BY <1>7, <1>8
<1>11. t \in SupState /\ t.day = s.day /\ t.count = s.count + 1 /\ t.last = last
  <2>1. t = [day |-> s.day, count |-> s.count + 1, last |-> last]
    BY <1>5 DEF SupState
  <2>2. s.count + 1 \in Nat
    BY <1>2
  <2>3. t \in SupState
    BY <1>2, <1>10, <2>1, <2>2, FieldsMakeState
  <2> QED
    BY <2>1, <2>3
<1>12. r.ip \in kept
  BY <1>1, <1>2, <1>3, <1>9
<1>13. ASSUME NEW q \in OfDay(more, s.day)
       PROVE  \/ q.ip \in DOMAIN last /\ q.at <= last[q.ip]
              \/ q.at + window_s <= now
  <2>1. CASE q = r
    BY <1>3, <1>6, <1>12, <2>1
  <2>2. CASE q # r
    <3>1. q \in OfDay(reports, s.day) /\ q \in [ip : Ip, at : Nat]
      BY <2>2 DEF OfDay
    <3>2. CASE q.ip = r.ip
      <4>1. r.at - q.at >= window_s
        BY <3>1, <3>2
      <4> QED
        BY <1>1, <1>3, <1>6, <1>12, <3>1, <3>2, <4>1
    <3>3. CASE q.ip # r.ip /\ q.ip \in DOMAIN s.last /\ q.at <= s.last[q.ip]
      <4>1. CASE q.ip \in kept
        BY <1>6, <3>3, <4>1
      <4>2. CASE q.ip \notin kept
        <5>1. ~(s.last[q.ip] >= r.at - window_s) /\ s.last[q.ip] \in Nat
          BY <1>2, <1>9, <3>3, <4>2
        <5> QED
          BY <1>1, <1>3, <3>1, <3>3, <5>1
      <4> QED
        BY <4>1, <4>2
    <3> QED
      BY <3>1, <3>2, <3>3 DEF Covers
  <2> QED
    BY <2>1, <2>2
<1>14. Cardinality(OfDay(more, s.day)) <= s.count + 1
  <2>1. OfDay(more, s.day) = OfDay(reports, s.day) \union {r}
    BY DEF OfDay
  <2>2. /\ IsFiniteSet(OfDay(reports, s.day))
        /\ Cardinality(OfDay(reports, s.day)) \in Nat
    BY FinitelyMany
  <2>3. Cardinality(OfDay(reports, s.day)) <= s.count
    BY DEF Covers
  <2> HIDE DEF more
  <2>4. Cardinality(OfDay(more, s.day)) \in {Cardinality(OfDay(reports, s.day)),
                                             Cardinality(OfDay(reports, s.day)) + 1}
    BY <2>1, <2>2, FS_AddElement
  <2> QED
    BY <1>2, <2>2, <2>3, <2>4
<1>15. Cardinality(OfDay(reports, s.day)) <= s.count + 1
  <2>1. Cardinality(OfDay(reports, s.day)) \in Nat
    BY FinitelyMany
  <2> QED
    BY <1>2, <2>1 DEF Covers
<1>16. OfDay(reports, s.day) \subseteq OfDay(more, s.day)
  BY DEF OfDay
<1>17. \A q \in more : q.at \div Day <= s.day
  BY <1>2 DEF Covers
<1>18. s.day <= now \div Day
  BY DEF Covers
<1> HIDE DEF more
<1>19. Covers(t, more, now)
  BY <1>11, <1>13, <1>14, <1>17, <1>18 DEF Covers
<1>20. reports \subseteq more
  BY DEF more
<1>21. Covers(t, reports, now)
  BY <1>11, <1>13, <1>15, <1>16, <1>17, <1>18, <1>20 DEF Covers
<1> QED
  BY <1>11, <1>19, <1>21 DEF t, more

\* One report more that the state of the daemon allows.
LEMMA RecordKeepsSuppression ==
  ASSUME SuppressionKept, MayReport, sup \in SupState, Covers(sup, recorded, clock),
         recorded \subseteq [ip : Ip, at : Nat], IsFiniteSet(recorded),
         recorded' = recorded \union {item}
  PROVE  SuppressionKept'
<1>1. /\ Day \in Nat \ {0} /\ window_s \in Nat /\ daily_cap \in Nat
      /\ sup.day \in Int /\ sup.count \in Nat
  BY ConstantsTyped, StateFields
<1>2. /\ item \in [ip : Ip, at : Nat] /\ item.at \div Day = sup.day
      /\ sup.count < daily_cap
      /\ \A q \in OfDay(recorded, sup.day) : q.ip = item.ip => item.at - q.at >= window_s
  BY DEF MayReport
<1>3. ASSUME NEW day
      PROVE  /\ IsFiniteSet(OfDay(recorded, day))
             /\ Cardinality(OfDay(recorded, day)) \in Nat
             /\ OfDay(recorded', day) = IF day = sup.day
                                          THEN OfDay(recorded, day) \union {item}
                                          ELSE OfDay(recorded, day)
  <2>1. IsFiniteSet(OfDay(recorded, day)) /\ Cardinality(OfDay(recorded, day)) \in Nat
    BY FinitelyMany
  <2>2. OfDay(recorded', day) = IF day = sup.day THEN OfDay(recorded, day) \union {item}
                                ELSE OfDay(recorded, day)
    BY <1>2 DEF OfDay
  <2> QED
    BY <2>1, <2>2
<1>4. ASSUME NEW r \in recorded'
      PROVE  Cardinality(OfDay(recorded', r.at \div Day)) <= daily_cap
  <2>1. CASE r.at \div Day = sup.day
    <3> DEFINE today == OfDay(recorded, sup.day)
    <3>1. /\ OfDay(recorded', sup.day) = today \union {item}
          /\ IsFiniteSet(today) /\ Cardinality(today) \in Nat
      BY <1>3
    <3>2. Cardinality(today) <= sup.count
      BY DEF Covers
    <3> HIDE DEF today
    <3>3. Cardinality(today \union {item}) \in {Cardinality(today), Cardinality(today) + 1}
      BY <3>1, FS_AddElement
    <3>4. Cardinality(today \union {item}) <= daily_cap
      BY <1>1, <1>2, <3>1, <3>2, <3>3
    <3>5. OfDay(recorded', r.at \div Day) = today \union {item}
      BY <2>1, <3>1
    <3> QED
      BY <3>4, <3>5
  <2>2. CASE r.at \div Day # sup.day
    <3>1. r \in recorded
      BY <1>2, <2>2
    <3>2. Cardinality(OfDay(recorded, r.at \div Day)) <= daily_cap
      BY <3>1 DEF SuppressionKept, OfDay
    <3> QED
      BY <1>3, <2>2, <3>2
  <2> QED
    BY <2>1, <2>2
<1>5. ASSUME NEW q \in recorded', NEW r \in recorded',
             q # r, q.ip = r.ip, q.at \div Day = r.at \div Day
      PROVE  q.at - r.at >= window_s \/ r.at - q.at >= window_s
  <2>1. CASE q \in recorded /\ r \in recorded
    BY <1>5, <2>1 DEF SuppressionKept
  <2>2. CASE q \in recorded /\ r = item
    BY <1>2, <1>5, <2>2 DEF OfDay
  <2>3. CASE q = item /\ r \in recorded
    BY <1>2, <1>5, <2>3 DEF OfDay
  <2> QED
    BY <1>5, <2>1, <2>2, <2>3
<1> QED
  BY <1>4, <1>5 DEF SuppressionKept, OfDay

\* The steps that leave the reports alone.
LEMMA ReportsKept ==
  ASSUME SuppressionInv, clock \in Nat, clock' \in Nat, clock <= clock',
         UNCHANGED <<recorded, sup_file>>, sup' \in SupState,
         pc' # "down" => Covers(sup', recorded, clock'),
         pc' \in {"post", "record"} => MayReport'
  PROVE  SuppressionInv'
<1> USE DEF SuppressionInv
<1>1. Covers(sup_file, recorded, clock')
  BY LaterCovers
<1>2. SuppressionKept'
  BY DEF SuppressionKept
<1> QED
  BY <1>1, <1>2

LEMMA SuppressionInvAlways == Spec => []SuppressionInv
<1> USE DEF SuppressionInv
<1>1. Init => SuppressionInv
  <2> SUFFICES ASSUME Init PROVE SuppressionInv
    OBVIOUS
  <2>1. Day \in Nat \ {0} /\ 0 \div Day = 0
    BY ConstantsTyped
  <2>2. recorded = {} /\ sup = NoState /\ sup_file = NoState /\ clock = 0 /\ pc = "open"
    BY DEF Init
  <2>3. <<>> \in UNION {[D -> Nat] : D \in SUBSET Ip}
    <3>1. <<>> \in [{} -> Nat] /\ {} \in SUBSET Ip
      OBVIOUS
    <3> QED
      BY <3>1, Zenon
  <2>4. NoState \in SupState
    <3>1. -1 \in Int /\ 0 \in Nat
      OBVIOUS
    <3> QED
      BY <2>3, <3>1, FieldsMakeState, Zenon DEF NoState
  <2>5. OfDay({}, -1) = {}
    BY DEF OfDay
  <2>6. NoState.day = -1 /\ NoState.count = 0
    BY DEF NoState
  <2>7. Covers(NoState, {}, 0)
    BY <2>1, <2>5, <2>6, FS_EmptySet DEF Covers
  <2>8. SuppressionKept
    BY <2>2 DEF SuppressionKept
  <2> QED
    BY <2>2, <2>4, <2>7, <2>8, FS_EmptySet
<1>2. PositionInv /\ SuppressionInv /\ [Next]_vars => SuppressionInv'
  <2> SUFFICES ASSUME PositionInv, SuppressionInv, [Next]_vars
               PROVE  SuppressionInv'
    OBVIOUS
  <2>1. clock \in Nat
    BY DEF PositionInv, TypeOK
  <2>2. CASE Tick
    <3>1. UNCHANGED <<recorded, sup_file, sup, pc, item>> /\ clock' = clock + 1
      BY <2>2 DEF Tick, daemon, files
    <3>2. clock' \in Nat /\ clock <= clock'
      BY <2>1, <3>1
    <3>3. pc' # "down" => Covers(sup', recorded, clock')
      BY <2>1, <3>1, <3>2, LaterCovers
    <3>4. MayReport => MayReport'
      BY <2>1, <3>1 DEF MayReport
    <3> QED
      BY <2>1, <3>1, <3>2, <3>3, <3>4, ReportsKept
  <2>3. ASSUME UNCHANGED <<recorded, sup_file, sup, clock>>,
               pc # "down" \/ pc' = "down", pc' \in {"post", "record"} => pc = "post",
               pc' \in {"post", "record"} => item' = item
        PROVE  SuppressionInv'
    <3>1. pc' \in {"post", "record"} => MayReport'
      BY <2>3 DEF MayReport
    <3>2. clock <= clock'
      BY <2>1, <2>3
    <3> QED
      BY <2>1, <2>3, <3>1, <3>2, ReportsKept
  <2>4. CASE Write \/ WriteRest \/ Rename \/ Create \/ Reopen \/ Truncate \/ UNCHANGED vars
    <3>1. UNCHANGED <<recorded, sup_file, sup, clock, pc, item>>
      BY <2>4 DEF Write, WriteRest, Rename, Create, Reopen, Truncate, vars, disk,
                  daemon, files
    <3>2. MayReport' = MayReport /\ Covers(sup', recorded, clock') = Covers(sup, recorded, clock)
      BY <3>1 DEF MayReport
    <3>3. clock <= clock'
      BY <2>1, <3>1
    <3> QED
      BY <2>1, <3>1, <3>2, <3>3, ReportsKept
  <2>5. CASE Open \/ SkipTorn \/ Accept \/ Drop \/ Retry \/ Advance \/ AtEof
             \/ StatSame \/ StatTruncated \/ StatRotated
    BY <2>3, <2>5
      DEF Open, SkipTorn, Accept, Drop, Retry, Advance, AtEof, StatSame, StatTruncated,
          StatRotated, Reading, Pass, Close, disk, files
  <2>6. CASE Stop \/ Crash
    <3>1. UNCHANGED <<recorded, sup_file, clock>> /\ pc' = "down" /\ sup' = NoState
      BY <2>6 DEF Stop, Crash, Down, disk, files
    <3>2. sup' \in SupState
      <4>1. <<>> \in [{} -> Nat] /\ {} \in SUBSET Ip
        OBVIOUS
      <4>2. <<>> \in UNION {[D -> Nat] : D \in SUBSET Ip}
        BY <4>1, Zenon
      <4>3. -1 \in Int /\ 0 \in Nat
        OBVIOUS
      <4> QED
        BY <3>1, <4>2, <4>3, FieldsMakeState, Zenon DEF NoState
    <3>3. clock <= clock'
      BY <2>1, <3>1
    <3> QED
      BY <2>1, <3>1, <3>2, <3>3, ReportsKept
  <2>7. CASE Start
    <3>1. UNCHANGED <<recorded, sup_file, clock>> /\ pc' = "open" /\ sup' = sup_file
      BY <2>7 DEF Start, LoadState, disk, files
    <3>2. clock <= clock'
      BY <2>1, <3>1
    <3> QED
      BY <2>1, <3>1, <3>2, ReportsKept
  <2>8. CASE Skip \/ Take
    <3> DEFINE rolled == RollDay(sup, clock)
    <3>1. /\ UNCHANGED <<recorded, sup_file, clock>> /\ pc = "read"
          /\ sup' \in {sup, rolled}
      BY <2>8 DEF Skip, Take, Reading, disk, files
    <3>2. rolled \in SupState /\ Covers(rolled, recorded, clock) /\ rolled.day = clock \div Day
      BY <2>1, <3>1, RollCovers
    <3>3. clock <= clock'
      BY <2>1, <3>1
    <3> HIDE DEF rolled
    <3>4. sup' \in SupState /\ Covers(sup', recorded, clock')
      BY <3>1, <3>2
    <3>5. CASE Skip
      <4>1. pc' = "read"
        BY <3>5 DEF Skip, Pass
      <4> QED
        BY <2>1, <3>1, <3>3, <3>4, <4>1, ReportsKept
    <3>6. CASE Take
      <4> DEFINE ip == log[fh][Current]
      <4>1. /\ sup' = rolled /\ Allowed(sup', ip, clock) /\ ip # Junk
            /\ item' = [ip |-> ip, at |-> clock]
        BY <3>6 DEF Take, rolled
      <4>2. ip \in Ip
        <5>1. offset \in Nat /\ fh \in File
          BY <3>1 DEF PositionInv, TypeOK, HoldsFile, Inodes
        <5>2. Current \in Nat \ {0} /\ LineEnd = 2 * Current
          BY <3>6, <5>1, CurrentBounds DEF Take, Whole
        <5>3. Size(fh) \in Nat /\ Size(fh) <= 2 * Len(log[fh]) /\ Len(log[fh]) \in Nat
          BY <5>1, SizeBounds DEF PositionInv
        <5>4. Current \in 1..Len(log[fh])
          BY <5>2, <5>3 DEF LineEnd
        <5>5. log[fh] \in Seq(Ip \union {Junk})
          BY <5>1 DEF PositionInv, TypeOK
        <5>6. log[fh][Current] \in Ip \union {Junk}
          BY <5>4, <5>5
        <5> QED
          BY <4>1, <5>6
      <4> HIDE DEF ip
      <4>3. /\ rolled.count < daily_cap
            /\ ip \in DOMAIN rolled.last => clock - rolled.last[ip] >= window_s
        BY <4>1 DEF Allowed
      <4>4. ASSUME NEW q \in OfDay(recorded, rolled.day), q.ip = ip
            PROVE  clock - q.at >= window_s
        <5>1. q.at \in Nat /\ window_s \in Nat
          BY ConstantsTyped DEF OfDay
        <5>2. CASE ip \in DOMAIN rolled.last /\ q.at <= rolled.last[ip]
          <6>1. rolled.last[ip] \in Nat
            BY <3>2, <5>2, StateFields
          <6> QED
            BY <2>1, <4>3, <5>1, <5>2, <6>1
        <5>3. CASE q.at + window_s <= clock
          BY <2>1, <5>1, <5>3
        <5> QED
          BY <3>2, <4>4, <5>2, <5>3 DEF Covers
      <4>5. item' \in [ip : Ip, at : Nat] /\ item'.ip = ip /\ item'.at = clock
        BY <2>1, <4>1, <4>2
      <4>6. MayReport'
        BY <2>1, <3>1, <3>2, <4>1, <4>3, <4>4, <4>5 DEF MayReport
      <4> QED
        BY <2>1, <3>1, <3>3, <3>4, <4>6, ReportsKept
    <3> QED
      BY <2>8, <3>5, <3>6
  <2>9. CASE Record
    <3>1. /\ UNCHANGED clock /\ pc = "record" /\ pc' = "advance"
          /\ sup' = Recorded(sup, item.ip, item.at)
          /\ \/ sup_file' = sup' /\ recorded' = recorded \union {item}
             \/ UNCHANGED <<sup_file, recorded>>
      BY <2>9 DEF Record, disk
    <3>2. MayReport /\ Covers(sup, recorded, clock)
      BY <3>1
    <3>3. /\ sup' \in SupState /\ Covers(sup', recorded, clock)
          /\ Covers(sup', recorded \union {item}, clock)
      BY <2>1, <3>1, <3>2, RecordedCovers DEF MayReport
    <3>4. CASE sup_file' = sup' /\ recorded' = recorded \union {item}
      <4>1. item \in [ip : Ip, at : Nat]
        BY <3>2 DEF MayReport
      <4>2. recorded' \subseteq [ip : Ip, at : Nat] /\ IsFiniteSet(recorded')
        BY <3>4, <4>1, FS_AddElement
      <4>3. SuppressionKept'
        BY <3>2, <3>4, RecordKeepsSuppression
      <4> QED
        BY <3>1, <3>3, <3>4, <4>2, <4>3
    <3>5. CASE UNCHANGED <<sup_file, recorded>>
      <4>1. clock <= clock'
        BY <2>1, <3>1
      <4> QED
        BY <2>1, <3>1, <3>3, <3>5, <4>1, ReportsKept
    <3> QED
      BY <3>1, <3>4, <3>5
  <2> QED
    BY <2>2, <2>4, <2>5, <2>6, <2>7, <2>8, <2>9 DEF Next, DaemonStep
<1> QED
  BY <1>1, <1>2, PositionInvAlways, PTL DEF Spec

\* The daily cap and the window of an address hold for the reports of any day, over
\* all stops and crashes (Suppressor, saved before the line is passed).
THEOREM SuppressionHolds == Spec => []SuppressionKept
<1>1. SuppressionInv => SuppressionKept
  BY DEF SuppressionInv
<1> QED
  BY <1>1, SuppressionInvAlways, PTL
==============================================================================
