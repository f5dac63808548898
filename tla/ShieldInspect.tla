----------------------------- MODULE ShieldInspect -----------------------------
(***************************************************************************)
(* What ngx_http_shield_module.c inspects of one request: the structural   *)
(* checks, the request target in two passes, every header under the mask   *)
(* its name calls for, and the first bytes of a text-shaped body.  The     *)
(* categories, their flavours, positions and rules are those of            *)
(* ngx_http_shield_patterns.h.                                             *)
(*                                                                         *)
(* Data is a sequence of pieces: the name of a category stands for one of  *)
(* its signatures, a term for itself, anything else for innocent text.     *)
(* Names and media types are compared without regard to case in the code:  *)
(* pieces have none.  What the scanner finds in a buffer is specified in   *)
(* ShieldScan.                                                             *)
(***************************************************************************)
EXTENDS Integers, Sequences, FiniteSets, SequencesExt, FiniteSetsExt

CONSTANTS
  Piece,      \* what data is made of
  Requests,   \* the requests, as nginx hands them to the module
  Skips,      \* values of shield_skip: sets of categories
  MaxBodies,  \* values of shield_max_body
  MAX_RANGES  \* NGX_HTTP_SHIELD_MAX_RANGES

\* A buffer of the body is in memory, in a file, or neither.
ASSUME RequestAssumption ==
  /\ \A q \in Requests :
       /\ q.target \in Seq(Piece) /\ q.uri \in Seq(Piece)
       /\ q.headers \in Seq([key : Piece, hash : BOOLEAN, value : Seq(Piece)])
       /\ q.bufs \in Seq([in : {"memory", "file", "other"}, data : Seq(Piece)])
       /\ q.content_length_n \in Int /\ q.chunked \in BOOLEAN
  /\ MaxBodies \subseteq Nat

VARIABLES
  r,        \* the request
  slcf,     \* its location's configuration: skip, max_body
  stage,    \* what is inspected next
  header,   \* the header that is next
  out,      \* the bytes of the body collected so far
  cl, done, \* the buffer of the body that is next, and what was read of it
  rc,       \* NGX_OK (a hit), NGX_DECLINED (clean), NGX_ERROR (not scanned)
  hit       \* the category and the place of a hit

vars == <<r, slcf, stage, header, out, cl, done, rc, hit>>

NoHit == [cat |-> "none", source |-> "none"]

------------------------------------------------------------------------------
(* The tables. *)

Row(cat, match, exempt) == [cat |-> cat, match |-> match, exempt |-> exempt]

DECODED == {"decoded"}
RAW == {"raw"}
NO_BODY == {"body"}
NO_QUERY == {"query"}

categories ==
  << Row("sqli", DECODED, {}),
     Row("xss", DECODED, NO_BODY \union NO_QUERY),
     Row("traversal", DECODED \union RAW, NO_BODY),
     Row("overlong", RAW, {}),
     Row("cmdi", DECODED, NO_BODY),
     Row("lfi", DECODED, NO_BODY),
     Row("crlf", DECODED \union RAW, {}),
     Row("nullbyte", RAW, {}),
     Row("template", DECODED, NO_BODY),
     Row("deserial", DECODED, {}),
     Row("shellshock", DECODED, {}),
     Row("php_rce", DECODED, NO_BODY),
     Row("java_rce", DECODED \union RAW, NO_BODY),
     Row("java_eval", DECODED, NO_BODY),
     Row("rails_yaml", DECODED, {}),
     Row("drupal", DECODED, {}),
     Row("vbulletin", DECODED, {}),
     Row("xmlrpc", DECODED, {}),
     Row("ssi", DECODED, {}),
     Row("imagetragick", DECODED, {}),
     Row("sensitive_file", DECODED, NO_BODY \union NO_QUERY),
     Row("webshell", DECODED, {}),
     Row("ssrf_meta", DECODED, {}),
     Row("nosql", DECODED \union RAW, {}),
     Row("ssti", DECODED \union RAW, {}),
     Row("exploit_path", DECODED \union RAW, NO_BODY) >>

Rule(cat, terms) == [cat |-> cat, terms |-> terms]

\* The rules, all of them of the decoded copy; one of the terms holds the
\* question mark before the query.
rules ==
  << Rule("exploit_path", {<<"requirepasswordchange=y">>, <<"/webtools/control/">>}),
     Rule("deserial", {<<"jdbc:h2:">>, <<"init=">>}),
     Rule("exploit_path", {<<"/cli", "?">>, <<"remoting=true">>}),
     Rule("exploit_path", {<<"/catalog-portal/ui/oauth/verify">>, <<"${">>}),
     Rule("ssrf_meta", {<<".nip.io">>, <<"169-254-169-254">>}),
     Rule("exploit_path", {<<"/cf_scripts/filemanager/">>, <<"_cfclient=true">>}) >>

Scanned == {categories[i].cat : i \in DOMAIN categories}
Structural == {"httpoxy", "range_dos", "ctrl_char", "dotfile"}
Cats == Scanned \union Structural

Exempt(where) ==
  {categories[i].cat : i \in {j \in DOMAIN categories : where \subseteq categories[j].exempt}}

no_body_mask == Exempt(NO_BODY)
no_query_mask == Exempt(NO_QUERY)

------------------------------------------------------------------------------
(* The scanner, as the caller sees it. *)

Found(copy, data, skip) ==
  LET Live(n) == \E i \in DOMAIN categories :
        /\ categories[i].cat = data[n] /\ copy \subseteq categories[i].match
        /\ data[n] \notin skip
      at == {n \in DOMAIN data : Live(n)}
  IN  IF at = {} THEN "none" ELSE data[Min(at)]

Occurs(w, data) ==
  \E n \in Len(w)..Len(data) : SubSeq(data, n - Len(w) + 1, n) = w

Ruled(data, skip) ==
  LET fired == {i \in DOMAIN rules : /\ rules[i].cat \notin skip
                                     /\ \A t \in rules[i].terms : Occurs(t, data)}
  IN  IF fired = {} THEN "none" ELSE rules[Min(fired)].cat

\* The raw copy, then the decoded one, then the rules.
scan_input(data, skip) ==
  LET raw == Found(RAW, data, skip)
      decoded == Found(DECODED, data, skip)
  IN  CASE raw # "none" -> raw
        [] raw = "none" /\ decoded # "none" -> decoded
        [] OTHER -> Ruled(data, skip)

\* The outcomes: no memory for the copies is an error, never a clean buffer.
scan_r(data, skip) ==
  IF data = <<>> THEN {"none"} ELSE {scan_input(data, skip), "error"}

\* Mutant: a buffer that could not be scanned is clean.
EndsErrorDropped(result, source, next) ==
  IF result \in {"none", "error"}
  THEN stage' = next /\ UNCHANGED <<rc, hit>>
  ELSE stage' = "done" /\ rc' = "OK" /\ hit' = [cat |-> result, source |-> source]

\* What follows a result: anything but a clean buffer ends the inspection.
Ends(result, source, next) ==
  CASE result = "none" -> stage' = next /\ UNCHANGED <<rc, hit>>
    [] result = "error" -> stage' = "done" /\ rc' = "ERROR" /\ UNCHANGED hit
    [] OTHER -> /\ stage' = "done" /\ rc' = "OK"
                /\ hit' = [cat |-> result, source |-> source]

------------------------------------------------------------------------------
(* The structural checks. *)

\* Where the headers of a name are.
Named(name) == {i \in DOMAIN r.headers : r.headers[i].key = name}

check_httpoxy == Named("proxy") # {}

\* The first Range header only: the one headers_in.range refers to.
check_range ==
  LET range == r.headers[Min(Named("range"))].value
  IN  /\ Named("range") # {}
      /\ Cardinality({n \in DOMAIN range : range[n] = ","}) + 1 > MAX_RANGES

check_ctrl_char == \E i \in DOMAIN r.uri : r.uri[i] = "control"

well_known == <<".", "well-known">>

\* The walk over the path, from its byte i on.
check_dotfile ==
  LET uri == r.uri
      Rest(i) == SubSeq(uri, i, Len(uri))
      Is(segment, i) == \/ Rest(i) = segment
                        \/ IsPrefix(Append(segment, "/"), Rest(i))
      Walk[i \in 1..Len(uri) + 1] == [at_segment_start \in {0, 1} |->
        CASE i > Len(uri) -> "DECLINED"
          [] i <= Len(uri) /\ uri[i] = "/" -> Walk[i + 1][1]
          [] i <= Len(uri) /\ uri[i] = "." /\ at_segment_start = 1 ->
               CASE Is(<<".">>, i) \/ Is(<<".", ".">>, i) -> Walk[i + 1][0]
                 [] Is(well_known, i) -> Walk[i + Len(well_known)][0]
                 [] OTHER -> "OK"
          [] OTHER -> Walk[i + 1][0]]
  IN  Walk[1][1] = "OK"

Check(this, cat, fires, source, next) ==
  /\ stage = this
  /\ Ends(IF cat \notin slcf.skip /\ fires THEN cat ELSE "none", source, next)
  /\ UNCHANGED <<r, slcf, header, out, cl, done>>

CheckHttpoxy == Check("httpoxy", "httpoxy", check_httpoxy, "header", "range")
CheckRange == Check("range", "range_dos", check_range, "range", "ctrl_char")
CheckCtrlChar == Check("ctrl_char", "ctrl_char", check_ctrl_char, "uri", "dotfile")
CheckDotfile == Check("dotfile", "dotfile", check_dotfile, "uri", "target")

------------------------------------------------------------------------------
(* The target and the headers. *)

ScanTarget ==
  /\ stage = "target"
  /\ \E result \in scan_r(r.target, slcf.skip \union no_query_mask) :
       Ends(result, "uri", "path")
  /\ UNCHANGED <<r, slcf, header, out, cl, done>>

\* Where c comes first, or 0.
First(c, data) == SelectInSeq(data, LAMBDA x : x = c)

path ==
  LET q == First("?", r.target)
  IN  IF q = 0 THEN r.target ELSE SubSeq(r.target, 1, q - 1)

\* The second pass, for what the first left out and the location did not skip.
ScanPath ==
  /\ stage = "path"
  /\ \E result \in IF no_query_mask \subseteq slcf.skip THEN {"none"}
                   ELSE scan_r(path, slcf.skip \union (Cats \ no_query_mask)) :
       Ends(result, "uri", "headers")
  /\ UNCHANGED <<r, slcf, header, out, cl, done>>

generic_allowed == {"template", "shellshock"}

\* Under which place a header's hit is reported.
Source(key) ==
  IF key \in {"user-agent", "referer", "content-type"} THEN key ELSE "header"

\* Which categories a header's name lets through.
Allowed(key) ==
  CASE key \in {"user-agent", "referer", "destination",
                "x-original-url", "x-rewrite-url"} -> Cats
    [] key = "content-type" ->
         generic_allowed \union {"java_rce", "crlf", "nullbyte", "overlong"}
    [] key = "cookie" ->
         generic_allowed \union {"sqli", "xss", "cmdi", "lfi", "crlf", "nullbyte",
           "overlong", "php_rce", "java_rce", "java_eval", "nosql", "ssti"}
    [] OTHER -> generic_allowed

\* The next header; a removed one (hash 0) is passed over.
ScanHeader ==
  /\ stage = "headers" /\ header <= Len(r.headers)
  /\ LET h == r.headers[header]
     IN  \E result \in IF ~h.hash THEN {"none"}
                       ELSE scan_r(h.value, slcf.skip \union (Cats \ Allowed(h.key))) :
           Ends(result, Source(h.key), "headers")
  /\ header' = header + 1
  /\ UNCHANGED <<r, slcf, out, cl, done>>

------------------------------------------------------------------------------
(* The body. *)

Blank(c) == c = " "

\* The media type is exactly this one: blanks may only precede the end or the
\* parameters.
content_type_is(v, type) ==
  /\ IsPrefix(type, v)
  /\ \E i \in Len(type) + 1..Len(v) + 1 :
       /\ \A j \in Len(type) + 1..i - 1 : Blank(v[j])
       /\ i = Len(v) + 1 \/ v[i] = ";"

\* Mutant: the suffix may be anywhere in an application type.
suffix_anywhere(v, suffix) ==
  Len(v) > 1 /\ v[1] = "application/" /\ Contains(v, suffix)

\* A structured suffix of the application type before the parameters.
content_type_suffix(v, suffix) ==
  LET semi == First(";", v)
      type == IF semi = 0 THEN v ELSE SubSeq(v, 1, semi - 1)
      end == Max({0} \union {i \in DOMAIN type : ~Blank(type[i])})
  IN  Len(v) > 1 /\ v[1] = "application/" /\ end > 0 /\ v[end] = suffix

TextTypes ==
  {<<"multipart/form-data">>} \union
  {<<"application/", t>> : t \in {"x-www-form-urlencoded", "json", "xml", "graphql",
                                  "x-ndjson", "json-seq", "yaml", "x-yaml"}}

content_type_value_scannable(v) ==
  \/ \E type \in TextTypes : content_type_is(v, type)
  \/ IsPrefix(<<"text/">>, v)
  \/ \E suffix \in {"+json", "+xml"} : content_type_suffix(v, suffix)

\* Any instance of the header may say so; none at all does too.
scannable_body ==
  LET types == Named("content-type")
  IN  /\ r.content_length_n > 0 \/ r.chunked
      /\ types = {} \/ \E i \in types : content_type_value_scannable(r.headers[i].value)

\* Nothing found before the body: it is read and collected, or left alone.
DecideBody ==
  /\ stage = "headers" /\ header > Len(r.headers)
  /\ stage' = IF scannable_body THEN "collect" ELSE "done"
  /\ UNCHANGED <<r, slcf, header, out, cl, done, rc, hit>>

\* How much of the body is collected: the cap, or its length if that is known
\* and less.
max ==
  IF r.content_length_n > 0 THEN Min({slcf.max_body, r.content_length_n})
  ELSE slcf.max_body

Collecting == stage = "collect" /\ cl <= Len(r.bufs) /\ Len(out) < max

Buf == r.bufs[cl]

\* What is taken of the buffer cl, of which "done" is out already.
BufLen == Min({Len(Buf.data), max - (Len(out) - done)})

NextBuf == cl' = cl + 1 /\ done' = 0

\* A buffer in memory; one neither in memory nor in a file holds nothing.
CopyBuf ==
  /\ Collecting /\ Buf.in # "file"
  /\ out' = out \o (IF Buf.in = "memory" THEN SubSeq(Buf.data, 1, BufLen) ELSE <<>>)
  /\ NextBuf
  /\ UNCHANGED <<r, slcf, stage, header, rc, hit>>

\* Mutant: each read of a buffer starts at its first byte.
OffsetReset == 0

\* Where in the buffer the next read starts.
Offset == done

\* One read of a file, which may be short.
ReadFile ==
  /\ stage = "collect" /\ cl <= Len(r.bufs) /\ Buf.in = "file"
  /\ \E n \in 1..BufLen - done :
       /\ out' = out \o SubSeq(Buf.data, Offset + 1, Offset + n)
       /\ IF done + n = BufLen THEN NextBuf ELSE done' = done + n /\ UNCHANGED cl
  /\ UNCHANGED <<r, slcf, stage, header, rc, hit>>

EmptyFile ==
  /\ Collecting /\ Buf.in = "file" /\ Buf.data = <<>> /\ NextBuf
  /\ UNCHANGED <<r, slcf, stage, header, out, rc, hit>>

\* No memory for the bytes, or a read that fails or finds the file cut short.
CollectFails ==
  /\ Collecting
  /\ (cl = 1 /\ done = 0) \/ (Buf.in = "file" /\ done < BufLen)
  /\ stage' = "done" /\ rc' = "ERROR"
  /\ UNCHANGED <<r, slcf, header, out, cl, done, hit>>

ScanBody ==
  /\ stage = "collect" /\ done = 0 /\ ~Collecting
  /\ \E result \in scan_r(out, slcf.skip \union no_body_mask) :
       Ends(result, "body", "done")
  /\ UNCHANGED <<r, slcf, header, out, cl, done>>

------------------------------------------------------------------------------

Init ==
  /\ r \in Requests
  /\ slcf \in [skip : Skips, max_body : MaxBodies]
  /\ stage = "httpoxy" /\ header = 1
  /\ out = <<>> /\ cl = 1 /\ done = 0
  /\ rc = "DECLINED" /\ hit = NoHit

Stop == stage = "done" /\ UNCHANGED vars

Next ==
  \/ CheckHttpoxy \/ CheckRange \/ CheckCtrlChar \/ CheckDotfile
  \/ ScanTarget \/ ScanPath \/ ScanHeader \/ DecideBody
  \/ CopyBuf \/ ReadFile \/ EmptyFile \/ CollectFails \/ ScanBody
  \/ Stop

Spec == Init /\ [][Next]_vars

------------------------------------------------------------------------------
(* Properties. *)

\* The reference: place by place, what README and patterns.h promise.

Segments(uri) ==
  LET slashes == {0, Len(uri) + 1} \union {i \in DOMAIN uri : uri[i] = "/"}
  IN  {SubSeq(uri, i + 1, Min({j \in slashes : j > i}) - 1) : i \in slashes \ {Len(uri) + 1}}

IsDotfile(segment) ==
  /\ IsPrefix(<<".">>, segment)
  /\ segment \notin {<<".">>, <<".", ".">>, <<".", "well-known">>}

\* The media type: what precedes the parameters, less the blanks at its end.
MediaType(v) ==
  CHOOSE t \in Prefixes(v) :
    /\ ";" \notin ToSet(t)
    /\ t = <<>> \/ ~Blank(Last(t))
    /\ \E k \in Len(t)..Len(v) : /\ \A j \in Len(t) + 1..k : Blank(v[j])
                                 /\ k = Len(v) \/ v[k + 1] = ";"

TextShaped(v) ==
  \/ MediaType(v) \in TextTypes
  \/ IsPrefix(<<"text/">>, v)
  \/ /\ IsPrefix(<<"application/">>, MediaType(v)) /\ Len(v) > 1
     /\ Last(MediaType(v)) \in {"+json", "+xml"}

BodyExempt ==
  {"cmdi", "xss", "template", "lfi", "php_rce", "java_rce", "java_eval",
   "sensitive_file", "exploit_path", "traversal"}

RulesIn(data) ==
  {rules[i].cat : i \in {j \in DOMAIN rules : \A t \in rules[j].terms : Occurs(t, data)}}

Contents(data) == ToSet(data) \intersect Scanned

\* The first max bytes of the body, whatever buffers they are in.
BodyStart ==
  LET whole == FlattenSeq([i \in DOMAIN r.bufs |->
                 IF r.bufs[i].in = "other" THEN <<>> ELSE r.bufs[i].data])
  IN  SubSeq(whole, 1, Min({max, Len(whole)}))

At(source, cats) == {[cat |-> c, source |-> source] : c \in cats \ slcf.skip}

InShape ==
  At("header", {c \in {"httpoxy"} : \E i \in DOMAIN r.headers : r.headers[i].key = "proxy"})
    \union At("range", {c \in {"range_dos"} : check_range})
    \union At("uri", {c \in {"ctrl_char"} : "control" \in ToSet(r.uri)})
    \union At("uri", {c \in {"dotfile"} : \E s \in Segments(r.uri) : IsDotfile(s)})

InTarget ==
  At("uri", RulesIn(r.target) \union Contents(path)
    \union (Contents(SubSeq(r.target, Len(path) + 1, Len(r.target)))
                \ {"xss", "sensitive_file"}))

InHeader(h) ==
  IF h.hash THEN At(Source(h.key), (Contents(h.value) \union RulesIn(h.value))
                                      \intersect Allowed(h.key))
  ELSE {}

TextBody ==
  /\ r.content_length_n > 0 \/ r.chunked
  /\ \A i \in DOMAIN r.headers : r.headers[i].key = "content-type" =>
       \E j \in DOMAIN r.headers :
         r.headers[j].key = "content-type" /\ TextShaped(r.headers[j].value)

InBody ==
  IF TextBody
  THEN At("body", (Contents(BodyStart) \union RulesIn(BodyStart)) \ BodyExempt)
  ELSE {}

\* All that the request holds where it counts.
Attack ==
  InShape \union InTarget \union InBody
    \union UNION {InHeader(r.headers[i]) : i \in DOMAIN r.headers}

\* A request that is let through holds, in no place where it counts, anything its
\* location does not skip: an unscanned buffer is never a clean one, no pass,
\* header instance, mask or buffer boundary loses a signature or a rule.
CleanIsClean == (stage = "done" /\ rc = "DECLINED") => Attack = {}

\* A hit is for something the request holds, at the place the hit names, of a
\* category the location did not skip (the false positives README excludes: a
\* query that is content, a body that is code, a benign dot segment).
HitIsThere == rc = "OK" => hit \in Attack

\* What is collected of a body is its start, never more than the cap: short
\* reads, buffers of both kinds and their boundaries leave nothing out and take
\* nothing twice.
CollectedIsStart ==
  stage = "collect" =>
    /\ IsPrefix(out, BodyStart)
    /\ ~Collecting /\ done = 0 => out = BodyStart
==============================================================================
