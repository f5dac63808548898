---------------------------- MODULE MCShieldInspect ----------------------------
(* ShieldInspect on requests that put each kind of content in each place. *)
EXTENDS ShieldInspect

Texts(pieces, n) == UNION {[1..k -> pieces] : k \in 0..n}

Plain == [target |-> <<"/">>, uri |-> <<"/">>, headers |-> <<>>,
          content_length_n |-> 0, chunked |-> FALSE, bufs |-> <<>>]

Header(key, value) == [key |-> key, hash |-> TRUE, value |-> value]
Removed(key, value) == [key |-> key, hash |-> FALSE, value |-> value]
Memory(data) == [in |-> "memory", data |-> data]
Body(data) == [Plain EXCEPT !.content_length_n = 1, !.bufs = <<Memory(data)>>]

\* Paths, as nginx hands them on and as it would not.
Paths ==
  {[Plain EXCEPT !.uri = <<"/">> \o t] :
     t \in Texts({"/", ".", "well-known", "x"}, 5) \union {<<"x", "control">>, <<"nul">>}}

\* Targets, with gadgets and terms on both sides of the question mark.
Targets ==
  {[Plain EXCEPT !.target = t] :
     t \in Texts({"/cli", "?", "remoting=true", "xss", "traversal", "sensitive_file",
                  "sqli"}, 4)}

\* Each category and each rule in each place.
Pieces == {<<c>> : c \in Scanned}
            \union {<<"x">> \o SetToSeq(UNION {ToSet(t) : t \in rules[i].terms}) :
                      i \in DOMAIN rules \ {3}}

Keys == {"user-agent", "referer", "content-type", "destination", "x-original-url",
         "x-rewrite-url", "cookie", "authorization"}

Places ==
  {[Plain EXCEPT !.target = p] : p \in Pieces}
    \union {[Plain EXCEPT !.headers = <<Header(k, p)>>] : k \in Keys, p \in Pieces}
    \union {Body(p) : p \in {<<c>> : c \in Scanned}}
    \union {[Body(p) EXCEPT !.content_length_n = 3] : p \in Pieces}

\* Two headers, the second perhaps another instance of the first.
Some == {"shellshock", "java_rce", "sqli", "webshell"}
Headers ==
  {[Plain EXCEPT !.headers = <<Header(k, <<c>>), Header(l, <<d>>)>>] :
     k \in {"content-type", "cookie", "referer", "accept"}, c \in Some \union {"x"},
     l \in {"content-type", "cookie", "referer", "accept"}, d \in Some}
    \union {[Plain EXCEPT !.headers = <<Header("range", [i \in 1..n |-> ","]),
                                        Removed("proxy", <<"sqli">>)>>] : n \in 8..11}
    \union {[Plain EXCEPT !.headers = <<Removed("cookie", <<"sqli">>),
                                        Header("range", [i \in 1..n |-> ","])>>] : n \in 8..11}

\* Media types, and a second one after the first.
MediaPieces == {"application/", "text/", "json", "+json", ";", " ", "x"}
Typed(types) == [Body(<<"sqli">>) EXCEPT !.headers =
                   [i \in DOMAIN types |-> Header("content-type", types[i])]]
MediaTypes ==
  {Typed(<<t>>) : t \in Texts(MediaPieces, 4)}
    \union {Typed(<<t, u>>) : t \in {<<"application/", "x">>, <<"text/", "x">>},
                              u \in Texts(MediaPieces, 2)}
    \union {[Typed(<<>>) EXCEPT !.content_length_n = 0]}

\* Bodies in up to two buffers, their length known or not.
Bufs == {[in |-> k, data |-> d] : k \in {"memory", "file"},
           d \in {<<>>, <<"x">>, <<"sqli">>, <<"xss", "sqli">>, <<"jdbc:h2:", "x">>,
                  <<"x", "x", "init=">>}}
          \union {[in |-> "other", data |-> <<"sqli">>]}
Size(bufs) == FoldLeft(LAMBDA n, b : n + IF b.in = "other" THEN 0 ELSE Len(b.data), 0, bufs)
Bodies ==
  {[Plain EXCEPT !.bufs = b, !.chunked = TRUE, !.content_length_n = -1] :
     b \in [1..2 -> Bufs] \union {<<>>}}
    \union {[Plain EXCEPT !.bufs = b, !.content_length_n = Size(b)] : b \in [1..2 -> Bufs]}

AllRequests == Paths \union Targets \union Places \union Headers \union MediaTypes \union Bodies

AllPieces ==
  Scanned \union Keys \union MediaPieces
    \union UNION {ToSet(t) : t \in UNION {rules[i].terms : i \in DOMAIN rules}}
    \union {"/", ".", "?", ",", "well-known", "control", "nul", "accept", "range", "proxy"}

SkipSets == {{}, {"sqli", "dotfile", "xss"}, {"xss", "sensitive_file", "ctrl_char", "range_dos"}}
==============================================================================
