------------------------------- MODULE ShieldKey -------------------------------
(***************************************************************************)
(* Which client a request is counted for: ngx_http_shield_ban_addr takes   *)
(* the peer's address or, behind a trusted proxy, the one the proxy        *)
(* reported in X-Forwarded-For, and its node is looked up in the tree of   *)
(* the zone, or put there.                                                 *)
(*                                                                         *)
(* A client sends what header lines it likes.  A proxy that reports        *)
(* appends the address it saw: to the client's lines, which it joins, to   *)
(* the last of them, or in a line of its own.                              *)
(***************************************************************************)
EXTENDS BanTree

CONSTANTS
  Clients,  \* who connects: addresses and what has none (a unix socket)
  Proxies,  \* addresses that are trusted where anything is
  Forged    \* the header lines clients send: sequences of sequences of pieces

\* A trusted proxy speaks for others, not for itself.
ASSUME KeyAssumption == Proxies \subseteq Addr /\ Clients \intersect Proxies = {}

None == "none"

\* A line is a sequence of pieces: what separates addresses and what follows one
\* are pieces of their own.
ASSUME PieceAssumption ==
  /\ {",", " ", "tab", ":port"} \union Addr \union Clients \subseteq STRING
  /\ Forged \subseteq Seq(Seq(STRING))
  /\ {",", " ", "tab", ":port", None} \intersect (Addr \union Clients) = {}

VARIABLES
  slcf,    \* the location's policy: ban_key, trusted
  peer,    \* the peer of the connection
  client,  \* who the request is from
  lines,   \* its X-Forwarded-For lines
  key,     \* the address it is counted for, or none
  stage    \* "idle", "arrived", "keyed"

vars == <<tree, slcf, peer, client, lines, key, stage>>

\* The address of a peer or a parsed token; only Internet families have one.
ban_sockaddr_bytes(sa) == IF sa \in Addr THEN sa ELSE None

\* ngx_cidr_match against the list of the policy.
ban_peer_trusted == peer \in slcf.trusted

Blank(c) == c \in {" ", "tab"}

Trim(s) ==
  LET kept == {i \in DOMAIN s : ~Blank(s[i])}
  IN  IF kept = {} THEN <<>> ELSE SubSeq(s, Min(kept), Max(kept))

\* The last element of one line, without the blanks around it.
xff_last_token(line) ==
  Trim(SubSeq(line, Max({0} \union {i \in DOMAIN line : line[i] = ","}) + 1, Len(line)))

\* ngx_parse_addr_port: an address, perhaps with a port.
parse_addr_port(token) ==
  IF Len(token) \in 1..2 /\ token[1] \in Addr /\ (Len(token) = 2 => token[2] = ":port")
  THEN token[1] ELSE None

\* Mutant: the line headers_in refers to.
XffHead == lines[1]

\* The line the token is taken from: the end of the chain.
XffLine == Last(lines)

ban_addr ==
  LET token == xff_last_token(XffLine)
  IN  IF \/ slcf.ban_key # "forwarded" \/ ~ban_peer_trusted
         \/ lines = <<>> \/ token = <<>> \/ parse_addr_port(token) = None
      THEN ban_sockaddr_bytes(peer)
      ELSE ban_sockaddr_bytes(parse_addr_port(token))

------------------------------------------------------------------------------

Join(all, line) == IF all = <<>> THEN line ELSE all \o <<",">> \o line

\* What a proxy that reports makes of the lines of the peer it saw; others drop
\* them.
Report(seen, sent) ==
  LET joined == FoldLeft(Join, <<>>, sent)
  IN  {Append(sent, <<seen>>), <<joined \o <<",", " ", seen>>>>}
        \union IF sent = <<>> THEN {<<<<seen, ":port">>>>}
               ELSE {Append(Front(sent), Last(sent) \o <<",", seen>>)}

\* A request of a client, which connects to nginx or to a proxy.
Arrive ==
  /\ stage = "idle"
  /\ client' \in Clients
  /\ \E sent \in Forged :
       \/ peer' = client' /\ lines' = sent
       \/ peer' \in Proxies /\ lines' \in Report(client', sent) \union {<<>>}
  /\ stage' = "arrived" /\ key' = None
  /\ UNCHANGED <<tree, slcf>>

Key ==
  /\ stage = "arrived"
  /\ key' = ban_addr /\ stage' = "keyed"
  /\ UNCHANGED <<tree, slcf, peer, client, lines>>

\* Counted at its node, which is made if there is none and the zone has room; a
\* request without a key is not counted.  The request is over with it.
Record ==
  /\ stage = "keyed"
  /\ IF key = None \/ ban_lookup(key) # Nil \/ Len(tree.addr) = MaxNodes THEN UNCHANGED tree
     ELSE ban_rbtree_insert(key)
  /\ stage' = "idle" /\ key' = None /\ lines' = <<>> /\ client' = None /\ peer' = None
  /\ UNCHANGED slcf

\* A node is evicted.
Evict ==
  /\ stage = "idle"
  /\ \E i \in Nodes : rbtree_delete(i)
  /\ UNCHANGED <<slcf, peer, client, lines, key, stage>>

Init ==
  /\ tree = EmptyTree
  /\ slcf \in [ban_key : {"peer"}, trusted : {{}}]
                \union [ban_key : {"forwarded"}, trusted : SUBSET Proxies \ {{}}]
  /\ stage = "idle" /\ key = None /\ lines = <<>> /\ client = None /\ peer = None

Next == Arrive \/ Key \/ Record \/ Evict

Spec == Init /\ [][Next]_vars

------------------------------------------------------------------------------
(* Properties. *)

\* Behind a trusted proxy that reports, a request is counted for the client the
\* proxy saw, if that has an address, and else for its peer, whatever lines the
\* client made up and however the proxy added its own: no client chooses the
\* address it is counted for.
KeyIsSeenClient ==
  stage = "keyed" =>
    key = ban_sockaddr_bytes(IF /\ slcf.ban_key = "forwarded" /\ peer \in slcf.trusted
                                /\ lines # <<>> /\ client \in Addr
                             THEN client ELSE peer)
==============================================================================
