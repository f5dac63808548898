-------------------------------- MODULE BanTree --------------------------------
(***************************************************************************)
(* The search tree of a ban zone: nodes ordered by the hash of their       *)
(* address, equal hashes by the address itself.  Rotations keep the order  *)
(* of the nodes and change the shape as they please, so a tree is the      *)
(* order and any shape over it: of any run of neighbours, the one of the   *)
(* least rank is above the others.                                         *)
(***************************************************************************)
EXTENDS Integers, Sequences, SequencesExt, FiniteSetsExt

CONSTANTS
  Addr,      \* addresses
  Bytes(_),  \* the bytes of an address
  Hash(_),   \* its hash
  MaxNodes   \* bound: the nodes the zone has room for

\* An address is its bytes; memcmp and the hash compare numbers.
ASSUME AddressAssumption ==
  /\ \A x \in Addr : Bytes(x) \in Seq(Int) /\ Hash(x) \in Int
  /\ \A x, y \in Addr : Bytes(x) = Bytes(y) => x = y

VARIABLE tree  \* the nodes in order, and their ranks

Nil == 0

EmptyTree == [addr |-> <<>>, rank |-> <<>>]

Nodes == DOMAIN tree.addr
InTree == ToSet(tree.addr)

\* The ranks a tree of n nodes may have.
Ranks(n) == {p \in [1..n -> 1..n] : IsInjective(p)}

Top(S) == IF S = {} THEN Nil ELSE CHOOSE i \in S : \A j \in S : tree.rank[i] <= tree.rank[j]

root == Top(Nodes)

\* The neighbours below a node, on either side.
left(i) == Top({j \in 1..i - 1 : \A k \in j..i - 1 : tree.rank[k] > tree.rank[i]})
right(i) == Top({j \in i + 1..Len(tree.addr) :
                   \A k \in i + 1..j : tree.rank[k] > tree.rank[i]})

\* The sign of memcmp over the first n bytes.
memcmp(a, b, n) ==
  LET differ == {i \in 1..n : a[i] # b[i]}
  IN  IF differ = {} THEN 0 ELSE a[Min(differ)] - b[Min(differ)]

\* Mutant: the lengths do not count.
LeftByBytes(x, y) ==
  \/ Hash(x) < Hash(y)
  \/ Hash(x) = Hash(y) /\ memcmp(Bytes(x), Bytes(y), Min({Len(Bytes(x)), Len(Bytes(y))})) < 0

\* Whether the insertion of x goes left of the node of y.
GoesLeft(x, y) ==
  \/ Hash(x) < Hash(y)
  \/ /\ Hash(x) = Hash(y)
     /\ \/ Len(Bytes(x)) < Len(Bytes(y))
        \/ /\ Len(Bytes(x)) = Len(Bytes(y))
           /\ memcmp(Bytes(x), Bytes(y), Len(Bytes(x))) < 0

\* Down to the first empty place, which is next to the last node passed.
Place(x) ==
  LET Down[i \in Nodes] ==
        IF GoesLeft(x, tree.addr[i])
        THEN IF left(i) = Nil THEN i ELSE Down[left(i)]
        ELSE IF right(i) = Nil THEN i + 1 ELSE Down[right(i)]
  IN  IF root = Nil THEN 1 ELSE Down[root]

ban_rbtree_insert(x) ==
  \E rank \in Ranks(Len(tree.addr) + 1) :
    tree' = [addr |-> InsertAt(tree.addr, Place(x), x), rank |-> rank]

\* The node found for an address, or Nil.
ban_lookup(x) ==
  LET rc(i) == IF Len(Bytes(x)) # Len(Bytes(tree.addr[i]))
               THEN Len(Bytes(x)) - Len(Bytes(tree.addr[i]))
               ELSE memcmp(Bytes(x), Bytes(tree.addr[i]), Len(Bytes(x)))
      Down[i \in Nodes \union {Nil}] ==
        CASE i = Nil -> Nil
          [] i # Nil /\ Hash(x) < Hash(tree.addr[i]) -> Down[left(i)]
          [] i # Nil /\ Hash(x) > Hash(tree.addr[i]) -> Down[right(i)]
          [] OTHER -> IF rc(i) = 0 THEN i
                      ELSE Down[IF rc(i) < 0 THEN left(i) ELSE right(i)]
  IN  Down[root]

\* ngx_rbtree_delete: the order of the others stays.
rbtree_delete(i) ==
  \E rank \in Ranks(Len(tree.addr) - 1) :
    tree' = [addr |-> RemoveAt(tree.addr, i), rank |-> rank]

\* Whatever was inserted and removed, and however the tree was rebalanced, each
\* address with a node is found at that node, which is its only one, and no other
\* address is found: insertion and lookup agree on the order of equal hashes.
LookupExact ==
  /\ IsInjective(tree.addr)
  /\ \A x \in Addr : ban_lookup(x) = IF x \in InTree
                                     THEN CHOOSE i \in Nodes : tree.addr[i] = x
                                     ELSE Nil
==============================================================================
