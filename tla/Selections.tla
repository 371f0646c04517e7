------------------------------ MODULE Selections ------------------------------
(***************************************************************************)
(* The loops that copy the entries of a vector they want to keep into      *)
(* another one: an order-preserving choice of a sequence, by its indices;  *)
(* and std::sort.  SelectSeq is defined by recursion, and SortSeq has no   *)
(* value when two entries tie.                                             *)
(***************************************************************************)
EXTENDS Naturals, Sequences, FiniteSets

\* The entries at the indices in S, in order: the k-th of them is at the index
\* with k - 1 others of S before it.
Rank(S, i) == Cardinality({j \in S : j <= i})
Nth(S, k) == CHOOSE i \in S : Rank(S, i) = k
Picked(doc, S) == [k \in 1 .. Cardinality(S) |-> doc[Nth(S, k)]]

\* std::sort by the key of each place.  Up to 16 entries libstdc++ inserts one by
\* one, which leaves those of one key in their order.
UpToPlace(key, i) == {j \in DOMAIN key : key[j] < key[i] \/ (key[j] = key[i] /\ j <= i)}
SortedBy(s, key) == [k \in DOMAIN s |-> s[CHOOSE i \in DOMAIN s : Cardinality(UpToPlace(key, i)) = k]]
=============================================================================
