------------------------------ MODULE SeqMaps ------------------------------
(***************************************************************************)
(* Operations on the sequence-keyed containers of a Peer.  A std::map is a *)
(* function on the set of its keys, a std::set is a set.                   *)
(***************************************************************************)
EXTENDS Integers, FiniteSets

(* The first sequence from n on that is not in S: where a loop             *)
(* "while (S.count(n)) ++n" leaves n.                                      *)
IsCursor(m, n, S) == m >= n /\ m \notin S /\ \A k \in n..(m - 1) : k \in S

(* Insert or overwrite, erase, and the map with no entries.                *)
With(f, s, v) == [x \in DOMAIN f \cup {s} |-> IF x = s THEN v ELSE f[x]]
Without(f, S) == [x \in DOMAIN f \ S |-> f[x]]
Empty == [x \in {} |-> 0]

(* The k lowest members of a set: the first k entries of an ordered map.   *)
Lowest(S, k) == {s \in S : Cardinality({t \in S : t < s}) < k}
=============================================================================
