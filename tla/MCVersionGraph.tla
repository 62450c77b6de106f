---------------------------- MODULE MCVersionGraph -----------------------------
(***************************************************************************)
(* An instance of VersionGraph for TLC: a document with two versions that  *)
(* can replace each other, one with a chunk and the other with two, and a  *)
(* second document that has to be left alone; two clients that are alike.  *)
(***************************************************************************)
EXTENDS VersionGraph, TLC
CONSTANTS d1, d2, v1, v2, w1, k1, k2, k3

MCDocOf == [v \in Versions |-> IF v = w1 THEN d2 ELSE d1]
MCVersionOf == k1 :> v1 @@ k2 :> v2 @@ k3 :> v2
Symmetry == Permutations(Clients) \union Permutations({k2, k3})

\* Bound: two clients hold answers only as long as nobody touches the second
\* document.
OneAfterTheOther ==
    \/ \E c \in Clients : \A v \in Versions : read[c][v] = Absent
    \/ d2 \notin docs /\ current[w1] = Absent /\ w1 \notin swapped
=============================================================================
