------------------------------- MODULE Vectors -------------------------------
(***************************************************************************)
(* select_ and sort_by_ of the vectors (Rubify), which SearchGraph and     *)
(* MergeSearch both use: the members of s at the places K, in the order R, *)
(* a strict total order on K.                                              *)
(***************************************************************************)
EXTENDS Integers, Sequences, FiniteSets

Below(k, R, K) == {j \in K : <<j, k>> \in R}

Arranged(s, K, R) ==
  [r \in 1..Cardinality(K) |-> s[CHOOSE k \in K : Cardinality(Below(k, R, K)) = r - 1]]

InOrder(K) == {e \in K \X K : e[1] < e[2]}

Selected(s, K) == Arranged(s, K, InOrder(K))
=============================================================================
