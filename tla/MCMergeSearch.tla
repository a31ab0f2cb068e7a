--------------------------- MODULE MCMergeSearch ----------------------------
(* Four pairs of examples, divided down to single pairs: three layers.  The *)
(* programs: two right on all; one right on the whole and on single pairs,  *)
(* on no half; right on the left half; right on one pair of the right half; *)
(* right on the right half and, with one mistake, on the whole.             *)
EXTENDS MergeSearch, ExampleTree

CONSTANTS p1, p2, p3, p4, n1, n2, n3, n4, all, other, scattered, left, single, right

MCTree == Tree(<<p1, p2, p3, p4>>, <<n1, n2, n3, n4>>, 1)

MCProgram == {all, other, scattered, left, single, right}

Answers(a, b, c, d, w, x, y, z) ==
  p1 :> a @@ p2 :> b @@ p3 :> c @@ p4 :> d @@ n1 :> w @@ n2 :> x @@ n3 :> y @@ n4 :> z

MCValue ==
  all :> Answers(2, 2, 2, 2, 0, 0, 0, 0)
    @@ other :> Answers(3, 2, 2, 3, 1, 1, 1, 1)
    @@ scattered :> Answers(5, 5, 1, 5, 0, 9, 3, 3)
    @@ left :> Answers(2, 2, 0, 0, 0, 0, 0, 1)
    @@ single :> Answers(0, 0, 2, -1, 0, 0, 1, -1)
    @@ right :> Answers(0, 3, 3, 3, 1, 0, 0, 0)

MCAccuracies ==
  {[num |-> 1, den |-> 1, low |-> FALSE], [num |-> 3, den |-> 4, low |-> FALSE]}

(***************************************************************************)
(* When the search starts it may rely on its layers, whatever the sizes of  *)
(* the two classes (merge_search.hpp:96-145).                               *)
(***************************************************************************)
DivisionCovers ==
  pc = "start" /\ layer = 1 /\ place = 1 =>
    \A np \in 1..7, nn \in 1..7, min \in 1..3 :
      Divided([k \in 1..np |-> k], [k \in 1..nn |-> k], min)
=============================================================================
