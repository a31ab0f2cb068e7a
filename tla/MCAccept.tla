----------------------------- MODULE MCAccept ------------------------------
(* Two positive and three negative examples, searched for as a whole or     *)
(* divided; accuracy 1/2.  And five pairs of one positive example with five *)
(* negative ones, of which one pair is invalid, at an accuracy of 4/5.      *)
EXTENDS Accept

CONSTANTS p1, p2, n1, n2, n3, n4, n5

UpTo(n) == [lower |-> 0, upper |-> n]

Just(n) == [lower |-> n, upper |-> n]

MCPos == {p1, p2}
MCNeg == {n1, n2, n3}

MCParts ==
  {[pos |-> MCPos, neg |-> MCNeg], [pos |-> {p1}, neg |-> {n1}],
   [pos |-> {p2}, neg |-> {n2, n3}]}

MCWidest == [x \in MCPos \cup MCNeg |-> IF x \in MCPos THEN UpTo(2) ELSE UpTo(1)]

MCPrograms ==
  {p @@ n : p \in [MCPos -> {Unmatched, Just(1), UpTo(2)}],
            n \in [MCNeg -> {Unmatched, Just(0), UpTo(1)}]}

OneHalf == [num |-> 1, den |-> 2, low |-> FALSE]

Alike == Permutations({n2, n3})

\* What the starting symbol answers exactly, on one negative example not at all.
OnePos == {p1}
FiveNeg == {n1, n2, n3, n4, n5}

FiveWidest ==
  p1 :> Just(5) @@ n1 :> Unmatched @@ n2 :> Just(1) @@ n3 :> Just(2) @@ n4 :> Just(3) @@ n5 :> Just(4)

FiveParts == {[pos |-> OnePos, neg |-> FiveNeg]}

FourFifths == [num |-> 4, den |-> 5, low |-> TRUE]
=============================================================================
