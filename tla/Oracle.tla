------------------------------- MODULE Oracle -------------------------------
(***************************************************************************)
(* The verdicts of NetqreInterpreterInterface::accept() (netqre2dt/rpc/    *)
(* interface.hpp): what it makes of the answers of a program on the        *)
(* examples of a handle.  An accuracy is a fraction num/den; a weight is   *)
(* counted in units, One of which are the weight 1.0.                      *)
(***************************************************************************)
EXTENDS SequencesExt

CONSTANTS
  Pos, Neg,  \* all examples: positive_token and negative_token of main's e_train
  One,       \* the weight 1.0
  norm_zip(_, _)  \* norm_zip(m, n): the pairs <<i, j>> of places it makes of m
                  \* positive and n negative answers

Example == Pos \cup Neg

Handle == [pos : (SUBSET Pos) \ {{}}, neg : (SUBSET Neg) \ {{}}]

Top == [pos |-> Pos, neg |-> Neg]

ASSUME OracleAssumption ==
  /\ IsFiniteSet(Pos) /\ Pos # {} /\ IsFiniteSet(Neg) /\ Neg # {}
  /\ Pos \cap Neg = {}
  /\ One \in Nat \ {0}

(* norm_zip of the vectors (Rubify), which are of any two lengths: it goes  *)
(* through both in order, and gives the last pairs no more than their share *)
(* of either.                                                               *)

Rises(z, c) == \A k, l \in DOMAIN z : k < l => z[k][c] <= z[l][c]

EvenShare(z, c, m) ==
  \A k \in DOMAIN z : (m - z[k][c] + 1) * Len(z) >= m * (Len(z) - k + 1)

ASSUME ZipAssumption ==
  \A m \in 1..Cardinality(Pos), n \in 1..Cardinality(Neg) :
    /\ norm_zip(m, n) \in Seq((1..m) \X (1..n)) /\ norm_zip(m, n) # <<>>
    /\ Rises(norm_zip(m, n), 1) /\ EvenShare(norm_zip(m, n), 1, m)
    /\ Rises(norm_zip(m, n), 2) /\ EvenShare(norm_zip(m, n), 2, n)

\* One that does: the shorter vector is stretched to the length of the longer.
Stretched(m, n) ==
  LET size == IF m >= n THEN m ELSE n
  IN  [k \in 1..size |-> <<((k - 1) * m) \div size + 1, ((k - 1) * n) \div size + 1>>]

(* required_accuracy: low says that 1.0 - required_accuracy, computed in    *)
(* doubles, is less than the quotient of (den - num)/den, as it is for 0.9  *)
(* and 0.8, but not for 1/2, 3/4 or 1.                                      *)

Accuracy ==
  {r \in [num : Nat \ {0}, den : Nat, low : BOOLEAN] :
     r.num <= r.den /\ (r.low => r.num < r.den)}

-----------------------------------------------------------------------------
(* sort_by of the answers: the orders of a class in which the numbers      *)
(* key[x] rise.  Which one the library takes among equals is left open.    *)

Sorted(X, key) ==
  {s \in SetToSeqs(X) : \A i, j \in DOMAIN s : i < j => key[s[i]] <= key[s[j]]}

\* norm_zip of the sorted classes of h.
Pairings(h, posKey, negKey) ==
  LET z == norm_zip(Cardinality(h.pos), Cardinality(h.neg))
  IN  {[k \in DOMAIN z |-> <<p[z[k][1]], q[z[k][2]]>>] :
         p \in Sorted(h.pos, posKey), q \in Sorted(h.neg, negKey)}

(* Variants of the operators that follow, each with one slip a maintainer   *)
(* could make.                                                              *)

PartlyInvalidAsExact(a, pair) ==
  \/ a[pair[1]].lower < 0 \/ a[pair[2]].lower < 0
  \/ a[pair[1]].upper <= a[pair[2]].upper

\* accuracy_exp/accuracy
UpdatedUpwards(target, w) == ((One * One) \div target + w) \div 2

HalfForgotten(n) == n

ConstrainedAlways(acc) == TRUE

(* A partial program: each pair is given the best values it could take.    *)

PartlyInvalid(a, pair) ==
  \/ a[pair[1]].lower < 0 \/ a[pair[2]].lower < 0
  \/ a[pair[1]].upper <= a[pair[2]].lower

PartialPairings(h, a) ==
  Pairings(h, [x \in h.pos |-> a[x].upper], [x \in h.neg |-> -a[x].lower])

InvalidPlaces(a, both) == {i \in DOMAIN both : PartlyInvalid(a, both[i])}

\* invalid_count / size > 1.0 - required_accuracy, in doubles
TooManyInvalid(acc, a, both) ==
  LET invalid == Cardinality(InvalidPlaces(a, both)) * acc.den
      allowed == Len(both) * (acc.den - acc.num)
  IN  invalid > allowed \/ (acc.low /\ invalid = allowed)

(* A complete program: the value v[x] on each x, and pairs are compared     *)
(* exactly.                                                                 *)

Pairing(h, v) == Pairings(h, [x \in h.pos |-> v[x]], [x \in h.neg |-> -v[x]])

Valid(v, both) ==
  {i \in DOMAIN both : /\ v[both[i][1]] >= 0 /\ v[both[i][2]] >= 0
                       /\ v[both[i][1]] > v[both[i][2]]}

InvalidCount(v, both) == Len(both) - Cardinality(Valid(v, both))

\* The sum of cost[i] over the pairs, as the loop adds it up.
Total(cost, n) ==
  LET upTo[i \in 0..n] == IF i = 0 THEN 0 ELSE upTo[i - 1] + cost[i]
  IN  upTo[n]

\* valid_value, in half units
ValidValue(w, v, both) ==
  Total([i \in DOMAIN both |->
           IF i \in Valid(v, both) THEN w[both[i][1]] + w[both[i][2]] ELSE 0],
        Len(both))

Accepted(acc, w, v, both) ==
  ValidValue(w, v, both) * acc.den >= acc.num * 2 * One * Len(both)

\* constraint == nullptr
NoConstraint == [x \in Example |-> One]

\* Division of integers in the code: it rounds towards zero.
Half(n) == IF n >= 0 THEN n \div 2 ELSE -((-n) \div 2)

\* ans_both[invalid_count], counted from 0
DecisivePair(v, both) == both[InvalidCount(v, both) + 1]

Threshold(v, both) ==
  Half(v[DecisivePair(v, both)[1]] + v[DecisivePair(v, both)[2]])

(* The constraint of MergeSearch exists when accuracy < 1.0; its updater    *)
(* takes w to (accuracy/accuracy_exp + w)/2, and target is that quotient.   *)

Constrained(acc) == acc.num < acc.den

Updated(target, w) == (target + w) \div 2

\* All weights there ever are.
WeightRange(target) == (target..One) \cup (One..target)

\* An answer paired several times is updated as often.
TimesUsed(x, v, both) == Cardinality({i \in Valid(v, both) : x \in {both[i][1], both[i][2]}})

UpdatedTimes(target, w, n) ==
  LET after[k \in 0..n] == IF k = 0 THEN w ELSE Updated(target, after[k - 1])
  IN  after[n]

Reweighed(acc, target, w, v, both) ==
  IF Constrained(acc)
    THEN [x \in Example |-> UpdatedTimes(target, w[x], TimesUsed(x, v, both))]
    ELSE w
=============================================================================
