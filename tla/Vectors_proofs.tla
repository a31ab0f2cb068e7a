--------------------------- MODULE Vectors_proofs ---------------------------
(***************************************************************************)
(* What select_ and sort_by_ return, for every sequence: each member that  *)
(* is kept, once, and in order.                                            *)
(***************************************************************************)
EXTENDS Vectors, FiniteSetTheorems, SequenceTheorems, TLAPS

StrictTotalOrder(R, K) ==
  /\ \A j \in K : <<j, j>> \notin R
  /\ \A j, k \in K : j # k => <<j, k>> \in R \/ <<k, j>> \in R
  /\ \A j, k, l \in K : <<j, k>> \in R /\ <<k, l>> \in R => <<j, l>> \in R

MembersAt(s, K) == {s[k] : k \in K}

\* t lists members of s at places of K, in the order R.
Follows(t, s, K, R) ==
  \A q, r \in DOMAIN t :
    q < r => \E j, k \in K : <<j, k>> \in R /\ t[q] = s[j] /\ t[r] = s[k]

\* The order of places is one.
LEMMA InOrderIsTotal ==
  ASSUME NEW K \in SUBSET Nat
  PROVE  StrictTotalOrder(InOrder(K), K)
BY DEF StrictTotalOrder, InOrder

\* In a finite strict total order the number of members below a member rises
\* with the order, determines the member, and takes every value from 0 on.
LEMMA RankIsBijection ==
  ASSUME NEW K, IsFiniteSet(K), NEW R, StrictTotalOrder(R, K)
  PROVE  /\ Cardinality(K) \in Nat
         /\ \A k \in K : Cardinality(Below(k, R, K)) \in 0..(Cardinality(K) - 1)
         /\ \A j, k \in K :
              Cardinality(Below(j, R, K)) < Cardinality(Below(k, R, K)) <=> <<j, k>> \in R
         /\ \A j, k \in K :
              Cardinality(Below(j, R, K)) = Cardinality(Below(k, R, K)) => j = k
         /\ \A r \in 0..(Cardinality(K) - 1) :
              \E k \in K : Cardinality(Below(k, R, K)) = r
<1> DEFINE n == Cardinality(K)
           B(k) == Below(k, R, K)
<1>1. n \in Nat
  BY FS_CardinalityType
<1>2. ASSUME NEW k \in K
      PROVE  /\ IsFiniteSet(B(k)) /\ Cardinality(B(k)) \in 0..(n - 1)
  <2>1. B(k) \subseteq K \ {k}
    BY DEF Below, StrictTotalOrder
  <2>2. IsFiniteSet(K \ {k}) /\ Cardinality(K \ {k}) = n - 1
    BY FS_RemoveElement
  <2>3. IsFiniteSet(B(k)) /\ Cardinality(B(k)) <= n - 1
    BY <2>1, <2>2, FS_Subset
  <2> QED BY <1>1, <2>3, FS_CardinalityType
<1>3. ASSUME NEW j \in K, NEW k \in K, <<j, k>> \in R
      PROVE  Cardinality(B(j)) < Cardinality(B(k))
  <2>1. B(j) \subseteq B(k) \ {j}
    BY <1>3 DEF Below, StrictTotalOrder
  <2>2. j \in B(k)
    BY <1>3 DEF Below
  <2>3. IsFiniteSet(B(k) \ {j}) /\ Cardinality(B(k) \ {j}) = Cardinality(B(k)) - 1
    BY <1>2, <2>2, FS_RemoveElement
  <2>4. Cardinality(B(j)) <= Cardinality(B(k)) - 1
    BY <2>1, <2>3, FS_Subset
  <2>5. Cardinality(B(j)) \in Nat /\ Cardinality(B(k)) \in Nat
    BY <1>2, FS_CardinalityType
  <2> QED BY <2>4, <2>5
<1>4. ASSUME NEW j \in K, NEW k \in K
      PROVE  /\ Cardinality(B(j)) = Cardinality(B(k)) => j = k
             /\ Cardinality(B(j)) < Cardinality(B(k)) <=> <<j, k>> \in R
  <2>1. Cardinality(B(j)) \in Nat /\ Cardinality(B(k)) \in Nat
    BY <1>2
  <2>2. j = k \/ <<j, k>> \in R \/ <<k, j>> \in R
    BY DEF StrictTotalOrder
  <2> QED BY <1>3, <2>1, <2>2
<1>5. ASSUME NEW r \in 0..(n - 1), \A k \in K : Cardinality(B(k)) # r
      PROVE  FALSE
  <2> DEFINE T == (0..(n - 1)) \ {r}
             f == [k \in K |-> Cardinality(B(k))]
  <2>1. IsFiniteSet(0..(n - 1)) /\ Cardinality(0..(n - 1)) = n
    BY <1>1, FS_Interval
  <2>2. IsFiniteSet(T) /\ Cardinality(T) = n - 1
    BY <2>1, FS_RemoveElement
  <2>3. f \in [K -> T]
    BY <1>2, <1>5
  <2>4. \E j, k \in K : j # k /\ f[j] = f[k]
    <3> HIDE DEF T, f
    <3> QED BY <1>1, <2>2, <2>3, FS_PigeonHole
  <2> QED BY <1>4, <2>4
<1> QED BY <1>1, <1>2, <1>4, <1>5

\* The place in s of the r-th member of Arranged(s, K, R).
Place(K, R, r) == CHOOSE k \in K : Cardinality(Below(k, R, K)) = r - 1

\* Places are given one by one, in order, and each is given.
LEMMA PlaceProperties ==
  ASSUME NEW K, IsFiniteSet(K), NEW R, StrictTotalOrder(R, K)
  PROVE  /\ \A r \in 1..Cardinality(K) : Place(K, R, r) \in K
         /\ \A k \in K : \E r \in 1..Cardinality(K) : Place(K, R, r) = k
         /\ \A q, r \in 1..Cardinality(K) : q < r => <<Place(K, R, q), Place(K, R, r)>> \in R
<1> DEFINE n == Cardinality(K)
           rank(k) == Cardinality(Below(k, R, K))
<1>0. n \in Nat
  BY FS_CardinalityType
<1>1. ASSUME NEW r \in 1..n
      PROVE  Place(K, R, r) \in K /\ rank(Place(K, R, r)) = r - 1
  <2>1. r - 1 \in 0..(n - 1)
    BY <1>0
  <2>2. \E k \in K : rank(k) = r - 1
    BY <2>1, RankIsBijection
  <2> QED BY <2>2 DEF Place
<1>2. ASSUME NEW k \in K PROVE \E r \in 1..n : Place(K, R, r) = k
  <2> DEFINE q == rank(k) + 1
  <2>1. q \in 1..n /\ rank(k) = q - 1
    BY <1>0, RankIsBijection
  <2> HIDE DEF q
  <2>2. Place(K, R, q) \in K /\ rank(Place(K, R, q)) = rank(k)
    BY <1>1, <2>1
  <2>3. Place(K, R, q) = k
    BY <2>2, RankIsBijection
  <2> QED BY <2>1, <2>3
<1>3. ASSUME NEW q \in 1..n, NEW r \in 1..n, q < r
      PROVE  <<Place(K, R, q), Place(K, R, r)>> \in R
  <2>1. /\ Place(K, R, q) \in K /\ rank(Place(K, R, q)) = q - 1
        /\ Place(K, R, r) \in K /\ rank(Place(K, R, r)) = r - 1
    BY <1>1
  <2>2. rank(Place(K, R, q)) < rank(Place(K, R, r))
    BY <1>0, <1>3, <2>1
  <2> QED BY <2>1, <2>2, RankIsBijection
<1> QED BY <1>1, <1>2, <1>3

\* What Arranged returns: a sequence of the members of s at K, one for each
\* place, in the order of these.
LEMMA ArrangedProperties ==
  ASSUME NEW S, NEW s \in Seq(S), NEW K \in SUBSET DOMAIN s,
         NEW R, StrictTotalOrder(R, K)
  PROVE  /\ Arranged(s, K, R) \in Seq(S)
         /\ Len(Arranged(s, K, R)) = Cardinality(K)
         /\ Range(Arranged(s, K, R)) = MembersAt(s, K)
         /\ Follows(Arranged(s, K, R), s, K, R)
<1> DEFINE n == Cardinality(K)
           t == Arranged(s, K, R)
<1>0. IsFiniteSet(K)
  <2>1. DOMAIN s = 1..Len(s) /\ Len(s) \in Nat
    BY LenProperties
  <2>2. IsFiniteSet(1..Len(s))
    BY <2>1, FS_Interval
  <2> QED BY <2>1, <2>2, FS_Subset
<1>1. n \in Nat
  BY <1>0, FS_CardinalityType
<1>2. t = [r \in 1..n |-> s[Place(K, R, r)]]
  BY DEF Arranged, Place
<1>3. /\ \A r \in 1..n : Place(K, R, r) \in K
      /\ \A k \in K : \E r \in 1..n : Place(K, R, r) = k
      /\ \A q, r \in 1..n : q < r => <<Place(K, R, q), Place(K, R, r)>> \in R
  BY <1>0, PlaceProperties
<1>4. \A k \in K : s[k] \in S
  BY ElementOfSeq, LenProperties
<1> HIDE DEF n, t
<1>5. t \in Seq(S) /\ Len(t) = n
  BY <1>1, <1>2, <1>3, <1>4
<1>6. DOMAIN t = 1..n /\ \A r \in 1..n : t[r] = s[Place(K, R, r)]
  BY <1>2
<1>7. Range(t) = MembersAt(s, K)
  BY <1>3, <1>6 DEF Range, MembersAt
<1>8. Follows(t, s, K, R)
  BY <1>3, <1>6 DEF Follows
<1> QED BY <1>5, <1>7, <1>8 DEF t, n

\* What select_ returns; it repeats nothing that s does not repeat.
LEMMA SelectedProperties ==
  ASSUME NEW S, NEW s \in Seq(S), NEW K \in SUBSET DOMAIN s
  PROVE  /\ Selected(s, K) \in Seq(S)
         /\ Range(Selected(s, K)) = MembersAt(s, K)
         /\ IsInjective(s) => IsInjective(Selected(s, K))
<1> DEFINE t == Selected(s, K)
<1>1. K \subseteq Nat /\ StrictTotalOrder(InOrder(K), K)
  BY LenProperties, InOrderIsTotal
<1>2. /\ t \in Seq(S) /\ Range(t) = MembersAt(s, K) /\ Follows(t, s, K, InOrder(K))
  BY <1>1, ArrangedProperties DEF Selected
<1> HIDE DEF t
<1>3. ASSUME IsInjective(s) PROVE IsInjective(t)
  <2>1. ASSUME NEW q \in DOMAIN t, NEW r \in DOMAIN t, q < r PROVE t[q] # t[r]
    <3>1. PICK j \in K, k \in K : <<j, k>> \in InOrder(K) /\ t[q] = s[j] /\ t[r] = s[k]
      BY <1>2, <2>1 DEF Follows
    <3>2. j # k
      BY <1>1, <3>1 DEF InOrder
    <3> QED BY <1>3, <3>1, <3>2 DEF IsInjective
  <2>2. DOMAIN t \subseteq Nat
    BY <1>2, LenProperties
  <2> QED BY <2>1, <2>2 DEF IsInjective
<1> QED BY <1>2, <1>3 DEF t

-----------------------------------------------------------------------------
(* Numbers and finite sets. *)

\* A finite set of numbers has a least member.
LEMMA LeastMember ==
  ASSUME NEW K \in SUBSET Nat, IsFiniteSet(K), K # {}
  PROVE  \E k \in K : \A j \in K : k <= j
<1> DEFINE R == InOrder(K)
<1>1. StrictTotalOrder(R, K) /\ \A j, k \in K : <<j, k>> \in R <=> j < k
  BY InOrderIsTotal DEF InOrder
<1>2. 0 \in 0..(Cardinality(K) - 1)
  <2>1. Cardinality(K) \in Nat /\ Cardinality(K) # 0
    BY FS_CardinalityType, FS_EmptySet
  <2> QED BY <2>1
<1> HIDE DEF R
<1>3. PICK k \in K : Cardinality(Below(k, R, K)) = 0
  BY <1>1, <1>2, RankIsBijection
<1>4. Below(k, R, K) = {}
  <2>1. Below(k, R, K) \subseteq K
    BY DEF Below
  <2> QED BY <1>3, <2>1, FS_Subset, FS_EmptySet
<1>5. \A j \in K : ~(j < k)
  BY <1>1, <1>4 DEF Below
<1> QED BY <1>5

\* In particular one of bounded numbers.
LEMMA LeastUpTo ==
  ASSUME NEW n \in Nat, NEW K \in SUBSET (0..n), K # {}
  PROVE  \E k \in K : \A j \in K : k <= j
<1>1. IsFiniteSet(0..n)
  BY FS_Interval
<1>2. IsFiniteSet(K)
  BY <1>1, FS_Subset
<1>3. K \in SUBSET Nat
  OBVIOUS
<1> QED BY <1>2, <1>3, LeastMember

\* A sequence that repeats nothing at the places J has a member for each.
LEMMA ImageCardinality ==
  ASSUME NEW J, IsFiniteSet(J), NEW s, \A i, j \in J : s[i] = s[j] => i = j
  PROVE  /\ IsFiniteSet(MembersAt(s, J))
         /\ Cardinality(MembersAt(s, J)) = Cardinality(J)
<1> DEFINE f == [j \in J |-> s[j]]
           T == MembersAt(s, J)
<1>1. f \in Surjection(J, T) /\ f \in Injection(J, T)
  BY DEF MembersAt, Surjection, Injection, IsInjective
<1> QED BY <1>1, FS_Surjection

-----------------------------------------------------------------------------
(* Iterations. *)

\* g is w, step[w], step[step[w]] and so on, n steps far.
Iterates(g, S, step, w, n) ==
  /\ g \in [0..n -> S] /\ g[0] = w
  /\ \A k \in 1..n : g[k] = step[g[k - 1]]

\* A step that stays in S can be repeated from any member of S.
LEMMA IteratesExist ==
  ASSUME NEW S, NEW step \in [S -> S], NEW w \in S, NEW n \in Nat
  PROVE  \E g : Iterates(g, S, step, w, n)
<1> DEFINE Bad == {k \in 0..n : ~\E g : Iterates(g, S, step, w, k)}
<1> SUFFICES Bad = {}
  <2>1. n \in 0..n
    OBVIOUS
  <2> QED BY <2>1, Zenon
<1> SUFFICES ASSUME Bad # {} PROVE FALSE
  OBVIOUS
<1>0. Bad # {}
  OBVIOUS
<1>1. PICK k \in Bad : \A j \in Bad : k <= j
  <2>1. Bad \in SUBSET (0..n)
    OBVIOUS
  <2> HIDE DEF Bad
  <2> QED BY <1>0, <2>1, LeastUpTo
<1>2. k \in 0..n /\ ~\E g : Iterates(g, S, step, w, k)
  OBVIOUS
<1>3. k # 0
  <2> DEFINE g == [j \in 0..0 |-> w]
  <2>1. Iterates(g, S, step, w, 0)
    BY DEF Iterates
  <2> HIDE DEF g
  <2> QED BY <1>2, <2>1
<1>4. k - 1 \in 0..n /\ k - 1 \notin Bad
  <2>1. k - 1 \in 0..n /\ ~(k <= k - 1)
    BY <1>2, <1>3
  <2> HIDE DEF Bad
  <2> QED BY <1>1, <2>1
<1>5. PICK f : Iterates(f, S, step, w, k - 1)
  BY <1>4
<1> DEFINE g == [j \in 0..k |-> IF j < k THEN f[j] ELSE step[f[k - 1]]]
<1>6. k \in 1..n /\ f[k - 1] \in S /\ step[f[k - 1]] \in S
  BY <1>2, <1>3, <1>5 DEF Iterates
<1>7. g \in [0..k -> S] /\ g[0] = w
  BY <1>5, <1>6 DEF Iterates
<1>8. \A j \in 1..k : g[j] = step[g[j - 1]]
  BY <1>5, <1>6 DEF Iterates
<1>9. Iterates(g, S, step, w, k)
  BY <1>7, <1>8 DEF Iterates
<1> QED
  <2> HIDE DEF g
  <2> QED BY <1>2, <1>9

\* Two functions that start alike and go on alike end alike.
LEMMA SameIterates ==
  ASSUME NEW n \in Nat, NEW f, NEW g, f[0] = g[0],
         \A k \in 1..n : f[k - 1] = g[k - 1] => f[k] = g[k]
  PROVE  f[n] = g[n]
<1> DEFINE Bad == {i \in 0..n : f[i] # g[i]}
<1> SUFFICES Bad = {}
  <2>1. n \in 0..n
    OBVIOUS
  <2> QED BY <2>1, Zenon
<1> SUFFICES ASSUME Bad # {} PROVE FALSE
  OBVIOUS
<1>0. Bad # {}
  OBVIOUS
<1>1. PICK k \in Bad : \A j \in Bad : k <= j
  <2>1. Bad \in SUBSET (0..n)
    OBVIOUS
  <2> HIDE DEF Bad
  <2> QED BY <1>0, <2>1, LeastUpTo
<1>2. k \in 1..n
  OBVIOUS
<1>3. k - 1 \in 0..n /\ k - 1 \notin Bad
  BY <1>1, <1>2
<1> QED BY <1>2, <1>3
=============================================================================
