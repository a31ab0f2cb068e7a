---------------------------- MODULE Accept_proofs ----------------------------
(***************************************************************************)
(* Proofs about Accept, for all examples and parts of them, every answer a *)
(* program could give, and every accuracy, weight and number of answers.   *)
(***************************************************************************)
EXTENDS Accept, Vectors_proofs

-----------------------------------------------------------------------------
(* Sums. *)

Sums(f, cost, n) ==
  /\ f \in [0..n -> Int] /\ f[0] = 0
  /\ \A i \in 1..n : f[i] = f[i - 1] + cost[i]

\* The partial sums exist.
LEMMA SumsExist ==
  ASSUME NEW n \in Nat, NEW cost \in [1..n -> Int]
  PROVE  \E f : Sums(f, cost, n)
<1> DEFINE Bad == {k \in 0..n : ~\E f : Sums(f, cost, k)}
<1> SUFFICES Bad = {}
  <2>1. n \in 0..n
    OBVIOUS
  <2> QED BY <2>1, Zenon
<1> SUFFICES ASSUME Bad # {} PROVE FALSE
  OBVIOUS
<1>0. Bad # {}
  OBVIOUS
<1>1. PICK k \in Bad : \A j \in Bad : k <= j
  <2>1. Bad \in SUBSET (0..n)
    OBVIOUS
  <2> HIDE DEF Bad
  <2> QED BY <1>0, <2>1, LeastUpTo
<1>2. k \in 0..n /\ ~\E f : Sums(f, cost, k)
  OBVIOUS
<1>3. k # 0
  <2> DEFINE f == [i \in 0..0 |-> 0]
  <2>1. Sums(f, cost, 0)
    BY DEF Sums
  <2> QED BY <1>2, <2>1
<1>4. k - 1 \in 0..n /\ k - 1 \notin Bad
  BY <1>1, <1>2, <1>3
<1>5. PICK f : Sums(f, cost, k - 1)
  BY <1>4
<1> DEFINE g == [i \in 0..k |-> IF i < k THEN f[i] ELSE f[k - 1] + cost[k]]
<1>6. /\ f \in [0..(k - 1) -> Int] /\ f[0] = 0
      /\ \A i \in 1..(k - 1) : f[i] = f[i - 1] + cost[i]
  BY <1>5 DEF Sums
<1>7. k \in 1..n /\ cost[k] \in Int /\ f[k - 1] \in Int
  BY <1>2, <1>3, <1>6
<1>8. g \in [0..k -> Int] /\ g[0] = 0
  BY <1>6, <1>7
<1>9. \A i \in 1..k : g[i] = g[i - 1] + cost[i]
  BY <1>6, <1>7
<1> QED BY <1>2, <1>8, <1>9 DEF Sums

\* Total is the last of them.
LEMMA TotalIsSum ==
  ASSUME NEW n \in Nat, NEW cost \in [1..n -> Int]
  PROVE  \E f : Sums(f, cost, n) /\ Total(cost, n) = f[n]
<1> DEFINE upTo[i \in 0..n] == IF i = 0 THEN 0 ELSE upTo[i - 1] + cost[i]
<1>1. PICK f : Sums(f, cost, n)
  BY SumsExist
<1>2. /\ f \in [0..n -> Int] /\ f[0] = 0
      /\ \A i \in 1..n : f[i] = f[i - 1] + cost[i]
  BY <1>1 DEF Sums
<1>3. f = [i \in 0..n |-> IF i = 0 THEN 0 ELSE f[i - 1] + cost[i]]
  BY <1>2
<1>4. upTo = [i \in 0..n |-> IF i = 0 THEN 0 ELSE upTo[i - 1] + cost[i]]
  BY <1>3
<1>5. Total(cost, n) = upTo[n]
  BY DEF Total
<1> HIDE DEF upTo
<1>6. upTo[0] = 0 /\ \A i \in 1..n : upTo[i] = upTo[i - 1] + cost[i]
  BY <1>4
<1>7. upTo[n] = f[n]
  <2>1. \A k \in 1..n : upTo[k - 1] = f[k - 1] => upTo[k] = f[k]
    BY <1>2, <1>6
  <2>2. upTo[0] = f[0]
    BY <1>2, <1>6
  <2> QED BY <2>1, <2>2, SameIterates
<1> QED BY <1>1, <1>5, <1>7

\* Multiplying both sides by a number.
LEMMA TimesMore ==
  ASSUME NEW d \in Nat, NEW x \in Int, NEW y \in Int, x >= y
  PROVE  x * d >= y * d
<1>1. x - y \in Nat
  OBVIOUS
<1>2. (x - y) * d >= 0
  BY <1>1
<1>3. (x - y) * d = x * d - y * d /\ x * d \in Int /\ y * d \in Int
  OBVIOUS
<1> QED BY <1>2, <1>3

\* At most c at each place of V and at most 0 elsewhere; just that.
AtMost(cost, n, V, c) == \A i \in 1..n : cost[i] <= IF i \in V THEN c ELSE 0
Exactly(cost, n, V, c) == \A i \in 1..n : cost[i] = IF i \in V THEN c ELSE 0

\* What such costs add up to.
LEMMA TotalBound ==
  ASSUME NEW n \in Nat, NEW cost \in [1..n -> Int], NEW V \in SUBSET (1..n), NEW c \in Nat,
         AtMost(cost, n, V, c)
  PROVE  /\ Total(cost, n) \in Int
         /\ Total(cost, n) <= c * Cardinality(V)
         /\ Exactly(cost, n, V, c) => Total(cost, n) = c * Cardinality(V)
<1> USE DEF AtMost, Exactly
<1> DEFINE Exact == Exactly(cost, n, V, c)
           W(k) == V \cap 1..k
           Good(f, k) == /\ f[k] <= c * Cardinality(W(k))
                         /\ Exact => f[k] = c * Cardinality(W(k))
<1>1. PICK f : Sums(f, cost, n) /\ Total(cost, n) = f[n]
  BY TotalIsSum
<1>2. /\ f \in [0..n -> Int] /\ f[0] = 0
      /\ \A i \in 1..n : f[i] = f[i - 1] + cost[i]
  BY <1>1 DEF Sums
<1>3. ASSUME NEW k \in 0..n PROVE IsFiniteSet(W(k)) /\ Cardinality(W(k)) \in Nat
  <2>1. IsFiniteSet(1..k)
    BY FS_Interval
  <2> QED BY <2>1, FS_Subset, FS_CardinalityType
<1>4. Good(f, n)
  <2> DEFINE Bad == {k \in 0..n : ~Good(f, k)}
  <2> SUFFICES Bad = {}
    <3>1. n \in 0..n
      OBVIOUS
    <3> QED BY <3>1, Zenon
  <2> SUFFICES ASSUME Bad # {} PROVE FALSE
    OBVIOUS
  <2>0. Bad # {}
    OBVIOUS
  <2>1. PICK k \in Bad : \A j \in Bad : k <= j
    <3>1. Bad \in SUBSET (0..n)
      OBVIOUS
    <3> HIDE DEF Bad
    <3> QED BY <2>0, <3>1, LeastUpTo
  <2>2. k # 0
    <3>1. W(0) = {}
      OBVIOUS
    <3>2. Cardinality(W(0)) = 0 /\ c * 0 = 0
      BY <3>1, FS_EmptySet
    <3>3. Good(f, 0)
      <4> HIDE DEF W, Exact
      <4> QED BY <1>2, <3>2
    <3> HIDE DEF Good
    <3> QED BY <3>3, Zenon
  <2>3. k \in 1..n /\ k - 1 \in 0..n /\ Good(f, k - 1) /\ ~Good(f, k)
    BY <2>1, <2>2
  <2>4. /\ IsFiniteSet(W(k - 1)) /\ Cardinality(W(k - 1)) \in Nat
        /\ f[k - 1] \in Int /\ f[k] = f[k - 1] + cost[k] /\ cost[k] \in Int
    BY <1>2, <1>3, <2>3
  <2>5. CASE k \in V
    <3>1. W(k) = W(k - 1) \cup {k} /\ k \notin W(k - 1)
      BY <2>3, <2>5
    <3>2. Cardinality(W(k)) = Cardinality(W(k - 1)) + 1
      BY <2>4, <3>1, FS_AddElement
    <3>3. c * (Cardinality(W(k - 1)) + 1) = c * Cardinality(W(k - 1)) + c
          /\ c * Cardinality(W(k - 1)) \in Int
      BY <2>4
    <3>4. cost[k] <= c /\ (Exact => cost[k] = c)
      BY <2>3, <2>5
    <3> HIDE DEF W, Exact
    <3>5. f[k] <= c * Cardinality(W(k))
      BY <2>3, <2>4, <3>2, <3>3, <3>4
    <3>6. Exact => f[k] = c * Cardinality(W(k))
      BY <2>3, <2>4, <3>2, <3>3, <3>4
    <3> QED BY <2>3, <3>5, <3>6
  <2>6. CASE k \notin V
    <3>1. W(k) = W(k - 1)
      BY <2>3, <2>6
    <3>2. cost[k] <= 0 /\ (Exact => cost[k] = 0)
      BY <2>3, <2>6
    <3>3. c * Cardinality(W(k - 1)) \in Int
      BY <2>4
    <3> HIDE DEF W, Exact
    <3> QED BY <2>3, <2>4, <3>1, <3>2, <3>3
  <2> QED BY <2>5, <2>6
<1>5. W(n) = V
  OBVIOUS
<1>6. f[n] \in Int
  BY <1>2
<1> QED BY <1>1, <1>4, <1>5, <1>6

-----------------------------------------------------------------------------
(* Sorted classes. *)

\* An order of X names each of its members once.
LEMMA SortedProperties ==
  ASSUME NEW X, IsFiniteSet(X), NEW key, NEW s \in Sorted(X, key)
  PROVE  /\ Cardinality(X) \in Nat /\ s \in [1..Cardinality(X) -> X]
         /\ \A i, j \in 1..Cardinality(X) : s[i] = s[j] => i = j
         /\ \A i, j \in 1..Cardinality(X) : i < j => key[s[i]] <= key[s[j]]
         /\ \A x \in X : \E i \in 1..Cardinality(X) : s[i] = x
<1> DEFINE n == Cardinality(X)
<1>1. n \in Nat
  BY FS_CardinalityType
<1>2. /\ s \in [1..n -> X] /\ \A i, j \in 1..n : i # j => s[i] # s[j]
      /\ \A i, j \in DOMAIN s : i < j => key[s[i]] <= key[s[j]]
  BY DEF Sorted, SetToSeqs
<1>3. ASSUME NEW x \in X, ~\E i \in 1..n : s[i] = x PROVE FALSE
  <2>1. s \in [1..n -> X \ {x}]
    BY <1>2, <1>3
  <2>2. IsFiniteSet(X \ {x}) /\ Cardinality(X \ {x}) = n - 1
    BY FS_RemoveElement
  <2>3. IsFiniteSet(1..n) /\ Cardinality(1..n) = n
    BY <1>1, FS_Interval
  <2>4. Cardinality(X \ {x}) < Cardinality(1..n)
    BY <1>1, <2>2, <2>3
  <2> HIDE DEF n
  <2>5. \E i, j \in 1..n : i # j /\ s[i] = s[j]
    BY <2>1, <2>2, <2>3, <2>4, FS_PigeonHole
  <2> QED BY <1>2, <2>5
<1> QED BY <1>1, <1>2, <1>3

\* The members at the first i places of an order number i; those from place d
\* on, n - d + 1.
LEMMA PlacesCount ==
  ASSUME NEW X, IsFiniteSet(X), NEW key, NEW s \in Sorted(X, key),
         NEW J \in SUBSET (1..Cardinality(X))
  PROVE  /\ IsFiniteSet(J)
         /\ MembersAt(s, J) \subseteq X
         /\ IsFiniteSet(MembersAt(s, J))
         /\ Cardinality(MembersAt(s, J)) = Cardinality(J)
<1> DEFINE n == Cardinality(X)
<1>1. /\ n \in Nat /\ s \in [1..n -> X]
      /\ \A i, j \in 1..n : s[i] = s[j] => i = j
  BY SortedProperties
<1>2. IsFiniteSet(1..n)
  BY <1>1, FS_Interval
<1>3. IsFiniteSet(J)
  BY <1>2, FS_Subset
<1>4. IsFiniteSet(MembersAt(s, J)) /\ Cardinality(MembersAt(s, J)) = Cardinality(J)
  <2>1. \A i, j \in J : s[i] = s[j] => i = j
    BY <1>1
  <2> QED BY <1>3, <2>1, ImageCardinality
<1>5. MembersAt(s, J) \subseteq X
  BY <1>1 DEF MembersAt
<1> QED BY <1>3, <1>4, <1>5

\* The number of members at the places in between.
LEMMA IntervalCount ==
  ASSUME NEW X, IsFiniteSet(X), NEW key, NEW s \in Sorted(X, key),
         NEW i \in 1..(Cardinality(X) + 1), NEW j \in (i - 1)..Cardinality(X)
  PROVE  /\ MembersAt(s, i..j) \subseteq X
         /\ IsFiniteSet(MembersAt(s, i..j))
         /\ Cardinality(MembersAt(s, i..j)) = j - i + 1
<1>1. Cardinality(X) \in Nat
  BY FS_CardinalityType
<1>2. i..j \in SUBSET (1..Cardinality(X)) /\ i \in Int /\ j \in Int
  BY <1>1
<1>3. Cardinality(i..j) = j - i + 1
  <2>1. Cardinality(i..j) = IF i > j THEN 0 ELSE j - i + 1
    BY <1>2, FS_Interval
  <2>2. j >= i - 1
    BY <1>1
  <2> QED BY <1>2, <2>1, <2>2
<1> QED BY <1>2, <1>3, PlacesCount

\* What has a smaller key comes before.
LEMMA SmallerBefore ==
  ASSUME NEW X, IsFiniteSet(X), NEW key \in [X -> Int], NEW s \in Sorted(X, key),
         NEW i \in 1..Cardinality(X), NEW x \in X, key[x] < key[s[i]]
  PROVE  x \in MembersAt(s, 1..(i - 1))
<1> DEFINE n == Cardinality(X)
<1>1. /\ n \in Nat /\ s \in [1..n -> X]
      /\ \A k, j \in 1..n : k < j => key[s[k]] <= key[s[j]]
      /\ \E k \in 1..n : s[k] = x
  BY SortedProperties
<1>2. PICK k \in 1..n : s[k] = x
  BY <1>1
<1>3. key[x] \in Int /\ key[s[i]] \in Int
  BY <1>1
<1>4. k < i
  <2>1. ~(i < k)
    BY <1>1, <1>2, <1>3
  <2>2. i # k
    BY <1>2, <1>3
  <2> QED BY <1>1, <2>1, <2>2
<1> QED BY <1>2, <1>4 DEF MembersAt

\* What stands at a place or before it has no greater key.
LEMMA NotGreaterUpTo ==
  ASSUME NEW X, IsFiniteSet(X), NEW key \in [X -> Int], NEW s \in Sorted(X, key),
         NEW i \in 1..Cardinality(X), NEW x \in MembersAt(s, 1..i)
  PROVE  x \in X /\ key[x] <= key[s[i]]
<1> DEFINE n == Cardinality(X)
<1>1. /\ n \in Nat /\ s \in [1..n -> X]
      /\ \A k, j \in 1..n : k < j => key[s[k]] <= key[s[j]]
  BY SortedProperties
<1>2. PICK k \in 1..i : s[k] = x
  BY DEF MembersAt
<1>3. key[s[i]] \in Int /\ k \in 1..n
  BY <1>1
<1>4. CASE k < i
  BY <1>1, <1>2, <1>3, <1>4
<1>5. CASE k = i
  BY <1>1, <1>2, <1>3, <1>5
<1> QED BY <1>3, <1>4, <1>5

\* If no key grows, neither does the one at any place, however the members are
\* sorted anew.
LEMMA SortedDominates ==
  ASSUME NEW X, IsFiniteSet(X), NEW low \in [X -> Int], NEW high \in [X -> Int],
         \A x \in X : low[x] <= high[x],
         NEW s \in Sorted(X, low), NEW t \in Sorted(X, high), NEW i \in 1..Cardinality(X)
  PROVE  low[s[i]] <= high[t[i]]
<1> DEFINE n == Cardinality(X)
<1>1. n \in Nat /\ s \in [1..n -> X] /\ t \in [1..n -> X]
  BY SortedProperties
<1>2. low[s[i]] \in Int /\ high[t[i]] \in Int
  BY <1>1
<1> SUFFICES ASSUME high[t[i]] < low[s[i]] PROVE FALSE
  BY <1>2
<1>3. MembersAt(t, 1..i) \subseteq MembersAt(s, 1..(i - 1))
  <2> SUFFICES ASSUME NEW x \in MembersAt(t, 1..i) PROVE x \in MembersAt(s, 1..(i - 1))
    OBVIOUS
  <2>1. x \in X /\ high[x] <= high[t[i]]
    BY NotGreaterUpTo
  <2>2. low[x] < low[s[i]]
    <3>1. low[x] \in Int /\ high[x] \in Int /\ low[x] <= high[x]
      BY <2>1
    <3> QED BY <1>2, <2>1, <3>1
  <2> QED BY <2>1, <2>2, SmallerBefore
<1>4. Cardinality(MembersAt(t, 1..i)) = i
  <2>1. 1 \in 1..(n + 1) /\ i \in (1 - 1)..n
    BY <1>1
  <2>2. Cardinality(MembersAt(t, 1..i)) = i - 1 + 1
    BY <2>1, IntervalCount
  <2> QED BY <2>2
<1>5. /\ IsFiniteSet(MembersAt(s, 1..(i - 1)))
      /\ Cardinality(MembersAt(s, 1..(i - 1))) = i - 1
  <2>1. 1 \in 1..(n + 1) /\ i - 1 \in (1 - 1)..n
    BY <1>1
  <2> HIDE DEF n
  <2>2. /\ IsFiniteSet(MembersAt(s, 1..(i - 1)))
        /\ Cardinality(MembersAt(s, 1..(i - 1))) = (i - 1) - 1 + 1
    BY <2>1, IntervalCount DEF n
  <2> QED BY <2>2
<1>6. i <= i - 1
  BY <1>3, <1>4, <1>5, FS_Subset
<1> QED BY <1>6

\* So the keys at the places do not depend on the order chosen among equals.
LEMMA SortedAlike ==
  ASSUME NEW X, IsFiniteSet(X), NEW key \in [X -> Int],
         NEW s \in Sorted(X, key), NEW t \in Sorted(X, key), NEW i \in 1..Cardinality(X)
  PROVE  key[s[i]] = key[t[i]]
<1>1. s[i] \in X /\ t[i] \in X
  BY SortedProperties
<1>2. \A x \in X : key[x] <= key[x]
  OBVIOUS
<1>3. key[s[i]] <= key[t[i]] /\ key[t[i]] <= key[s[i]]
  BY <1>2, SortedDominates
<1> QED BY <1>1, <1>3

-----------------------------------------------------------------------------
(* Pairs of sorted classes. *)

Places(h) == norm_zip(Cardinality(h.pos), Cardinality(h.neg))

\* Neither class of a handle is empty.
LEMMA ClassesSized ==
  ASSUME NEW h \in Handle
  PROVE  /\ h.pos \subseteq Pos /\ h.neg \subseteq Neg /\ h.pos \cap h.neg = {}
         /\ IsFiniteSet(h.pos) /\ IsFiniteSet(h.neg)
         /\ Cardinality(h.pos) \in 1..Cardinality(Pos)
         /\ Cardinality(h.neg) \in 1..Cardinality(Neg)
<1>1. h.pos \subseteq Pos /\ h.pos # {} /\ h.neg \subseteq Neg /\ h.neg # {}
  BY DEF Handle
<1>2. ASSUME NEW X, NEW Y, X \subseteq Y, X # {}, IsFiniteSet(Y)
      PROVE  IsFiniteSet(X) /\ Cardinality(X) \in 1..Cardinality(Y)
  <2>1. IsFiniteSet(X) /\ Cardinality(X) <= Cardinality(Y)
    BY <1>2, FS_Subset
  <2>2. Cardinality(X) \in Nat /\ Cardinality(Y) \in Nat /\ Cardinality(X) # 0
    BY <1>2, <2>1, FS_CardinalityType, FS_EmptySet
  <2> QED BY <2>1, <2>2
<1>3. h.pos \cap h.neg = {}
  BY <1>1, OracleAssumption
<1> QED BY <1>1, <1>2, <1>3, OracleAssumption

\* The places norm_zip pairs.
LEMMA ZipPlaces ==
  ASSUME NEW h \in Handle
  PROVE  /\ Len(Places(h)) \in Nat \ {0} /\ DOMAIN Places(h) = 1..Len(Places(h))
         /\ \A k \in 1..Len(Places(h)) : /\ Places(h)[k][1] \in 1..Cardinality(h.pos)
                                         /\ Places(h)[k][2] \in 1..Cardinality(h.neg)
         /\ Rises(Places(h), 1) /\ EvenShare(Places(h), 1, Cardinality(h.pos))
         /\ Rises(Places(h), 2) /\ EvenShare(Places(h), 2, Cardinality(h.neg))
<1> DEFINE m == Cardinality(h.pos)
           n == Cardinality(h.neg)
<1>1. m \in 1..Cardinality(Pos) /\ n \in 1..Cardinality(Neg)
  BY ClassesSized
<1> HIDE DEF m, n
<1>2. /\ norm_zip(m, n) \in Seq((1..m) \X (1..n)) /\ norm_zip(m, n) # <<>>
      /\ Rises(norm_zip(m, n), 1) /\ EvenShare(norm_zip(m, n), 1, m)
      /\ Rises(norm_zip(m, n), 2) /\ EvenShare(norm_zip(m, n), 2, n)
  BY <1>1, ZipAssumption
<1>3. Places(h) = norm_zip(m, n)
  BY DEF Places, m, n
<1>4. /\ Len(Places(h)) \in Nat \ {0} /\ DOMAIN Places(h) = 1..Len(Places(h))
      /\ \A k \in 1..Len(Places(h)) : Places(h)[k] \in (1..m) \X (1..n)
  <2> SUFFICES ASSUME NEW z \in Seq((1..m) \X (1..n)), z # <<>>
               PROVE  /\ Len(z) \in Nat \ {0} /\ DOMAIN z = 1..Len(z)
                      /\ \A k \in 1..Len(z) : z[k] \in (1..m) \X (1..n)
    BY <1>2, <1>3
  <2>1. Len(z) \in Nat /\ DOMAIN z = 1..Len(z)
    OBVIOUS
  <2>2. Len(z) # 0
    BY EmptySeq
  <2>3. \A k \in 1..Len(z) : z[k] \in (1..m) \X (1..n)
    BY ElementOfSeq
  <2> QED BY <2>1, <2>2, <2>3
<1>5. \A k \in 1..Len(Places(h)) : Places(h)[k][1] \in 1..m /\ Places(h)[k][2] \in 1..n
  BY <1>4
<1> QED BY <1>2, <1>3, <1>4, <1>5 DEF m, n

\* v is a number on every example of h.
Values(h, v) == \A x \in h.pos \cup h.neg : v[x] \in Int

\* both lists the pairs of p and q.
Zips(both, h, p, q) ==
  /\ DOMAIN both = 1..Len(Places(h)) /\ Len(both) = Len(Places(h))
  /\ \A k \in 1..Len(Places(h)) : both[k] = <<p[Places(h)[k][1]], q[Places(h)[k][2]]>>

\* What norm_zip makes of the sorted classes.
LEMMA PairingsAreZips ==
  ASSUME NEW h \in Handle, NEW posKey, NEW negKey, NEW both \in Pairings(h, posKey, negKey)
  PROVE  \E p \in Sorted(h.pos, posKey), q \in Sorted(h.neg, negKey) : Zips(both, h, p, q)
<1>1. PICK p \in Sorted(h.pos, posKey), q \in Sorted(h.neg, negKey) :
        both = [k \in DOMAIN Places(h) |-> <<p[Places(h)[k][1]], q[Places(h)[k][2]]>>]
  BY DEF Pairings, Places
<1>2. /\ p \in [1..Cardinality(h.pos) -> h.pos] /\ q \in [1..Cardinality(h.neg) -> h.neg]
  BY SortedProperties, ClassesSized
<1>3. Len(Places(h)) \in Nat /\ DOMAIN Places(h) = 1..Len(Places(h))
      /\ \A k \in 1..Len(Places(h)) : /\ Places(h)[k][1] \in 1..Cardinality(h.pos)
                                      /\ Places(h)[k][2] \in 1..Cardinality(h.neg)
  BY ZipPlaces
<1>4. both \in Seq(h.pos \X h.neg) /\ Len(both) = Len(Places(h))
  <2>1. both \in [1..Len(Places(h)) -> h.pos \X h.neg]
    BY <1>1, <1>2, <1>3
  <2> QED BY <1>3, <2>1
<1> QED BY <1>1, <1>3, <1>4 DEF Zips

\* The values at the places of the pairing of a complete program: rising on the
\* one side, falling on the other, and the same for every pairing.
LEMMA PairedValues ==
  ASSUME NEW h \in Handle, NEW v, Values(h, v), NEW both \in Pairing(h, v)
  PROVE  /\ Len(both) = Len(Places(h)) /\ Len(both) \in Nat \ {0}
         /\ DOMAIN both = 1..Len(both)
         /\ \A k \in DOMAIN both :
              /\ both[k][1] \in h.pos /\ both[k][2] \in h.neg
              /\ v[both[k][1]] \in Int /\ v[both[k][2]] \in Int
         /\ \A k, l \in DOMAIN both :
              k < l => v[both[k][1]] <= v[both[l][1]] /\ v[both[l][2]] <= v[both[k][2]]
         /\ \A other \in Pairing(h, v) : \A k \in DOMAIN both :
              v[both[k][1]] = v[other[k][1]] /\ v[both[k][2]] = v[other[k][2]]
<1> DEFINE m == Cardinality(h.pos)
           n == Cardinality(h.neg)
           len == Len(Places(h))
           i(k) == Places(h)[k][1]
           j(k) == Places(h)[k][2]
           up == [x \in h.pos |-> v[x]]
           down == [x \in h.neg |-> -v[x]]
<1>0. IsFiniteSet(h.pos) /\ IsFiniteSet(h.neg)
  BY ClassesSized
<1>1. up \in [h.pos -> Int] /\ down \in [h.neg -> Int]
  BY DEF Values
<1>2. ASSUME NEW b \in Pairing(h, v)
      PROVE  \E p \in Sorted(h.pos, up), q \in Sorted(h.neg, down) : Zips(b, h, p, q)
  BY PairingsAreZips DEF Pairing
<1>3. PICK p \in Sorted(h.pos, up), q \in Sorted(h.neg, down) : Zips(both, h, p, q)
  BY <1>2
<1>4. /\ m \in Nat /\ p \in [1..m -> h.pos]
      /\ \A k, l \in 1..m : k < l => up[p[k]] <= up[p[l]]
  BY <1>0, SortedProperties
<1>5. /\ n \in Nat /\ q \in [1..n -> h.neg]
      /\ \A k, l \in 1..n : k < l => down[q[k]] <= down[q[l]]
  BY <1>0, SortedProperties
<1>6. /\ len \in Nat \ {0} /\ \A k \in 1..len : i(k) \in 1..m /\ j(k) \in 1..n
      /\ \A k, l \in 1..len : k < l => i(k) <= i(l) /\ j(k) <= j(l)
  BY ZipPlaces DEF Rises
<1>7. /\ \A x \in h.pos : up[x] = v[x] /\ v[x] \in Int
      /\ \A x \in h.neg : down[x] = -v[x] /\ v[x] \in Int
  BY DEF Values
<1>8. \A b, r, t : Zips(b, h, r, t) =>
        /\ DOMAIN b = 1..len /\ Len(b) = len
        /\ \A k \in 1..len : b[k] = <<r[i(k)], t[j(k)]>>
  BY DEF Zips
<1>9. ASSUME NEW other \in Pairing(h, v), NEW k \in 1..len
      PROVE  v[both[k][1]] = v[other[k][1]] /\ v[both[k][2]] = v[other[k][2]]
  <2>1. PICK r \in Sorted(h.pos, up), t \in Sorted(h.neg, down) : Zips(other, h, r, t)
    BY <1>2
  <2>2. i(k) \in 1..m /\ j(k) \in 1..n
    BY <1>6
  <2>3. both[k] = <<p[i(k)], q[j(k)]>> /\ other[k] = <<r[i(k)], t[j(k)]>>
    BY <1>3, <1>8, <2>1
  <2> HIDE DEF i, j, up, down
  <2>4. up[p[i(k)]] = up[r[i(k)]] /\ down[q[j(k)]] = down[t[j(k)]]
    BY <1>0, <1>1, <2>2, SortedAlike
  <2>5. r[i(k)] \in h.pos /\ t[j(k)] \in h.neg /\ p[i(k)] \in h.pos /\ q[j(k)] \in h.neg
    BY <1>0, <1>4, <1>5, <2>2, SortedProperties
  <2>6. v[p[i(k)]] = v[r[i(k)]] /\ v[q[j(k)]] = v[t[j(k)]]
    BY <1>7, <2>4, <2>5
  <2> QED BY <2>3, <2>6
<1> HIDE DEF m, n, len, i, j, up, down
<1>10. ASSUME NEW k \in 1..len
       PROVE  /\ both[k][1] \in h.pos /\ both[k][2] \in h.neg
              /\ v[both[k][1]] \in Int /\ v[both[k][2]] \in Int
              /\ up[p[i(k)]] = v[both[k][1]] /\ down[q[j(k)]] = -v[both[k][2]]
  <2>1. i(k) \in 1..m /\ j(k) \in 1..n
    BY <1>6
  <2>2. both[k] = <<p[i(k)], q[j(k)]>>
    BY <1>3, <1>8
  <2>3. p[i(k)] \in h.pos /\ q[j(k)] \in h.neg
    BY <1>4, <1>5, <2>1
  <2> QED BY <1>7, <2>2, <2>3
<1>11. ASSUME NEW k \in 1..len, NEW l \in 1..len, k < l
       PROVE  v[both[k][1]] <= v[both[l][1]] /\ v[both[l][2]] <= v[both[k][2]]
  <2>1. /\ i(k) \in 1..m /\ i(l) \in 1..m /\ i(k) <= i(l)
        /\ j(k) \in 1..n /\ j(l) \in 1..n /\ j(k) <= j(l)
    BY <1>6, <1>11
  <2>2. /\ v[both[k][1]] \in Int /\ v[both[l][1]] \in Int
        /\ v[both[k][2]] \in Int /\ v[both[l][2]] \in Int
        /\ up[p[i(k)]] = v[both[k][1]] /\ down[q[j(k)]] = -v[both[k][2]]
        /\ up[p[i(l)]] = v[both[l][1]] /\ down[q[j(l)]] = -v[both[l][2]]
    BY <1>10
  <2>3. up[p[i(k)]] <= up[p[i(l)]]
    <3>1. CASE i(k) = i(l)
      BY <2>2, <3>1
    <3>2. CASE i(k) < i(l)
      BY <1>4, <2>1, <3>2
    <3> QED BY <2>1, <3>1, <3>2
  <2>4. down[q[j(k)]] <= down[q[j(l)]]
    <3>1. CASE j(k) = j(l)
      BY <2>2, <3>1
    <3>2. CASE j(k) < j(l)
      BY <1>5, <2>1, <3>2
    <3> QED BY <2>1, <3>1, <3>2
  <2> QED BY <2>2, <2>3, <2>4
<1>12. DOMAIN both = 1..len /\ Len(both) = len
  BY <1>3, <1>8
<1> QED BY <1>6, <1>9, <1>10, <1>11, <1>12 DEF len

AtLeast(X, key, bound) == {x \in X : key[x] >= bound}

\* The members from a place on are among those with no smaller key.
LEMMA BehindCount ==
  ASSUME NEW X, IsFiniteSet(X), NEW key \in [X -> Int], NEW s \in Sorted(X, key),
         NEW i \in 1..Cardinality(X), NEW len \in Nat, NEW share \in Int,
         (Cardinality(X) - i + 1) * len >= share
  PROVE  Cardinality(AtLeast(X, key, key[s[i]])) * len >= share
<1> DEFINE m == Cardinality(X)
           behind == MembersAt(s, i..m)
           above == {x \in X : key[x] >= key[s[i]]}
<1>1. /\ m \in Nat /\ s \in [1..m -> X]
      /\ \A k1, l1 \in 1..m : k1 < l1 => key[s[k1]] <= key[s[l1]]
  BY SortedProperties
<1>2. i \in 1..(m + 1) /\ m \in (i - 1)..m
  BY <1>1
<1>3. /\ IsFiniteSet(behind) /\ Cardinality(behind) = m - i + 1
  BY <1>2, IntervalCount
<1>4. behind \subseteq above
  <2> SUFFICES ASSUME NEW l \in i..m PROVE s[l] \in X /\ key[s[l]] >= key[s[i]]
    BY DEF MembersAt
  <2>1. l \in 1..m /\ (i < l \/ i = l) /\ key[s[l]] \in Int /\ key[s[i]] \in Int
    BY <1>1
  <2>2. i < l => key[s[i]] <= key[s[l]]
    BY <1>1, <2>1
  <2> QED BY <1>1, <2>1, <2>2
<1>5. IsFiniteSet(above)
  BY FS_Subset
<1> HIDE DEF behind, above, m
<1>6. Cardinality(behind) <= Cardinality(above) /\ Cardinality(above) \in Nat
  BY <1>4, <1>5, FS_Subset, FS_CardinalityType
<1>7. m - i + 1 \in Int /\ Cardinality(above) >= m - i + 1
  BY <1>1, <1>3, <1>6
<1>8. Cardinality(above) * len >= (m - i + 1) * len
  BY <1>6, <1>7, TimesMore
<1>9. /\ Cardinality(above) * len \in Int /\ (m - i + 1) * len \in Int
      /\ (m - i + 1) * len >= share
  BY <1>6, <1>7 DEF m
<1>10. Cardinality(above) * len >= share
  BY <1>8, <1>9
<1> QED BY <1>10 DEF above, AtLeast

\* The examples no worse than those of the pair k are as large a share of their
\* class as the pairs from k on are of all the pairs.
LEMMA ShareAbove ==
  ASSUME NEW h \in Handle, NEW v, Values(h, v), NEW both \in Pairing(h, v),
         NEW k \in DOMAIN both
  PROVE  /\ Cardinality({x \in h.pos : v[x] >= v[both[k][1]]}) * Len(both)
              >= Cardinality(h.pos) * (Len(both) - k + 1)
         /\ Cardinality({y \in h.neg : v[y] <= v[both[k][2]]}) * Len(both)
              >= Cardinality(h.neg) * (Len(both) - k + 1)
<1> DEFINE up == [x \in h.pos |-> v[x]]
           down == [x \in h.neg |-> -v[x]]
           m == Cardinality(h.pos)
           n == Cardinality(h.neg)
           len == Len(both)
           i == Places(h)[k][1]
           j == Places(h)[k][2]
<1>2. up \in [h.pos -> Int] /\ down \in [h.neg -> Int]
  BY DEF Values
<1>3. IsFiniteSet(h.pos) /\ IsFiniteSet(h.neg) /\ m \in Nat /\ n \in Nat
  BY ClassesSized, FS_CardinalityType
<1>4. PICK p \in Sorted(h.pos, up), q \in Sorted(h.neg, down) : Zips(both, h, p, q)
  BY PairingsAreZips DEF Pairing
<1>5. /\ len = Len(Places(h)) /\ len \in Nat /\ k \in 1..len
      /\ both[k][1] \in h.pos /\ both[k][2] \in h.neg
  BY PairedValues
<1>6. both[k][1] = p[i] /\ both[k][2] = q[j]
  BY <1>5, <1>4 DEF Zips
<1>7. /\ i \in 1..m /\ j \in 1..n
      /\ (m - i + 1) * len >= m * (len - k + 1)
      /\ (n - j + 1) * len >= n * (len - k + 1)
  BY <1>5, ZipPlaces DEF EvenShare
<1>8. m * (len - k + 1) \in Int /\ n * (len - k + 1) \in Int
  BY <1>3, <1>5
<1>9. /\ {x \in h.pos : v[x] >= v[both[k][1]]} = AtLeast(h.pos, up, up[p[i]])
      /\ {y \in h.neg : v[y] <= v[both[k][2]]} = AtLeast(h.neg, down, down[q[j]])
  <2>1. /\ \A x \in h.pos : up[x] = v[x] /\ v[x] \in Int
        /\ \A y \in h.neg : down[y] = -v[y] /\ v[y] \in Int
    BY DEF Values
  <2> HIDE DEF up, down
  <2> QED BY <1>5, <1>6, <2>1 DEF AtLeast
<1> HIDE DEF up, down, m, n, len, i, j
<1>10. Cardinality(AtLeast(h.pos, up, up[p[i]])) * len >= m * (len - k + 1)
  <2> DEFINE share == m * (len - k + 1)
  <2>1. share \in Int /\ (Cardinality(h.pos) - i + 1) * len >= share
    BY <1>7, <1>8 DEF m
  <2>2. i \in 1..Cardinality(h.pos) /\ len \in Nat
    BY <1>5, <1>7 DEF m
  <2> HIDE DEF share
  <2>3. Cardinality(AtLeast(h.pos, up, up[p[i]])) * len >= share
    BY <1>2, <1>3, <2>1, <2>2, BehindCount
  <2> QED BY <2>3 DEF share
<1>11. Cardinality(AtLeast(h.neg, down, down[q[j]])) * len >= n * (len - k + 1)
  <2> DEFINE share == n * (len - k + 1)
  <2>1. share \in Int /\ (Cardinality(h.neg) - j + 1) * len >= share
    BY <1>7, <1>8 DEF n
  <2>2. j \in 1..Cardinality(h.neg) /\ len \in Nat
    BY <1>5, <1>7 DEF n
  <2> HIDE DEF share
  <2>3. IsFiniteSet(h.neg) /\ down \in [h.neg -> Int] /\ q \in Sorted(h.neg, down)
    BY <1>2, <1>3
  <2>4. Cardinality(AtLeast(h.neg, down, down[q[j]])) * len >= share
    BY <2>1, <2>2, <2>3, BehindCount
  <2> QED BY <2>4 DEF share
<1> QED BY <1>9, <1>10, <1>11 DEF m, n, len

\* The valid pairs: how many there are does not depend on the pairing.
LEMMA ValidPlaces ==
  ASSUME NEW h \in Handle, NEW v, Values(h, v), NEW both \in Pairing(h, v)
  PROVE  /\ Valid(v, both) \subseteq DOMAIN both
         /\ IsFiniteSet(Valid(v, both)) /\ Cardinality(Valid(v, both)) \in Nat
         /\ Cardinality(Valid(v, both)) <= Len(both)
         /\ \A other \in Pairing(h, v) : Valid(v, other) = Valid(v, both)
<1>1. Valid(v, both) \subseteq DOMAIN both
  BY DEF Valid
<1>2. IsFiniteSet(DOMAIN both) /\ Cardinality(DOMAIN both) = Len(both)
  <2>1. Len(both) \in Nat /\ DOMAIN both = 1..Len(both)
    BY PairedValues
  <2>2. \A n \in Nat : IsFiniteSet(1..n) /\ Cardinality(1..n) = n
    BY FS_Interval
  <2> QED BY <2>1, <2>2
<1>3. ASSUME NEW other \in Pairing(h, v) PROVE Valid(v, other) = Valid(v, both)
  <2>1. DOMAIN both = DOMAIN other
    BY PairedValues
  <2>2. \A i \in DOMAIN both :
          v[both[i][1]] = v[other[i][1]] /\ v[both[i][2]] = v[other[i][2]]
    BY PairedValues
  <2> QED BY <2>1, <2>2 DEF Valid
<1> QED BY <1>1, <1>2, <1>3, FS_Subset, FS_CardinalityType

-----------------------------------------------------------------------------
(* What is accepted. *)

\* Enough pairs are valid for the accuracy, whatever they weigh.
EnoughValid(acc, v, both) == Cardinality(Valid(v, both)) * acc.den >= acc.num * Len(both)

\* And nearly enough, where pairs may weigh as much as b.
NearlyValid(acc, b, v, both) ==
  Cardinality(Valid(v, both)) * b * acc.den >= acc.num * One * Len(both)

\* No weight is above b.
Weights(b, w) == w \in [Example -> Int] /\ \A x \in Example : w[x] <= b

\* valid_value is at most what the valid pairs could weigh, and their number
\* with no constraint.
LEMMA ValueBound ==
  ASSUME NEW h \in Handle, NEW v, Values(h, v), NEW both \in Pairing(h, v),
         NEW b \in Nat, NEW w, Weights(b, w)
  PROVE  /\ ValidValue(w, v, both) \in Int
         /\ ValidValue(w, v, both) <= (2 * b) * Cardinality(Valid(v, both))
         /\ b = One /\ w = NoConstraint =>
              ValidValue(w, v, both) = (2 * One) * Cardinality(Valid(v, both))
<1> DEFINE n == Len(both)
           V == Valid(v, both)
           cost == [i \in DOMAIN both |->
                      IF i \in V THEN w[both[i][1]] + w[both[i][2]] ELSE 0]
<1>1. /\ n \in Nat /\ DOMAIN both = 1..n
      /\ \A i \in 1..n : both[i][1] \in Example /\ both[i][2] \in Example
  BY PairedValues, ClassesSized DEF Example
<1>2. V \in SUBSET (1..n)
  BY <1>1 DEF Valid
<1>3. 2 * b \in Nat /\ One \in Nat
  BY OracleAssumption
<1>4. \A i \in 1..n : /\ w[both[i][1]] \in Int /\ w[both[i][1]] <= b
                      /\ w[both[i][2]] \in Int /\ w[both[i][2]] <= b
  BY <1>1 DEF Weights
<1> HIDE DEF n, V
<1>5. cost \in [1..n -> Int] /\ AtMost(cost, n, V, 2 * b)
  BY <1>1, <1>2, <1>3, <1>4 DEF AtMost
<1>6. b = One /\ w = NoConstraint => Exactly(cost, n, V, 2 * b)
  <2>1. ASSUME b = One, w = NoConstraint, NEW i \in 1..n
        PROVE  cost[i] = IF i \in V THEN 2 * b ELSE 0
    <3>1. w[both[i][1]] = One /\ w[both[i][2]] = One
      BY <1>1, <2>1 DEF NoConstraint
    <3> QED BY <1>1, <1>3, <2>1, <3>1
  <2> QED BY <2>1 DEF Exactly
<1>7. ValidValue(w, v, both) = Total(cost, n)
  BY DEF ValidValue, n, V
<1> HIDE DEF cost
<1>8. /\ Total(cost, n) \in Int
      /\ Total(cost, n) <= (2 * b) * Cardinality(V)
      /\ Exactly(cost, n, V, 2 * b) => Total(cost, n) = (2 * b) * Cardinality(V)
  BY <1>1, <1>2, <1>3, <1>5, TotalBound
<1> QED BY <1>6, <1>7, <1>8 DEF V

\* With no valid pair valid_value is 0, whatever the weights.
LEMMA NoValidNoValue ==
  ASSUME NEW h \in Handle, NEW v, Values(h, v), NEW both \in Pairing(h, v),
         NEW w, Cardinality(Valid(v, both)) = 0
  PROVE  ValidValue(w, v, both) \in Int /\ ValidValue(w, v, both) <= 0
<1> DEFINE n == Len(both)
           cost == [i \in DOMAIN both |->
                      IF i \in Valid(v, both) THEN w[both[i][1]] + w[both[i][2]] ELSE 0]
<1>1. n \in Nat /\ DOMAIN both = 1..n
  BY PairedValues
<1>2. Valid(v, both) = {}
  BY ValidPlaces, FS_EmptySet
<1> HIDE DEF n
<1>3. cost \in [1..n -> Int] /\ AtMost(cost, n, {}, 0)
  BY <1>1, <1>2 DEF AtMost
<1>4. ValidValue(w, v, both) = Total(cost, n)
  BY DEF ValidValue, n
<1> HIDE DEF cost
<1>5. Cardinality({}) = 0
  BY FS_EmptySet
<1>6. Total(cost, n) \in Int /\ Total(cost, n) <= 0 * Cardinality({})
  BY <1>1, <1>3, TotalBound
<1> QED BY <1>4, <1>5, <1>6

\* Multiplying both sides by the weight 1.0.
LEMMA TimesOne ==
  ASSUME NEW u \in Nat \ {0}, NEW x \in Int, NEW y \in Int
  PROVE  (2 * u) * x >= (2 * u) * y <=> x >= y
<1> DEFINE t == 2 * u
<1>1. t \in Nat \ {0}
  OBVIOUS
<1> HIDE DEF t
<1>2. x >= y => t * x >= t * y
  BY <1>1
<1>3. ASSUME x < y PROVE t * x < t * y
  <2>1. y - x >= 1 /\ y - x \in Int
    BY <1>3
  <2>2. t * (y - x) >= t * 1
    BY <1>1, <2>1
  <2>3. t * (y - x) = t * y - t * x /\ t * x \in Int /\ t * y \in Int
    BY <1>1
  <2> QED BY <1>1, <2>2, <2>3
<1>4. t * x >= t * y <=> x >= y
  BY <1>1, <1>2, <1>3
<1> QED BY <1>4 DEF t

\* The verdict of accept(), with the weight 1.0 cancelled.
LEMMA VerdictMeans ==
  ASSUME NEW acc \in Accuracy, NEW n \in Nat, NEW k \in Nat, NEW value \in Int
  PROVE  /\ value <= (2 * One) * k /\ value * acc.den >= acc.num * 2 * One * n
              => k * acc.den >= acc.num * n
         /\ value = (2 * One) * k
              => (value * acc.den >= acc.num * 2 * One * n <=> k * acc.den >= acc.num * n)
<1>1. acc.num \in Nat /\ acc.den \in Nat /\ One \in Nat \ {0}
  BY OracleAssumption DEF Accuracy
<1> SUFFICES ASSUME NEW m, NEW d, NEW u, m = acc.num, d = acc.den, u = One
             PROVE  /\ value <= (2 * u) * k /\ value * d >= m * 2 * u * n
                         => k * d >= m * n
                    /\ value = (2 * u) * k
                         => (value * d >= m * 2 * u * n <=> k * d >= m * n)
  OBVIOUS
<1>2. m \in Nat /\ d \in Nat /\ u \in Nat \ {0}
  BY <1>1
<1>3. m * 2 * u * n = (2 * u) * (m * n) /\ ((2 * u) * k) * d = (2 * u) * (k * d)
  BY <1>2
<1>4. k * d \in Int /\ m * n \in Int /\ (2 * u) * k \in Int
  BY <1>2
<1>5. (2 * u) * (k * d) >= (2 * u) * (m * n) <=> k * d >= m * n
  BY <1>2, <1>4, TimesOne
<1>6. ASSUME value <= (2 * u) * k PROVE value * d <= ((2 * u) * k) * d
  <2> SUFFICES ASSUME NEW b \in Int, value <= b PROVE value * d <= b * d
    BY <1>4, <1>6
  <2> QED BY <1>2
<1>7. /\ value * d \in Int /\ (2 * u) * (k * d) \in Int /\ (2 * u) * (m * n) \in Int
  BY <1>2, <1>4
<1>8. value <= (2 * u) * k /\ value * d >= m * 2 * u * n => k * d >= m * n
  BY <1>3, <1>5, <1>6, <1>7
<1>9. value = (2 * u) * k => (value * d >= m * 2 * u * n <=> k * d >= m * n)
  BY <1>3, <1>5
<1> QED BY <1>8, <1>9

\* A program accepted under any weights has enough valid pairs; with no
\* constraint, that is what being accepted means.
LEMMA AcceptedMeans ==
  ASSUME NEW h \in Handle, NEW v, Values(h, v), NEW both \in Pairing(h, v),
         NEW acc \in Accuracy
  PROVE  /\ \A w : Weights(One, w) /\ Accepted(acc, w, v, both)
                    => EnoughValid(acc, v, both)
         /\ Accepted(acc, NoConstraint, v, both) <=> EnoughValid(acc, v, both)
<1>1. Len(both) \in Nat /\ Cardinality(Valid(v, both)) \in Nat
  BY PairedValues, ValidPlaces
<1>2. ASSUME NEW w, Weights(One, w)
      PROVE  /\ Accepted(acc, w, v, both) => EnoughValid(acc, v, both)
             /\ w = NoConstraint =>
                  (Accepted(acc, w, v, both) <=> EnoughValid(acc, v, both))
  <2>1. /\ ValidValue(w, v, both) \in Int
        /\ ValidValue(w, v, both) <= (2 * One) * Cardinality(Valid(v, both))
        /\ w = NoConstraint =>
             ValidValue(w, v, both) = (2 * One) * Cardinality(Valid(v, both))
    BY <1>2, OracleAssumption, ValueBound
  <2> SUFFICES ASSUME NEW n, NEW k, NEW value, n = Len(both),
                      k = Cardinality(Valid(v, both)), value = ValidValue(w, v, both)
               PROVE  /\ value * acc.den >= acc.num * 2 * One * n => k * acc.den >= acc.num * n
                      /\ w = NoConstraint =>
                           (value * acc.den >= acc.num * 2 * One * n
                              <=> k * acc.den >= acc.num * n)
    BY DEF Accepted, EnoughValid
  <2> QED BY <1>1, <2>1, VerdictMeans
<1>3. Weights(One, NoConstraint)
  BY OracleAssumption DEF Weights, NoConstraint
<1> QED BY <1>2, <1>3

\* The verdict under weights up to b, from which nothing is cancelled.
LEMMA HeavyVerdict ==
  ASSUME NEW acc \in Accuracy, NEW n \in Nat, NEW k \in Nat, NEW b \in Nat,
         NEW value \in Int, value <= (2 * b) * k,
         value * acc.den >= acc.num * 2 * One * n
  PROVE  k * b * acc.den >= acc.num * One * n
<1>1. acc.num \in Nat /\ acc.den \in Nat /\ One \in Nat
  BY OracleAssumption DEF Accuracy
<1> SUFFICES ASSUME NEW m \in Nat, NEW d \in Nat, NEW u \in Nat,
                    value * d >= m * 2 * u * n
             PROVE  k * b * d >= m * u * n
  BY <1>1
<1>2. (2 * b) * k \in Int /\ value * d <= ((2 * b) * k) * d
  <2>1. (2 * b) * k \in Int
    OBVIOUS
  <2>2. \A c \in Int : value <= c => c * d >= value * d
    BY TimesMore
  <2> QED BY <2>1, <2>2
<1>3. ((2 * b) * k) * d = 2 * (k * b * d) /\ m * 2 * u * n = 2 * (m * u * n)
  OBVIOUS
<1>4. /\ value * d \in Int /\ ((2 * b) * k) * d \in Int
      /\ k * b * d \in Int /\ m * u * n \in Int
  OBVIOUS
<1> QED BY <1>2, <1>3, <1>4

\* A program accepted under weights up to b has nearly enough valid pairs, in
\* whatever order its answers are paired.
LEMMA AcceptedNearly ==
  ASSUME NEW h \in Handle, NEW v, Values(h, v), NEW both \in Pairing(h, v),
         NEW acc \in Accuracy, NEW b \in Nat, NEW w, Weights(b, w),
         Accepted(acc, w, v, both), NEW other \in Pairing(h, v)
  PROVE  NearlyValid(acc, b, v, other)
<1>1. Len(both) \in Nat /\ Cardinality(Valid(v, both)) \in Nat
  BY PairedValues, ValidPlaces
<1>2. /\ ValidValue(w, v, both) \in Int
      /\ ValidValue(w, v, both) <= (2 * b) * Cardinality(Valid(v, both))
  BY ValueBound
<1>3. Cardinality(Valid(v, both)) * b * acc.den >= acc.num * One * Len(both)
  BY <1>1, <1>2, HeavyVerdict DEF Accepted
<1>4. Valid(v, other) = Valid(v, both) /\ Len(both) = Len(other)
  BY ValidPlaces, PairedValues
<1> QED BY <1>3, <1>4 DEF NearlyValid

\* Both verdicts on a program are the same for every pairing of its answers.
LEMMA EnoughAlike ==
  ASSUME NEW h \in Handle, NEW v, Values(h, v), NEW acc,
         NEW both \in Pairing(h, v), NEW other \in Pairing(h, v)
  PROVE  EnoughValid(acc, v, both) <=> EnoughValid(acc, v, other)
<1>1. Valid(v, other) = Valid(v, both)
  BY ValidPlaces
<1>2. Len(both) = Len(other)
  BY PairedValues
<1> QED BY <1>1, <1>2 DEF EnoughValid

\* A program accepted under whatever weights has a valid pair.
LEMMA AcceptedHasValid ==
  ASSUME NEW h \in Handle, NEW v, Values(h, v), NEW both \in Pairing(h, v),
         NEW acc \in Accuracy, NEW w, Accepted(acc, w, v, both)
  PROVE  Cardinality(Valid(v, both)) \in Nat /\ Cardinality(Valid(v, both)) >= 1
<1>1. Cardinality(Valid(v, both)) \in Nat
  BY ValidPlaces
<1> SUFFICES ASSUME Cardinality(Valid(v, both)) = 0 PROVE FALSE
  BY <1>1
<1>2. ValidValue(w, v, both) \in Int /\ ValidValue(w, v, both) <= 0
  BY NoValidNoValue
<1>3. Len(both) \in Nat /\ Len(both) >= 1
  BY PairedValues
<1>4. /\ acc.num \in Nat /\ acc.num >= 1 /\ acc.den \in Nat
      /\ One \in Nat /\ One >= 1
  BY OracleAssumption DEF Accuracy
<1> SUFFICES ASSUME NEW value \in Int, value <= 0, NEW n \in Nat, n >= 1,
                    NEW m \in Nat, m >= 1, NEW d \in Nat, NEW u \in Nat, u >= 1,
                    value * d >= m * 2 * u * n
             PROVE  FALSE
  BY <1>2, <1>3, <1>4 DEF Accepted
<1>5. value * d <= 0
  <2>1. 0 * d >= value * d
    BY TimesMore
  <2>2. 0 * d = 0 /\ value * d \in Int
    OBVIOUS
  <2> QED BY <2>1, <2>2
<1>6. m * 2 * u * n >= 1
  <2>1. m * 2 \in Nat /\ m * 2 >= 1
    OBVIOUS
  <2>2. \A x \in Nat, y \in Nat : x >= 1 /\ y >= 1 => x * y \in Nat /\ x * y >= 1
    OBVIOUS
  <2>3. m * 2 * u \in Nat /\ m * 2 * u >= 1
    BY <2>1, <2>2
  <2> QED BY <2>2, <2>3
<1>7. value * d \in Int /\ m * 2 * u * n \in Int
  OBVIOUS
<1> QED BY <1>5, <1>6, <1>7

-----------------------------------------------------------------------------
(* Weights. *)

\* One update leaves a weight between its old value and the target.
LEMMA UpdatedInRange ==
  ASSUME NEW goal \in Nat, NEW w \in WeightRange(goal)
  PROVE  Updated(goal, w) \in WeightRange(goal)
<1>1. One \in Nat /\ w \in Int /\ (w \in goal..One \/ w \in One..goal)
  BY OracleAssumption DEF WeightRange
<1>2. CASE w \in goal..One
  <2>1. (goal + w) \div 2 >= goal /\ (goal + w) \div 2 <= w
    BY <1>1, <1>2, Z3
  <2> QED BY <1>1, <1>2, <2>1 DEF Updated, WeightRange
<1>3. CASE w \in One..goal
  <2>1. (goal + w) \div 2 <= goal /\ (goal + w) \div 2 >= w
    BY <1>1, <1>3, Z3
  <2> QED BY <1>1, <1>3, <2>1 DEF Updated, WeightRange
<1> QED BY <1>1, <1>2, <1>3

\* So do any number of them.
LEMMA UpdatedTimesInRange ==
  ASSUME NEW goal \in Nat, NEW w \in WeightRange(goal), NEW n \in Nat
  PROVE  UpdatedTimes(goal, w, n) \in WeightRange(goal)
<1> DEFINE S == WeightRange(goal)
           step == [u \in S |-> Updated(goal, u)]
<1>1. step \in [S -> S]
  BY UpdatedInRange
<1>2. PICK g : Iterates(g, S, step, w, n)
  <2> HIDE DEF S, step
  <2>1. w \in S
    BY DEF S
  <2> QED BY <1>1, <2>1, IteratesExist
<1>21. g \in [0..n -> S] /\ g[0] = w /\ \A k \in 1..n : g[k] = step[g[k - 1]]
  BY <1>2 DEF Iterates
<1>3. \A k \in 1..n : g[k] = Updated(goal, g[k - 1])
  <2>1. \A k \in 1..n : g[k - 1] \in S
    BY <1>21
  <2> QED BY <1>21, <2>1
<1>4. g = [k \in 0..n |-> IF k = 0 THEN w ELSE Updated(goal, g[k - 1])]
  <2> HIDE DEF S, step
  <2> QED BY <1>21, <1>3
<1> DEFINE after[k \in 0..n] == IF k = 0 THEN w ELSE Updated(goal, after[k - 1])
<1>5. after = [k \in 0..n |-> IF k = 0 THEN w ELSE Updated(goal, after[k - 1])]
  <2> HIDE DEF S, step
  <2> QED BY <1>4
<1>6. UpdatedTimes(goal, w, n) = after[n]
  BY DEF UpdatedTimes
<1> HIDE DEF after, S, step
<1>7. after[0] = w /\ \A k \in 1..n : after[k] = Updated(goal, after[k - 1])
  BY <1>5
<1>8. \A k \in 1..n : after[k - 1] = g[k - 1] => after[k] = g[k]
  BY <1>3, <1>7
<1>9. after[n] = g[n]
  <2>1. after[0] = g[0]
    BY <1>21, <1>7
  <2> QED BY <1>8, <2>1, SameIterates, Zenon
<1> QED BY <1>21, <1>6, <1>9 DEF S

\* New weights are weights.
LEMMA ReweighedType ==
  ASSUME NEW goal \in Nat, NEW acc, NEW h \in Handle, NEW v, Values(h, v),
         NEW both \in Pairing(h, v), NEW w \in [Example -> WeightRange(goal)]
  PROVE  Reweighed(acc, goal, w, v, both) \in [Example -> WeightRange(goal)]
<1>1. ASSUME NEW x \in Example
      PROVE  UpdatedTimes(goal, w[x], TimesUsed(x, v, both)) \in WeightRange(goal)
  <2>1. {i \in Valid(v, both) : x \in {both[i][1], both[i][2]}} \subseteq Valid(v, both)
    OBVIOUS
  <2>2. TimesUsed(x, v, both) \in Nat
    BY <2>1, ValidPlaces, FS_Subset, FS_CardinalityType DEF TimesUsed
  <2> QED BY <2>2, UpdatedTimesInRange
<1> QED BY <1>1 DEF Reweighed

-----------------------------------------------------------------------------
(* The threshold. *)

\* The middle of two numbers is between them, however it is rounded.
LEMMA HalfBetween ==
  ASSUME NEW a \in Int, NEW b \in Int, b <= a
  PROVE  Half(a + b) \in b..a
<1>1. CASE a + b >= 0
  <2>1. (a + b) \div 2 >= b /\ (a + b) \div 2 <= a
    BY <1>1, Z3
  <2> QED BY <1>1, <2>1 DEF Half
<1>2. CASE ~(a + b >= 0)
  <2> DEFINE c == -(a + b)
  <2>1. c \in Int /\ c >= -2 * a /\ c <= -2 * b
    OBVIOUS
  <2> HIDE DEF c
  <2>2. c \div 2 >= -a /\ c \div 2 <= -b
    BY <2>1, Z3
  <2>3. Half(a + b) = -(c \div 2)
    BY <1>2 DEF Half, c
  <2>4. c \div 2 \in Int
    BY <2>1
  <2> QED BY <2>2, <2>3, <2>4
<1> QED BY <1>1, <1>2

\* As large a share of each class as the valid pairs are of all pairs.
Share(right, class, v, both) ==
  Cardinality(right) * Len(both) >= Cardinality(class) * Cardinality(Valid(v, both))

\* The pairs from the decisive one on are as many as the valid ones, and the
\* threshold separates each of them, though not all of them need be valid.
LEMMA ThresholdSeparates ==
  ASSUME NEW h \in Handle, NEW v, Values(h, v), NEW both \in Pairing(h, v),
         Cardinality(Valid(v, both)) >= 1
  PROVE  /\ Threshold(v, both) \in Int
         /\ \E x \in h.pos, y \in h.neg : Threshold(v, both) \in v[y]..v[x]
         /\ Share({x \in h.pos : v[x] >= Threshold(v, both)}, h.pos, v, both)
         /\ Share({y \in h.neg : v[y] <= Threshold(v, both)}, h.neg, v, both)
<1> DEFINE n == Len(both)
           V == Valid(v, both)
           k == Cardinality(V)
           d == n - k + 1
           a(i) == v[both[i][1]]
           b(i) == v[both[i][2]]
           t == Threshold(v, both)
<1>1. /\ n \in Nat /\ DOMAIN both = 1..n
      /\ \A i \in 1..n : /\ both[i][1] \in h.pos /\ both[i][2] \in h.neg
                         /\ a(i) \in Int /\ b(i) \in Int
      /\ \A i, j \in 1..n : i < j => a(i) <= a(j) /\ b(j) <= b(i)
  BY PairedValues
<1>2. /\ V \subseteq 1..n /\ IsFiniteSet(V) /\ k \in Nat /\ k <= n /\ k >= 1
      /\ \A i \in V : a(i) > b(i)
  <2>1. V \subseteq 1..n /\ IsFiniteSet(V) /\ k \in Nat /\ k <= n /\ k >= 1
    BY <1>1, ValidPlaces
  <2>2. \A i \in V : a(i) > b(i)
    BY DEF Valid
  <2> QED BY <2>1, <2>2
<1>3. t = Half(a(d) + b(d))
  BY <1>1 DEF Threshold, DecisivePair, InvalidCount
<1> HIDE DEF n, V, k, a, b, t
<1>4. d \in 1..n
  BY <1>1, <1>2
<1>5. b(d) < a(d)
  <2> SUFFICES ASSUME ~(b(d) < a(d)) PROVE FALSE
    OBVIOUS
  <2>1. a(d) \in Int /\ b(d) \in Int
    BY <1>1, <1>4
  <2>2. ASSUME NEW i \in V PROVE i \in (d + 1)..n
    <3> SUFFICES ASSUME ~(i > d) PROVE FALSE
      BY <1>2, <1>4
    <3>1. i \in 1..n /\ (i < d \/ i = d) /\ a(i) > b(i) /\ a(i) \in Int /\ b(i) \in Int
      BY <1>1, <1>2, <1>4
    <3>2. a(i) <= a(d) /\ b(d) <= b(i)
      BY <1>1, <1>4, <3>1
    <3> QED BY <2>1, <3>1, <3>2
  <2>3. IsFiniteSet((d + 1)..n) /\ Cardinality((d + 1)..n) = k - 1
    <3>1. d + 1 \in Int /\ n \in Int /\ (IF d + 1 > n THEN 0 ELSE n - (d + 1) + 1) = k - 1
      BY <1>1, <1>2
    <3> QED BY <3>1, FS_Interval
  <2>4. k <= k - 1
    <3>1. V \subseteq (d + 1)..n
      BY <2>2
    <3>2. Cardinality(V) <= Cardinality((d + 1)..n)
      BY <2>3, <3>1, FS_Subset
    <3> QED BY <2>3, <3>2 DEF k
  <2> QED BY <1>2, <2>4
<1>6. t \in b(d)..a(d)
  <2>1. a(d) \in Int /\ b(d) \in Int /\ b(d) <= a(d)
    BY <1>1, <1>4, <1>5
  <2>2. Half(a(d) + b(d)) \in b(d)..a(d)
    BY <2>1, HalfBetween
  <2> QED BY <1>3, <2>2
<1>7. n - d + 1 = k
  BY <1>1, <1>2
<1>8. ASSUME NEW class, IsFiniteSet(class), NEW far, NEW near, far \subseteq near, near \subseteq class,
             Cardinality(far) * n >= Cardinality(class) * (n - d + 1)
      PROVE  Cardinality(near) * n >= Cardinality(class) * k
  <2>1. IsFiniteSet(near) /\ Cardinality(far) <= Cardinality(near)
        /\ IsFiniteSet(far)
    BY <1>8, FS_Subset
  <2>2. /\ Cardinality(near) \in Int /\ Cardinality(far) \in Int
        /\ Cardinality(class) \in Int
    BY <1>8, <2>1, FS_CardinalityType
  <2> SUFFICES ASSUME NEW x \in Int, NEW y \in Int, NEW c \in Int, x >= y, y * n >= c * k
               PROVE  x * n >= c * k
    BY <1>7, <1>8, <2>1, <2>2
  <2>3. x * n >= y * n
    BY <1>1, TimesMore
  <2>4. x * n \in Int /\ y * n \in Int /\ c * k \in Int
    BY <1>1, <1>2
  <2> QED BY <2>3, <2>4
<1>9. /\ Cardinality({x \in h.pos : v[x] >= a(d)}) * n >= Cardinality(h.pos) * (n - d + 1)
      /\ Cardinality({y \in h.neg : v[y] <= b(d)}) * n >= Cardinality(h.neg) * (n - d + 1)
  BY <1>1, <1>4, ShareAbove DEF a, b, n
<1>10. /\ {x \in h.pos : v[x] >= a(d)} \subseteq {x \in h.pos : v[x] >= t}
       /\ {y \in h.neg : v[y] <= b(d)} \subseteq {y \in h.neg : v[y] <= t}
  <2>1. \A x \in h.pos \cup h.neg : v[x] \in Int
    BY DEF Values
  <2>2. t \in Int /\ a(d) \in Int /\ b(d) \in Int /\ b(d) <= t /\ t <= a(d)
    BY <1>1, <1>4, <1>6
  <2> QED BY <2>1, <2>2
<1>11. IsFiniteSet(h.pos) /\ IsFiniteSet(h.neg)
  BY ClassesSized
<1>12. Cardinality({x \in h.pos : v[x] >= t}) * n >= Cardinality(h.pos) * k
  BY <1>8, <1>9, <1>10, <1>11
<1>13. Cardinality({y \in h.neg : v[y] <= t}) * n >= Cardinality(h.neg) * k
  BY <1>8, <1>9, <1>10, <1>11
<1>14. t \in Int /\ \E x \in h.pos, y \in h.neg : t \in v[y]..v[x]
  <2>1. both[d][1] \in h.pos /\ both[d][2] \in h.neg /\ t \in v[both[d][2]]..v[both[d][1]]
    BY <1>1, <1>4, <1>6 DEF a, b
  <2>2. t \in Int
    BY <1>1, <1>4, <1>6
  <2> QED BY <2>1, <2>2
<1> QED BY <1>12, <1>13, <1>14 DEF k, V, t, n, Share

\* A share that is enough of the pairs is enough of the class.
LEMMA ShareIsEnough ==
  ASSUME NEW acc \in Accuracy, NEW a \in Nat, NEW m \in Nat, NEW k \in Nat,
         NEW n \in Nat \ {0}, a * n >= m * k, k * acc.den >= acc.num * n
  PROVE  a * acc.den >= acc.num * m
<1> SUFFICES ASSUME NEW d \in Nat, NEW u \in Nat, k * d >= u * n PROVE a * d >= u * m
  BY DEF Accuracy
<1>1. (a * n) * d >= (m * k) * d
  BY TimesMore
<1>2. (k * d) * m >= (u * n) * m
  BY TimesMore
<1>3. (m * k) * d = (k * d) * m
  OBVIOUS
<1>4. (a * n) * d = n * (a * d) /\ (u * n) * m = n * (u * m)
  OBVIOUS
<1> SUFFICES ASSUME NEW x \in Int, NEW y \in Int, n * x >= n * y PROVE x >= y
  <2>1. a * d \in Int /\ u * m \in Int
    OBVIOUS
  <2>2. n * (a * d) >= n * (u * m)
    <3>1. /\ n * (a * d) \in Int /\ n * (u * m) \in Int /\ (m * k) * d \in Int
      OBVIOUS
    <3> QED BY <1>1, <1>2, <1>3, <1>4, <3>1
  <2> QED BY <2>1, <2>2
<1> SUFFICES ASSUME y > x PROVE FALSE
  OBVIOUS
<1>5. y - x >= 1 /\ y - x \in Nat
  OBVIOUS
<1>6. n * (y - x) >= 1
  BY <1>5
<1>7. n * (y - x) = n * y - n * x /\ n * x \in Int /\ n * y \in Int
  OBVIOUS
<1> QED BY <1>6, <1>7

-----------------------------------------------------------------------------
(* Pruning. *)

\* Where s is not beyond 0, t is no lower d places further on.
LagsBy(d, late, soon, s, t, n) ==
  \A i \in 1..n :
    late[s[i]] <= 0 =>
      /\ i + d <= n
      /\ late[s[i]] <= soon[t[i + d]] /\ soon[t[i + d]] <= 0

\* Where some members may move beyond 0 and no other falls, those that stay
\* find, a fixed number of places behind them, a member that did not move
\* beyond and was no lower: what moved away stood among the first.
LEMMA ShiftedPlaces ==
  ASSUME NEW X, IsFiniteSet(X), NEW late \in [X -> Int], NEW soon \in [X -> Int],
         \A x \in X : late[x] <= 0 => late[x] <= soon[x] /\ soon[x] <= 0,
         NEW s \in Sorted(X, late), NEW t \in Sorted(X, soon)
  PROVE  \E d \in Nat : LagsBy(d, late, soon, s, t, Cardinality(X))
<1> DEFINE n == Cardinality(X)
           A == {x \in X : late[x] <= 0}
           L == {x \in X : soon[x] <= 0}
           D == L \ A
           d == Cardinality(D)
<1>1. n \in Nat /\ s \in [1..n -> X] /\ t \in [1..n -> X]
  BY SortedProperties
<1>2. A \subseteq L /\ L \subseteq X /\ D \subseteq X
  OBVIOUS
<1>3. /\ IsFiniteSet(A) /\ IsFiniteSet(L) /\ IsFiniteSet(D) /\ d \in Nat
      /\ Cardinality(A) \in Nat /\ Cardinality(L) \in Nat
      /\ Cardinality(L) <= n
  <2>1. IsFiniteSet(A) /\ IsFiniteSet(L) /\ IsFiniteSet(D) /\ Cardinality(L) <= n
    BY <1>2, FS_Subset
  <2> HIDE DEF A, L, D
  <2> QED BY <2>1, FS_CardinalityType
<1>4. Cardinality(L) = Cardinality(A) + d
  <2>1. L = A \cup D /\ A \cap D = {}
    OBVIOUS
  <2> HIDE DEF A, L, D
  <2>2. Cardinality(A \cup D) = Cardinality(A) + Cardinality(D) - Cardinality(A \cap D)
    BY <1>3, FS_Union
  <2>3. Cardinality(A \cap D) = 0
    BY <2>1, FS_EmptySet
  <2> QED BY <1>3, <2>1, <2>2, <2>3
<1> SUFFICES ASSUME NEW i \in 1..n, late[s[i]] <= 0
             PROVE  /\ i + d <= n
                    /\ late[s[i]] <= soon[t[i + d]] /\ soon[t[i + d]] <= 0
  <2>1. LagsBy(d, late, soon, s, t, n)
    BY DEF LagsBy
  <2> QED BY <1>3, <2>1
<1>5. i <= Cardinality(A)
  <2>1. MembersAt(s, 1..i) \subseteq A
    <3> SUFFICES ASSUME NEW x \in MembersAt(s, 1..i) PROVE x \in X /\ late[x] <= 0
      OBVIOUS
    <3>1. x \in X /\ late[x] <= late[s[i]]
      BY NotGreaterUpTo
    <3>2. late[x] \in Int /\ late[s[i]] \in Int
      BY <1>1, <3>1
    <3> QED BY <3>1, <3>2
  <2> HIDE DEF A
  <2>2. 1 \in 1..(n + 1) /\ i \in (1 - 1)..n
    BY <1>1
  <2>3. Cardinality(MembersAt(s, 1..i)) = i - 1 + 1
    BY <2>2, IntervalCount
  <2>4. Cardinality(MembersAt(s, 1..i)) <= Cardinality(A)
    BY <1>3, <2>1, FS_Subset
  <2> QED BY <2>3, <2>4
<1> HIDE DEF n, d
<1>6. i + d <= Cardinality(L) /\ i + d \in 1..n
  <2> HIDE DEF A, L, D
  <2>1. i \in Int /\ i >= 1 /\ n \in Int
    BY <1>1
  <2> QED BY <1>3, <1>4, <1>5, <2>1
<1> SUFFICES ASSUME NEW j, j = i + d
             PROVE  late[s[i]] <= soon[t[j]] /\ soon[t[j]] <= 0
  <2>1. i + d <= n
    BY <1>1, <1>6
  <2> QED BY <2>1
<1>7. j \in 1..n /\ late[s[i]] \in Int /\ soon[t[j]] \in Int
  BY <1>1, <1>6
<1>8. soon[t[j]] <= 0
  <2> SUFFICES ASSUME soon[t[j]] > 0 PROVE FALSE
    BY <1>7
  <2>1. L \subseteq MembersAt(t, 1..(j - 1))
    <3> SUFFICES ASSUME NEW x \in X, soon[x] <= 0 PROVE x \in MembersAt(t, 1..(j - 1))
      OBVIOUS
    <3>1. soon[x] \in Int /\ soon[x] < soon[t[j]]
      BY <1>7
    <3> QED BY <1>7, <3>1, SmallerBefore DEF n
  <2>2. /\ IsFiniteSet(MembersAt(t, 1..(j - 1)))
        /\ Cardinality(MembersAt(t, 1..(j - 1))) = (j - 1) - 1 + 1
    <3>1. n \in Nat /\ j \in 1..n
      BY <1>1, <1>7
    <3>2. 1 \in 1..(n + 1) /\ j - 1 \in (1 - 1)..n
      BY <3>1
    <3> QED BY <3>2, IntervalCount DEF n
  <2> HIDE DEF L
  <2>3. Cardinality(L) <= Cardinality(MembersAt(t, 1..(j - 1)))
    BY <2>1, <2>2, FS_Subset
  <2> QED BY <1>3, <1>6, <1>7, <2>2, <2>3
<1>9. late[s[i]] <= soon[t[j]]
  <2> SUFFICES ASSUME soon[t[j]] < late[s[i]] PROVE FALSE
    BY <1>7
  <2> DEFINE B == MembersAt(s, 1..(i - 1))
             C == MembersAt(t, 1..j)
  <2>1. C \subseteq B \cup D
    <3> SUFFICES ASSUME NEW x \in C, x \notin D PROVE x \in B
      OBVIOUS
    <3>1. x \in X /\ soon[x] <= soon[t[j]]
      BY <1>7, NotGreaterUpTo DEF n
    <3>2. soon[x] \in Int /\ late[x] \in Int
      BY <3>1
    <3>3. x \in L
      BY <1>7, <1>8, <3>1, <3>2
    <3>4. late[x] <= soon[x]
      BY <3>1, <3>3
    <3>5. late[x] < late[s[i]]
      BY <1>7, <3>1, <3>2, <3>4
    <3> QED BY <3>1, <3>5, SmallerBefore DEF n
  <2>2. IsFiniteSet(B) /\ Cardinality(B) = (i - 1) - 1 + 1
    <3>1. n \in Nat
      BY <1>1
    <3>2. 1 \in 1..(n + 1) /\ i - 1 \in (1 - 1)..n
      BY <3>1
    <3> QED BY <3>2, IntervalCount DEF n
  <2>3. Cardinality(C) = j - 1 + 1
    <3>1. n \in Nat /\ j \in 1..n
      BY <1>1, <1>7
    <3>2. 1 \in 1..(n + 1) /\ j \in (1 - 1)..n
      BY <3>1
    <3> QED BY <3>2, IntervalCount DEF n
  <2> HIDE DEF B, C, D
  <2>4. /\ IsFiniteSet(B \cup D) /\ Cardinality(C) <= Cardinality(B \cup D)
        /\ Cardinality(B \cup D) = Cardinality(B) + d - Cardinality(B \cap D)
        /\ Cardinality(B \cap D) \in Nat
    <3>1. /\ IsFiniteSet(B \cup D) /\ IsFiniteSet(B \cap D)
          /\ Cardinality(B \cup D) = Cardinality(B) + d - Cardinality(B \cap D)
      BY <1>3, <2>2, FS_Union, FS_Intersection DEF d
    <3>2. Cardinality(C) <= Cardinality(B \cup D)
      BY <2>1, <3>1, FS_Subset
    <3> QED BY <3>1, <3>2, FS_CardinalityType
  <2>5. j = i + d /\ j \in Int /\ i \in Int /\ d \in Int
    BY <1>3, <1>7
  <2> HIDE DEF n
  <2> QED BY <2>2, <2>3, <2>4, <2>5
<1> QED BY <1>8, <1>9

\* v is what a program may answer that comes of one that answers a.
Within(h, a, v) ==
  \A x \in h.pos \cup h.neg :
    /\ a[x].lower \in Int /\ a[x].upper \in Int /\ v[x] \in Int
    /\ v[x] <= a[x].upper
    /\ v[x] >= 0 => 0 <= a[x].lower /\ a[x].lower <= v[x]
    /\ a[x].upper >= 0 => a[x].lower >= 0

\* Each valid pair of the complete program has a place of its own where the
\* partial program's pair is not invalid, if each negative answer has one place.
LEMMA ValidOrPartlyInvalid ==
  ASSUME NEW h \in Handle, EachNegativeOnce(h), NEW a, NEW v, Within(h, a, v),
         NEW both \in Pairing(h, v), NEW partial \in PartialPairings(h, a)
  PROVE  /\ Len(partial) = Len(both)
         /\ Cardinality(InvalidPlaces(a, partial)) \in Nat
         /\ Cardinality(Valid(v, both)) + Cardinality(InvalidPlaces(a, partial)) <= Len(both)
<1> DEFINE m == Cardinality(h.pos)
           n == Cardinality(h.neg)
           place(k) == Places(h)[k][1]
           up == [x \in h.pos |-> v[x]]
           down == [x \in h.neg |-> -v[x]]
           upper == [x \in h.pos |-> a[x].upper]
           lower == [x \in h.neg |-> -a[x].lower]
           V == Valid(v, both)
           I == InvalidPlaces(a, partial)
<1>1. /\ up \in [h.pos -> Int] /\ upper \in [h.pos -> Int]
      /\ down \in [h.neg -> Int] /\ lower \in [h.neg -> Int]
  BY DEF Within
<1>2. /\ \A x \in h.pos : up[x] <= upper[x]
      /\ \A x \in h.neg : down[x] <= 0 => down[x] <= lower[x] /\ lower[x] <= 0
  BY DEF Within
<1>3. IsFiniteSet(h.pos) /\ IsFiniteSet(h.neg) /\ Values(h, v)
  BY ClassesSized DEF Within, Values
<1>4. PICK p \in Sorted(h.pos, up), q \in Sorted(h.neg, down) : Zips(both, h, p, q)
  BY PairingsAreZips DEF Pairing
<1>5. PICK r \in Sorted(h.pos, upper), t \in Sorted(h.neg, lower) : Zips(partial, h, r, t)
  BY PairingsAreZips DEF PartialPairings
<1>6. /\ \A x \in h.pos : /\ up[x] = v[x] /\ upper[x] = a[x].upper
                          /\ a[x].upper >= 0 => a[x].lower >= 0
                          /\ a[x].lower \in Int
      /\ \A x \in h.neg : /\ down[x] = -v[x] /\ lower[x] = -a[x].lower
                          /\ v[x] \in Int /\ a[x].lower \in Int
  BY DEF Within
<1>7. /\ Len(Places(h)) = n /\ \A k \in 1..n : Places(h)[k][2] = k
      /\ \A k \in 1..n : place(k) \in 1..m
      /\ \A k, l \in 1..n : k < l => place(k) <= place(l)
  BY ZipPlaces DEF EachNegativeOnce, Places, Rises
<1>8. /\ DOMAIN both = 1..n /\ Len(both) = n /\ DOMAIN partial = 1..n /\ Len(partial) = n
      /\ \A k \in 1..n : both[k] = <<p[place(k)], q[k]>> /\ partial[k] = <<r[place(k)], t[k]>>
  BY <1>4, <1>5, <1>7 DEF Zips
<1>9. V \subseteq 1..n /\ IsFiniteSet(V) /\ Cardinality(V) \in Nat
  BY <1>3, <1>8, ValidPlaces
<1> HIDE DEF up, down, upper, lower
<1>10. /\ p \in [1..m -> h.pos] /\ r \in [1..m -> h.pos]
       /\ \A i, j \in 1..m : i < j => upper[r[i]] <= upper[r[j]]
  BY <1>1, <1>3, SortedProperties
<1>11. n \in Nat /\ q \in [1..n -> h.neg] /\ t \in [1..n -> h.neg]
  BY <1>1, <1>3, SortedProperties
<1>12. PICK d \in Nat : LagsBy(d, down, lower, q, t, n)
  BY <1>1, <1>2, <1>3, ShiftedPlaces
<1>13. \A i \in 1..m : up[p[i]] <= upper[r[i]]
  BY <1>1, <1>2, <1>3, SortedDominates
<1> HIDE DEF n, m, place
<1>14. ASSUME NEW i \in V
       PROVE  i + d \in 1..n /\ ~PartlyInvalid(a, partial[i + d])
  <2>1. /\ i \in 1..n /\ place(i) \in 1..m /\ v[p[place(i)]] > v[q[i]] /\ v[q[i]] >= 0
    BY <1>7, <1>8, <1>9 DEF Valid
  <2>2. p[place(i)] \in h.pos /\ q[i] \in h.neg
    BY <1>10, <1>11, <2>1
  <2>3. /\ down[q[i]] \in Int /\ up[p[place(i)]] \in Int
        /\ down[q[i]] <= 0 /\ up[p[place(i)]] > -down[q[i]]
    BY <1>1, <1>6, <2>1, <2>2
  <2>4. /\ i + d \in 1..n
        /\ down[q[i]] <= lower[t[i + d]] /\ lower[t[i + d]] <= 0
    <3>1. /\ i + d <= n
          /\ down[q[i]] <= lower[t[i + d]] /\ lower[t[i + d]] <= 0
      BY <1>12, <2>1, <2>3 DEF LagsBy
    <3> QED BY <1>11, <2>1, <3>1
  <2> SUFFICES ASSUME NEW j, j = i + d PROVE ~PartlyInvalid(a, partial[j])
    BY <2>4
  <2>5. /\ j \in 1..n /\ place(j) \in 1..m /\ (i < j \/ i = j)
        /\ partial[j] = <<r[place(j)], t[j]>>
    BY <1>7, <1>8, <2>1, <2>4
  <2>6. r[place(j)] \in h.pos /\ r[place(i)] \in h.pos /\ t[j] \in h.neg
    BY <1>10, <1>11, <2>1, <2>5
  <2>7. /\ upper[r[place(j)]] \in Int /\ upper[r[place(i)]] \in Int /\ lower[t[j]] \in Int
    BY <1>1, <2>6
  <2>8. place(i) <= place(j)
    BY <1>7, <2>1, <2>5
  <2>9. upper[r[place(i)]] <= upper[r[place(j)]]
    <3>1. CASE place(i) < place(j)
      BY <1>10, <2>1, <2>5, <3>1
    <3>2. CASE place(i) = place(j)
      BY <2>7, <3>2
    <3> QED BY <2>1, <2>5, <2>8, <3>1, <3>2
  <2>10. up[p[place(i)]] <= upper[r[place(i)]]
    BY <1>13, <2>1
  <2>11. upper[r[place(j)]] > -lower[t[j]] /\ -lower[t[j]] >= 0
    BY <2>3, <2>4, <2>7, <2>9, <2>10
  <2>12. /\ upper[r[place(j)]] = a[r[place(j)]].upper /\ -lower[t[j]] = a[t[j]].lower
         /\ a[r[place(j)]].upper >= 0 => a[r[place(j)]].lower >= 0
         /\ a[r[place(j)]].lower \in Int
    BY <1>6, <2>6
  <2>13. /\ ~(a[r[place(j)]].lower < 0) /\ ~(a[t[j]].lower < 0)
         /\ ~(a[r[place(j)]].upper <= a[t[j]].lower)
    BY <2>7, <2>11, <2>12
  <2>14. partial[j][1] = r[place(j)] /\ partial[j][2] = t[j]
    BY <2>5
  <2> QED BY <2>13, <2>14 DEF PartlyInvalid
<1> DEFINE shift == [i \in V |-> i + d]
           S == MembersAt(shift, V)
<1>15. /\ IsFiniteSet(S) /\ Cardinality(S) = Cardinality(V)
  <2>1. \A i, j \in V : shift[i] = shift[j] => i = j
    BY <1>9, <1>11
  <2> HIDE DEF shift
  <2> QED BY <1>9, <2>1, ImageCardinality
<1>16. S \subseteq 1..n /\ S \cap I = {} /\ I \subseteq 1..n
  <2>1. \A i \in V : shift[i] \in 1..n /\ shift[i] \notin I
    BY <1>14 DEF InvalidPlaces
  <2>2. I \subseteq 1..n
    BY <1>8 DEF InvalidPlaces
  <2> HIDE DEF shift, I
  <2> QED BY <2>1, <2>2 DEF MembersAt
<1>17. IsFiniteSet(1..n) /\ Cardinality(1..n) = n
  BY <1>11, FS_Interval
<1>18. IsFiniteSet(I) /\ Cardinality(I) \in Nat
  <2>1. IsFiniteSet(I)
    BY <1>16, <1>17, FS_Subset
  <2> QED BY <2>1, FS_CardinalityType
<1> HIDE DEF S, I, V
<1>19. Cardinality(S) + Cardinality(I) <= n
  <2>1. Cardinality(S \cup I) = Cardinality(S) + Cardinality(I) - Cardinality(S \cap I)
    BY <1>15, <1>18, FS_Union
  <2>2. Cardinality(S \cap I) = 0
    BY <1>16, FS_EmptySet
  <2>3. Cardinality(S \cup I) <= Cardinality(1..n)
    <3>1. S \cup I \subseteq 1..n
      BY <1>16
    <3> QED BY <1>17, <3>1, FS_Subset
  <2> QED BY <1>9, <1>15, <1>17, <1>18, <2>1, <2>2, <2>3
<1> QED BY <1>8, <1>15, <1>18, <1>19 DEF V, I

\* A partial program with too many invalid pairs has no acceptable outcome, but
\* one that is accurate to the last pair, when 1.0 - accuracy is rounded down.
LEMMA RefusalIsFinal ==
  ASSUME NEW h \in Handle, EachNegativeOnce(h), NEW a, NEW v, Within(h, a, v),
         NEW acc \in Accuracy,
         NEW partial \in PartialPairings(h, a), TooManyInvalid(acc, a, partial),
         NEW both \in Pairing(h, v), EnoughValid(acc, v, both)
  PROVE  acc.low /\ Cardinality(Valid(v, both)) * acc.den = acc.num * Len(both)
<1> SUFFICES ASSUME NEW n, n = Len(both),
                    NEW k, k = Cardinality(Valid(v, both)),
                    NEW l, l = Cardinality(InvalidPlaces(a, partial)),
                    NEW m, m = acc.num, NEW d, d = acc.den
             PROVE  acc.low /\ k * d = m * n
  OBVIOUS
<1>1. Values(h, v)
  BY DEF Within, Values
<1>2. n \in Nat
  BY <1>1, PairedValues
<1>3. k \in Nat
  BY <1>1, ValidPlaces
<1>4. Len(partial) = n /\ l \in Nat /\ k + l <= n
  BY ValidOrPartlyInvalid
<1>5. m \in Nat /\ d \in Nat /\ m <= d
  BY DEF Accuracy
<1>6. l * d > n * (d - m) \/ (acc.low /\ l * d = n * (d - m))
  BY <1>4 DEF TooManyInvalid
<1>7. k * d >= m * n
  BY DEF EnoughValid
<1>8. (n - l) * d >= k * d
  <2>1. n - l \in Int /\ k \in Int /\ n - l >= k
    BY <1>2, <1>3, <1>4
  <2> QED BY <1>5, <2>1, TimesMore
<1>9. /\ (n - l) * d = n * d - l * d /\ n * (d - m) = n * d - n * m
      /\ m * n = n * m
  BY <1>2, <1>4, <1>5
<1>10. n * d \in Int /\ l * d \in Int /\ n * m \in Int /\ k * d \in Int
  BY <1>2, <1>3, <1>4, <1>5
<1>11. CASE l * d > n * (d - m)
  BY <1>7, <1>8, <1>9, <1>10, <1>11
<1>12. CASE acc.low /\ l * d = n * (d - m)
  BY <1>7, <1>8, <1>9, <1>10, <1>12
<1> QED BY <1>6, <1>11, <1>12

-----------------------------------------------------------------------------
(* The examples of a search, and the verdicts on them. *)

\* The values of a program are numbers up to MaxValue, or -1.
LEMMA ValuesOfAnswers ==
  ASSUME answer \in [Example -> Answer]
  PROVE  Value \in [Example -> -1..MaxValue]
BY DEF Value, Answer

\* So are those on a part of the examples.
LEMMA ValuesOfPart ==
  ASSUME NEW h \in Parts, NEW v \in [Example -> -1..MaxValue]
  PROVE  h \in Handle /\ Values(h, v) /\ h.pos \cup h.neg \subseteq Example
<1>1. h \in Handle
  BY AcceptAssumption
<1>2. h.pos \cup h.neg \subseteq Example
  BY <1>1, ClassesSized DEF Example
<1> QED BY <1>1, <1>2, AcceptAssumption DEF Values

\* A program that is accepted, under whatever weights, has a threshold.
LEMMA AcceptedHasThreshold ==
  ASSUME NEW h \in Parts, NEW v \in [Example -> -1..MaxValue],
         NEW both \in Pairing(h, v), NEW w, Accepted(accuracy, w, v, both)
  PROVE  Threshold(v, both) \in -1..MaxValue
<1>1. h \in Handle /\ Values(h, v) /\ h.pos \cup h.neg \subseteq Example
  BY ValuesOfPart
<1>2. Cardinality(Valid(v, both)) >= 1
  BY <1>1, AcceptAssumption, AcceptedHasValid
<1>3. PICK x \in h.pos, y \in h.neg : Threshold(v, both) \in v[y]..v[x]
  BY <1>1, <1>2, ThresholdSeparates
<1>4. v[x] \in -1..MaxValue /\ v[y] \in -1..MaxValue
  BY <1>1, <1>3
<1> QED BY <1>3, <1>4, AcceptAssumption

\* The weights never exceed the target or 1.0.
LEMMA WeightsOK ==
  ASSUME NEW goal \in Nat, NEW w \in [Example -> WeightRange(goal)]
  PROVE  Weights(IF goal > One THEN goal ELSE One, w)
<1>1. One \in Nat
  BY OracleAssumption
<1>2. \A u \in WeightRange(goal) : u \in Int /\ u <= IF goal > One THEN goal ELSE One
  BY <1>1 DEF WeightRange
<1> QED BY <1>2 DEF Weights

\* Accepted under weights up to 1.0, a program has enough valid pairs.
LEMMA AcceptedIsEnough ==
  ASSUME NEW h \in Parts, NEW v \in [Example -> -1..MaxValue], NEW both \in Pairing(h, v)
  PROVE  /\ \A goal \in Nat : goal <= One =>
              \A w \in [Example -> WeightRange(goal)] :
                Accepted(accuracy, w, v, both) => EnoughValid(accuracy, v, both)
         /\ Accepted(accuracy, NoConstraint, v, both) <=> EnoughValid(accuracy, v, both)
         /\ \A other \in Pairing(h, v) :
              EnoughValid(accuracy, v, both) <=> EnoughValid(accuracy, v, other)
<1>1. h \in Handle /\ Values(h, v)
  BY ValuesOfPart
<1>2. accuracy \in Accuracy
  BY AcceptAssumption
<1>3. /\ \A w : Weights(One, w) /\ Accepted(accuracy, w, v, both)
                 => EnoughValid(accuracy, v, both)
      /\ Accepted(accuracy, NoConstraint, v, both) <=> EnoughValid(accuracy, v, both)
  BY <1>1, <1>2, AcceptedMeans
<1>4. \A other \in Pairing(h, v) :
        EnoughValid(accuracy, v, both) <=> EnoughValid(accuracy, v, other)
  BY <1>1, EnoughAlike
<1>5. \A goal \in Nat : goal <= One =>
        \A w \in [Example -> WeightRange(goal)] : Weights(One, w)
  BY OracleAssumption, WeightsOK
<1> QED BY <1>3, <1>4, <1>5

-----------------------------------------------------------------------------
(* Types, and how many answers there are. *)

\* While programs are still sought an answer is missing.
MissingInv == stage \notin {"found", "reported", "disowned"} => found < answer_count

TypeInv == TypeOK /\ MissingInv

\* The first program.
LEMMA TypeInit == Init => TypeInv
<1> SUFFICES ASSUME Init PROVE TypeInv
  OBVIOUS
<1>1. target \in Targets /\ One \in WeightRange(target) /\ MaxValue \in Nat
  BY OracleAssumption, AcceptAssumption DEF Init, WeightRange
<1>2. weight \in [Example -> WeightRange(target)] /\ threshold \in -1..MaxValue
  BY <1>1 DEF Init
<1>3. e \in Parts /\ answer \in [Example -> Answer] /\ stage = "partial"
  BY AcceptAssumption DEF Init
<1>4. found = 0 /\ found \in 0..answer_count /\ found < answer_count
  BY AcceptAssumption DEF Init
<1> QED BY <1>1, <1>2, <1>3, <1>4 DEF TypeInv, TypeOK, MissingInv

\* Every step keeps the types: what an accepted program leaves behind is a
\* threshold and weights.
LEMMA TypeStep == ASSUME TypeInv, [Next]_vars PROVE TypeInv'
<1>0. /\ e \in Parts /\ answer \in [Example -> Answer] /\ Top \in Parts
      /\ Value \in [Example -> -1..MaxValue]
      /\ target \in Nat /\ weight \in [Example -> WeightRange(target)]
  BY ValuesOfAnswers, AcceptAssumption DEF TypeInv, TypeOK
<1>1. CASE UNCHANGED vars
  BY <1>1 DEF vars, TypeInv, TypeOK, MissingInv
<1>2. CASE Mutate
  <2>1. answer' \in [Example -> Answer]
    BY <1>2, AcceptAssumption DEF Mutate
  <2> QED BY <1>2, <2>1 DEF Mutate, TypeInv, TypeOK, MissingInv
<1>3. CASE AcceptPartial
  <2>1. stage' \in {"refused", "open"}
    BY <1>3 DEF AcceptPartial
  <2> QED BY <1>3, <2>1 DEF AcceptPartial, TypeInv, TypeOK, MissingInv
<1>4. CASE AcceptComplete
  <2>1. threshold' \in -1..MaxValue /\ stage' \in {"fits", "rejected"}
    <3>1. PICK both \in Pairing(e, Value) :
            \/ /\ Accepted(accuracy, NoConstraint, Value, both)
               /\ stage' = "fits"
               /\ threshold' = IF e = Top THEN Threshold(Value, both) ELSE threshold
            \/ stage' = "rejected" /\ UNCHANGED threshold
      BY <1>4 DEF AcceptComplete
    <3>2. Accepted(accuracy, NoConstraint, Value, both)
            => Threshold(Value, both) \in -1..MaxValue
      BY <1>0, AcceptedHasThreshold
    <3> QED BY <3>1, <3>2 DEF TypeInv, TypeOK
  <2> QED BY <1>4, <2>1 DEF AcceptComplete, TypeInv, TypeOK, MissingInv
<1>5. CASE AcceptGlobal
  <2>1. PICK both \in Pairing(Top, Value) :
          \/ /\ Accepted(accuracy, weight, Value, both)
             /\ stage' = "found"
             /\ found' = found + 1
             /\ threshold' = Threshold(Value, both)
             /\ weight' = Reweighed(accuracy, target, weight, Value, both)
          \/ stage' = "rejected" /\ UNCHANGED <<found, threshold, weight>>
    BY <1>5 DEF AcceptGlobal
  <2>2. stage = "fits" /\ UNCHANGED <<target, e, answer>>
    BY <1>5 DEF AcceptGlobal
  <2>3. CASE stage' = "rejected" /\ UNCHANGED <<found, threshold, weight>>
    BY <2>2, <2>3 DEF TypeInv, TypeOK, MissingInv
  <2>4. CASE /\ Accepted(accuracy, weight, Value, both)
             /\ stage' = "found"
             /\ found' = found + 1
             /\ threshold' = Threshold(Value, both)
             /\ weight' = Reweighed(accuracy, target, weight, Value, both)
    <3>1. threshold' \in -1..MaxValue
      BY <1>0, <2>4, AcceptedHasThreshold
    <3>2. weight' \in [Example -> WeightRange(target)]
      <4>1. Top \in Handle /\ Values(Top, Value)
        BY <1>0, ValuesOfPart
      <4> QED BY <1>0, <2>4, <4>1, AcceptAssumption, ReweighedType
    <3>3. found' \in 0..answer_count
      BY <2>2, <2>4, AcceptAssumption DEF TypeInv, TypeOK, MissingInv
    <3> QED BY <2>2, <2>4, <3>1, <3>2, <3>3 DEF TypeInv, TypeOK, MissingInv
  <2> QED BY <2>1, <2>3, <2>4
<1>6. CASE NextProgram
  <2>1. found < answer_count
    BY <1>6 DEF NextProgram, TypeInv, MissingInv
  <2>2. answer' \in [Example -> Answer] /\ stage' = "partial"
    BY <1>6, AcceptAssumption DEF NextProgram
  <2> QED BY <1>6, <2>1, <2>2 DEF NextProgram, TypeInv, TypeOK, MissingInv
<1>7. CASE Report
  <2>1. threshold' \in -1..MaxValue /\ stage' \in {"reported", "disowned"}
    <3>1. PICK both \in Pairing(Top, Value) :
            IF Accepted(accuracy, NoConstraint, Value, both)
              THEN stage' = "reported" /\ threshold' = Threshold(Value, both)
              ELSE stage' = "disowned" /\ UNCHANGED threshold
      BY <1>7 DEF Report
    <3>2. Accepted(accuracy, NoConstraint, Value, both)
            => Threshold(Value, both) \in -1..MaxValue
      BY <1>0, AcceptedHasThreshold
    <3> QED BY <3>1, <3>2 DEF TypeInv, TypeOK
  <2> QED BY <1>7, <2>1 DEF Report, TypeInv, TypeOK, MissingInv
<1> QED BY <1>1, <1>2, <1>3, <1>4, <1>5, <1>6, <1>7 DEF Next

\* The invariant holds in every reachable state.
LEMMA TypeInvInductive == Spec => []TypeInv
BY TypeInit, TypeStep, PTL DEF Spec

\* Every variable has its type: no verdict takes a weight out of the
\* range between 1.0 and the target, leaves a threshold that no program could answer,
\* or finds more answers than were asked for.
THEOREM AcceptTypeCorrect == Spec => []TypeOK
<1>1. TypeInv => TypeOK
  BY DEF TypeInv
<1> QED BY <1>1, TypeInvInductive, PTL

-----------------------------------------------------------------------------
(* What a verdict leaves behind. *)

\* A refused program was refused for a pairing of its present answers; a found
\* one has its threshold, and enough valid pairs if main has accepted it or no
\* weight exceeds 1.0; one may be disowned only where a weight does.
RefusedInv ==
  stage = "refused" =>
    \E both \in PartialPairings(e, answer) : TooManyInvalid(accuracy, answer, both)

FoundInv ==
  stage \in {"found", "reported"} =>
    \E both \in Pairing(Top, Value) :
      /\ threshold = Threshold(Value, both)
      /\ Cardinality(Valid(Value, both)) >= 1
      /\ stage = "reported" \/ target <= One => EnoughValid(accuracy, Value, both)

VerdictInv == RefusedInv /\ FoundInv /\ AnswersStandAlone

\* Only a verdict refuses or finds.
LEMMA VerdictStep == ASSUME TypeInv, VerdictInv, [Next]_vars PROVE VerdictInv'
<1>0. /\ Top \in Parts /\ Value \in [Example -> -1..MaxValue]
      /\ weight \in [Example -> WeightRange(target)]
      /\ target \in Nat /\ Heaviest \in Nat /\ One \in Nat /\ accuracy \in Accuracy
      /\ Weights(Heaviest, weight)
  <2>1. /\ Top \in Parts /\ Value \in [Example -> -1..MaxValue]
        /\ weight \in [Example -> WeightRange(target)]
        /\ target \in Nat /\ One \in Nat /\ accuracy \in Accuracy
    BY ValuesOfAnswers, AcceptAssumption, OracleAssumption DEF TypeInv, TypeOK
  <2> QED BY <2>1, WeightsOK DEF Heaviest
<1>00. Top \in Handle /\ Values(Top, Value)
  BY <1>0, ValuesOfPart
<1>1. CASE UNCHANGED vars
  <2>1. Value' = Value /\ Heaviest' = Heaviest
    BY <1>1 DEF vars, Value, Heaviest
  <2> QED BY <1>1, <2>1 DEF vars, VerdictInv, RefusedInv, FoundInv, AnswersStandAlone
<1>2. CASE Mutate \/ AcceptComplete \/ NextProgram
  <2>1. stage' \in {"partial", "complete", "fits", "rejected"}
    BY <1>2 DEF Mutate, AcceptComplete, NextProgram
  <2> QED BY <2>1 DEF VerdictInv, RefusedInv, FoundInv, AnswersStandAlone
<1>3. CASE AcceptPartial
  <2>1. PICK both \in PartialPairings(e, answer) :
          stage' = IF TooManyInvalid(accuracy, answer, both) THEN "refused" ELSE "open"
    BY <1>3 DEF AcceptPartial
  <2>2. UNCHANGED <<e, answer>> /\ stage' \in {"refused", "open"}
    BY <1>3, <2>1 DEF AcceptPartial
  <2>3. RefusedInv'
    BY <2>1, <2>2 DEF RefusedInv
  <2> QED BY <2>2, <2>3 DEF VerdictInv, FoundInv, AnswersStandAlone
<1>4. CASE AcceptGlobal
  <2>1. PICK both \in Pairing(Top, Value) :
          \/ /\ Accepted(accuracy, weight, Value, both)
             /\ stage' = "found"
             /\ threshold' = Threshold(Value, both)
          \/ stage' = "rejected"
    BY <1>4 DEF AcceptGlobal
  <2>2. /\ Value' = Value /\ Heaviest' = Heaviest /\ target' = target
        /\ stage' \in {"found", "rejected"}
    BY <1>4, <2>1 DEF AcceptGlobal, Value, Heaviest
  <2>3. ASSUME stage' = "found" PROVE FoundInv'
    <3>1. /\ Accepted(accuracy, weight, Value, both)
          /\ threshold' = Threshold(Value, both)
      BY <2>1, <2>3
    <3>2. Cardinality(Valid(Value, both)) >= 1
      BY <1>0, <1>00, <3>1, AcceptedHasValid
    <3>3. target <= One => EnoughValid(accuracy, Value, both)
      BY <1>0, <3>1, AcceptedIsEnough
    <3> QED BY <2>2, <2>3, <3>1, <3>2, <3>3 DEF FoundInv
  <2>4. stage' = "rejected" => FoundInv'
    BY DEF FoundInv
  <2>5. ASSUME stage' = "found", NEW other \in Pairing(Top, Value)
        PROVE  NearlyValid(accuracy, Heaviest, Value, other)
    <3>1. Accepted(accuracy, weight, Value, both)
      BY <2>1, <2>5
    <3> QED BY <1>0, <1>00, <2>5, <3>1, AcceptedNearly
  <2>6. AnswersStandAlone'
    BY <2>2, <2>5 DEF AnswersStandAlone, NearlyValid
  <2> QED BY <2>2, <2>3, <2>4, <2>6 DEF VerdictInv, RefusedInv
<1>5. CASE Report
  <2>1. PICK both \in Pairing(Top, Value) :
          IF Accepted(accuracy, NoConstraint, Value, both)
            THEN stage' = "reported" /\ threshold' = Threshold(Value, both)
            ELSE stage' = "disowned" /\ UNCHANGED threshold
    BY <1>5 DEF Report
  <2>2. /\ Value' = Value /\ Heaviest' = Heaviest /\ target' = target
        /\ stage = "found"
    BY <1>5 DEF Report, Value, Heaviest
  <2>3. CASE Accepted(accuracy, NoConstraint, Value, both)
    <3>1. stage' = "reported" /\ threshold' = Threshold(Value, both)
      BY <2>1, <2>3
    <3>2. EnoughValid(accuracy, Value, both) /\ Cardinality(Valid(Value, both)) >= 1
      BY <1>0, <1>00, <2>3, AcceptedIsEnough, AcceptedHasValid
    <3>3. FoundInv'
      BY <2>2, <3>1, <3>2 DEF FoundInv
    <3> QED BY <3>1, <3>3 DEF VerdictInv, RefusedInv, AnswersStandAlone
  <2>4. CASE ~Accepted(accuracy, NoConstraint, Value, both)
    <3>1. stage' = "disowned"
      BY <2>1, <2>4
    <3>2. target > One
      <4> SUFFICES ASSUME target <= One PROVE FALSE
        BY <1>0
      <4>1. PICK other \in Pairing(Top, Value) : EnoughValid(accuracy, Value, other)
        BY <2>2 DEF VerdictInv, FoundInv
      <4> QED BY <1>0, <2>4, <4>1, AcceptedIsEnough
    <3> QED BY <2>2, <3>1, <3>2 DEF VerdictInv, RefusedInv, FoundInv, AnswersStandAlone
  <2> QED BY <2>3, <2>4
<1> QED BY <1>1, <1>2, <1>3, <1>4, <1>5 DEF Next

\* The invariant holds in every reachable state.
LEMMA VerdictInvInductive == Spec => [](TypeInv /\ VerdictInv)
<1>1. Init => VerdictInv
  BY DEF Init, VerdictInv, RefusedInv, FoundInv, AnswersStandAlone
<1>2. TypeInv /\ VerdictInv /\ [Next]_vars => VerdictInv'
  BY VerdictStep
<1> QED BY <1>1, <1>2, TypeInvInductive, PTL DEF Spec

\* No outcome within the intervals of a refused program would be accepted, for
\* examples of any two class sizes that norm_zip pairs each negative of once, and
\* any answers and accuracy: a valid pair of the complete program has a place of
\* its own among the partial program's pairs that are not invalid.  Where
\* 1.0 - accuracy is rounded down this fails, for outcomes just as accurate as
\* required and for no others.
THEOREM PruningIsSound == Spec => []PruningSound
<1>1. TypeInv /\ VerdictInv => PruningSound
  <2> SUFFICES ASSUME TypeInv, VerdictInv, stage = "refused", EachNegativeOnce(e),
                      NEW p \in Outcomes(e.pos), NEW n \in Outcomes(e.neg),
                      NEW v, v = [x \in e.pos \cup e.neg |-> IF x \in e.pos THEN p[x] ELSE n[x]],
                      NEW both \in Pairing(e, v),
                      Accepted(accuracy, NoConstraint, v, both)
               PROVE  /\ accuracy.low
                      /\ Cardinality(Valid(v, both)) * accuracy.den
                           = accuracy.num * Len(both)
    BY DEF PruningSound
  <2>1. /\ e \in Handle /\ answer \in [Example -> Answer] /\ accuracy \in Accuracy
        /\ e.pos \subseteq Pos /\ e.neg \subseteq Neg /\ e.pos \cap e.neg = {}
    BY AcceptAssumption, ClassesSized DEF TypeInv, TypeOK
  <2>2. /\ \A x \in e.pos : v[x] = p[x]
        /\ \A x \in e.neg : v[x] = n[x]
    BY <2>1
  <2>3. ASSUME NEW x \in e.pos \cup e.neg
        PROVE  /\ v[x] \in Int
               /\ v[x] = -1 \/ v[x] \in answer[x].lower..answer[x].upper
    BY <2>2, AcceptAssumption DEF Outcomes
  <2>4. Within(e, answer, v)
    <3> SUFFICES ASSUME NEW x \in e.pos \cup e.neg, NEW low, NEW up,
                        low = answer[x].lower, up = answer[x].upper
                 PROVE  /\ low \in Int /\ up \in Int /\ v[x] \in Int
                        /\ v[x] <= up
                        /\ v[x] >= 0 => 0 <= low /\ low <= v[x]
                        /\ up >= 0 => low >= 0
      BY DEF Within
    <3>1. answer[x] \in Answer
      BY <2>1 DEF Example
    <3>2. /\ low \in Int /\ up \in Int /\ up >= -1
          /\ (low = -1 /\ up = -1) \/ (0 <= low /\ low <= up)
      BY <3>1, AcceptAssumption DEF Answer, Unmatched
    <3>3. v[x] \in Int /\ (v[x] = -1 \/ v[x] \in low..up)
      BY <2>3
    <3> QED BY <3>2, <3>3
  <2>5. PICK partial \in PartialPairings(e, answer) : TooManyInvalid(accuracy, answer, partial)
    BY DEF VerdictInv, RefusedInv
  <2>6. Values(e, v)
    BY <2>3 DEF Values
  <2>7. EnoughValid(accuracy, v, both)
    BY <2>1, <2>6, AcceptedMeans
  <2> QED BY <2>1, <2>4, <2>5, <2>7, RefusalIsFinal
<1> QED BY <1>1, VerdictInvInductive, PTL

\* The threshold of an answer accepted with no constraint, or under weights up to
\* 1.0, has as large a share of the positive examples on or above it, and of the
\* negative ones on or below it, as there are valid pairs among the pairs, though
\* the classes differ in size and the pairs it separates need not be the valid ones.
THEOREM ThresholdSeparatesEnough == Spec => []ThresholdFits
<1>1. TypeInv /\ VerdictInv => ThresholdFits
  <2> SUFFICES ASSUME TypeInv, VerdictInv,
                      stage = "reported" \/ (stage = "found" /\ target <= One)
               PROVE  /\ Enough(RightPos, Pos)
                      /\ Enough({x \in Neg : Value[x] <= threshold}, Neg)
    BY DEF ThresholdFits
  <2>1. Top \in Parts /\ Top.pos = Pos /\ Top.neg = Neg
    BY AcceptAssumption DEF Top
  <2>2. Top \in Handle /\ Values(Top, Value)
    BY <2>1, ValuesOfAnswers, ValuesOfPart DEF TypeInv, TypeOK
  <2>3. PICK both \in Pairing(Top, Value) :
          /\ EnoughValid(accuracy, Value, both) /\ threshold = Threshold(Value, both)
          /\ Cardinality(Valid(Value, both)) >= 1
    BY DEF VerdictInv, FoundInv
  <2>4. Cardinality(Valid(Value, both)) \in Nat /\ Len(both) \in Nat \ {0}
    BY <2>2, PairedValues, ValidPlaces
  <2>5. /\ Share({x \in Pos : Value[x] >= threshold}, Pos, Value, both)
        /\ Share({x \in Neg : Value[x] <= threshold}, Neg, Value, both)
    BY <2>1, <2>2, <2>3, ThresholdSeparates
  <2>6. ASSUME NEW class, IsFiniteSet(class), NEW right, right \subseteq class,
               Share(right, class, Value, both)
        PROVE  Enough(right, class)
    <3>1. Cardinality(class) \in Nat /\ Cardinality(right) \in Nat
      BY <2>6, FS_Subset, FS_CardinalityType
    <3>2. accuracy \in Accuracy
      BY AcceptAssumption
    <3>3. Cardinality(right) * Len(both) >= Cardinality(class) * Cardinality(Valid(Value, both))
      BY <2>6 DEF Share
    <3>4. Cardinality(Valid(Value, both)) * accuracy.den >= accuracy.num * Len(both)
      BY <2>3 DEF EnoughValid
    <3>5. Cardinality(right) * accuracy.den >= accuracy.num * Cardinality(class)
      BY <2>4, <3>1, <3>2, <3>3, <3>4, ShareIsEnough
    <3> QED BY <3>5 DEF Enough
  <2>7. Enough({x \in Pos : Value[x] >= threshold}, Pos)
    BY <2>5, <2>6, OracleAssumption
  <2>8. Enough({x \in Neg : Value[x] <= threshold}, Neg)
    BY <2>5, <2>6, OracleAssumption
  <2> QED BY <2>7, <2>8 DEF RightPos
<1> QED BY <1>1, VerdictInvInductive, PTL

\* What was found under the weights falls short of the accuracy it was asked for
\* by no more than the factor accuracy/accuracy_exp, and not at all unless that is
\* above 1.0, so that main accepts it: for classes of any two sizes, either way the
\* weights move and however many answers have moved them.  No weight exceeds the
\* larger of 1.0 and the target, and every pairing of the same answers has the
\* same valid places.
THEOREM FoundIsAccepted == Spec => []AnswersStandAlone
<1>1. VerdictInv => AnswersStandAlone
  BY DEF VerdictInv
<1> QED BY <1>1, VerdictInvInductive, PTL
=============================================================================
