-------------------------- MODULE MergeSearch_proofs --------------------------
(***************************************************************************)
(* Proofs about MergeSearch, for every set of programs with any answers,   *)
(* every division of the examples into layers, every configuration, and    *)
(* searches that return any number of programs in any order.               *)
(***************************************************************************)
EXTENDS MergeSearch, Vectors_proofs

-----------------------------------------------------------------------------
(* Weights. *)

\* One update leaves a weight between its old value and the target.
LEMMA UpdatedInRange ==
  ASSUME NEW target \in Nat, NEW w \in WeightRange(target)
  PROVE  Updated(target, w) \in WeightRange(target)
<1>1. One \in Nat /\ w \in Int /\ (w \in target..One \/ w \in One..target)
  BY OracleAssumption DEF WeightRange
<1>2. CASE w \in target..One
  <2>1. (target + w) \div 2 >= target /\ (target + w) \div 2 <= w
    BY <1>1, <1>2, Z3
  <2> QED BY <1>1, <1>2, <2>1 DEF Updated, WeightRange
<1>3. CASE w \in One..target
  <2>1. (target + w) \div 2 <= target /\ (target + w) \div 2 >= w
    BY <1>1, <1>3, Z3
  <2> QED BY <1>1, <1>3, <2>1 DEF Updated, WeightRange
<1> QED BY <1>1, <1>2, <1>3

\* So do any number of them.
LEMMA UpdatedTimesInRange ==
  ASSUME NEW target \in Nat, NEW w \in WeightRange(target), NEW n \in Nat
  PROVE  UpdatedTimes(target, w, n) \in WeightRange(target)
<1> DEFINE S == WeightRange(target)
           step == [u \in S |-> Updated(target, u)]
<1>1. step \in [S -> S]
  BY UpdatedInRange
<1>2. PICK g : Iterates(g, S, step, w, n)
  <2> HIDE DEF S, step
  <2>1. w \in S
    BY DEF S
  <2> QED BY <1>1, <2>1, IteratesExist
<1>21. g \in [0..n -> S] /\ g[0] = w /\ \A k \in 1..n : g[k] = step[g[k - 1]]
  BY <1>2 DEF Iterates
<1>3. \A k \in 1..n : g[k] = Updated(target, g[k - 1])
  <2>1. \A k \in 1..n : g[k - 1] \in S
    BY <1>21
  <2> QED BY <1>21, <2>1
<1>4. g = [k \in 0..n |-> IF k = 0 THEN w ELSE Updated(target, g[k - 1])]
  <2> HIDE DEF S, step
  <2> QED BY <1>21, <1>3
<1> DEFINE after[k \in 0..n] == IF k = 0 THEN w ELSE Updated(target, after[k - 1])
<1>5. after = [k \in 0..n |-> IF k = 0 THEN w ELSE Updated(target, after[k - 1])]
  <2> HIDE DEF S, step
  <2> QED BY <1>4
<1>6. UpdatedTimes(target, w, n) = after[n]
  BY DEF UpdatedTimes
<1> HIDE DEF after, S, step
<1>7. after[0] = w /\ \A k \in 1..n : after[k] = Updated(target, after[k - 1])
  BY <1>5
<1>8. \A k \in 1..n : after[k - 1] = g[k - 1] => after[k] = g[k]
  BY <1>3, <1>7
<1>9. after[n] = g[n]
  BY <1>21, <1>7, <1>8, SameIterates
<1> QED BY <1>21, <1>6, <1>9 DEF S

\* A class can be sorted: by the key, and by any numbering among equals.
LEMMA CanBeSorted ==
  ASSUME NEW X, IsFiniteSet(X), NEW key \in [X -> Int]
  PROVE  Sorted(X, key) # {}
<1> DEFINE n == Cardinality(X)
<1>0. n \in Nat
  BY FS_CardinalityType
<1>1. PICK number \in [X -> Nat] : \A x, y \in X : number[x] = number[y] => x = y
  <2>1. \E b : b \in Bijection(1..n, X)
    BY FS_CardinalityType DEF ExistsBijection
  <2>2. PICK b \in [1..n -> X] : \A x \in X : \E i \in 1..n : b[i] = x
    BY <2>1 DEF Bijection, Surjection, Injection
  <2> DEFINE number == [x \in X |-> CHOOSE i \in 1..n : b[i] = x]
  <2>3. \A x \in X : number[x] \in 1..n /\ b[number[x]] = x
    BY <2>2
  <2> HIDE DEF number, n
  <2>4. number \in [X -> Nat]
    BY <1>0, <2>3 DEF number
  <2> QED BY <2>3, <2>4
<1> DEFINE R == {e \in X \X X : \/ key[e[1]] < key[e[2]]
                                \/ key[e[1]] = key[e[2]] /\ number[e[1]] < number[e[2]]}
<1>2. \A x, y \in X : <<x, y>> \in R <=> \/ key[x] < key[y]
                                         \/ key[x] = key[y] /\ number[x] < number[y]
  OBVIOUS
<1>3. \A x, y \in X : <<x, y>> \in R => key[x] <= key[y]
  BY <1>2
<1>4. StrictTotalOrder(R, X)
  <2>1. \A x \in X : key[x] \in Int /\ number[x] \in Nat
    BY <1>1
  <2> HIDE DEF R
  <2> QED BY <1>1, <1>2, <2>1 DEF StrictTotalOrder
<1> HIDE DEF R
<1> DEFINE s == [r \in 1..n |-> Place(X, R, r)]
<1>5. /\ \A r \in 1..n : Place(X, R, r) \in X
      /\ \A q, r \in 1..n : q < r => <<Place(X, R, q), Place(X, R, r)>> \in R
  BY <1>4, PlaceProperties
<1>6. \A x \in X : <<x, x>> \notin R
  BY <1>1, <1>2
<1>7. s \in SetToSeqs(X)
  <2>1. \A q, r \in 1..n : q # r => s[q] # s[r]
    <3> SUFFICES ASSUME NEW q \in 1..n, NEW r \in 1..n, q # r, s[q] = s[r] PROVE FALSE
      OBVIOUS
    <3>1. q < r \/ r < q
      BY <1>0
    <3> QED BY <1>5, <1>6, <3>1
  <2> QED BY <1>5, <2>1 DEF SetToSeqs
<1>8. \A q, r \in DOMAIN s : q < r => key[s[q]] <= key[s[r]]
  BY <1>3, <1>5
<1> QED BY <1>7, <1>8 DEF Sorted

\* Pairs of the whole are finitely many.
LEMMA PairsOfWhole ==
  ASSUME NEW p \in Program
  PROVE  IsFiniteSet(DOMAIN PairsOf[p][Top])
<1> DEFINE v == Value[p]
           posKey == [x \in Pos |-> v[x]]
           negKey == [x \in Neg |-> -v[x]]
           z == norm_zip(Cardinality(Pos), Cardinality(Neg))
<1>1. v \in [Example -> Int]
  BY MergeAssumption
<1>2. posKey \in [Pos -> Int] /\ negKey \in [Neg -> Int]
  BY <1>1 DEF Example
<1>3. Top.pos = Pos /\ Top.neg = Neg
  BY DEF Top
<1>4. Pairing(Top, v) = {[k \in DOMAIN z |-> <<a[z[k][1]], b[z[k][2]]>>] :
                           a \in Sorted(Pos, posKey), b \in Sorted(Neg, negKey)}
  BY <1>3 DEF Pairing, Pairings
<1> HIDE DEF posKey, negKey
<1>5. Sorted(Pos, posKey) # {} /\ Sorted(Neg, negKey) # {}
  BY <1>2, OracleAssumption, CanBeSorted
<1>6. PairsOf[p][Top] \in Pairing(Top, v)
  <2>1. PICK a \in Sorted(Pos, posKey), b \in Sorted(Neg, negKey) : TRUE
    BY <1>5
  <2>2. [k \in DOMAIN z |-> <<a[z[k][1]], b[z[k][2]]>>] \in Pairing(Top, v)
    BY <1>4
  <2>3. PairsOf[p][Top] = CHOOSE both \in Pairing(Top, v) : TRUE
    BY TreeAssumption DEF PairsOf
  <2> HIDE DEF v, z
  <2> QED BY <2>2, <2>3
<1>7. DOMAIN PairsOf[p][Top] = DOMAIN z
  BY <1>4, <1>6
<1>8. IsFiniteSet(DOMAIN z)
  <2>1. Cardinality(Pos) \in 1..Cardinality(Pos) /\ Cardinality(Neg) \in 1..Cardinality(Neg)
    BY OracleAssumption, FS_CardinalityType, FS_EmptySet
  <2>2. z \in Seq((1..Cardinality(Pos)) \X (1..Cardinality(Neg)))
    BY <2>1, ZipAssumption
  <2> HIDE DEF z
  <2>3. Len(z) \in Nat /\ DOMAIN z = 1..Len(z)
    BY <2>2, LenProperties
  <2> QED BY <2>3, FS_Interval
<1> QED BY <1>7, <1>8

\* New weights are weights.
LEMMA NewWeights ==
  ASSUME NEW acc, NEW p \in Program, NEW w \in [Example -> WeightRange(Target)]
  PROVE  Reweighed(acc, Target, w, Value[p], PairsOf[p][Top]) \in [Example -> WeightRange(Target)]
<1> DEFINE v == Value[p]
           both == PairsOf[p][Top]
<1>1. ASSUME NEW x \in Example
      PROVE  UpdatedTimes(Target, w[x], TimesUsed(x, v, both)) \in WeightRange(Target)
  <2>1. {i \in Valid(v, both) : x \in {both[i][1], both[i][2]}} \subseteq DOMAIN both
    BY DEF Valid
  <2>2. TimesUsed(x, v, both) \in Nat
    BY <2>1, PairsOfWhole, FS_Subset, FS_CardinalityType DEF TimesUsed
  <2> QED BY <2>2, UpdatedTimesInRange, MergeAssumption
<1> QED BY <1>1 DEF Reweighed

-----------------------------------------------------------------------------
(* Sequences of programs, and their members. *)

\* ToSet and Range are the same set; a selection takes its members from s.
LEMMA SelectedMembers ==
  ASSUME NEW s \in Seq(Program), NEW K \in SUBSET DOMAIN s
  PROVE  /\ Selected(s, K) \in Seq(Program)
         /\ ToSet(Selected(s, K)) \subseteq ToSet(s)
         /\ IsInjective(s) => IsInjective(Selected(s, K))
<1> DEFINE t == Selected(s, K)
<1>1. /\ t \in Seq(Program) /\ Range(t) = MembersAt(s, K)
      /\ IsInjective(s) => IsInjective(t)
  BY SelectedProperties
<1> HIDE DEF t
<1>2. ToSet(t) \subseteq ToSet(s)
  BY <1>1 DEF ToSet, Range, MembersAt
<1> QED BY <1>1, <1>2 DEF t

\* A program added at the end.
LEMMA AppendedMembers ==
  ASSUME NEW s \in Seq(Program), NEW p \in Program
  PROVE  /\ Append(s, p) \in Seq(Program) /\ Len(Append(s, p)) = Len(s) + 1
         /\ ToSet(Append(s, p)) = ToSet(s) \cup {p}
         /\ IsInjective(s) /\ p \notin ToSet(s) => IsInjective(Append(s, p))
<1> DEFINE a == Append(s, p)
<1>1. /\ a \in Seq(Program) /\ Len(a) = Len(s) + 1
      /\ DOMAIN a = 1..(Len(s) + 1) /\ a[Len(s) + 1] = p
      /\ \A k \in 1..Len(s) : a[k] = s[k]
      /\ DOMAIN s = 1..Len(s) /\ Len(s) \in Nat
  BY LenProperties
<1> HIDE DEF a
<1>2. 1..(Len(s) + 1) = 1..Len(s) \cup {Len(s) + 1}
  BY <1>1
<1>3. ToSet(a) = ToSet(s) \cup {p}
  BY <1>1, <1>2 DEF ToSet
<1>4. ASSUME IsInjective(s), p \notin ToSet(s) PROVE IsInjective(a)
  <2>1. \A k \in 1..Len(s) : a[k] \in ToSet(s)
    BY <1>1 DEF ToSet
  <2>2. \A j, k \in 1..Len(s) : a[j] = a[k] => j = k
    BY <1>1, <1>4 DEF IsInjective
  <2> QED BY <1>1, <1>2, <1>4, <2>1, <2>2 DEF IsInjective
<1> QED BY <1>1, <1>3, <1>4 DEF a

\* The first of the programs that are left, and the rest.
LEMMA HeadAndTail ==
  ASSUME NEW s \in Seq(Program), s # <<>>
  PROVE  /\ Head(s) \in Program /\ Head(s) \in ToSet(s)
         /\ Tail(s) \in Seq(Program) /\ ToSet(Tail(s)) \subseteq ToSet(s)
<1> DEFINE t == Tail(s)
<1>1. /\ Head(s) \in Program /\ t \in Seq(Program) /\ Len(t) = Len(s) - 1
      /\ \A k \in 1..Len(t) : t[k] = s[k + 1]
  BY HeadTailProperties
<1>2. /\ Len(s) \in Nat \ {0} /\ DOMAIN s = 1..Len(s) /\ Head(s) = s[1]
      /\ DOMAIN t = 1..Len(t)
  BY <1>1, EmptySeq, LenProperties
<1> HIDE DEF t
<1>3. \A k \in 1..Len(t) : k + 1 \in 1..Len(s)
  BY <1>1, <1>2
<1>4. ToSet(t) \subseteq ToSet(s) /\ Head(s) \in ToSet(s)
  BY <1>1, <1>2, <1>3 DEF ToSet
<1> QED BY <1>1, <1>4 DEF t

-----------------------------------------------------------------------------
(* Types. *)

\* Where the master stands: at a handle of a layer, and short of answers,
\* until it is done.
PlaceInv ==
  /\ pc \in {"start", "search", "take"} => place <= Len(e_tree[layer])
  /\ pc # "done" => Len(global_answer) < answer_count

MergeInv == TypeOK /\ PlaceInv

\* Layers have a first handle.
LEMMA Layers ==
  /\ \A l \in DOMAIN e_tree : Len(e_tree[l]) \in Nat \ {0}
  /\ Len(e_tree) \in Nat \ {0} /\ DOMAIN e_tree = 1..Len(e_tree)
<1> DEFINE S == [pos : Seq(Pos), neg : Seq(Neg)]
<1>1. e_tree \in Seq(Seq(S)) /\ e_tree # <<>> /\ \A l \in DOMAIN e_tree : e_tree[l] # <<>>
  BY TreeAssumption
<1> HIDE DEF S
<1>2. Len(e_tree) \in Nat \ {0} /\ DOMAIN e_tree = 1..Len(e_tree)
  BY <1>1, EmptySeq, LenProperties
<1>3. \A l \in DOMAIN e_tree : e_tree[l] \in Seq(S)
  BY <1>1, <1>2, ElementOfSeq
<1> QED BY <1>1, <1>2, <1>3, EmptySeq, LenProperties

\* Everything starts at the first handle with every weight 1.0.
LEMMA MergeInit == Init => MergeInv
<1> SUFFICES ASSUME Init PROVE MergeInv
  OBVIOUS
<1>1. layer \in DOMAIN e_tree /\ place \in 1..(Len(e_tree[layer]) + 1)
      /\ place <= Len(e_tree[layer])
  BY Layers DEF Init
<1>2. weight \in [Example -> WeightRange(Target)]
  BY OracleAssumption, MergeAssumption DEF Init, NoConstraint, WeightRange
<1>3. <<>> \in Seq(Program) /\ Len(<<>>) = 0 /\ answer_count > 0
  BY MergeAssumption
<1> QED BY <1>1, <1>2, <1>3, MergeAssumption DEF Init, MergeInv, TypeOK, PlaceInv

\* Going on to the next handle.
LEMMA MergeNextHandle ==
  ASSUME MergeInv, NextHandle, pc \in {"start", "take"}
  PROVE  /\ layer' \in DOMAIN e_tree /\ place' \in 1..(Len(e_tree[layer]') + 1)
         /\ pc' \in {"start", "filter"}
         /\ pc' = "start" => place' <= Len(e_tree[layer]')
<1>1. /\ layer \in DOMAIN e_tree /\ place \in 1..(Len(e_tree[layer]) + 1)
      /\ place <= Len(e_tree[layer]) /\ Len(e_tree[layer]) \in Nat
  BY Layers DEF MergeInv, TypeOK, PlaceInv
<1>2. /\ layer' = layer /\ place' = place + 1
      /\ pc' = IF place = Len(e_tree[layer]) THEN "filter" ELSE "start"
  BY DEF NextHandle
<1> QED BY <1>1, <1>2

\* Each action in turn.
LEMMA MergeStart == ASSUME MergeInv, StartSingle PROVE MergeInv'
<1>1. ans' \in Seq(Program)
  BY SelectedMembers DEF StartSingle, FittingPlaces, MergeInv, TypeOK
<1>2. /\ pc = "start"
      /\ UNCHANGED <<accuracy, weight, global_pool, global_answer, tmp>>
  BY DEF StartSingle
<1>3. CASE pc' = "search" /\ UNCHANGED <<layer, place>>
  BY <1>1, <1>2, <1>3 DEF MergeInv, TypeOK, PlaceInv
<1>4. CASE NextHandle
  BY <1>1, <1>2, <1>4, MergeNextHandle DEF MergeInv, TypeOK, PlaceInv
<1> QED BY <1>3, <1>4 DEF StartSingle

\* Nothing is started, and the next handle follows.
LEMMA MergeEnd == ASSUME MergeInv, EndSingle PROVE MergeInv'
<1>1. pc = "take" /\ NextHandle
      /\ UNCHANGED <<accuracy, weight, global_pool, global_answer, ans, tmp>>
  BY DEF EndSingle
<1> QED BY <1>1, MergeNextHandle DEF MergeInv, TypeOK, PlaceInv

\* A search returns programs, or its answer is skipped.
LEMMA MergeSearchStep == ASSUME MergeInv, Search \/ SkipAnswer PROVE MergeInv'
<1>1. tmp' \in Seq(Program) /\ pc \in {"search", "take"} /\ pc' = "take"
  <2>1. CASE Search
    <3>1. PICK n \in 0..MaxReturned :
            tmp' \in [1..n -> {p \in Program \ Eliminated : FitsHandle(p, layer, place)}]
      BY <2>1 DEF Search
    <3>2. n \in Nat
      BY MergeAssumption
    <3> QED BY <2>1, <3>1, <3>2 DEF Search
  <2>2. CASE SkipAnswer
    BY <2>2, HeadAndTail DEF SkipAnswer, MergeInv, TypeOK
  <2> QED BY <2>1, <2>2
<1>2. UNCHANGED <<layer, place, accuracy, weight, global_pool, global_answer, ans>>
  BY DEF Search, SkipAnswer
<1> QED BY <1>1, <1>2 DEF MergeInv, TypeOK, PlaceInv

\* Taking a program: both pools grow by it, and the answers if it fits the whole.
LEMMA MergeTake == ASSUME MergeInv, TakeAnswer PROVE MergeInv'
<1>1. /\ pc = "take" /\ tmp \in Seq(Program) /\ tmp # <<>>
      /\ Head(tmp) \in Program /\ tmp' = Tail(tmp) /\ tmp' \in Seq(Program)
      /\ UNCHANGED <<layer, place, accuracy>>
  BY HeadAndTail DEF TakeAnswer, MergeInv, TypeOK
<1>2. ans' \in Seq(Program) /\ global_pool' \in Seq(Program)
  BY <1>1, AppendedMembers DEF TakeAnswer, MergeInv, TypeOK
<1>3. /\ global_answer' \in Seq(Program) /\ weight' \in [Example -> WeightRange(Target)]
      /\ Len(global_answer') \in Nat /\ Len(global_answer') <= answer_count
  <2>1. /\ global_answer \in Seq(Program) /\ Len(global_answer) \in Nat
        /\ Len(global_answer) < answer_count /\ answer_count \in Nat
        /\ weight \in [Example -> WeightRange(Target)]
    BY <1>1, MergeAssumption, LenProperties DEF MergeInv, TypeOK, PlaceInv
  <2>2. CASE FitsWhole(Head(tmp))
    <3>1. /\ global_answer' = Append(global_answer, Head(tmp))
          /\ weight' = Reweighed(accuracy, Target, weight,
                                 Value[Head(tmp)], PairsOf[Head(tmp)][Top])
      BY <2>2 DEF TakeAnswer
    <3>2. weight' \in [Example -> WeightRange(Target)]
      BY <1>1, <2>1, <3>1, NewWeights
    <3> QED BY <1>1, <2>1, <3>1, <3>2, AppendedMembers
  <2>3. CASE ~FitsWhole(Head(tmp))
    BY <2>1, <2>3 DEF TakeAnswer
  <2> QED BY <2>2, <2>3
<1>4. /\ pc' \in {"done", "take"}
      /\ pc' # "done" => Len(global_answer') < answer_count
  <2>1. pc' = IF Len(global_answer') >= answer_count THEN "done" ELSE "take"
    BY DEF TakeAnswer
  <2> QED BY <1>3, <2>1, MergeAssumption
<1> QED BY <1>1, <1>2, <1>3, <1>4 DEF MergeInv, TypeOK, PlaceInv

\* The pool shrinks to what fits, and the next layer begins or the search ends.
LEMMA MergeFilter == ASSUME MergeInv, Filter PROVE MergeInv'
<1>1. global_pool' \in Seq(Program)
  BY SelectedMembers DEF Filter, FittingPlaces, MergeInv, TypeOK
<1>2. pc = "filter" /\ UNCHANGED <<accuracy, weight, global_answer, ans, tmp>>
  BY DEF Filter
<1>3. /\ layer' \in DOMAIN e_tree /\ place' \in 1..(Len(e_tree[layer']) + 1)
      /\ pc' \in {"start", "done"} /\ (pc' = "start" => place' <= Len(e_tree[layer']))
  <2>1. CASE layer = Len(e_tree)
    BY <1>2, <2>1 DEF Filter, MergeInv, TypeOK
  <2>2. CASE layer # Len(e_tree)
    <3>1. layer' = layer + 1 /\ place' = 1 /\ pc' = "start"
      BY <2>2 DEF Filter
    <3>2. layer' \in DOMAIN e_tree
      BY <2>2, <3>1, Layers DEF MergeInv, TypeOK
    <3>3. Len(e_tree[layer']) \in Nat \ {0}
      BY <3>2, Layers
    <3> QED BY <3>1, <3>2, <3>3
  <2> QED BY <2>1, <2>2
<1> QED BY <1>1, <1>2, <1>3 DEF MergeInv, TypeOK, PlaceInv

\* Every step keeps the invariant.
LEMMA MergeStep == ASSUME MergeInv, [Next]_vars PROVE MergeInv'
<1>1. CASE UNCHANGED vars
  BY <1>1 DEF vars, MergeInv, TypeOK, PlaceInv
<1>2. CASE StartSingle \/ EndSingle \/ Search \/ SkipAnswer
  BY <1>2, MergeStart, MergeEnd, MergeSearchStep
<1>3. CASE TakeAnswer \/ Filter
  BY <1>3, MergeTake, MergeFilter
<1> QED BY <1>1, <1>2, <1>3 DEF Next

\* The invariant holds in every reachable state.
LEMMA MergeInvInductive == Spec => []MergeInv
BY MergeInit, MergeStep, PTL DEF Spec

\* The weights that the answers share never leave the range between the target
\* and 1.0, whichever of them is more, and however many answers lower them, the search never steps outside its
\* layers, and never holds more answers than it was asked for.
THEOREM MergeTypeCorrect == Spec => []TypeOK
<1>1. MergeInv => TypeOK
  BY DEF MergeInv
<1> QED BY <1>1, MergeInvInductive, PTL

-----------------------------------------------------------------------------
(* No program is in the pool twice. *)

\* A program that the search returned, although the pool was eliminated from
\* it, entered the pool since, and ans with it.
PoolInv ==
  /\ PoolDiffers
  /\ pc \in {"start", "search", "filter"} => tmp = <<>>
  /\ ToSet(tmp) \cap ToSet(global_pool) \subseteq ToSet(ans)

\* Nothing left is no member.
LEMMA NoMembers == ToSet(<<>>) = {}
BY DEF ToSet

\* Only a program that is not known enters the pool.
LEMMA PoolStep == ASSUME MergeInv, PoolInv, [Next]_vars PROVE PoolInv'
<1>0. /\ global_pool \in Seq(Program) /\ ans \in Seq(Program) /\ tmp \in Seq(Program)
  BY DEF MergeInv, TypeOK
<1>1. CASE UNCHANGED vars
  BY <1>1 DEF vars, PoolInv, PoolDiffers, ToSet, IsInjective
<1>2. CASE StartSingle \/ EndSingle
  <2>1. /\ pc \in {"start", "take"} /\ UNCHANGED <<global_pool, tmp>> /\ tmp = <<>>
    BY <1>2 DEF StartSingle, EndSingle, PoolInv
  <2>2. ToSet(tmp') = {}
    BY <2>1, NoMembers
  <2> QED BY <2>1, <2>2 DEF PoolInv, PoolDiffers, IsInjective
<1>3. CASE Search
  <2>1. PICK n \in 0..MaxReturned :
          tmp' \in [1..n -> {p \in Program \ Eliminated : FitsHandle(p, layer, place)}]
    BY <1>3 DEF Search
  <2>2. ToSet(tmp') \cap ToSet(global_pool) = {}
    BY <2>1 DEF ToSet, Eliminated
  <2>3. UNCHANGED <<global_pool, ans>> /\ pc' = "take"
    BY <1>3 DEF Search
  <2>4. ToSet(global_pool') = ToSet(global_pool)
    BY <2>3
  <2> QED BY <2>2, <2>3, <2>4 DEF PoolInv, PoolDiffers, IsInjective
<1>4. CASE SkipAnswer
  <2>1. /\ pc' = "take" /\ UNCHANGED <<global_pool, ans>>
        /\ tmp # <<>> /\ tmp' = Tail(tmp)
    BY <1>4 DEF SkipAnswer
  <2>2. ToSet(tmp') \subseteq ToSet(tmp)
    BY <1>0, <2>1, HeadAndTail
  <2>3. ToSet(global_pool') = ToSet(global_pool) /\ ToSet(ans') = ToSet(ans)
    BY <2>1
  <2> QED BY <2>1, <2>2, <2>3 DEF PoolInv, PoolDiffers, IsInjective
<1>5. CASE TakeAnswer
  <2>1. /\ pc' \in {"take", "done"} /\ tmp # <<>> /\ tmp' = Tail(tmp)
        /\ Head(tmp) \notin ToSet(ans)
        /\ ans' = Append(ans, Head(tmp)) /\ global_pool' = Append(global_pool, Head(tmp))
    BY <1>5 DEF TakeAnswer, Known
  <2>2. /\ Head(tmp) \in Program /\ Head(tmp) \in ToSet(tmp)
        /\ ToSet(tmp') \subseteq ToSet(tmp)
    BY <1>0, <2>1, HeadAndTail
  <2>3. Head(tmp) \notin ToSet(global_pool)
    BY <2>1, <2>2 DEF PoolInv
  <2>4. /\ IsInjective(global_pool')
        /\ ToSet(global_pool') = ToSet(global_pool) \cup {Head(tmp)}
        /\ ToSet(ans') = ToSet(ans) \cup {Head(tmp)}
    BY <1>0, <2>1, <2>2, <2>3, AppendedMembers DEF PoolInv, PoolDiffers
  <2> QED BY <2>1, <2>2, <2>4 DEF PoolInv, PoolDiffers
<1>6. CASE Filter
  <2>1. /\ tmp = <<>> /\ tmp' = <<>>
        /\ global_pool' = Selected(global_pool, FittingPlaces(DOMAIN e_tree[layer]))
    BY <1>6 DEF Filter, PoolInv
  <2>2. IsInjective(global_pool')
    BY <1>0, <2>1, SelectedMembers DEF FittingPlaces, PoolInv, PoolDiffers
  <2>3. ToSet(tmp') = {}
    BY <2>1, NoMembers
  <2> QED BY <2>1, <2>2, <2>3 DEF PoolInv, PoolDiffers
<1> QED BY <1>1, <1>2, <1>3, <1>4, <1>5, <1>6 DEF Next

\* Whatever the searches return, and however often, the pool lists no program
\* twice.
THEOREM PoolOfDifferent == Spec => []PoolDiffers
<1>1. Init => PoolInv
  BY NoMembers DEF Init, PoolInv, PoolDiffers, IsInjective
<1>2. MergeInv /\ PoolInv /\ [Next]_vars => PoolInv'
  BY PoolStep
<1>3. PoolInv => PoolDiffers
  BY DEF PoolInv
<1> QED BY <1>1, <1>2, <1>3, MergeInvInductive, PTL DEF Spec

-----------------------------------------------------------------------------
(* No answer is overlooked. *)

\* With accuracy 1 there is no constraint, so that what the whole says of a
\* program when it is taken is what it says of it at any time.
AnswersInv ==
  accuracy.num = accuracy.den =>
    /\ weight = NoConstraint
    /\ \A p \in ToSet(global_pool) \cup ToSet(ans) :
         Top \in Fits[accuracy][p] => p \in ToSet(global_answer)

\* A step that adds no program and drops no answer.
LEMMA AnswersSame ==
  ASSUME AnswersInv, UNCHANGED <<accuracy, weight, global_answer>>,
         ToSet(global_pool') \cup ToSet(ans') \subseteq ToSet(global_pool) \cup ToSet(ans)
  PROVE  AnswersInv'
<1>1. ToSet(global_answer') = ToSet(global_answer)
  OBVIOUS
<1> QED BY <1>1 DEF AnswersInv

\* A program taken is an answer if it fits the whole, and none is forgotten.
LEMMA AnswersTake == ASSUME MergeInv, AnswersInv, TakeAnswer PROVE AnswersInv'
<1> DEFINE p == Head(tmp)
<1>1. /\ p \in Program /\ accuracy' = accuracy /\ accuracy \in Accuracies
      /\ global_pool \in Seq(Program) /\ ans \in Seq(Program)
      /\ global_answer \in Seq(Program) /\ weight \in [Example -> WeightRange(Target)]
  BY HeadAndTail DEF TakeAnswer, MergeInv, TypeOK
<1>2. /\ ToSet(global_pool') = ToSet(global_pool) \cup {p}
      /\ ToSet(ans') = ToSet(ans) \cup {p}
  BY <1>1, AppendedMembers DEF TakeAnswer
<1> SUFFICES ASSUME accuracy.num = accuracy.den
             PROVE  /\ weight' = NoConstraint
                    /\ \A q \in ToSet(global_pool') \cup ToSet(ans') :
                         Top \in Fits[accuracy][q] => q \in ToSet(global_answer')
  BY <1>1 DEF AnswersInv
<1>3. weight = NoConstraint
  BY DEF AnswersInv
<1>4. Top \in Fits[accuracy][p] <=> FitsWhole(p)
  BY <1>1, <1>3, TreeAssumption DEF Fits, FitsWhole
<1>5. ToSet(global_answer) \subseteq ToSet(global_answer')
      /\ (FitsWhole(p) => p \in ToSet(global_answer'))
  <2>1. CASE FitsWhole(p)
    <3>1. global_answer' = Append(global_answer, p)
      BY <2>1 DEF TakeAnswer
    <3>2. ToSet(global_answer') = ToSet(global_answer) \cup {p}
      BY <1>1, <3>1, AppendedMembers
    <3> QED BY <3>2
  <2>2. CASE ~FitsWhole(p)
    BY <2>2 DEF TakeAnswer
  <2> QED BY <2>1, <2>2
<1>6. weight' = NoConstraint
  <2>1. accuracy.num \in Nat /\ accuracy.den \in Nat
    BY <1>1, MergeAssumption DEF Accuracy
  <2>2. ~Constrained(accuracy)
    BY <2>1 DEF Constrained
  <2>3. \A v, both : Reweighed(accuracy, Target, weight, v, both) = weight
    BY <1>1, <2>2 DEF Reweighed
  <2>4. weight' = weight
    <3>1. CASE FitsWhole(p)
      BY <2>3, <3>1 DEF TakeAnswer
    <3>2. CASE ~FitsWhole(p)
      BY <3>2 DEF TakeAnswer
    <3> QED BY <3>1, <3>2
  <2> QED BY <1>3, <2>4
<1>7. ASSUME NEW q \in ToSet(global_pool') \cup ToSet(ans'), Top \in Fits[accuracy][q]
      PROVE  q \in ToSet(global_answer')
  <2>1. CASE q = p
    BY <1>4, <1>5, <1>7, <2>1
  <2>2. CASE q # p
    BY <1>2, <1>5, <1>7, <2>2 DEF AnswersInv
  <2> QED BY <2>1, <2>2
<1> QED BY <1>6, <1>7

\* Starting a search and filtering only select from the pool.
LEMMA AnswersStep == ASSUME MergeInv, AnswersInv, [Next]_vars PROVE AnswersInv'
<1>0. global_pool \in Seq(Program)
  BY DEF MergeInv, TypeOK
<1>1. CASE UNCHANGED vars \/ EndSingle \/ Search \/ SkipAnswer
  <2>1. UNCHANGED <<accuracy, weight, global_answer, global_pool, ans>>
    BY <1>1 DEF vars, EndSingle, Search, SkipAnswer
  <2>2. ToSet(global_pool') = ToSet(global_pool) /\ ToSet(ans') = ToSet(ans)
    BY <2>1
  <2> QED BY <2>1, <2>2, AnswersSame
<1>2. CASE StartSingle
  <2>1. /\ UNCHANGED <<accuracy, weight, global_pool, global_answer>>
        /\ ans' = Selected(global_pool, FittingPlaces({place}))
    BY <1>2 DEF StartSingle
  <2>2. ToSet(ans') \subseteq ToSet(global_pool)
    BY <1>0, <2>1, SelectedMembers DEF FittingPlaces
  <2>3. ToSet(global_pool') = ToSet(global_pool)
    BY <2>1
  <2> QED BY <2>1, <2>2, <2>3, AnswersSame
<1>3. CASE Filter
  <2>1. /\ UNCHANGED <<accuracy, weight, global_answer, ans>>
        /\ global_pool' = Selected(global_pool, FittingPlaces(DOMAIN e_tree[layer]))
    BY <1>3 DEF Filter
  <2>2. ToSet(global_pool') \subseteq ToSet(global_pool)
    BY <1>0, <2>1, SelectedMembers DEF FittingPlaces
  <2>3. ToSet(ans') = ToSet(ans)
    BY <2>1
  <2> QED BY <2>1, <2>2, <2>3, AnswersSame
<1>4. CASE TakeAnswer
  BY <1>4, AnswersTake
<1> QED BY <1>1, <1>2, <1>3, <1>4 DEF Next

\* When all examples must be right, neither a search skipped for want of need
\* nor a program dropped after a layer costs an answer.
THEOREM NothingOverlooked == Spec => []NoAnswerOverlooked
<1>1. Init => AnswersInv
  BY NoMembers DEF Init, AnswersInv
<1>2. MergeInv /\ AnswersInv /\ [Next]_vars => AnswersInv'
  BY AnswersStep
<1>3. AnswersInv => NoAnswerOverlooked
  BY DEF AnswersInv, NoAnswerOverlooked
<1> QED BY <1>1, <1>2, <1>3, MergeInvInductive, PTL DEF Spec
=============================================================================
