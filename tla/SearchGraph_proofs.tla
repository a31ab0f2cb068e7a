------------------------- MODULE SearchGraph_proofs -------------------------
(***************************************************************************)
(* Proofs about SearchGraph, for every grammar (Program, Expand), oracle   *)
(* (Accepted), set of rules (Redundant), set of workers and parameters.    *)
(***************************************************************************)
EXTENDS SearchGraph, TaskQueues_proofs, Vectors_proofs

-----------------------------------------------------------------------------
(* select_ and sort_by_, as the search uses them. *)

\* Falling complexity, with ties broken by place, is a strict total order.
LEMMA OrderIsTotal ==
  ASSUME NEW s \in Seq(Program), NEW K \in SUBSET DOMAIN s
  PROVE  StrictTotalOrder(MoreComplexFirst(s, K), K)
<1>1. K \subseteq Nat
  BY LenProperties
<1>2. \A k \in K : Complexity[s[k]] \in Int
  <2>1. \A k \in K : s[k] \in Program
    BY ElementOfSeq, LenProperties
  <2> QED BY <2>1, SearchAssumption
<1>3. \A j, k \in K :
        <<j, k>> \in MoreComplexFirst(s, K) <=>
          \/ Complexity[s[j]] > Complexity[s[k]]
          \/ Complexity[s[j]] = Complexity[s[k]] /\ j < k
  BY DEF MoreComplexFirst
<1>4. StrictTotalOrder(MoreComplexFirst(s, K), K)
  <2> DEFINE R == MoreComplexFirst(s, K)
             c(k) == Complexity[s[k]]
  <2>0. \A k \in K : c(k) \in Int
    BY <1>2
  <2>1. \A j, k \in K :
          <<j, k>> \in R <=> (c(j) > c(k) \/ (c(j) = c(k) /\ j < k))
    BY <1>3
  <2> HIDE DEF R, c
  <2>2. \A j \in K : <<j, j>> \notin R
    BY <1>1, <2>0, <2>1
  <2>3. \A j, k \in K : j # k => <<j, k>> \in R \/ <<k, j>> \in R
    BY <1>1, <2>0, <2>1
  <2>4. \A j, k, l \in K : <<j, k>> \in R /\ <<k, l>> \in R => <<j, l>> \in R
    BY <1>1, <2>0, <2>1
  <2>5. StrictTotalOrder(R, K)
    BY <2>2, <2>3, <2>4 DEF StrictTotalOrder
  <2> QED BY <2>5 DEF R
<1> QED BY <1>4

-----------------------------------------------------------------------------
(* The inductive invariant: types, the busy counter, and where the master  *)
(* stands in its round.                                                    *)

\* At least one program has been explored when the master gets past
\* explore_new(), so that done, which is i - 1, is a place of this_round.
RoundShape ==
  /\ mpc \in {"explore", "submit", "finish", "insert", "test", "gather"} =>
       i <= Len(this_round) + 1
  /\ mpc \in {"submit", "finish", "insert", "test", "gather"} => i >= 2
  /\ mpc = "explore" /\ i = 1 => counter = 0 /\ this_round # <<>>
  /\ mpc = "submit" => tmp # <<>>

SearchInv == TypeOK /\ BusyIsHolding /\ RoundShape /\ RoundBarrier

\* The types of the variables that are not the pool's.
LocalTypes ==
  /\ mpc \in {"loop", "explore", "submit", "finish", "insert", "test", "gather",
              "drain", "prepare", "return"}
  /\ this_round \in Seq(Program) /\ buffer \in Seq(Program)
  /\ answer \in Seq(Program) /\ pending_answer \in Seq(Program)
  /\ i \in Nat \ {0} /\ tmp \in Seq(Program)
  /\ counter \in Nat /\ search_counter \in 0..OverBudget
  /\ msg \in Program /\ visited \subseteq Program /\ alive \in BOOLEAN
  /\ kept \subseteq Program /\ explored \subseteq Program

\* SearchInv in the parts that are proved one by one.
LEMMA SearchInvSplit ==
  /\ SearchInv <=> QueueInv /\ LocalTypes /\ RoundShape /\ RoundBarrier
  /\ SearchInv' <=> QueueInv' /\ LocalTypes' /\ RoundShape' /\ RoundBarrier'
BY DEF SearchInv, QueueInv, LocalTypes, TypeOK

\* An idle pool looks like this.
LEMMA IdlePool ==
  ASSUME QueueInv, AllTasksDone
  PROVE  InPool \subseteq {Idle}
<1>1. Holding = {}
  <2>1. Holding \in SUBSET Worker
    BY DEF Holding
  <2> QED BY <2>1, HoldingFinite, FS_EmptySet DEF QueueInv, BusyIsHolding, AllTasksDone
<1>2. \A w \in Worker : hand[w] = Idle
  BY <1>1, QueuesAssumption DEF Holding, QueueInv, QueuesTypeOK
<1> QED BY <1>2 DEF InPool, Elems, AllTasksDone

\* The messages the master sends are mailboxes.
LEMMA TasksAreMessages ==
  ASSUME NEW p \in Program
  PROVE  FilterTask(p) \in Mailbox /\ AcceptTask(p) \in Mailbox
BY SearchAssumption DEF FilterTask, AcceptTask, Message

\* The initial state.
LEMMA SearchInvInit == Init => SearchInv
<1> SUFFICES ASSUME Init PROVE SearchInv
  OBVIOUS
<1>1. QueueInv
  BY QueueInvInit DEF Init
<1>2. this_round \in Seq(Program) /\ kept \subseteq Program
  <2>1. this_round \in Seq(Program) /\ kept = Elems(this_round)
    BY SearchAssumption DEF Init
  <2> QED BY <2>1, ElementOfSeq, LenProperties DEF Elems
<1>3. LocalTypes
  BY <1>2, SearchAssumption DEF Init, LocalTypes, OverBudget
<1>4. RoundShape /\ RoundBarrier
  BY DEF Init, QueuesInit, RoundShape, RoundBarrier, InPool, Elems, QueueInv, QueuesTypeOK
<1> QED BY <1>1, <1>3, <1>4, SearchInvSplit

-----------------------------------------------------------------------------
(* The steps of the master that leave the pool alone. *)

\* What such a step has to show about the rest.
LEMMA PoolUntouched ==
  ASSUME SearchInv, UNCHANGED queues
  PROVE  QueueInv' /\ (InPool \subseteq {Idle} => InPool' \subseteq {Idle})
<1>1. QueueInv'
  BY SearchInvSplit, QueueInvSame
<1>2. InPool' = InPool
  BY DEF SearchInv, InPool, Elems, queues, QueueInv, QueuesTypeOK
<1> QED BY <1>1, <1>2

\* The head of the loop, and the two ways into finish_tasks().
LEMMA StepRoundStart ==
  ASSUME SearchInv, NewRound \/ Exhausted \/ SkipExplore \/ NothingFinished
  PROVE  SearchInv'
<1>1. QueueInv' /\ (InPool \subseteq {Idle} => InPool' \subseteq {Idle})
  BY PoolUntouched DEF NewRound, Exhausted, SkipExplore, NothingFinished
<1> USE SearchInvSplit DEF At
<1>2. CASE NewRound
  <2>1. LocalTypes'
    BY <1>2 DEF NewRound, LocalTypes
  <2>2. RoundShape' /\ RoundBarrier'
    <3>1. Len(this_round) \in Nat
      BY LenProperties DEF LocalTypes
    <3> QED BY <1>2, <3>1 DEF NewRound, RoundShape, RoundBarrier
  <2> QED BY <1>1, <2>1, <2>2
<1>3. CASE Exhausted
  BY <1>1, <1>3 DEF Exhausted, search, LocalTypes, RoundShape, RoundBarrier
<1>4. CASE SkipExplore
  <2>1. i >= 2
    <3>1. Len(this_round) \in Nat \ {0} \/ this_round = <<>>
      BY EmptySeq, LenProperties DEF LocalTypes
    <3> QED BY <1>4, <3>1, SearchAssumption
            DEF SkipExplore, WantsMore, RoundShape, LocalTypes
  <2> QED BY <1>1, <1>4, <2>1
          DEF SkipExplore, search, LocalTypes, RoundShape, RoundBarrier
<1>5. CASE NothingFinished
  BY <1>1, <1>5 DEF NothingFinished, search, LocalTypes, RoundShape, RoundBarrier
<1> QED BY <1>2, <1>3, <1>4, <1>5

\* explore_new(): the program it explores is one of the grammar's.
LEMMA StepExplore ==
  ASSUME SearchInv, ExploreNew
  PROVE  SearchInv'
<1> USE SearchInvSplit DEF At
<1>1. QueueInv'
  BY PoolUntouched DEF ExploreNew
<1>2. this_round[i] \in Program /\ i + 1 <= Len(this_round) + 1 /\ i + 1 >= 2
  <2>1. i \in 1..Len(this_round) /\ this_round \in Seq(Program)
    BY LenProperties DEF ExploreNew, WantsMore, LocalTypes
  <2> QED BY <2>1, ElementOfSeq, LenProperties
<1>3. tmp' \in Seq(Program)
  <2>1. Expand[this_round[i]] \subseteq Seq(Program)
    BY <1>2, SearchAssumption
  <2>2. tmp' = <<>> \/ tmp' \in Expand[this_round[i]]
    BY DEF ExploreNew
  <2>3. <<>> \in Seq(Program)
    OBVIOUS
  <2> QED BY <2>1, <2>2, <2>3
<1>4. LocalTypes'
  <2>1. mpc' \in {"finish", "submit"} /\ i' = i + 1 /\ explored' = explored \cup {this_round[i]}
    BY DEF ExploreNew
  <2>2. /\ i \in Nat \ {0} /\ explored \subseteq Program
        /\ UNCHANGED <<alive, this_round, buffer, answer, pending_answer, counter,
                       search_counter, msg, visited, kept>>
    BY DEF ExploreNew, LocalTypes
  <2>3. i' \in Nat \ {0} /\ explored' \subseteq Program
    BY <1>2, <2>1, <2>2
  <2> QED BY <1>3, <2>1, <2>2, <2>3 DEF LocalTypes
<1>5. RoundShape' /\ RoundBarrier'
  BY <1>2 DEF ExploreNew, RoundShape, RoundBarrier
<1> QED BY <1>1, <1>4, <1>5

\* The end of the round is the one place where the pool is asked, and found
\* to be empty (search_graph.cpp:210-212).
LEMMA StepTest ==
  ASSUME SearchInv, TestRound
  PROVE  SearchInv'
<1> USE SearchInvSplit DEF At
<1>1. QueueInv' /\ (InPool \subseteq {Idle} => InPool' \subseteq {Idle})
  BY PoolUntouched DEF TestRound
<1>2. RoundOver => InPool \subseteq {Idle}
  BY IdlePool DEF RoundOver
<1>3. LocalTypes' /\ RoundShape'
  BY DEF TestRound, search, LocalTypes, RoundShape
<1>4. RoundBarrier'
  BY <1>1, <1>2 DEF TestRound, RoundBarrier
<1> QED BY <1>1, <1>3, <1>4

\* The most complex programs come first.
Falling(s) ==
  \A j, k \in DOMAIN s : j < k => Complexity[s[j]] >= Complexity[s[k]]

\* What gather_candidates() makes of this_round and buffer: programs of both,
\* sorted, and none of them lost unless it is too complex.
LEMMA GatheredProperties ==
  ASSUME SearchInv, mpc = "gather"
  PROVE  /\ Gathered \in Seq(Program) /\ Falling(Gathered)
         /\ \A p \in Elems(buffer) \cup Elems(SubSeq(this_round, i, Len(this_round))) :
              Complexity[p] < MaxComplexity => p \in Elems(Gathered)
<1> DEFINE new == SubSeq(this_round, i, Len(this_round))
           again == SubSeq(this_round, i - 1, Len(this_round))
           all == buffer \o new \o again
           places == {k \in DOMAIN all : Complexity[all[k]] < MaxComplexity}
<1>1. /\ this_round \in Seq(Program) /\ buffer \in Seq(Program)
      /\ Len(this_round) \in Nat /\ i \in Nat /\ i - 1 >= 1
  BY SearchInvSplit, LenProperties DEF LocalTypes, RoundShape
<1>2. \A k \in 1..Len(this_round) : this_round[k] \in Program
  BY <1>1, ElementOfSeq
<1>3. new \in Seq(Program) /\ again \in Seq(Program)
  <2>1. \A k \in (i - 1)..Len(this_round) : this_round[k] \in Program
    BY <1>1, <1>2
  <2>2. \A k \in i..Len(this_round) : this_round[k] \in Program
    BY <1>1, <1>2
  <2> QED BY <1>1, <2>1, <2>2, SubSeqProperties
<1> HIDE DEF new, again
<1>4. /\ buffer \o new \in Seq(Program)
      /\ Len(buffer \o new) = Len(buffer) + Len(new)
      /\ \A k \in 1..Len(buffer \o new) :
           (buffer \o new)[k] = IF k <= Len(buffer) THEN buffer[k] ELSE new[k - Len(buffer)]
  BY <1>1, <1>3, ConcatProperties
<1>5. /\ all \in Seq(Program)
      /\ Len(all) = Len(buffer \o new) + Len(again)
      /\ \A k \in 1..Len(all) :
           all[k] = IF k <= Len(buffer \o new) THEN (buffer \o new)[k]
                                               ELSE again[k - Len(buffer \o new)]
  BY <1>3, <1>4, ConcatProperties
<1>6. Gathered = Arranged(all, places, MoreComplexFirst(all, places))
  BY DEF Gathered, new, again
<1>7. Elems(buffer) \cup Elems(new) \subseteq Elems(all)
  <2>0. /\ Len(buffer) \in Nat /\ Len(new) \in Nat /\ Len(again) \in Nat
        /\ DOMAIN buffer = 1..Len(buffer) /\ DOMAIN new = 1..Len(new)
        /\ DOMAIN all = 1..Len(all)
    BY <1>1, <1>3, <1>5, LenProperties
  <2> HIDE DEF all
  <2>1. ASSUME NEW k \in 1..Len(buffer) PROVE buffer[k] \in Elems(all)
    <3>1. k \in 1..Len(buffer \o new) /\ k \in 1..Len(all) /\ all[k] = buffer[k]
      BY <1>4, <1>5, <2>0
    <3> QED BY <2>0, <3>1 DEF Elems
  <2>2. ASSUME NEW k \in 1..Len(new) PROVE new[k] \in Elems(all)
    <3> DEFINE l == Len(buffer) + k
    <3>1. l \in 1..Len(buffer \o new) /\ l \in 1..Len(all) /\ l - Len(buffer) = k
          /\ ~(l <= Len(buffer)) /\ l <= Len(buffer \o new)
      BY <1>4, <1>5, <2>0
    <3>2. all[l] = new[k]
      BY <1>4, <1>5, <3>1
    <3> QED BY <2>0, <3>1, <3>2 DEF Elems
  <2> QED BY <2>0, <2>1, <2>2 DEF Elems
<1> HIDE DEF all
<1>8. places \in SUBSET DOMAIN all
  OBVIOUS
<1>9. StrictTotalOrder(MoreComplexFirst(all, places), places)
  BY <1>5, <1>8, OrderIsTotal
<1>10. Gathered \in Seq(Program) /\ Range(Gathered) = MembersAt(all, places)
  BY <1>5, <1>6, <1>8, <1>9, ArrangedProperties
<1>11. ASSUME NEW p \in Elems(all), Complexity[p] < MaxComplexity
       PROVE  p \in Elems(Gathered)
  BY <1>10, <1>11 DEF Elems, Range, MembersAt
<1>12. Falling(Gathered)
  <2> DEFINE R == MoreComplexFirst(all, places)
  <2>1. Follows(Gathered, all, places, R)
    BY <1>5, <1>6, <1>8, <1>9, ArrangedProperties
  <2>2. \A j, k \in places : <<j, k>> \in R => Complexity[all[j]] >= Complexity[all[k]]
    <3>1. \A k \in places : all[k] \in Program
      BY <1>5, <1>8, ElementOfSeq, LenProperties
    <3>2. \A k \in places : Complexity[all[k]] \in Int
      BY <3>1, SearchAssumption
    <3> QED BY <3>2 DEF MoreComplexFirst
  <2> HIDE DEF R
  <2>3. ASSUME NEW q \in DOMAIN Gathered, NEW r \in DOMAIN Gathered, q < r
        PROVE  Complexity[Gathered[q]] >= Complexity[Gathered[r]]
    <3>1. PICK j, k \in places :
            <<j, k>> \in R /\ Gathered[q] = all[j] /\ Gathered[r] = all[k]
      BY <2>1, <2>3 DEF Follows
    <3> QED BY <2>2, <3>1
  <2> QED BY <2>3 DEF Falling
<1> QED BY <1>7, <1>10, <1>11, <1>12 DEF new

\* select_ keeps programs programs.
LEMMA SelectedType ==
  ASSUME NEW s \in Seq(Program), NEW K \in SUBSET DOMAIN s
  PROVE  Selected(s, K) \in Seq(Program) /\ Elems(Selected(s, K)) = {s[k] : k \in K}
<1>1. Selected(s, K) \in Seq(Program) /\ Range(Selected(s, K)) = MembersAt(s, K)
  BY SelectedProperties
<1> QED BY <1>1 DEF Range, Elems, MembersAt

\* gather_candidates() and the throw in it.
LEMMA StepGather ==
  ASSUME SearchInv, Gather \/ ThrowAnswer
  PROVE  SearchInv'
<1> USE SearchInvSplit DEF At
<1>1. QueueInv' /\ (InPool \subseteq {Idle} => InPool' \subseteq {Idle})
  BY PoolUntouched DEF Gather, ThrowAnswer
<1>2. CASE Gather
  <2> DEFINE found == answer \o Selected(pending_answer, Ripe)
  <2>1. answer \in Seq(Program) /\ pending_answer \in Seq(Program)
    BY DEF LocalTypes
  <2>2. Ripe \in SUBSET DOMAIN pending_answer
    BY DEF Ripe
  <2>3. /\ Selected(pending_answer, Ripe) \in Seq(Program)
        /\ Selected(pending_answer, DOMAIN pending_answer \ Ripe) \in Seq(Program)
    BY <2>1, <2>2, SelectedType
  <2>4. found \in Seq(Program)
    BY <2>1, <2>3, ConcatProperties
  <2>5. ASSUME Len(found) >= answer_count
        PROVE  SubSeq(found, 1, answer_count) \in Seq(Program)
    <3> HIDE DEF found
    <3>1. \A k \in 1..answer_count : found[k] \in Program
      BY <2>4, <2>5, ElementOfSeq, LenProperties, SearchAssumption
    <3> QED BY <3>1, SearchAssumption, SubSeqProperties
  <2>6. answer' \in Seq(Program) /\ pending_answer' \in Seq(Program)
    <3>1. CASE Len(found) >= answer_count
      BY <1>2, <2>1, <2>5, <3>1 DEF Gather
    <3>2. CASE ~(Len(found) >= answer_count)
      BY <1>2, <2>3, <2>4, <3>2 DEF Gather
    <3> QED BY <3>1, <3>2
  <2>7. buffer' \in Seq(Program)
    BY <1>2, GatheredProperties DEF Gather
  <2>8. LocalTypes'
    BY <1>2, <2>6, <2>7 DEF Gather, LocalTypes
  <2>9. RoundShape' /\ RoundBarrier'
    BY <1>1, <1>2 DEF Gather, RoundShape, RoundBarrier
  <2> QED BY <1>1, <2>8, <2>9
<1>3. CASE ThrowAnswer
  BY <1>1, <1>3 DEF ThrowAnswer, search, LocalTypes, RoundShape, RoundBarrier
<1> QED BY <1>2, <1>3

\* buffer dealt out at a place: what comes behind it, and what comes before.
DealtAt(rest, behind, before) ==
  /\ \A p \in Elems(behind) : \E k \in (rest + 1)..Len(buffer) : p = buffer[k]
  /\ \A p \in Elems(before) : \E k \in 1..rest : p = buffer[k]

\* What prepare_next_round() makes of buffer: two sequences of programs, with
\* all of its members between them, dealt out at one place; only an empty
\* buffer leaves nothing for the next round.
LEMMA PreparedProperties ==
  ASSUME SearchInv, PrepareNextRound
  PROVE  /\ this_round' \in Seq(Program) /\ buffer' \in Seq(Program)
         /\ Elems(buffer) \subseteq Elems(this_round') \cup Elems(buffer')
         /\ \E rest \in 0..Len(buffer) : DealtAt(rest, this_round', buffer')
         /\ this_round' = <<>> => buffer' = <<>>
<1> DEFINE room == batch_size \div explore_rate
           n == IF Len(buffer) <= room THEN Len(buffer) ELSE room
           rest == Len(buffer) - n
           back == SubSeq(buffer, rest + 1, Len(buffer))
           front == SubSeq(buffer, 1, rest)
<1>1. buffer \in Seq(Program) /\ Len(buffer) \in Nat /\ DOMAIN buffer = 1..Len(buffer)
  BY SearchInvSplit, LenProperties DEF LocalTypes
<1>2. room \in Nat \ {0}
  <2>1. /\ batch_size \in Nat /\ explore_rate \in Nat /\ explore_rate > 0
        /\ explore_rate <= batch_size
    BY SearchAssumption
  <2> QED BY <2>1, Z3
<1>3. rest \in 0..Len(buffer)
  BY <1>1, <1>2
<1>0. rest = Len(buffer) => Len(buffer) = 0
  BY <1>1, <1>2
<1>4. this_round' = Reverse(back) /\ buffer' = front
  BY DEF PrepareNextRound
<1> HIDE DEF rest
<1>5. \A k \in 1..Len(buffer) : buffer[k] \in Program
  BY <1>1, ElementOfSeq
<1>6. /\ front \in Seq(Program) /\ Len(front) = rest
      /\ \A k \in 1..rest : front[k] = buffer[k]
  <2>1. \A k \in 1..rest : buffer[k] \in Program
    BY <1>1, <1>3, <1>5
  <2>2. front \in Seq(Program) /\ Len(front) = (IF 1 <= rest THEN rest - 1 + 1 ELSE 0)
        /\ \A k \in 1..(rest - 1 + 1) : front[k] = buffer[1 + k - 1]
    BY <1>1, <1>3, <2>1, SubSeqProperties
  <2> QED BY <1>3, <2>2
<1>7. /\ back \in Seq(Program) /\ Len(back) = Len(buffer) - rest
      /\ \A k \in 1..(Len(buffer) - rest) : back[k] = buffer[rest + k]
  <2>1. \A k \in (rest + 1)..Len(buffer) : buffer[k] \in Program
    BY <1>1, <1>3, <1>5
  <2>2. /\ back \in Seq(Program)
        /\ Len(back) = (IF rest + 1 <= Len(buffer)
                          THEN Len(buffer) - (rest + 1) + 1 ELSE 0)
        /\ \A k \in 1..(Len(buffer) - (rest + 1) + 1) :
             back[k] = buffer[(rest + 1) + k - 1]
    BY <1>1, <1>3, <2>1, SubSeqProperties
  <2>3. Len(back) = Len(buffer) - rest
    <3>1. rest \in Int /\ Len(buffer) \in Int
          /\ (rest + 1 <= Len(buffer) \/ rest = Len(buffer))
      <4> DEFINE length == Len(buffer)
      <4>1. length \in Nat /\ rest \in 0..length
        BY <1>1, <1>3
      <4> HIDE DEF length
      <4>2. rest \in Int /\ length \in Int /\ (rest + 1 <= length \/ rest = length)
        BY <4>1
      <4> QED BY <4>2 DEF length
    <3>2. CASE rest + 1 <= Len(buffer)
      <4>1. Len(back) = Len(buffer) - (rest + 1) + 1
        BY <2>2, <3>2, Zenon
      <4> HIDE DEF back
      <4> QED BY <3>1, <4>1
    <3>3. CASE rest = Len(buffer)
      <4>1. ~(rest + 1 <= Len(buffer)) /\ Len(buffer) - rest = 0
        BY <3>1, <3>3
      <4> QED BY <2>2, <4>1, Zenon
    <3> QED BY <3>1, <3>2, <3>3
  <2>4. ASSUME NEW k \in 1..(Len(buffer) - rest) PROVE back[k] = buffer[rest + k]
    <3> HIDE DEF back
    <3>1. k \in 1..(Len(buffer) - (rest + 1) + 1) /\ (rest + 1) + k - 1 = rest + k
      BY <1>1, <1>3
    <3> QED BY <2>2, <3>1
  <2> QED BY <2>2, <2>3, <2>4
<1> HIDE DEF back, front
<1>8. /\ Reverse(back) \in Seq(Program) /\ DOMAIN Reverse(back) = 1..Len(back)
      /\ \A k \in 1..Len(back) : Reverse(back)[k] = back[Len(back) - k + 1]
  <2>1. Len(back) \in Nat /\ \A k \in 1..Len(back) : back[k] \in Program
    BY <1>7, ElementOfSeq, LenProperties
  <2>2. Reverse(back) = [k \in 1..Len(back) |-> back[(Len(back) - k) + 1]]
    BY DEF Reverse
  <2>3. \A k \in 1..Len(back) : back[(Len(back) - k) + 1] \in Program
    BY <2>1
  <2> QED BY <2>1, <2>2, <2>3
<1>9. ASSUME NEW k \in 1..Len(buffer) PROVE buffer[k] \in Elems(Reverse(back)) \cup Elems(front)
  <2>1. CASE k <= rest
    <3>1. k \in 1..rest /\ DOMAIN front = 1..rest
      BY <1>3, <1>6, <2>1, LenProperties
    <3> QED BY <1>6, <3>1 DEF Elems
  <2>2. CASE ~(k <= rest)
    <3> DEFINE l == Len(back) - (k - rest) + 1
    <3>1. l \in 1..Len(back) /\ Len(back) - l + 1 = k - rest
          /\ k - rest \in 1..(Len(buffer) - rest) /\ rest + (k - rest) = k
      BY <1>1, <1>3, <1>7, <2>2
    <3>2. Reverse(back)[l] = buffer[k]
      BY <1>7, <1>8, <3>1
    <3> QED BY <1>8, <3>1, <3>2 DEF Elems
  <2> QED BY <2>1, <2>2
<1>10. DealtAt(rest, Reverse(back), front)
  <2>1. ASSUME NEW k \in 1..Len(back)
        PROVE  \E l \in (rest + 1)..Len(buffer) : Reverse(back)[k] = buffer[l]
    <3> DEFINE l == rest + (Len(back) - k + 1)
    <3>1. /\ Len(back) - k + 1 \in 1..(Len(buffer) - rest)
          /\ l \in (rest + 1)..Len(buffer)
      BY <1>1, <1>3, <1>7
    <3>2. Reverse(back)[k] = buffer[l]
      BY <1>7, <1>8, <3>1
    <3> QED BY <3>1, <3>2
  <2>2. DOMAIN front = 1..rest
    BY <1>6, LenProperties
  <2>3. \A p \in Elems(Reverse(back)) : \E l \in (rest + 1)..Len(buffer) : p = buffer[l]
    BY <1>8, <2>1 DEF Elems
  <2>4. \A p \in Elems(front) : \E k \in 1..rest : p = buffer[k]
    BY <1>6, <2>2 DEF Elems
  <2> QED BY <2>3, <2>4, Zenon DEF DealtAt
<1>11. Reverse(back) = <<>> => front = <<>>
  <2>1. ASSUME Reverse(back) = <<>> PROVE rest = Len(buffer)
    <3>1. Len(back) \in Nat /\ DOMAIN Reverse(back) = {}
      BY <1>7, <2>1, LenProperties
    <3>2. Len(back) = 0
      BY <1>8, <3>1
    <3>3. rest \in Int /\ Len(buffer) \in Int /\ Len(back) = Len(buffer) - rest
      BY <1>1, <1>3, <1>7
    <3> HIDE DEF back
    <3> QED BY <3>2, <3>3
  <2>2. rest = Len(buffer) => front = <<>>
    BY <1>0, <1>6, EmptySeq
  <2> QED BY <2>1, <2>2
<1> QED BY <1>1, <1>3, <1>4, <1>6, <1>8, <1>9, <1>10, <1>11 DEF Elems

\* prepare_next_round() and the throws in it.
LEMMA StepPrepare ==
  ASSUME SearchInv, GiveUp \/ PrepareNextRound
  PROVE  SearchInv'
<1> USE SearchInvSplit DEF At
<1>1. QueueInv' /\ (InPool \subseteq {Idle} => InPool' \subseteq {Idle})
  BY PoolUntouched DEF GiveUp, PrepareNextRound
<1>2. CASE GiveUp
  <2>1. answer' \in Seq(Program)
    BY <1>2, ConcatProperties DEF GiveUp, LocalTypes
  <2> QED BY <1>1, <1>2, <2>1 DEF GiveUp, LocalTypes, RoundShape, RoundBarrier
<1>3. CASE PrepareNextRound
  <2>1. this_round' \in Seq(Program) /\ buffer' \in Seq(Program)
    BY <1>3, PreparedProperties
  <2>2. /\ mpc = "prepare" /\ mpc' = "loop"
        /\ UNCHANGED <<queues, alive, answer, pending_answer, i, tmp, counter,
                       search_counter, msg, visited, kept, explored>>
    BY <1>3 DEF PrepareNextRound
  <2>3. LocalTypes'
    BY <2>1, <2>2 DEF LocalTypes
  <2> QED BY <1>1, <2>2, <2>3 DEF RoundShape, RoundBarrier
<1> QED BY <1>2, <1>3

-----------------------------------------------------------------------------
(* The steps of the master that send and collect. *)

\* The places of the code at which the pool may be at work.
Working == mpc \in {"explore", "submit", "finish", "insert", "test"}

\* do_filter() in the loop over tmp.
LEMMA StepDoFilter ==
  ASSUME SearchInv, DoFilter
  PROVE  SearchInv'
<1> USE SearchInvSplit DEF At
<1>1. /\ tmp \in Seq(Program) /\ tmp # <<>> /\ mpc = "submit"
      /\ pending_tasks \in Seq(Mailbox) /\ search_counter \in 0..OverBudget
  BY DEF DoFilter, LocalTypes, RoundShape, QueueInv, QueuesTypeOK
<1>2. Head(tmp) \in Program /\ Tail(tmp) \in Seq(Program)
  BY <1>1, HeadTailProperties
<1>3. FilterTask(Head(tmp)) \in Mailbox
  BY <1>2, TasksAreMessages
<1>4. QueueInv'
  BY <1>3, QueueInvDoTask DEF DoFilter
<1>6. search_counter' \in 0..OverBudget
  BY <1>1, SearchAssumption DEF DoFilter, OverBudget
<1>7. LocalTypes'
  BY <1>2, <1>6 DEF DoFilter, LocalTypes
<1>8. RoundShape' /\ RoundBarrier'
  BY <1>1 DEF DoFilter, RoundShape, RoundBarrier
<1> QED BY <1>4, <1>7, <1>8

\* check_redundancy() up to the insertion into visited.
LEMMA StepCheckRedundancy ==
  ASSUME SearchInv, NEW m \in Mailbox, CheckRedundancy(m)
  PROVE  SearchInv'
<1> USE SearchInvSplit DEF At
<1>1. m.candidate \in Program
  BY SearchAssumption DEF Message
<1>2. QueueInv'
  BY QueueInvFindFinished DEF CheckRedundancy, FindFinished, QueueInv, QueuesTypeOK
<1>3. LocalTypes'
  BY <1>1 DEF CheckRedundancy, LocalTypes
<1>4. RoundShape' /\ RoundBarrier'
  BY DEF CheckRedundancy, RoundShape, RoundBarrier
<1> QED BY <1>2, <1>3, <1>4

\* The rest of check_redundancy(): visited, and do_accept().
LEMMA StepDoAccept ==
  ASSUME SearchInv, DoAccept
  PROVE  SearchInv'
<1> USE SearchInvSplit DEF At
<1>1. msg \in Program /\ pending_tasks \in Seq(Mailbox)
  BY DEF LocalTypes, QueueInv, QueuesTypeOK
<1>2. AcceptTask(msg) \in Mailbox
  BY <1>1, TasksAreMessages
<1>3. QueueInv'
  BY <1>2, QueueInvDoTask DEF DoAccept
<1>5. LocalTypes'
  BY <1>1 DEF DoAccept, LocalTypes
<1>6. RoundShape' /\ RoundBarrier'
  BY DEF DoAccept, RoundShape, RoundBarrier
<1> QED BY <1>3, <1>5, <1>6

\* check_accept().
LEMMA StepCheckAccept ==
  ASSUME SearchInv, NEW m \in Mailbox, CheckAccept(m)
  PROVE  SearchInv'
<1> USE SearchInvSplit DEF At
<1>1. /\ m.candidate \in Program /\ mpc = "finish"
      /\ this_round \in Seq(Program) /\ pending_answer \in Seq(Program)
      /\ i \in Nat /\ i <= Len(this_round) + 1
  BY SearchAssumption DEF Message, CheckAccept, LocalTypes, RoundShape
<1>2. QueueInv'
  BY QueueInvFindFinished DEF CheckAccept, FindFinished, QueueInv, QueuesTypeOK
<1>3. /\ Append(this_round, m.candidate) \in Seq(Program)
      /\ Append(pending_answer, m.candidate) \in Seq(Program)
      /\ i <= Len(Append(this_round, m.candidate)) + 1
  <2>1. /\ Append(this_round, m.candidate) \in Seq(Program)
        /\ Append(pending_answer, m.candidate) \in Seq(Program)
        /\ Len(Append(this_round, m.candidate)) = Len(this_round) + 1
    BY <1>1
  <2>2. Len(this_round) \in Nat
    BY <1>1, LenProperties
  <2> QED BY <1>1, <2>1, <2>2
<1>4. LocalTypes'
  BY <1>1, <1>3 DEF CheckAccept, LocalTypes
<1>5. RoundShape' /\ RoundBarrier'
  BY <1>1, <1>3 DEF CheckAccept, RoundShape, RoundBarrier
<1> QED BY <1>2, <1>4, <1>5

-----------------------------------------------------------------------------
(* The steps of the workers. *)

\* A worker finds work only while the master waits for it: this is what keeps
\* the pool empty behind the barrier.
LEMMA WorkerWorking ==
  ASSUME SearchInv, NEW w \in Worker, TakeTask(w) \/ hand[w] \in Mailbox
  PROVE  Working
<1> USE SearchInvSplit
<1> SUFFICES ASSUME InPool \subseteq {Idle} PROVE FALSE
  BY DEF LocalTypes, RoundBarrier, Working
<1>1. Idle \notin Mailbox
  BY QueuesAssumption
<1>2. CASE TakeTask(w)
  <2>1. pending_tasks \in Seq(Mailbox) /\ pending_tasks # <<>>
    BY <1>2 DEF TakeTask, QueueInv, QueuesTypeOK
  <2>2. Len(pending_tasks) \in Nat \ {0} /\ DOMAIN pending_tasks = 1..Len(pending_tasks)
    BY <2>1, EmptySeq, LenProperties
  <2>3. pending_tasks[1] \in Mailbox
    BY <2>1, <2>2, ElementOfSeq
  <2>4. pending_tasks[1] \in InPool
    BY <2>2 DEF InPool, Elems
  <2> QED BY <1>1, <2>3, <2>4
<1>3. CASE hand[w] \in Mailbox
  BY <1>1, <1>3 DEF InPool
<1> QED BY <1>2, <1>3

\* What a worker's step has to show.
LEMMA WorkerStep ==
  ASSUME SearchInv, NEW w \in Worker, TakeTask(w) \/ hand[w] \in Mailbox,
         UNCHANGED <<mpc, search>>, alive' \in BOOLEAN, QueueInv'
  PROVE  SearchInv'
<1> USE SearchInvSplit
<1>1. Working
  BY WorkerWorking
<1>2. LocalTypes'
  BY DEF LocalTypes, search
<1>3. RoundShape' /\ RoundBarrier'
  BY <1>1 DEF Working, RoundShape, RoundBarrier, search
<1> QED BY <1>2, <1>3

\* A worker's turn.
LEMMA StepWorker ==
  ASSUME SearchInv, NEW w \in Worker, Take(w) \/ Process(w) \/ Finish(w) \/ Fail(w)
  PROVE  SearchInv'
<1>0. /\ QueueInv /\ alive \in BOOLEAN
      /\ pending_tasks \in Seq(Mailbox) /\ hand \in [Worker -> Mailbox \cup {Idle}]
  BY SearchInvSplit DEF LocalTypes, QueueInv, QueuesTypeOK
<1>1. CASE Take(w)
  <2>1. pending_tasks # <<>> /\ Head(pending_tasks) \in Mailbox
        /\ Tail(pending_tasks) \in Seq(Mailbox)
    BY <1>0, <1>1, HeadTailProperties DEF Take, TakeTask
  <2>2. QueueInv'
    BY <1>0, <1>1, QueueInvTake DEF Take
  <2>4. TakeTask(w) /\ UNCHANGED <<mpc, search>> /\ alive' \in BOOLEAN
    BY <1>0, <1>1 DEF Take
  <2> QED BY <2>2, <2>4, WorkerStep
<1>2. CASE Process(w)
  <2>1. PICK good \in Verdict(hand[w]) :
          hand' = [hand EXCEPT ![w].good = IF good THEN "yes" ELSE "no"]
    BY <1>2 DEF Process
  <2> DEFINE m == [hand[w] EXCEPT !.good = IF good THEN "yes" ELSE "no"]
  <2>2. m \in Mailbox /\ hand' = [hand EXCEPT ![w] = m] /\ hand[w] \in Mailbox
    BY <1>2, <2>1, SearchAssumption DEF Process, Message
  <2> HIDE DEF m
  <2>3. QueueInv'
    BY <1>0, <1>2, <2>2, QueueInvProcess DEF Process
  <2>5. UNCHANGED <<mpc, search>> /\ alive' \in BOOLEAN
    BY <1>0, <1>2 DEF Process
  <2> QED BY <2>2, <2>3, <2>5, WorkerStep
<1>3. CASE Finish(w)
  <2>1. hand[w] \in Mailbox /\ PutResult(w, hand[w])
    BY <1>3 DEF Finish
  <2>2. QueueInv'
    BY <1>0, <2>1, QueueInvPut
  <2>4. UNCHANGED <<mpc, search>> /\ alive' \in BOOLEAN
    BY <1>0, <1>3 DEF Finish
  <2> QED BY <2>1, <2>2, <2>4, WorkerStep
<1>4. CASE Fail(w)
  <2>1. hand[w] \in Mailbox /\ UNCHANGED <<mpc, search>> /\ alive' \in BOOLEAN
    BY <1>4 DEF Fail
  <2>2. QueueInv'
    BY <1>4, PoolUntouched DEF Fail
  <2> QED BY <2>1, <2>2, WorkerStep
<1> QED BY <1>1, <1>2, <1>3, <1>4

-----------------------------------------------------------------------------
(* The theorems. *)

\* Every step keeps the invariant.
LEMMA SearchStep ==
  ASSUME SearchInv, [Next]_vars
  PROVE  SearchInv'
<1>1. CASE UNCHANGED vars
  <2>1. UNCHANGED <<queues, mpc, alive, search>>
    BY <1>1 DEF vars
  <2>2. QueueInv' /\ (InPool \subseteq {Idle} => InPool' \subseteq {Idle})
    BY <2>1, PoolUntouched
  <2> QED BY <2>1, <2>2, SearchInvSplit DEF search, LocalTypes, RoundShape, RoundBarrier
<1>2. CASE Master
  <2>1. CASE FinishTasks
    BY <2>1, StepCheckRedundancy, StepCheckAccept DEF FinishTasks
  <2>2. CASE DoFilter \/ DoAccept \/ ExploreNew \/ TestRound
    BY <2>2, StepDoFilter, StepDoAccept, StepExplore, StepTest
  <2>3. CASE NewRound \/ Exhausted \/ SkipExplore \/ NothingFinished
    BY <2>3, StepRoundStart
  <2>4. CASE Gather \/ ThrowAnswer
    BY <2>4, StepGather
  <2>5. CASE GiveUp \/ PrepareNextRound
    BY <2>5, StepPrepare
  <2> QED BY <1>2, <2>1, <2>2, <2>3, <2>4, <2>5 DEF Master
<1>3. CASE \E w \in Worker : Take(w) \/ Process(w) \/ Finish(w) \/ Fail(w)
  BY <1>3, StepWorker
<1> QED BY <1>1, <1>2, <1>3 DEF Next

\* The invariant holds in every reachable state.
LEMMA SearchInvInductive == Spec => []SearchInv
<1>1. Init => SearchInv
  BY SearchInvInit
<1>2. SearchInv /\ [Next]_vars => SearchInv'
  BY SearchStep
<1> QED BY <1>1, <1>2, PTL DEF Spec

\* Every reachable state of the search has the types its variables are
\* declared with, and the pool's counter never leaves its range.
THEOREM SearchTypeCorrect == Spec => []TypeOK
<1>1. SearchInv => TypeOK
  BY DEF SearchInv
<1> QED BY <1>1, SearchInvInductive, PTL

\* The barrier between the rounds: whenever the master is past the end of
\* run_this_round(), no worker holds, and no queue keeps, a mailbox; so the
\* unlocked work of gather_candidates() and prepare_next_round() on the trees,
\* and the return of the answer, race with nothing.
THEOREM RoundsAreBarriers == Spec => []RoundBarrier
<1>1. SearchInv => RoundBarrier
  BY DEF SearchInv
<1> QED BY <1>1, SearchInvInductive, PTL

-----------------------------------------------------------------------------
(* No candidate is lost: the moves of the programs between this_round and  *)
(* buffer, over all rounds.                                                *)

Passed(p) == p \in explored \/ Complexity[p] >= MaxComplexity

\* Why NoCandidateLost is kept: in a round, done tells which programs of
\* this_round have been explored, so what gather_candidates() leaves behind has
\* been; and once it has run, buffer alone holds all the rest.
KeptInv ==
  /\ Working \/ mpc = "gather" => \A k \in 1..(i - 1) : this_round[k] \in explored
  /\ NoCandidateLost
  /\ mpc \in {"drain", "prepare"} => \A p \in kept : Passed(p) \/ p \in Elems(buffer)

\* NoCandidateLost, in the words of KeptInv.
LEMMA LostMeans ==
  NoCandidateLost <=>
    (mpc # "return" =>
       \A p \in kept : Passed(p) \/ p \in Elems(this_round) \/ p \in Elems(buffer))
BY DEF NoCandidateLost, Passed

\* At the start, this_round is all there is.
LEMMA KeptInit == Init => KeptInv
BY DEF Init, KeptInv, NoCandidateLost, Working

\* The steps that move no program and explore none.
LEMMA KeptSame ==
  ASSUME SearchInv, KeptInv,
         UNCHANGED <<this_round, buffer, i, kept, explored>>,
         \/ mpc' = mpc
         \/ mpc' = "return"
         \/ Working /\ (Working' \/ mpc' = "gather")
  PROVE  KeptInv'
<1>1. (Working' \/ mpc' = "gather") => Working \/ mpc = "gather"
  BY DEF Working
<1>2. mpc' # "return" => mpc # "return"
  BY DEF Working
<1>3. mpc' \in {"drain", "prepare"} => mpc \in {"drain", "prepare"}
  BY DEF Working
<1> QED BY <1>1, <1>2, <1>3 DEF KeptInv, NoCandidateLost, Passed, Elems

\* A new round has explored nothing yet.
LEMMA KeptNewRound ==
  ASSUME SearchInv, KeptInv, NewRound
  PROVE  KeptInv'
BY DEF NewRound, At, KeptInv, NoCandidateLost, Working, Passed, Elems

\* explore_new() explores the program done points at.
LEMMA KeptExplore ==
  ASSUME SearchInv, KeptInv, ExploreNew
  PROVE  KeptInv'
<1>1. i \in Nat \ {0} /\ i' = i + 1 /\ mpc = "explore"
  BY SearchInvSplit DEF ExploreNew, At, LocalTypes
<1>2. /\ explored' = explored \cup {this_round[i]}
      /\ UNCHANGED <<this_round, buffer, kept>> /\ mpc' \in {"finish", "submit"}
  BY DEF ExploreNew
<1>3. \A k \in 1..(i' - 1) : this_round'[k] \in explored'
  <2>1. \A k \in 1..(i - 1) : this_round[k] \in explored
    BY <1>1 DEF KeptInv, Working
  <2>2. \A k \in 1..(i' - 1) : k \in 1..(i - 1) \/ k = i
    BY <1>1
  <2> QED BY <1>2, <2>1, <2>2
<1>4. NoCandidateLost'
  BY <1>1, <1>2 DEF KeptInv, NoCandidateLost, Elems
<1> QED BY <1>2, <1>3, <1>4 DEF KeptInv

\* check_accept() adds a program to this_round, behind the explored ones.
LEMMA KeptAccept ==
  ASSUME SearchInv, KeptInv, NEW m \in Mailbox, CheckAccept(m)
  PROVE  KeptInv'
<1>1. /\ m.candidate \in Program /\ mpc = "finish" /\ mpc' = "finish"
      /\ this_round \in Seq(Program) /\ Len(this_round) \in Nat
      /\ i \in Nat /\ i <= Len(this_round) + 1 /\ UNCHANGED <<i, explored, buffer>>
  BY SearchInvSplit, SearchAssumption, LenProperties
     DEF Message, CheckAccept, At, LocalTypes, RoundShape
<1>2. CASE UNCHANGED <<this_round, kept>>
  BY <1>1, <1>2, KeptSame
<1>3. CASE /\ this_round' = Append(this_round, m.candidate)
           /\ kept' = kept \cup {m.candidate}
  <2> DEFINE longer == Append(this_round, m.candidate)
  <2>1. /\ Len(longer) = Len(this_round) + 1 /\ DOMAIN longer = 1..(Len(this_round) + 1)
        /\ longer[Len(this_round) + 1] = m.candidate
        /\ \A k \in 1..Len(this_round) : longer[k] = this_round[k]
        /\ DOMAIN this_round = 1..Len(this_round)
    BY <1>1, LenProperties
  <2> HIDE DEF longer
  <2>2. Elems(longer) = Elems(this_round) \cup {m.candidate}
    BY <1>1, <2>1 DEF Elems
  <2>3. \A k \in 1..(i - 1) : longer[k] \in explored
    BY <1>1, <2>1 DEF KeptInv, Working
  <2>4. this_round' = longer /\ Elems(this_round') = Elems(longer)
    BY <1>3 DEF longer
  <2>5. NoCandidateLost'
    <3>1. \A p \in kept' : Passed(p) \/ p \in Elems(longer) \/ p \in Elems(buffer)
      BY <1>1, <1>3, <2>2, LostMeans DEF KeptInv
    <3> QED BY <1>1, <2>4, <3>1 DEF NoCandidateLost, Passed, Elems
  <2> QED BY <1>1, <2>3, <2>4, <2>5 DEF KeptInv
<1> QED BY <1>2, <1>3 DEF CheckAccept

\* gather_candidates(): what it leaves behind is explored or too complex.
LEMMA KeptGather ==
  ASSUME SearchInv, KeptInv, Gather
  PROVE  KeptInv'
<1> DEFINE new == SubSeq(this_round, i, Len(this_round))
<1>1. /\ this_round \in Seq(Program) /\ Len(this_round) \in Nat
      /\ DOMAIN this_round = 1..Len(this_round)
      /\ i \in Nat \ {0} /\ mpc = "gather"
  BY SearchInvSplit, LenProperties DEF LocalTypes, Gather, At
<1>2. /\ buffer' = Gathered /\ mpc' \in {"drain", "prepare"}
      /\ UNCHANGED <<this_round, i, kept, explored>>
  BY DEF Gather
<1>3. ASSUME NEW k \in 1..Len(this_round), ~(k \in 1..(i - 1))
      PROVE  this_round[k] \in Elems(new)
  <2>1. \A l \in i..Len(this_round) : this_round[l] \in Program
    BY <1>1, ElementOfSeq
  <2>2. /\ new \in Seq(Program)
        /\ Len(new) = (IF i <= Len(this_round) THEN Len(this_round) - i + 1 ELSE 0)
        /\ \A l \in 1..(Len(this_round) - i + 1) : new[l] = this_round[i + l - 1]
    BY <1>1, <2>1, SubSeqProperties
  <2> HIDE DEF new
  <2>3. DOMAIN new = 1..Len(new)
    BY <2>2, LenProperties
  <2> DEFINE l == k - i + 1
  <2>4. i <= Len(this_round) /\ l \in 1..(Len(this_round) - i + 1) /\ i + l - 1 = k
    BY <1>1, <1>3
  <2> HIDE DEF l
  <2>5. l \in DOMAIN new /\ new[l] = this_round[k]
    BY <2>2, <2>3, <2>4
  <2> QED BY <2>5 DEF Elems
<1>4. ASSUME NEW p \in kept, ~Passed(p) PROVE p \in Elems(buffer')
  <2>1. p \in Program /\ Complexity[p] < MaxComplexity
    <3>1. p \in Program /\ Complexity[p] \in Int /\ MaxComplexity \in Int
      BY SearchInvSplit, SearchAssumption DEF LocalTypes, MaxComplexity
    <3> QED BY <1>4, <3>1 DEF Passed
  <2>2. p \in Elems(this_round) \/ p \in Elems(buffer)
    BY <1>1, <1>4, LostMeans DEF KeptInv
  <2>3. ASSUME p \in Elems(this_round) PROVE p \in Elems(new)
    <3>1. PICK k \in 1..Len(this_round) : p = this_round[k]
      BY <1>1, <2>3 DEF Elems
    <3>2. ~(k \in 1..(i - 1))
      BY <1>1, <1>4, <3>1 DEF KeptInv, Passed
    <3> QED BY <1>3, <3>1, <3>2
  <2>4. p \in Elems(Gathered)
    BY <1>1, <2>1, <2>2, <2>3, GatheredProperties
  <2> QED BY <1>2, <2>4
<1>5. ~Working' /\ mpc' # "gather"
  BY <1>2 DEF Working
<1>6. \A p \in kept' : Passed(p)' \/ p \in Elems(buffer')
  BY <1>2, <1>4 DEF Passed
<1> QED BY <1>2, <1>5, <1>6 DEF KeptInv, NoCandidateLost, Passed, Elems

\* prepare_next_round() deals buffer out.
LEMMA KeptPrepare ==
  ASSUME SearchInv, KeptInv, PrepareNextRound
  PROVE  KeptInv'
<1>1. /\ Elems(buffer) \subseteq Elems(this_round') \cup Elems(buffer')
      /\ mpc = "prepare" /\ mpc' = "loop" /\ UNCHANGED <<kept, explored>>
  BY PreparedProperties DEF PrepareNextRound, At
<1>2. \A p \in kept : Passed(p) \/ p \in Elems(buffer)
  BY <1>1 DEF KeptInv
<1>3. \A p \in kept' : Passed(p)' \/ p \in Elems(this_round') \/ p \in Elems(buffer')
  BY <1>1, <1>2 DEF Passed
<1> QED BY <1>1, <1>3 DEF KeptInv, NoCandidateLost, Working, Passed, Elems

\* Every step keeps KeptInv.
LEMMA KeptStep ==
  ASSUME SearchInv, KeptInv, [Next]_vars
  PROVE  KeptInv'
<1>1. CASE UNCHANGED vars
  BY <1>1, KeptSame DEF vars, search
<1>2. CASE Exhausted \/ SkipExplore \/ NothingFinished \/ TestRound
  BY <1>2, KeptSame
     DEF Exhausted, SkipExplore, NothingFinished, TestRound, At, search, Working
<1>3. CASE DoFilter \/ DoAccept
  BY <1>3, KeptSame DEF DoFilter, DoAccept, At, Working
<1>4. CASE FinishTasks
  <2>1. PICK m \in Mailbox : CheckRedundancy(m) \/ CheckAccept(m)
    BY <1>4 DEF FinishTasks
  <2>2. CASE CheckRedundancy(m)
    BY <2>2, KeptSame DEF CheckRedundancy, At, Working
  <2> QED BY <2>1, <2>2, KeptAccept
<1>5. CASE ThrowAnswer \/ GiveUp
  BY <1>5, KeptSame DEF ThrowAnswer, GiveUp, search
<1>6. CASE \E w \in Worker : Take(w) \/ Process(w) \/ Finish(w) \/ Fail(w)
  BY <1>6, KeptSame DEF Take, Process, Finish, Fail, search
<1>7. CASE NewRound \/ ExploreNew \/ Gather \/ PrepareNextRound
  BY <1>7, KeptNewRound, KeptExplore, KeptGather, KeptPrepare
<1> QED BY <1>1, <1>2, <1>3, <1>4, <1>5, <1>6, <1>7 DEF Next, Master

\* A program that the oracle accepted with a hole left is explored, waits to be,
\* or is above the complexity bound, as long as the search goes on.
THEOREM NothingLost == Spec => []NoCandidateLost
<1>1. Init => KeptInv
  BY KeptInit
<1>2. SearchInv /\ KeptInv /\ [Next]_vars => KeptInv'
  BY KeptStep
<1>3. KeptInv => NoCandidateLost
  BY DEF KeptInv
<1> QED BY <1>1, <1>2, <1>3, SearchInvInductive, PTL DEF Spec

-----------------------------------------------------------------------------
(* The answers are sound.                                                  *)

\* What a mailbox says is true, wherever in the pool it is.
Honest(m) ==
  /\ m.type = "FILTER" /\ m.good = "yes" => m.candidate \notin Redundant
  /\ m.type = "ACCEPT" => m.candidate \in visited \ Redundant
  /\ m.type = "ACCEPT" /\ m.good = "yes" => m.candidate \in Accepted

\* Why AnswersSound is kept: a program is sent to be accepted only after the
\* filter let it pass and it was entered in visited.
AnswerInv ==
  /\ \A m \in InPool : m \in Mailbox => Honest(m)
  /\ mpc = "insert" => msg \notin Redundant
  /\ AnswersSound

\* The pool is empty at first, and nothing is an answer.
LEMMA AnswerInit == Init => AnswerInv
<1> SUFFICES ASSUME Init PROVE AnswerInv
  OBVIOUS
<1>1. InPool \subseteq {Idle}
  BY DEF Init, QueuesInit, InPool, Elems
<1>2. answer = <<>> /\ pending_answer = <<>> /\ mpc = "loop"
  BY DEF Init
<1> QED BY <1>1, <1>2, QueuesAssumption DEF AnswerInv, AnswersSound, Elems

\* A step that adds at most one honest mailbox to the pool, forgets nothing of
\* visited and touches no answer.
LEMMA AnswerSame ==
  ASSUME AnswerInv, NEW x, InPool' \subseteq InPool \cup {x},
         x \in Mailbox => Honest(x)', visited \subseteq visited',
         UNCHANGED <<answer, pending_answer>>,
         mpc' = "insert" => msg' \notin Redundant
  PROVE  AnswerInv'
<1>1. \A m \in InPool : m \in Mailbox => Honest(m)'
  BY DEF AnswerInv, Honest
<1>2. AnswersSound'
  BY DEF AnswerInv, AnswersSound, Elems
<1> QED BY <1>1, <1>2 DEF AnswerInv

\* The entries of a queue before and after a push.
LEMMA PushedElems ==
  ASSUME NEW S, NEW q \in Seq(S), NEW e \in S
  PROVE  Elems(Append(q, e)) = Elems(q) \cup {e}
<1> DEFINE a == Append(q, e)
<1>1. /\ Len(a) = Len(q) + 1 /\ DOMAIN a = 1..(Len(q) + 1) /\ a[Len(q) + 1] = e
      /\ \A k \in 1..Len(q) : a[k] = q[k]
      /\ DOMAIN q = 1..Len(q) /\ Len(q) \in Nat
  BY LenProperties
<1> HIDE DEF a
<1>2. Elems(a) = Elems(q) \cup {e}
  <2>1. 1..(Len(q) + 1) = 1..Len(q) \cup {Len(q) + 1}
    BY <1>1
  <2> QED BY <1>1, <2>1 DEF Elems
<1> QED BY <1>2 DEF a

\* The entries of a queue before and after a pop.
LEMMA PoppedElems ==
  ASSUME NEW S, NEW q \in Seq(S), q # <<>>
  PROVE  Head(q) \in Elems(q) /\ Elems(Tail(q)) \subseteq Elems(q)
<1> DEFINE t == Tail(q)
<1>1. /\ t \in Seq(S) /\ Len(t) = Len(q) - 1 /\ \A k \in 1..Len(t) : t[k] = q[k + 1]
  BY HeadTailProperties
<1>2. /\ Len(q) \in Nat \ {0} /\ DOMAIN q = 1..Len(q) /\ Head(q) = q[1]
      /\ DOMAIN t = 1..Len(t)
  BY <1>1, EmptySeq, LenProperties
<1> HIDE DEF t
<1>3. \A k \in 1..Len(t) : k + 1 \in 1..Len(q) /\ t[k] = q[k + 1]
  BY <1>1, <1>2
<1>4. Elems(t) \subseteq Elems(q) /\ Head(q) \in Elems(q)
  BY <1>2, <1>3 DEF Elems
<1> QED BY <1>4 DEF t

\* A pop takes no other entry away.
LEMMA PoppedRest ==
  ASSUME NEW S, NEW q \in Seq(S), q # <<>>
  PROVE  Elems(q) \subseteq Elems(Tail(q)) \cup {Head(q)}
<1> DEFINE t == Tail(q)
<1>1. /\ t \in Seq(S) /\ Len(t) = Len(q) - 1 /\ \A k \in 1..Len(t) : t[k] = q[k + 1]
  BY HeadTailProperties
<1>2. /\ Len(q) \in Nat \ {0} /\ DOMAIN q = 1..Len(q) /\ Head(q) = q[1]
      /\ DOMAIN t = 1..Len(t)
  BY <1>1, EmptySeq, LenProperties
<1> HIDE DEF t
<1>3. ASSUME NEW k \in 1..Len(q) PROVE q[k] \in Elems(t) \cup {Head(q)}
  <2>1. CASE k = 1
    BY <1>2, <2>1
  <2>2. CASE k # 1
    <3> DEFINE l == k - 1
    <3>1. l \in 1..Len(t) /\ l + 1 = k
      BY <1>1, <1>2, <2>2
    <3>2. t[l] = q[k]
      BY <1>1, <3>1
    <3> QED BY <1>2, <3>1, <3>2 DEF Elems
  <2> QED BY <2>1, <2>2
<1>4. Elems(q) \subseteq Elems(t) \cup {Head(q)}
  BY <1>2, <1>3 DEF Elems
<1> QED BY <1>4 DEF t

\* What the master's and the workers' operations put into the pool.
LEMMA PoolEntries ==
  ASSUME SearchInv
  PROVE  /\ UNCHANGED queues => InPool' = InPool
         /\ \A m \in Mailbox : DoTask(m) => InPool' \subseteq InPool \cup {m}
         /\ \A m \in Mailbox :
              FindFinished(m) => m \in InPool /\ InPool' \subseteq InPool
         /\ \A w \in Worker : TakeTask(w) => InPool' \subseteq InPool
         /\ \A w \in Worker : \A m \in InPool \cap Mailbox :
              PutResult(w, m) => InPool' \subseteq InPool \cup {Idle}
<1>1. /\ pending_tasks \in Seq(Mailbox) /\ finished_tasks \in Seq(Mailbox)
      /\ hand \in [Worker -> Mailbox \cup {Idle}]
  BY SearchInvSplit DEF QueueInv, QueuesTypeOK
<1>2. UNCHANGED queues => InPool' = InPool
  BY DEF queues, InPool, Elems
<1>3. ASSUME NEW m \in Mailbox, DoTask(m) PROVE InPool' \subseteq InPool \cup {m}
  <2>1. /\ Elems(pending_tasks') = Elems(pending_tasks) \cup {m}
        /\ UNCHANGED <<finished_tasks, hand>>
    BY <1>1, <1>3, PushedElems DEF DoTask
  <2> QED BY <2>1 DEF InPool, Elems
<1>4. ASSUME NEW m \in Mailbox, FindFinished(m)
      PROVE  m \in InPool /\ InPool' \subseteq InPool
  <2>1. /\ m \in Elems(finished_tasks)
        /\ Elems(finished_tasks') \subseteq Elems(finished_tasks)
        /\ UNCHANGED <<pending_tasks, hand>>
    BY <1>1, <1>4, PoppedElems DEF FindFinished
  <2> QED BY <2>1 DEF InPool, Elems
<1>5. ASSUME NEW w \in Worker, TakeTask(w) PROVE InPool' \subseteq InPool
  <2>1. /\ Head(pending_tasks) \in Elems(pending_tasks)
        /\ Elems(pending_tasks') \subseteq Elems(pending_tasks)
        /\ hand' = [hand EXCEPT ![w] = Head(pending_tasks)]
        /\ UNCHANGED finished_tasks
    BY <1>1, <1>5, PoppedElems DEF TakeTask
  <2>2. \A v \in Worker : hand'[v] = hand[v] \/ hand'[v] = Head(pending_tasks)
    BY <1>1, <2>1
  <2> QED BY <2>1, <2>2 DEF InPool, Elems
<1>6. ASSUME NEW w \in Worker, NEW m \in InPool \cap Mailbox, PutResult(w, m)
      PROVE  InPool' \subseteq InPool \cup {Idle}
  <2>1. /\ Elems(finished_tasks') = Elems(finished_tasks) \cup {m}
        /\ hand' = [hand EXCEPT ![w] = Idle]
        /\ UNCHANGED pending_tasks
    BY <1>1, <1>6, PushedElems DEF PutResult
  <2>2. \A v \in Worker : hand'[v] = hand[v] \/ hand'[v] = Idle
    BY <1>1, <2>1
  <2> QED BY <2>1, <2>2 DEF InPool, Elems
<1> QED BY <1>2, <1>3, <1>4, <1>5, <1>6

\* The steps that leave the pool and the answers alone.
LEMMA AnswerQuiet ==
  ASSUME SearchInv, AnswerInv, UNCHANGED <<queues, answer, pending_answer, visited>>,
         mpc' = "insert" => mpc = "insert" /\ msg' = msg
  PROVE  AnswerInv'
<1>1. InPool' \subseteq InPool \cup {Idle}
  BY PoolEntries
<1> QED BY <1>1, AnswerSame, QueuesAssumption DEF AnswerInv

\* What is sent is honest, since it was found so.
LEMMA AnswerSend ==
  ASSUME SearchInv, AnswerInv, DoFilter \/ DoAccept
  PROVE  AnswerInv'
<1>1. CASE DoFilter
  <2> SUFFICES ASSUME NEW m, m = FilterTask(Head(tmp)) PROVE AnswerInv'
    OBVIOUS
  <2>1. m \in Mailbox
    <3>1. tmp \in Seq(Program) /\ tmp # <<>>
      BY <1>1, SearchInvSplit DEF DoFilter, At, LocalTypes, RoundShape
    <3> QED BY <3>1, HeadTailProperties, TasksAreMessages
  <2>2. Honest(m)'
    BY DEF FilterTask, Honest
  <2>3. DoTask(m)
    BY <1>1 DEF DoFilter
  <2>4. InPool' \subseteq InPool \cup {m}
    BY <2>1, <2>3, PoolEntries
  <2>5. UNCHANGED <<answer, pending_answer, visited>> /\ mpc' # "insert"
    BY <1>1 DEF DoFilter
  <2> QED BY <2>2, <2>4, <2>5, AnswerSame
<1>2. CASE DoAccept
  <2> SUFFICES ASSUME NEW m, m = AcceptTask(msg) PROVE AnswerInv'
    OBVIOUS
  <2>1. msg \in Program /\ mpc = "insert"
    BY <1>2, SearchInvSplit DEF LocalTypes, DoAccept, At
  <2>2. m \in Mailbox
    BY <2>1, TasksAreMessages
  <2>3. DoTask(m) /\ visited' = visited \cup {msg} /\ mpc' # "insert"
        /\ UNCHANGED <<answer, pending_answer, msg>>
    BY <1>2 DEF DoAccept
  <2>4. Honest(m)'
    BY <2>1, <2>3 DEF AcceptTask, Honest, AnswerInv
  <2>5. InPool' \subseteq InPool \cup {m}
    BY <2>2, <2>3, PoolEntries
  <2> QED BY <2>3, <2>4, <2>5, AnswerSame
<1> QED BY <1>1, <1>2

\* What is collected is believed.
LEMMA AnswerCollect ==
  ASSUME SearchInv, AnswerInv, NEW m \in Mailbox, CheckRedundancy(m) \/ CheckAccept(m)
  PROVE  AnswerInv'
<1>1. FindFinished(m) /\ visited' = visited /\ UNCHANGED answer
  BY DEF CheckRedundancy, CheckAccept
<1>2. m \in InPool /\ InPool' \subseteq InPool \cup {m} /\ Honest(m)
  BY <1>1, PoolEntries DEF AnswerInv
<1>3. Honest(m)'
  BY <1>1, <1>2 DEF Honest
<1>4. CASE CheckRedundancy(m)
  <2>1. UNCHANGED pending_answer /\ (mpc' = "insert" => msg' \notin Redundant)
    BY <1>2, <1>4 DEF CheckRedundancy, At, Honest
  <2> QED BY <1>1, <1>2, <1>3, <2>1, AnswerSame
<1>5. CASE CheckAccept(m) /\ UNCHANGED pending_answer
  <2>1. mpc' # "insert"
    BY <1>5 DEF CheckAccept, At
  <2> QED BY <1>1, <1>2, <1>3, <1>5, <2>1, AnswerSame
<1>6. CASE CheckAccept(m) /\ ~UNCHANGED pending_answer
  <2>1. /\ m.type = "ACCEPT" /\ m.good = "yes" /\ m.candidate \in Complete
        /\ pending_answer' = Append(pending_answer, m.candidate) /\ mpc' # "insert"
    BY <1>6 DEF CheckAccept, At
  <2>2. m.candidate \in Program /\ pending_answer \in Seq(Program)
    BY SearchInvSplit, SearchAssumption DEF Message, LocalTypes
  <2>3. Elems(pending_answer') = Elems(pending_answer) \cup {m.candidate}
    BY <2>1, <2>2, PushedElems
  <2>4. m.candidate \in (Complete \cap Accepted \cap visited) \ Redundant
    BY <1>2, <2>1 DEF Honest
  <2>5. Elems(answer') = Elems(answer)
    BY <1>1 DEF Elems
  <2>6. AnswersSound'
    BY <1>1, <2>3, <2>4, <2>5 DEF AnswerInv, AnswersSound
  <2>7. \A n \in InPool' : n \in Mailbox => Honest(n)'
    BY <1>1, <1>2, <1>3 DEF AnswerInv, Honest
  <2> QED BY <2>1, <2>6, <2>7 DEF AnswerInv
<1> QED BY <1>4, <1>5, <1>6

\* The members of a concatenation and of a prefix.
LEMMA JoinedElems ==
  ASSUME NEW S, NEW q \in Seq(S), NEW r \in Seq(S)
  PROVE  Elems(q \o r) \subseteq Elems(q) \cup Elems(r)
<1> DEFINE a == q \o r
<1>1. /\ a \in Seq(S) /\ Len(a) = Len(q) + Len(r) /\ Len(q) \in Nat /\ Len(r) \in Nat
      /\ \A k \in 1..Len(a) : a[k] = IF k <= Len(q) THEN q[k] ELSE r[k - Len(q)]
  BY ConcatProperties, LenProperties
<1>2. /\ DOMAIN a = 1..Len(a) /\ DOMAIN q = 1..Len(q) /\ DOMAIN r = 1..Len(r)
  BY <1>1, LenProperties
<1> HIDE DEF a
<1>3. ASSUME NEW k \in 1..Len(a) PROVE a[k] \in Elems(q) \cup Elems(r)
  <2>1. CASE k <= Len(q)
    <3>1. k \in 1..Len(q) /\ a[k] = q[k]
      BY <1>1, <2>1
    <3> QED BY <1>2, <3>1 DEF Elems
  <2>2. CASE ~(k <= Len(q))
    <3>1. k - Len(q) \in 1..Len(r) /\ a[k] = r[k - Len(q)]
      BY <1>1, <2>2
    <3> QED BY <1>2, <3>1 DEF Elems
  <2> QED BY <2>1, <2>2
<1>4. Elems(a) \subseteq Elems(q) \cup Elems(r)
  BY <1>2, <1>3 DEF Elems
<1> QED BY <1>4 DEF a

\* The answers gather_candidates() and prepare_next_round() make of the pending
\* ones are among them.
LEMMA AnswerPick ==
  ASSUME SearchInv, AnswerInv, Gather \/ GiveUp
  PROVE  AnswerInv'
<1> DEFINE good == (Complete \cap Accepted \cap visited) \ Redundant
<1>1. /\ answer \in Seq(Program) /\ pending_answer \in Seq(Program)
      /\ Elems(answer) \subseteq good /\ Elems(pending_answer) \subseteq good
      /\ UNCHANGED <<queues, visited>> /\ mpc' # "insert"
  BY SearchInvSplit DEF LocalTypes, AnswerInv, AnswersSound, Gather, GiveUp
<1>2. \A n \in InPool' : n \in Mailbox => Honest(n)'
  BY <1>1, PoolEntries DEF AnswerInv, Honest
<1>3. Elems(answer') \subseteq good /\ Elems(pending_answer') \subseteq good
  <2>1. CASE GiveUp
    <3>1. answer' = answer \o pending_answer /\ pending_answer' = pending_answer
      BY <2>1 DEF GiveUp
    <3>2. Elems(answer') \subseteq good
      BY <1>1, <3>1, JoinedElems
    <3> QED BY <1>1, <3>1, <3>2
  <2>2. CASE Gather
    <3> DEFINE ripe == Selected(pending_answer, Ripe)
               rest == Selected(pending_answer, DOMAIN pending_answer \ Ripe)
               found == answer \o ripe
    <3>1. Ripe \subseteq DOMAIN pending_answer
      BY DEF Ripe
    <3>2. /\ ripe \in Seq(Program) /\ Elems(ripe) = {pending_answer[k] : k \in Ripe}
          /\ rest \in Seq(Program)
          /\ Elems(rest) = {pending_answer[k] : k \in DOMAIN pending_answer \ Ripe}
      BY <1>1, <3>1, SelectedType
    <3> HIDE DEF ripe, rest
    <3>3. Elems(ripe) \subseteq good /\ Elems(rest) \subseteq good
      <4> HIDE DEF good
      <4> QED BY <1>1, <3>1, <3>2 DEF Elems
    <3>4. Elems(found) \subseteq good /\ found \in Seq(Program)
      BY <1>1, <3>2, <3>3, JoinedElems, ConcatProperties
    <3> HIDE DEF found
    <3>5. CASE Len(found) >= answer_count
      <4> DEFINE t == SubSeq(found, 1, answer_count)
      <4>1. Len(found) \in Nat /\ DOMAIN found = 1..Len(found) /\ answer_count \in Nat
            /\ answer_count >= 1
        BY <3>4, LenProperties, SearchAssumption
      <4>2. \A k \in 1..answer_count : k \in 1..Len(found) /\ found[k] \in Program
        BY <3>4, <3>5, <4>1, ElementOfSeq
      <4>3. /\ t \in Seq(Program) /\ Len(t) = answer_count
            /\ \A k \in 1..answer_count : t[k] = found[k]
        <5>1. /\ t \in Seq(Program)
              /\ Len(t) = (IF 1 <= answer_count THEN answer_count - 1 + 1 ELSE 0)
              /\ \A k \in 1..(answer_count - 1 + 1) : t[k] = found[1 + k - 1]
          BY <4>1, <4>2, SubSeqProperties
        <5> HIDE DEF t
        <5> QED BY <4>1, <5>1
      <4> HIDE DEF t
      <4>4. DOMAIN t = 1..answer_count
        BY <4>3, LenProperties
      <4>5. Elems(t) \subseteq Elems(found)
        BY <4>1, <4>2, <4>3, <4>4 DEF Elems
      <4>6. answer' = t /\ pending_answer' = pending_answer
        BY <2>2, <3>5 DEF Gather, found, ripe, t
      <4> QED BY <1>1, <3>4, <4>5, <4>6
    <3>6. CASE ~(Len(found) >= answer_count)
      <4>1. answer' = found /\ pending_answer' = rest
        BY <2>2, <3>6 DEF Gather, found, ripe, rest
      <4> QED BY <3>3, <3>4, <4>1
    <3> QED BY <3>5, <3>6
  <2> QED BY <2>1, <2>2
<1>4. AnswersSound'
  BY <1>1, <1>3 DEF AnswersSound
<1> QED BY <1>1, <1>2, <1>4 DEF AnswerInv

\* A worker fills in its mailbox truthfully, whatever a stale lookup tells it.
LEMMA AnswerWorker ==
  ASSUME SearchInv, AnswerInv, NEW w \in Worker,
         Take(w) \/ Process(w) \/ Finish(w) \/ Fail(w)
  PROVE  AnswerInv'
<1>1. UNCHANGED <<mpc, msg, answer, pending_answer, visited>>
  BY DEF Take, Process, Finish, Fail, search
<1>2. mpc' = "insert" => msg' \notin Redundant
  BY <1>1 DEF AnswerInv
<1>3. CASE Take(w) \/ Finish(w) \/ Fail(w)
  <2>1. InPool' \subseteq InPool \cup {Idle}
    BY <1>3, PoolEntries DEF Take, Finish, Fail, InPool
  <2> QED BY <1>1, <1>2, <2>1, AnswerSame, QueuesAssumption
<1>4. CASE Process(w)
  <2>1. PICK good \in Verdict(hand[w]) :
          hand' = [hand EXCEPT ![w].good = IF good THEN "yes" ELSE "no"]
    BY <1>4 DEF Process
  <2> SUFFICES ASSUME NEW m, m = [hand[w] EXCEPT !.good = IF good THEN "yes" ELSE "no"]
               PROVE  AnswerInv'
    OBVIOUS
  <2>2. /\ hand[w] \in Mailbox /\ hand[w] \in InPool
        /\ UNCHANGED <<pending_tasks, finished_tasks>>
        /\ hand \in [Worker -> Mailbox \cup {Idle}]
    BY <1>4, SearchInvSplit DEF Process, InPool, QueueInv, QueuesTypeOK
  <2>3. /\ hand' = [hand EXCEPT ![w] = m]
        /\ m.type = hand[w].type /\ m.candidate = hand[w].candidate
        /\ m.type \in {"FILTER", "ACCEPT"}
        /\ m.good = "yes" => good
    BY <2>1, <2>2, SearchAssumption DEF Message
  <2>4. Honest(hand[w])
    BY <2>2 DEF AnswerInv
  <2>5. ASSUME m.good = "yes"
        PROVE  /\ m.type = "FILTER" => m.candidate \notin Redundant
               /\ m.type = "ACCEPT" => m.candidate \in Accepted
    <3>1. good \in Verdict(hand[w]) /\ good
      BY <2>3, <2>5
    <3> QED BY <2>3, <3>1 DEF Verdict
  <2>6. Honest(m)'
    BY <1>1, <2>3, <2>4, <2>5 DEF Honest
  <2>7. \A v \in Worker : hand'[v] = hand[v] \/ hand'[v] = m
    BY <2>2, <2>3
  <2>8. InPool' \subseteq InPool \cup {m}
    BY <2>2, <2>7 DEF InPool, Elems
  <2> QED BY <1>1, <1>2, <2>6, <2>8, AnswerSame
<1> QED BY <1>3, <1>4

\* Every step keeps AnswerInv.
LEMMA AnswerStep ==
  ASSUME SearchInv, AnswerInv, [Next]_vars
  PROVE  AnswerInv'
<1>1. CASE UNCHANGED vars
  BY <1>1, AnswerQuiet DEF vars, search
<1>2. CASE NewRound \/ ExploreNew \/ PrepareNextRound
  BY <1>2, AnswerQuiet DEF NewRound, ExploreNew, PrepareNextRound
<1>3. CASE Exhausted \/ SkipExplore \/ NothingFinished \/ TestRound \/ ThrowAnswer
  BY <1>3, AnswerQuiet
     DEF Exhausted, SkipExplore, NothingFinished, TestRound, ThrowAnswer, search
<1>4. CASE DoFilter \/ DoAccept
  BY <1>4, AnswerSend
<1>5. CASE FinishTasks
  BY <1>5, AnswerCollect DEF FinishTasks
<1>6. CASE Gather \/ GiveUp
  BY <1>6, AnswerPick
<1>7. CASE \E w \in Worker : Take(w) \/ Process(w) \/ Finish(w) \/ Fail(w)
  BY <1>7, AnswerWorker
<1> QED BY <1>1, <1>2, <1>3, <1>4, <1>5, <1>6, <1>7 DEF Next, Master

\* No schedule and no stale lookup of visited makes the search return a program
\* with a hole, one the oracle rejects or never saw, or a redundant one.
THEOREM OnlySoundAnswers == Spec => []AnswersSound
<1>1. Init => AnswerInv
  BY AnswerInit
<1>2. SearchInv /\ AnswerInv /\ [Next]_vars => AnswerInv'
  BY AnswerStep
<1>3. AnswerInv => AnswersSound
  BY DEF AnswerInv
<1> QED BY <1>1, <1>2, <1>3, SearchInvInductive, PTL DEF Spec

-----------------------------------------------------------------------------
(* The least complex programs come first.                                  *)

\* prepare_next_round() finds buffer as gather_candidates() sorted it.
OrderInv == mpc = "prepare" => Falling(buffer)

\* No other step leads there.
LEMMA OrderStep ==
  ASSUME SearchInv, OrderInv, [Next]_vars
  PROVE  OrderInv'
<1>1. CASE UNCHANGED <<mpc, buffer>>
  BY <1>1 DEF OrderInv, Falling
<1>2. CASE Gather
  <2>1. mpc = "gather" /\ buffer' = Gathered
    BY <1>2 DEF Gather, At
  <2>2. Falling(Gathered)
    BY <2>1, GatheredProperties
  <2> QED BY <2>1, <2>2 DEF OrderInv, Falling
<1>3. CASE mpc' # "prepare"
  BY <1>3 DEF OrderInv
<1>4. CASE NewRound \/ Exhausted \/ ExploreNew \/ SkipExplore \/ DoFilter
  BY <1>3, <1>4 DEF NewRound, Exhausted, ExploreNew, SkipExplore, DoFilter
<1>5. CASE DoAccept \/ NothingFinished \/ TestRound \/ ThrowAnswer \/ GiveUp \/ PrepareNextRound
  BY <1>3, <1>5
     DEF DoAccept, NothingFinished, TestRound, ThrowAnswer, GiveUp, PrepareNextRound
<1>6. CASE FinishTasks
  BY <1>3, <1>6 DEF FinishTasks, CheckRedundancy, CheckAccept, At
<1>7. CASE UNCHANGED vars \/ \E w \in Worker : Take(w) \/ Process(w) \/ Finish(w) \/ Fail(w)
  BY <1>1, <1>7 DEF vars, search, Take, Process, Finish, Fail
<1> QED BY <1>2, <1>4, <1>5, <1>6, <1>7 DEF Next, Master

\* What prepare_next_round() takes is behind, and so no more complex than,
\* what it leaves.
LEMMA DealtInOrder ==
  ASSUME SearchInv, Falling(buffer), PrepareNextRound
  PROVE  \A p \in Elems(this_round'), q \in Elems(buffer') : Complexity[p] <= Complexity[q]
<1>1. PICK rest \in 0..Len(buffer) : DealtAt(rest, this_round', buffer')
  BY PreparedProperties
<1> SUFFICES ASSUME NEW p \in Elems(this_round'), NEW q \in Elems(buffer')
             PROVE  Complexity[p] <= Complexity[q]
  OBVIOUS
<1>2. PICK k \in (rest + 1)..Len(buffer) : p = buffer[k]
  BY <1>1 DEF DealtAt
<1>3. PICK l \in 1..rest : q = buffer[l]
  BY <1>1 DEF DealtAt
<1>4. /\ buffer \in Seq(Program) /\ Len(buffer) \in Nat /\ DOMAIN buffer = 1..Len(buffer)
  BY SearchInvSplit, LenProperties DEF LocalTypes
<1>5. l \in 1..Len(buffer) /\ k \in 1..Len(buffer) /\ l < k
  BY <1>4
<1>6. p \in Program /\ q \in Program
  BY <1>2, <1>3, <1>4, <1>5, ElementOfSeq
<1>7. Complexity[p] \in Int /\ Complexity[q] \in Int
  BY <1>6, SearchAssumption
<1>8. Complexity[q] >= Complexity[p]
  BY <1>2, <1>3, <1>4, <1>5 DEF Falling
<1> QED BY <1>7, <1>8

\* Only prepare_next_round() goes from one place to the other.
LEMMA OnlyPreparing ==
  ASSUME Next, mpc = "prepare", mpc' = "loop"
  PROVE  PrepareNextRound
<1>1. ~(NewRound \/ Exhausted \/ ExploreNew \/ SkipExplore \/ DoFilter)
  BY DEF NewRound, Exhausted, ExploreNew, SkipExplore, DoFilter, At
<1>2. ~(DoAccept \/ NothingFinished \/ TestRound \/ Gather \/ ThrowAnswer \/ GiveUp)
  BY DEF DoAccept, NothingFinished, TestRound, Gather, ThrowAnswer, GiveUp, At
<1>3. ~FinishTasks
  BY DEF FinishTasks, CheckRedundancy, CheckAccept, At
<1>4. ~\E w \in Worker : Take(w) \/ Process(w) \/ Finish(w) \/ Fail(w)
  BY DEF Take, Process, Finish, Fail
<1> QED BY <1>1, <1>2, <1>3, <1>4 DEF Next, Master

\* Whatever the complexities and the ties among them, a round explores the
\* least complex of all the programs that wait.
THEOREM LeastComplexFirst == Spec => BestFirst
<1>1. Init => OrderInv
  BY DEF Init, OrderInv
<1>2. SearchInv /\ OrderInv /\ [Next]_vars => OrderInv'
  BY OrderStep
<1>3. SearchInv /\ OrderInv /\ [Next]_vars
        => [mpc = "prepare" /\ mpc' = "loop" =>
              \A p \in Elems(this_round'), q \in Elems(buffer') :
                Complexity[p] <= Complexity[q]]_vars
  BY OnlyPreparing, DealtInOrder DEF OrderInv
<1> QED BY <1>1, <1>2, <1>3, SearchInvInductive, PTL DEF Spec, BestFirst

-----------------------------------------------------------------------------
(* A short list of answers.                                                *)

\* Why ShortOnlyWhenDone is kept: the search is over with fewer answers than
\* asked for only when both sequences are empty, or when it has given up.
ReturnInv ==
  /\ mpc = "drain" => Len(answer) >= answer_count
  /\ mpc = "loop" /\ this_round = <<>> => buffer = <<>>
  /\ ShortOnlyWhenDone

\* The search starts with one program at least.
LEMMA ReturnInit == Init => ReturnInv
<1> SUFFICES ASSUME Init PROVE ReturnInv
  OBVIOUS
<1>1. mpc = "loop" /\ this_round # <<>>
  <2>1. Seed \in Seq(Program) /\ Start \in Program
    BY SearchAssumption
  <2> QED BY <2>1, EmptySeq DEF Init
<1> QED BY <1>1 DEF ReturnInv, ShortOnlyWhenDone

\* The steps that do not lead to one of the three places.
LEMMA ReturnSame ==
  ASSUME ReturnInv,
         \/ mpc' \notin {"drain", "loop", "return"}
         \/ UNCHANGED <<mpc, this_round, buffer, answer, search_counter, kept, explored>>
  PROVE  ReturnInv'
BY DEF ReturnInv, ShortOnlyWhenDone, OutOfBudget, TooMany

\* The steps that do.
LEMMA ReturnReached ==
  ASSUME SearchInv, KeptInv, ReturnInv,
         Gather \/ ThrowAnswer \/ Exhausted \/ GiveUp \/ PrepareNextRound
  PROVE  ReturnInv'
<1>1. CASE Gather
  <2> DEFINE found == answer \o Selected(pending_answer, Ripe)
  <2>1. CASE Len(found) >= answer_count
    <3>1. answer' = SubSeq(found, 1, answer_count) /\ mpc' = "drain"
      BY <1>1, <2>1 DEF Gather
    <3>2. found \in Seq(Program)
      <4>1. /\ answer \in Seq(Program) /\ pending_answer \in Seq(Program)
            /\ Ripe \subseteq DOMAIN pending_answer
        BY SearchInvSplit DEF LocalTypes, Ripe
      <4> QED BY <4>1, SelectedType, ConcatProperties
    <3> HIDE DEF found
    <3>3. answer_count \in Nat \ {0} /\ \A k \in 1..answer_count : found[k] \in Program
      BY <2>1, <3>2, SearchAssumption, ElementOfSeq, LenProperties
    <3>4. Len(SubSeq(found, 1, answer_count))
            = (IF 1 <= answer_count THEN answer_count - 1 + 1 ELSE 0)
      BY <3>3, SubSeqProperties
    <3>5. Len(SubSeq(found, 1, answer_count)) = answer_count
      BY <3>3, <3>4
    <3> QED BY <3>1, <3>3, <3>5 DEF ReturnInv, ShortOnlyWhenDone
  <2>2. CASE ~(Len(found) >= answer_count)
    BY <1>1, <2>2 DEF Gather, ReturnInv, ShortOnlyWhenDone
  <2> QED BY <2>1, <2>2
<1>2. CASE ThrowAnswer
  <2>1. Len(answer) >= answer_count /\ answer' = answer /\ mpc' = "return"
    BY <1>2 DEF ThrowAnswer, At, ReturnInv, search
  <2>2. Len(answer) \in Nat /\ answer_count \in Nat
    BY SearchInvSplit, SearchAssumption, LenProperties DEF LocalTypes
  <2> QED BY <2>1, <2>2 DEF ReturnInv, ShortOnlyWhenDone
<1>3. CASE Exhausted
  <2>1. /\ mpc = "loop" /\ mpc' = "return" /\ this_round = <<>> /\ buffer = <<>>
        /\ UNCHANGED <<this_round, buffer, kept, explored>>
    BY <1>3 DEF Exhausted, At, ReturnInv, search
  <2>2. \A p \in kept : p \in explored \/ Complexity[p] >= MaxComplexity
    BY <2>1 DEF KeptInv, NoCandidateLost, Elems
  <2> QED BY <2>1, <2>2 DEF ReturnInv, ShortOnlyWhenDone
<1>4. CASE GiveUp
  BY <1>4 DEF GiveUp, At, MustGiveUp, ReturnInv, ShortOnlyWhenDone, OutOfBudget, TooMany
<1>5. CASE PrepareNextRound
  <2>1. mpc' = "loop" /\ (this_round' = <<>> => buffer' = <<>>)
    BY <1>5, PreparedProperties DEF PrepareNextRound
  <2> QED BY <2>1 DEF ReturnInv, ShortOnlyWhenDone
<1> QED BY <1>1, <1>2, <1>3, <1>4, <1>5

\* Every step keeps ReturnInv.
LEMMA ReturnStep ==
  ASSUME SearchInv, KeptInv, ReturnInv, [Next]_vars
  PROVE  ReturnInv'
<1>1. CASE NewRound \/ ExploreNew \/ SkipExplore \/ DoFilter \/ DoAccept
  BY <1>1, ReturnSame DEF NewRound, ExploreNew, SkipExplore, DoFilter, DoAccept
<1>2. CASE NothingFinished \/ TestRound
  BY <1>2, ReturnSame DEF NothingFinished, TestRound
<1>3. CASE FinishTasks
  BY <1>3, ReturnSame DEF FinishTasks, CheckRedundancy, CheckAccept, At
<1>4. CASE Gather \/ ThrowAnswer \/ Exhausted \/ GiveUp \/ PrepareNextRound
  BY <1>4, ReturnReached
<1>5. CASE UNCHANGED vars \/ \E w \in Worker : Take(w) \/ Process(w) \/ Finish(w) \/ Fail(w)
  BY <1>5, ReturnSame DEF vars, search, Take, Process, Finish, Fail
<1> QED BY <1>1, <1>2, <1>3, <1>4, <1>5 DEF Next, Master

\* A search that returns too few answers is over its budget or has explored
\* every program that came back accepted, short of the complexity bound.
THEOREM ShortForAReason == Spec => []ShortOnlyWhenDone
<1>1. Init => KeptInv /\ ReturnInv
  BY KeptInit, ReturnInit
<1>2. SearchInv /\ KeptInv /\ ReturnInv /\ [Next]_vars => KeptInv' /\ ReturnInv'
  BY KeptStep, ReturnStep
<1>3. ReturnInv => ShortOnlyWhenDone
  BY DEF ReturnInv
<1> QED BY <1>1, <1>2, <1>3, SearchInvInductive, PTL DEF Spec

-----------------------------------------------------------------------------
(* Every child of an explored program is tried: none falls between two     *)
(* places of the program, however its task is overtaken and whatever a     *)
(* lookup of visited misses.                                               *)

Filtering == {m.candidate : m \in {n \in InPool \cap Mailbox : n.type = "FILTER"}}

Inserting == IF mpc = "insert" THEN {msg} ELSE {}

Tried == visited \cup Redundant \cup OnItsWay

\* Why it is kept: a worker drops only what is visited, being inserted or
\* redundant, the master reads only filled in mailboxes, and the next
\* multi_mutate() comes after the last child of this one is sent.
TriedInv ==
  /\ mpc # "submit" => tmp = <<>>
  /\ \A m \in InPool \cap Mailbox :
       m.type = "FILTER" /\ m.good = "no" =>
         m.candidate \in visited \cup Redundant \cup Inserting
  /\ \A m \in Elems(finished_tasks) : m.good # "unset"
  /\ ChildrenTried

\* Tried, in these words.
LEMMA TriedMeans ==
  /\ Tried = visited \cup Redundant \cup Filtering \cup Elems(tmp) \cup Inserting
  /\ Tried' = visited' \cup Redundant \cup Filtering' \cup Elems(tmp') \cup Inserting'
BY DEF Tried, OnItsWay, Filtering, Inserting, Elems

\* What a step that explores nothing has to show.
LEMMA TriedGrows ==
  ASSUME ChildrenTried, explored' = explored, Tried \subseteq Tried'
  PROVE  ChildrenTried'
BY DEF ChildrenTried, Tried

\* Nothing leaves the pool but what is collected; a busy worker's mailbox is
\* handed back as it is.
LEMMA PoolEntriesStay ==
  ASSUME SearchInv
  PROVE  /\ \A m \in Mailbox : DoTask(m) => InPool \cup {m} \subseteq InPool'
         /\ \A m \in Mailbox : FindFinished(m) => InPool \subseteq InPool' \cup {m}
         /\ \A w \in Worker : TakeTask(w) => InPool \subseteq InPool' \cup {Idle}
         /\ \A w \in Worker : PutResult(w, hand[w]) => InPool \subseteq InPool' \cup {Idle}
<1>1. /\ pending_tasks \in Seq(Mailbox) /\ finished_tasks \in Seq(Mailbox)
      /\ hand \in [Worker -> Mailbox \cup {Idle}]
  BY SearchInvSplit DEF QueueInv, QueuesTypeOK
<1>2. ASSUME NEW m \in Mailbox, DoTask(m) PROVE InPool \cup {m} \subseteq InPool'
  <2>1. /\ Elems(pending_tasks') = Elems(pending_tasks) \cup {m}
        /\ UNCHANGED <<finished_tasks, hand>>
    BY <1>1, <1>2, PushedElems DEF DoTask
  <2> QED BY <2>1 DEF InPool, Elems
<1>3. ASSUME NEW m \in Mailbox, FindFinished(m) PROVE InPool \subseteq InPool' \cup {m}
  <2>1. /\ Elems(finished_tasks) \subseteq Elems(finished_tasks') \cup {m}
        /\ UNCHANGED <<pending_tasks, hand>>
    BY <1>1, <1>3, PoppedRest DEF FindFinished
  <2> QED BY <2>1 DEF InPool, Elems
<1>4. ASSUME NEW w \in Worker, TakeTask(w) PROVE InPool \subseteq InPool' \cup {Idle}
  <2>1. /\ Elems(pending_tasks) \subseteq Elems(pending_tasks') \cup {Head(pending_tasks)}
        /\ hand[w] = Idle /\ hand' = [hand EXCEPT ![w] = Head(pending_tasks)]
        /\ UNCHANGED finished_tasks
    BY <1>1, <1>4, PoppedRest DEF TakeTask
  <2>2. hand'[w] = Head(pending_tasks) /\ \A v \in Worker \ {w} : hand'[v] = hand[v]
    BY <1>1, <2>1
  <2> QED BY <2>1, <2>2 DEF InPool, Elems
<1>5. ASSUME NEW w \in Worker, PutResult(w, hand[w])
      PROVE  InPool \subseteq InPool' \cup {Idle}
  <2>1. /\ Elems(finished_tasks') = Elems(finished_tasks) \cup {hand[w]}
        /\ hand' = [hand EXCEPT ![w] = Idle]
        /\ UNCHANGED pending_tasks
    BY <1>1, <1>5, PushedElems DEF PutResult
  <2>2. \A v \in Worker \ {w} : hand'[v] = hand[v]
    BY <1>1, <2>1
  <2> QED BY <2>1, <2>2 DEF InPool, Elems
<1> QED BY <1>2, <1>3, <1>4, <1>5

\* The steps that touch none of all this.
LEMMA TriedQuiet ==
  ASSUME SearchInv, TriedInv, UNCHANGED <<queues, tmp, msg, visited, explored>>,
         mpc' = mpc \/ {mpc, mpc'} \cap {"insert", "submit"} = {}
  PROVE  TriedInv'
<1>1. InPool' = InPool /\ finished_tasks' = finished_tasks
  BY PoolEntries DEF queues
<1>2. Inserting' = Inserting /\ Filtering' = Filtering
  BY <1>1 DEF Inserting, Filtering
<1>3. Tried \subseteq Tried'
  BY <1>2, TriedMeans
<1>4. ChildrenTried'
  BY <1>3, TriedGrows DEF TriedInv
<1>5. mpc' # "submit" => mpc # "submit"
  OBVIOUS
<1> QED BY <1>1, <1>2, <1>4, <1>5 DEF TriedInv, Elems

\* explore_new(): all the children of the program it explores are to be sent.
LEMMA TriedExplore ==
  ASSUME SearchInv, TriedInv, ExploreNew
  PROVE  TriedInv'
<1> DEFINE current == this_round[i]
<1>1. /\ mpc = "explore" /\ mpc' \in {"finish", "submit"}
      /\ mpc' # "submit" => tmp' = <<>>
      /\ tmp' \in (IF Expand[current] = {} THEN {<<>>} ELSE Expand[current])
      /\ explored' = explored \cup {current} /\ UNCHANGED <<queues, visited>>
  BY DEF ExploreNew, At
<1>2. InPool' = InPool /\ finished_tasks' = finished_tasks
  BY <1>1, PoolEntries DEF queues
<1>3. Inserting = {} /\ Inserting' = {} /\ Filtering' = Filtering /\ tmp = <<>>
  BY <1>1, <1>2 DEF Inserting, Filtering, TriedInv
<1>4. Tried \subseteq Tried' /\ Elems(tmp') \subseteq Tried'
  <2>1. Elems(tmp) = {}
    BY <1>3 DEF Elems
  <2> QED BY <1>1, <1>3, <2>1, TriedMeans
<1>5. ASSUME NEW p \in explored', Expand[p] # {}
      PROVE  \E q \in Expand[p] : Elems(q) \subseteq Tried'
  <2>1. CASE p \in explored
    <3>1. PICK q \in Expand[p] : Elems(q) \subseteq Tried
      BY <1>5, <2>1 DEF TriedInv, ChildrenTried, Tried
    <3> QED BY <1>4, <3>1
  <2>2. CASE p = current
    BY <1>1, <1>4, <1>5, <2>2
  <2> QED BY <1>1, <2>1, <2>2
<1>6. ChildrenTried'
  BY <1>5 DEF ChildrenTried, Tried, Elems
<1> QED BY <1>1, <1>2, <1>3, <1>6 DEF TriedInv, Elems

\* do_filter(): the child sent is in the pool.
LEMMA TriedDoFilter ==
  ASSUME SearchInv, TriedInv, DoFilter
  PROVE  TriedInv'
<1> SUFFICES ASSUME NEW m, m = FilterTask(Head(tmp)) PROVE TriedInv'
  OBVIOUS
<1>1. tmp \in Seq(Program) /\ tmp # <<>> /\ mpc = "submit"
  BY SearchInvSplit DEF DoFilter, At, LocalTypes, RoundShape
<1>2. m \in Mailbox /\ m.type = "FILTER" /\ m.candidate = Head(tmp) /\ m.good = "unset"
  <2>1. Head(tmp) \in Program
    BY <1>1, HeadTailProperties
  <2> QED BY <2>1, TasksAreMessages DEF FilterTask
<1>3. /\ DoTask(m) /\ tmp' = Tail(tmp) /\ mpc' \in {"finish", "submit"}
      /\ mpc' # "submit" => tmp' = <<>>
      /\ UNCHANGED <<visited, explored, finished_tasks>>
  BY DEF DoFilter, DoTask
<1>4. InPool' \subseteq InPool \cup {m} /\ InPool \cup {m} \subseteq InPool'
  BY <1>2, <1>3, PoolEntries, PoolEntriesStay
<1>5. Filtering \subseteq Filtering' /\ Head(tmp) \in Filtering'
  BY <1>2, <1>4 DEF Filtering
<1>6. Elems(tmp) \subseteq Elems(tmp') \cup {Head(tmp)}
  BY <1>1, <1>3, PoppedRest
<1>7. Inserting = {} /\ Inserting' = {}
  BY <1>1, <1>3 DEF Inserting
<1>8. Tried \subseteq Tried'
  BY <1>3, <1>5, <1>6, <1>7, TriedMeans
<1>9. ChildrenTried'
  BY <1>3, <1>8, TriedGrows DEF TriedInv
<1>10. ASSUME NEW n \in InPool' \cap Mailbox, n.type = "FILTER", n.good = "no"
       PROVE  n.candidate \in visited' \cup Redundant \cup Inserting'
  <2>1. n \in InPool
    BY <1>2, <1>4, <1>10
  <2> QED BY <1>3, <1>7, <1>10, <2>1 DEF TriedInv
<1> QED BY <1>3, <1>9, <1>10 DEF TriedInv, Elems

\* The insertion of a program into visited.
LEMMA TriedDoAccept ==
  ASSUME SearchInv, TriedInv, DoAccept
  PROVE  TriedInv'
<1> SUFFICES ASSUME NEW m, m = AcceptTask(msg) PROVE TriedInv'
  OBVIOUS
<1>1. m \in Mailbox /\ m.type = "ACCEPT"
  <2>1. msg \in Program
    BY SearchInvSplit DEF LocalTypes
  <2> QED BY <2>1, TasksAreMessages DEF AcceptTask
<1>2. /\ DoTask(m) /\ visited' = visited \cup {msg} /\ mpc = "insert" /\ mpc' = "finish"
      /\ UNCHANGED <<tmp, explored, finished_tasks>>
  BY DEF DoAccept, DoTask, At
<1>3. InPool' \subseteq InPool \cup {m} /\ InPool \cup {m} \subseteq InPool'
  BY <1>1, <1>2, PoolEntries, PoolEntriesStay
<1>4. Filtering \subseteq Filtering' /\ Elems(tmp') = Elems(tmp) /\ Inserting \subseteq visited'
  BY <1>2, <1>3 DEF Filtering, Elems, Inserting
<1>5. Tried \subseteq Tried'
  BY <1>2, <1>4, TriedMeans
<1>6. ChildrenTried'
  BY <1>2, <1>5, TriedGrows DEF TriedInv
<1>7. ASSUME NEW n \in InPool' \cap Mailbox, n.type = "FILTER", n.good = "no"
      PROVE  n.candidate \in visited' \cup Redundant \cup Inserting'
  <2>1. n \in InPool
    BY <1>1, <1>3, <1>7
  <2>2. n.candidate \in visited \cup Redundant \cup Inserting
    BY <1>7, <2>1 DEF TriedInv
  <2> QED BY <1>2, <1>4, <2>2
<1> QED BY <1>2, <1>6, <1>7 DEF TriedInv, Elems

\* A mailbox is collected: a candidate that passed is inserted next, one that
\* was dropped need not be tried again.
LEMMA TriedCollect ==
  ASSUME SearchInv, TriedInv, NEW m \in Mailbox, CheckRedundancy(m) \/ CheckAccept(m)
  PROVE  TriedInv'
<1>1. /\ FindFinished(m) /\ UNCHANGED <<tmp, visited, explored>>
      /\ mpc = "finish" /\ mpc' \in {"finish", "insert"} /\ tmp = <<>>
  BY DEF CheckRedundancy, CheckAccept, At, TriedInv
<1>2. /\ InPool' \subseteq InPool /\ m \in InPool /\ InPool \subseteq InPool' \cup {m}
  BY <1>1, PoolEntries, PoolEntriesStay
<1>3. /\ m \in Elems(finished_tasks)
      /\ Elems(finished_tasks') \subseteq Elems(finished_tasks)
  <2>1. finished_tasks \in Seq(Mailbox)
    BY SearchInvSplit DEF QueueInv, QueuesTypeOK
  <2> QED BY <1>1, <2>1, PoppedElems DEF FindFinished
<1>4. Inserting = {}
  BY <1>1 DEF Inserting
<1>5. m.type = "FILTER" => m.candidate \in visited \cup Redundant \cup Inserting'
  <2>1. CASE CheckAccept(m)
    BY <2>1 DEF CheckAccept
  <2>2. CASE CheckRedundancy(m) /\ m.good = "yes"
    BY <2>2 DEF CheckRedundancy, Inserting
  <2>3. CASE CheckRedundancy(m) /\ m.good # "yes"
    <3>1. m.good = "no"
      BY <1>3, <2>3, SearchAssumption DEF TriedInv, Message
    <3> QED BY <1>2, <1>4, <3>1 DEF TriedInv
  <2> QED BY <2>1, <2>2, <2>3
<1>6. Filtering \subseteq Filtering' \cup (visited \cup Redundant \cup Inserting')
  BY <1>2, <1>5 DEF Filtering
<1>7. Tried \subseteq Tried'
  BY <1>1, <1>4, <1>6, TriedMeans
<1>8. ChildrenTried'
  BY <1>1, <1>7, TriedGrows DEF TriedInv
<1>9. \A n \in InPool' \cap Mailbox :
        n.type = "FILTER" /\ n.good = "no" =>
          n.candidate \in visited' \cup Redundant \cup Inserting'
  BY <1>1, <1>2, <1>4 DEF TriedInv
<1>10. \A n \in Elems(finished_tasks)' : n.good # "unset"
  BY <1>3 DEF TriedInv, Elems
<1> QED BY <1>1, <1>8, <1>9, <1>10 DEF TriedInv

\* The workers keep what they hold, and drop a candidate only for a reason.
LEMMA TriedWorker ==
  ASSUME SearchInv, TriedInv, NEW w \in Worker, Take(w) \/ Process(w) \/ Finish(w)
  PROVE  TriedInv'
<1>1. /\ UNCHANGED <<mpc, tmp, msg, visited, explored>> /\ Inserting' = Inserting
      /\ Elems(tmp') = Elems(tmp)
  BY DEF Take, Process, Finish, search, Inserting, Elems
<1>2. /\ hand \in [Worker -> Mailbox \cup {Idle}] /\ finished_tasks \in Seq(Mailbox)
      /\ Idle \notin Mailbox
  BY SearchInvSplit, QueuesAssumption DEF QueueInv, QueuesTypeOK
<1> SUFFICES
      /\ Filtering \subseteq Filtering'
      /\ \A n \in InPool' \cap Mailbox :
           n.type = "FILTER" /\ n.good = "no" =>
             n.candidate \in visited \cup Redundant \cup Inserting
      /\ \A n \in Elems(finished_tasks') : n.good # "unset"
  <2>1. ASSUME Filtering \subseteq Filtering' PROVE ChildrenTried'
    <3>1. Tried \subseteq Tried'
      BY <1>1, <2>1, TriedMeans
    <3> QED BY <1>1, <3>1, TriedGrows DEF TriedInv
  <2> QED BY <1>1, <2>1 DEF TriedInv, Elems
<1>3. CASE Take(w)
  <2>1. InPool' \subseteq InPool /\ InPool \subseteq InPool' \cup {Idle}
    BY <1>3, PoolEntries, PoolEntriesStay DEF Take
  <2>2. finished_tasks' = finished_tasks
    BY <1>3 DEF Take, TakeTask
  <2> QED BY <1>2, <2>1, <2>2 DEF TriedInv, Filtering
<1>4. CASE Finish(w)
  <2>1. hand[w] \in InPool \cap Mailbox /\ hand[w].good # "unset" /\ PutResult(w, hand[w])
    BY <1>4 DEF Finish, InPool
  <2>2. InPool' \subseteq InPool \cup {Idle} /\ InPool \subseteq InPool' \cup {Idle}
    BY <2>1, PoolEntries, PoolEntriesStay
  <2>3. Elems(finished_tasks') = Elems(finished_tasks) \cup {hand[w]}
    BY <1>2, <2>1, PushedElems DEF PutResult
  <2> QED BY <1>2, <2>1, <2>2, <2>3 DEF TriedInv, Filtering
<1>5. CASE Process(w)
  <2>1. PICK good \in Verdict(hand[w]) :
          hand' = [hand EXCEPT ![w].good = IF good THEN "yes" ELSE "no"]
    BY <1>5 DEF Process
  <2> SUFFICES ASSUME NEW m, m = [hand[w] EXCEPT !.good = IF good THEN "yes" ELSE "no"]
      PROVE
      /\ Filtering \subseteq Filtering'
      /\ \A n \in InPool' \cap Mailbox :
           n.type = "FILTER" /\ n.good = "no" =>
             n.candidate \in visited \cup Redundant \cup Inserting
      /\ \A n \in Elems(finished_tasks') : n.good # "unset"
    OBVIOUS
  <2>2. /\ hand[w] \in Mailbox /\ hand[w] \in InPool
        /\ UNCHANGED <<pending_tasks, finished_tasks>>
    BY <1>5 DEF Process, InPool
  <2>3. /\ hand' = [hand EXCEPT ![w] = m] /\ m \in Mailbox
        /\ m.type = hand[w].type /\ m.candidate = hand[w].candidate
        /\ m.good = "no" => ~good
    BY <1>2, <2>1, <2>2, SearchAssumption DEF Message
  <2>4. hand'[w] = m /\ \A v \in Worker \ {w} : hand'[v] = hand[v]
    BY <1>2, <2>3
  <2>5. InPool' \subseteq InPool \cup {m} /\ m \in InPool' /\ InPool \subseteq InPool' \cup {hand[w]}
    BY <2>2, <2>4 DEF InPool, Elems
  <2>6. ASSUME m.type = "FILTER", m.good = "no"
        PROVE  m.candidate \in visited \cup Redundant \cup Inserting
    <3>1. PICK seen \in Lookup(m.candidate) :
            good = (~seen /\ m.candidate \notin Redundant)
      BY <2>1, <2>3, <2>6 DEF Verdict
    <3>2. ~good
      BY <2>3, <2>6
    <3>3. ASSUME seen, m.candidate \notin visited PROVE m.candidate \in Inserting
      <4>1. ~(mpc = "insert" /\ m.candidate = msg) => Lookup(m.candidate) = {FALSE}
        <5>1. (m.candidate \in visited) = FALSE
          BY <3>3
        <5> QED BY <3>3, <5>1, Zenon DEF Lookup
      <4>2. Lookup(m.candidate) # {FALSE}
        BY <3>1, <3>3, Zenon
      <4>3. mpc = "insert" /\ m.candidate = msg
        BY <4>1, <4>2, Zenon
      <4> QED BY <4>3 DEF Inserting
    <3> QED BY <3>1, <3>2, <3>3
  <2>7. Filtering \subseteq Filtering'
    BY <2>2, <2>3, <2>5 DEF Filtering
  <2>8. \A n \in Elems(finished_tasks') : n.good # "unset"
    BY <2>2 DEF TriedInv, Elems
  <2>9. \A n \in InPool' \cap Mailbox :
           n.type = "FILTER" /\ n.good = "no" =>
             n.candidate \in visited \cup Redundant \cup Inserting
    BY <2>5, <2>6 DEF TriedInv
  <2> QED BY <2>7, <2>8, <2>9
<1> QED BY <1>3, <1>4, <1>5

\* Every step keeps TriedInv.
LEMMA TriedStep ==
  ASSUME SearchInv, TriedInv, [Next]_vars
  PROVE  TriedInv'
<1>1. CASE UNCHANGED vars
  BY <1>1, TriedQuiet DEF vars, search
<1>2. CASE Exhausted \/ SkipExplore \/ NothingFinished \/ TestRound \/ ThrowAnswer
  BY <1>2, TriedQuiet
     DEF Exhausted, SkipExplore, NothingFinished, TestRound, ThrowAnswer, At, search
<1>3. CASE NewRound \/ Gather \/ GiveUp \/ PrepareNextRound
  BY <1>3, TriedQuiet DEF NewRound, Gather, GiveUp, PrepareNextRound, At
<1>4. CASE ExploreNew \/ DoFilter \/ DoAccept
  BY <1>4, TriedExplore, TriedDoFilter, TriedDoAccept
<1>5. CASE FinishTasks
  BY <1>5, TriedCollect DEF FinishTasks
<1>6. ASSUME NEW w \in Worker, Take(w) \/ Process(w) \/ Finish(w) \/ Fail(w) PROVE TriedInv'
  <2>1. CASE Fail(w)
    BY <2>1, TriedQuiet DEF Fail, search
  <2> QED BY <1>6, <2>1, TriedWorker
<1> QED BY <1>1, <1>2, <1>3, <1>4, <1>5, <1>6 DEF Next, Master

\* No interleaving of the workers with the master, and no lookup of visited
\* that a concurrent insertion spoils, makes the search forget a program it
\* could derive from an explored one.
THEOREM EveryChildTried == Spec => []ChildrenTried
<1>1. Init => TriedInv
  <2> SUFFICES ASSUME Init PROVE TriedInv
    OBVIOUS
  <2>1. InPool \subseteq {Idle} /\ finished_tasks = <<>>
    BY DEF Init, QueuesInit, InPool, Elems
  <2>2. tmp = <<>> /\ explored = {}
    BY DEF Init
  <2> QED BY <2>1, <2>2, QueuesAssumption DEF TriedInv, ChildrenTried, Elems
<1>2. SearchInv /\ TriedInv /\ [Next]_vars => TriedInv'
  BY TriedStep
<1>3. TriedInv => ChildrenTried
  BY DEF TriedInv
<1> QED BY <1>1, <1>2, <1>3, SearchInvInductive, PTL DEF Spec
=============================================================================
