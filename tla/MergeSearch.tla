---------------------------- MODULE MergeSearch -----------------------------
(***************************************************************************)
(* MergeSearch (synthesizer/core/merge_search.hpp): the examples are       *)
(* divided into halves, a SearchGraph search is made for each part, layer  *)
(* by layer from the smallest parts to the whole, and every new program is *)
(* tried on the whole at once.  A program is what it answers on each       *)
(* example; a search is any sequence of programs it could return.          *)
(***************************************************************************)
EXTENDS Oracle, Vectors

CONSTANTS
  Program, Value,        \* Value[p][x]: what p answers on x
  e_tree,                \* e_tree[l]: layer l, a sequence of handles; a handle is a
                         \* pair of sequences of tokens (see the module ExampleTree)
  answer_count,
  Accuracies,            \* the accuracies to check; one of them is the configured one
  Target,                \* accuracy/accuracy_exp, as a weight
  MaxReturned            \* bound: the programs one search returns

ASSUME MergeAssumption ==
  /\ Value \in [Program -> [Example -> Int]]
  /\ answer_count \in Nat \ {0}
  /\ Accuracies \subseteq Accuracy /\ Target \in Nat
  /\ MaxReturned \in Nat

-----------------------------------------------------------------------------
Sets(h) == [pos |-> ToSet(h.pos), neg |-> ToSet(h.neg)]

Handles == UNION {{Sets(h) : h \in ToSet(e_tree[l])} : l \in DOMAIN e_tree}

\* What collect_tree() leaves: layers, none of them empty, up to the whole.
ASSUME TreeAssumption ==
  /\ e_tree \in Seq(Seq([pos : Seq(Pos), neg : Seq(Neg)])) /\ e_tree # <<>>
  /\ \A l \in DOMAIN e_tree : e_tree[l] # <<>>
  /\ Top \in Handles

-----------------------------------------------------------------------------
(* accept(e, {accuracy}): with no constraint the verdict is the same for    *)
(* every pairing; under the constraint the pairs of one are used.           *)

PairsOf ==
  [p \in Program |-> [h \in Handles |-> CHOOSE both \in Pairing(h, Value[p]) : TRUE]]

Fits ==
  [acc \in Accuracies |-> [p \in Program |-> {h \in Handles :
     Accepted(acc, NoConstraint, Value[p], PairsOf[p][h])}]]

VARIABLES
  pc,             \* "start", "search" or "take" in real_search_single(), "filter", "done"
  layer, place,   \* the handle e_tree[layer][place]
  accuracy,       \* fixed by the configuration
  weight,         \* global_constraint
  global_pool,    \* sequences of programs
  global_answer,
  ans,            \* the answers for this handle
  tmp             \* what is left of ans_tmp

vars == <<pc, layer, place, accuracy, weight, global_pool, global_answer, ans, tmp>>

(* The weights stay between 1.0 and Target; the answers never outnumber     *)
(* answer_count, at which they are thrown.                                  *)
TypeOK ==
  /\ pc \in {"start", "search", "take", "filter", "done"}
  /\ layer \in DOMAIN e_tree /\ place \in 1..(Len(e_tree[layer]) + 1)
  /\ accuracy \in Accuracies
  /\ weight \in [Example -> WeightRange(Target)]
  /\ global_pool \in Seq(Program) /\ global_answer \in Seq(Program)
  /\ Len(global_answer) <= answer_count
  /\ ans \in Seq(Program) /\ tmp \in Seq(Program)

Init ==
  /\ pc = "start" /\ layer = 1 /\ place = 1
  /\ accuracy \in Accuracies
  /\ weight = NoConstraint
  /\ global_pool = <<>> /\ global_answer = <<>>
  /\ ans = <<>> /\ tmp = <<>>

FitsHandle(p, l, k) == Sets(e_tree[l][k]) \in Fits[accuracy][p]

\* The places of the programs of the pool that fit a handle of this layer at K.
FittingPlaces(K) ==
  {j \in DOMAIN global_pool : \E k \in K : FitsHandle(global_pool[j], layer, k)}

NextHandle ==
  /\ place' = place + 1
  /\ pc' = IF place = Len(e_tree[layer]) THEN "filter" ELSE "start"
  /\ UNCHANGED layer

(* Variants of the operators that follow, each with one slip a maintainer   *)
(* could make.                                                              *)

KnownNever(p) == FALSE

\* real_search_single, up to the search: ans are the programs of the pool that
\* fit.  With enough of them the search is skipped, unless randint() forces it.
StartSingle ==
  /\ pc = "start"
  /\ ans' = Selected(global_pool, FittingPlaces({place}))
  /\ \/ pc' = "search" /\ UNCHANGED <<layer, place>>
     \/ Len(ans') >= answer_count /\ NextHandle
  /\ UNCHANGED <<accuracy, weight, global_pool, global_answer, tmp>>

\* Both parts of the pool are eliminated from the search.
Eliminated == ToSet(global_pool)

\* search_top_level_v2: programs accepted on the examples and not eliminated,
\* more than asked for or fewer, and maybe the same one twice.
Search ==
  /\ pc = "search"
  /\ \E n \in 0..MaxReturned :
       tmp' \in [1..n -> {p \in Program \ Eliminated : FitsHandle(p, layer, place)}]
  /\ pc' = "take"
  /\ UNCHANGED <<layer, place, accuracy, weight, global_pool, global_answer, ans>>

\* The program is equal to one in ans.
Known(p) == p \in ToSet(ans)

SkipAnswer ==
  /\ pc = "take" /\ tmp # <<>> /\ Known(Head(tmp))
  /\ tmp' = Tail(tmp)
  /\ UNCHANGED <<pc, layer, place, accuracy, weight, global_pool, global_answer, ans>>

FitsWhole(p) == Accepted(accuracy, weight, Value[p], PairsOf[p][Top])

\* A new program enters ans and global_pool, and global_answer if the whole
\* accepts it under the constraint; with answer_count answers they are thrown.
TakeAnswer ==
  /\ pc = "take" /\ tmp # <<>> /\ ~Known(Head(tmp))
  /\ tmp' = Tail(tmp)
  /\ ans' = Append(ans, Head(tmp))
  /\ global_pool' = Append(global_pool, Head(tmp))
  /\ IF FitsWhole(Head(tmp))
       THEN /\ global_answer' = Append(global_answer, Head(tmp))
            /\ weight' = Reweighed(accuracy, Target, weight,
                                   Value[Head(tmp)], PairsOf[Head(tmp)][Top])
       ELSE UNCHANGED <<global_answer, weight>>
  /\ pc' = IF Len(global_answer') >= answer_count THEN "done" ELSE "take"
  /\ UNCHANGED <<layer, place, accuracy>>

EndSingle ==
  /\ pc = "take" /\ tmp = <<>>
  /\ NextHandle
  /\ UNCHANGED <<accuracy, weight, global_pool, global_answer, ans, tmp>>

\* After a layer: programs that no handle of it accepts leave the pool.
Filter ==
  /\ pc = "filter"
  /\ global_pool' = Selected(global_pool, FittingPlaces(DOMAIN e_tree[layer]))
  /\ IF layer = Len(e_tree)
       THEN pc' = "done" /\ UNCHANGED <<layer, place>>
       ELSE pc' = "start" /\ layer' = layer + 1 /\ place' = 1
  /\ UNCHANGED <<accuracy, weight, global_answer, ans, tmp>>

Next == StartSingle \/ Search \/ SkipAnswer \/ TakeAnswer \/ EndSingle \/ Filter

Spec == Init /\ [][Next]_vars

-----------------------------------------------------------------------------
(***************************************************************************)
(* No program is in the pool twice, although every search starts anew and   *)
(* may return the same program twice: the pool is eliminated from a search, *)
(* and what it returns is compared with the answers taken so far.           *)
(***************************************************************************)
PoolDiffers == IsInjective(global_pool)

(***************************************************************************)
(* When all examples must be right, a program of the pool that the whole    *)
(* accepts is one of the answers: a search that is skipped because the pool *)
(* holds enough programs for its part, and a layer that drops programs,     *)
(* overlook nothing.                                                        *)
(***************************************************************************)
NoAnswerOverlooked ==
  accuracy.num = accuracy.den =>
    \A p \in ToSet(global_pool) \cup ToSet(ans) :
      Top \in Fits[accuracy][p] => p \in ToSet(global_answer)

(***************************************************************************)
(* The answers are different programs (synthesizer/README.md: answer_count, *)
(* "how many different programs do you want to learn").                     *)
(***************************************************************************)
GlobalAnswersDiffer == IsInjective(global_answer)
=============================================================================
