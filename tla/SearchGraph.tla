---------------------------- MODULE SearchGraph ----------------------------
(***************************************************************************)
(* SearchGraph::enumerate_random_v2 (synthesizer/core/search_graph.cpp):   *)
(* the master thread enumerates candidate programs round by round, and the *)
(* workers of its MasterThread filter them (redundancy.cpp) and check them *)
(* against the examples.  A program is a member of a set; what the grammar *)
(* makes of it is Expand, what the oracle says of it is Accepted.          *)
(***************************************************************************)
EXTENDS TaskQueues, SequencesExt, Vectors

CONSTANTS
  Program,
  Start,         \* the tree of the starting symbol alone
  Seed,          \* the sequence of programs given as seed
  Eliminate,     \* the programs given as already visited
  Expand,        \* Expand[p]: the queues multi_mutate(p) may produce, one for each
                 \* hole it may pick; {} when it finds no hole and returns false
  Complete,      \* programs with no hole
  Accepted,      \* programs accept() agrees with the examples on
  Redundant,     \* programs a redundancy rule drops
  Complexity,
  batch_size, explore_rate, answer_count, give_up_count

\* The literal of the code, twice.
MaxComplexity == 10000

Message ==
  [type : {"FILTER", "ACCEPT"}, candidate : Program, good : {"unset", "yes", "no"}]

ASSUME SearchAssumption ==
  /\ Mailbox = Message
  /\ Start \in Program
  /\ Seed \in Seq(Program)
  /\ Eliminate \subseteq Program
  /\ Expand \in [Program -> SUBSET Seq(Program)]
  /\ Complete \subseteq Program /\ Accepted \subseteq Program
  /\ Redundant \subseteq Program
  /\ Complexity \in [Program -> Int]
  /\ batch_size \in Nat \ {0} /\ explore_rate \in 1..batch_size
  /\ answer_count \in Nat \ {0} /\ give_up_count \in Nat

VARIABLES
  mpc,             \* the master's place in the code, see TypeOK
  this_round, buffer, answer, pending_answer,  \* sequences of programs
  i,               \* next program of this_round to explore, from 1
  tmp,             \* what is left to submit of the last multi_mutate
  counter,         \* non-repeating candidates of this round
  search_counter,  \* candidates produced; counts no further than OverBudget
  msg,             \* the candidate check_redundancy is inserting
  visited,         \* the set the master and every worker share, with no lock
  alive,           \* FALSE once the process has exited
  kept,            \* history: incomplete programs that came back accepted
  explored         \* history: programs multi_mutate was called on

search == <<this_round, buffer, answer, pending_answer, i, tmp, counter,
            search_counter, msg, visited, kept, explored>>
vars == <<queues, mpc, alive, search>>

OverBudget == give_up_count + 1

(* The state of a search and of its pool, whose counter of busy workers     *)
(* never leaves 0..thread_number.                                           *)
TypeOK ==
  /\ QueuesTypeOK
  /\ mpc \in {"loop",     \* while (this_round.size()>0)
              "explore",  \* explore_new()
              "submit",   \* in explore_new(), the loop over tmp
              "finish",   \* finish_tasks()
              "insert",   \* in check_redundancy(), inserting into visited
              "test",     \* the test that ends run_this_round()
              "gather",   \* gather_candidates()
              "drain",    \* in gather_candidates(), about to throw answer
              "prepare",  \* prepare_next_round()
              "return"}   \* answer is returned
  /\ this_round \in Seq(Program) /\ buffer \in Seq(Program)
  /\ answer \in Seq(Program) /\ pending_answer \in Seq(Program)
  /\ i \in Nat \ {0} /\ tmp \in Seq(Program)
  /\ counter \in Nat /\ search_counter \in 0..OverBudget
  /\ msg \in Program /\ visited \subseteq Program /\ alive \in BOOLEAN
  /\ kept \subseteq Program /\ explored \subseteq Program

Init ==
  /\ QueuesInit
  /\ mpc = "loop"
  /\ this_round = Append(Seed, Start)
  /\ buffer = <<>> /\ answer = <<>> /\ pending_answer = <<>> /\ tmp = <<>>
  /\ i = 1 /\ counter = 0 /\ search_counter = 0
  /\ msg = Start
  /\ visited = Eliminate \cup {Start}
  /\ alive = TRUE
  /\ kept = Elems(this_round)
  /\ explored = {}

At(place) == alive /\ mpc = place

FilterTask(p) == [type |-> "FILTER", candidate |-> p, good |-> "unset"]
AcceptTask(p) == [type |-> "ACCEPT", candidate |-> p, good |-> "unset"]

TooMany == Len(buffer) > give_up_count

-----------------------------------------------------------------------------
(* Variants of operators below, each with one slip a maintainer could make. *)

MoreComplexFirstBackwards(s, K) ==
  {e \in K \X K : \/ Complexity[s[e[1]]] < Complexity[s[e[2]]]
                  \/ Complexity[s[e[1]]] = Complexity[s[e[2]]] /\ e[1] < e[2]}

MustGiveUpOnBuffer == TooMany

DoAcceptForgetsVisited ==
  /\ At("insert")
  /\ DoTask(AcceptTask(msg))
  /\ counter' = counter + 1
  /\ mpc' = "finish"
  /\ UNCHANGED <<alive, this_round, buffer, answer, pending_answer, i, tmp,
                 search_counter, msg, visited, kept, explored>>

CheckAcceptKeepsRejected(m) ==
  /\ At("finish") /\ m.type = "ACCEPT"
  /\ FindFinished(m)
  /\ IF m.candidate \in Complete
       THEN /\ pending_answer' = Append(pending_answer, m.candidate)
            /\ UNCHANGED <<this_round, kept>>
       ELSE /\ this_round' = Append(this_round, m.candidate)
            /\ kept' = kept \cup {m.candidate}
            /\ UNCHANGED pending_answer
  /\ UNCHANGED <<alive, mpc, buffer, answer, i, tmp, counter, search_counter,
                 msg, visited, explored>>

\* gather_candidates() one too late.
GatheredSkipsOne ==
  LET all == buffer \o SubSeq(this_round, i + 1, Len(this_round))
      places == {k \in DOMAIN all : Complexity[all[k]] < MaxComplexity}
  IN  Arranged(all, places,
               {e \in places \X places :
                  \/ Complexity[all[e[1]]] > Complexity[all[e[2]]]
                  \/ Complexity[all[e[1]]] = Complexity[all[e[2]]] /\ e[1] < e[2]})

-----------------------------------------------------------------------------
(* One round, first half: explore and collect until everything is back. *)

NewRound ==
  /\ At("loop") /\ this_round # <<>>
  /\ counter' = 0 /\ i' = 1
  /\ mpc' = "explore"
  /\ UNCHANGED <<queues, alive, this_round, buffer, answer, pending_answer, tmp,
                 search_counter, msg, visited, kept, explored>>

\* The loop ends with nothing left to explore.
Exhausted ==
  /\ At("loop") /\ this_round = <<>>
  /\ mpc' = "return"
  /\ UNCHANGED <<queues, alive, search>>

WantsMore == counter < batch_size /\ i <= Len(this_round)

\* The programs one call of multi_mutate produces, in order.
ExploreNew ==
  /\ At("explore") /\ WantsMore
  /\ LET current == this_round[i]
     IN  /\ tmp' \in (IF Expand[current] = {} THEN {<<>>} ELSE Expand[current])
         /\ explored' = explored \cup {current}
  /\ i' = i + 1
  /\ mpc' = IF tmp' = <<>> THEN "finish" ELSE "submit"
  /\ UNCHANGED <<queues, alive, this_round, buffer, answer, pending_answer, counter,
                 search_counter, msg, visited, kept>>

SkipExplore ==
  /\ At("explore") /\ ~WantsMore
  /\ mpc' = "finish"
  /\ UNCHANGED <<queues, alive, search>>

DoFilter ==
  /\ At("submit")
  /\ DoTask(FilterTask(Head(tmp)))
  /\ tmp' = Tail(tmp)
  /\ search_counter' = IF search_counter < OverBudget
                         THEN search_counter + 1 ELSE OverBudget
  /\ mpc' = IF tmp' = <<>> THEN "finish" ELSE "submit"
  /\ UNCHANGED <<alive, this_round, buffer, answer, pending_answer, i, counter,
                 msg, visited, kept, explored>>

\* A FILTER answer: simplified is the candidate itself or nullptr.
CheckRedundancy(m) ==
  /\ At("finish") /\ m.type = "FILTER"
  /\ FindFinished(m)
  /\ IF m.good = "yes" THEN msg' = m.candidate /\ mpc' = "insert"
                       ELSE UNCHANGED <<msg, mpc>>
  /\ UNCHANGED <<alive, this_round, buffer, answer, pending_answer, i, tmp, counter,
                 search_counter, visited, kept, explored>>

DoAccept ==
  /\ At("insert")
  /\ visited' = visited \cup {msg}
  /\ DoTask(AcceptTask(msg))
  /\ counter' = counter + 1
  /\ mpc' = "finish"
  /\ UNCHANGED <<alive, this_round, buffer, answer, pending_answer, i, tmp,
                 search_counter, msg, kept, explored>>

CheckAccept(m) ==
  /\ At("finish") /\ m.type = "ACCEPT"
  /\ FindFinished(m)
  /\ IF m.good = "yes" /\ m.candidate \in Complete
       THEN /\ pending_answer' = Append(pending_answer, m.candidate)
            /\ UNCHANGED <<this_round, kept>>
       ELSE IF m.good = "yes"
       THEN /\ this_round' = Append(this_round, m.candidate)
            /\ kept' = kept \cup {m.candidate}
            /\ UNCHANGED pending_answer
       ELSE UNCHANGED <<this_round, pending_answer, kept>>
  /\ UNCHANGED <<alive, mpc, buffer, answer, i, tmp, counter, search_counter,
                 msg, visited, explored>>

NothingFinished ==
  /\ At("finish") /\ finished_tasks = <<>>
  /\ mpc' = "test"
  /\ UNCHANGED <<queues, alive, search>>

RoundOver == ~WantsMore /\ AllTasksDone

TestRound ==
  /\ At("test")
  /\ mpc' = IF RoundOver THEN "gather" ELSE "explore"
  /\ UNCHANGED <<queues, alive, search>>

-----------------------------------------------------------------------------
(* One round, second half: the pool is empty, the master works alone. *)

\* The order of sort_by_: falling complexity.  Which of two equally complex
\* programs comes first is up to the library; here, the one that did before.
MoreComplexFirst(s, K) ==
  {e \in K \X K : \/ Complexity[s[e[1]]] > Complexity[s[e[2]]]
                  \/ Complexity[s[e[1]]] = Complexity[s[e[2]]] /\ e[1] < e[2]}

\* Unexplored programs enter buffer twice, and the last explored one again:
\* the slice starts at done, not behind it.
Gathered ==
  LET all == buffer \o SubSeq(this_round, i, Len(this_round))
                    \o SubSeq(this_round, i - 1, Len(this_round))
      places == {k \in DOMAIN all : Complexity[all[k]] < MaxComplexity}
  IN  Arranged(all, places, MoreComplexFirst(all, places))

\* The places of pending_answer whose program becomes an answer.
Ripe == {k \in DOMAIN pending_answer : Complexity[pending_answer[k]] <= MaxComplexity}

Gather ==
  /\ At("gather")
  /\ buffer' = Gathered
  /\ LET found == answer \o Selected(pending_answer, Ripe)
     IN  IF Len(found) >= answer_count
           THEN /\ answer' = SubSeq(found, 1, answer_count)
                /\ mpc' = "drain"
                /\ UNCHANGED pending_answer
           ELSE /\ answer' = found
                /\ pending_answer' =
                     Selected(pending_answer, DOMAIN pending_answer \ Ripe)
                /\ mpc' = "prepare"
  /\ UNCHANGED <<queues, alive, this_round, i, tmp, counter, search_counter, msg,
                 visited, kept, explored>>

\* The loop that waits for the pool; as RoundBarrier holds, its body is dead.
ThrowAnswer ==
  /\ At("drain") /\ AllTasksDone
  /\ mpc' = "return"
  /\ UNCHANGED <<queues, alive, search>>

MustGiveUp == (search_counter > give_up_count /\ answer = <<>>) \/ TooMany

GiveUp ==
  /\ At("prepare") /\ MustGiveUp
  /\ answer' = answer \o pending_answer
  /\ mpc' = "return"
  /\ UNCHANGED <<queues, alive, this_round, buffer, pending_answer, i, tmp, counter,
                 search_counter, msg, visited, kept, explored>>

\* The least complex programs are at the back of buffer.
PrepareNextRound ==
  /\ At("prepare") /\ ~MustGiveUp
  /\ LET room == batch_size \div explore_rate
         n == IF Len(buffer) <= room THEN Len(buffer) ELSE room
         rest == Len(buffer) - n
     IN  /\ this_round' = Reverse(SubSeq(buffer, rest + 1, Len(buffer)))
         /\ buffer' = SubSeq(buffer, 1, rest)
  /\ mpc' = "loop"
  /\ UNCHANGED <<queues, alive, answer, pending_answer, i, tmp, counter,
                 search_counter, msg, visited, kept, explored>>

-----------------------------------------------------------------------------
(* The workers. *)

\* What visited->count(p) may return.  No lock protects it: it may miss a
\* program the master is mutating in place, miss any program while the master
\* inserts one, and see that one or not.
Lookup(p) ==
  {p \in visited}
    \cup (IF p \in visited /\ (\/ mpc = "insert"
                               \/ mpc = "explore" /\ WantsMore /\ p = this_round[i])
            THEN {FALSE} ELSE {})
    \cup (IF mpc = "insert" /\ p = msg THEN {TRUE} ELSE {})

Take(w) == alive /\ TakeTask(w) /\ UNCHANGED <<mpc, alive, search>>

Verdict(m) ==
  IF m.type = "FILTER"
    THEN {~found /\ m.candidate \notin Redundant : found \in Lookup(m.candidate)}
    ELSE {m.candidate \in Accepted}

\* filter() or accept(), off the lock.
Process(w) ==
  /\ alive
  /\ hand[w] \in Mailbox /\ hand[w].good = "unset"
  /\ \E good \in Verdict(hand[w]) :
       hand' = [hand EXCEPT ![w].good = IF good THEN "yes" ELSE "no"]
  /\ UNCHANGED <<pending_tasks, finished_tasks, buzy_workers, mpc, alive, search>>

Finish(w) ==
  /\ alive
  /\ hand[w] \in Mailbox /\ hand[w].good # "unset"
  /\ PutResult(w, hand[w])
  /\ UNCHANGED <<mpc, alive, search>>

\* A requirement is missing: the worker exits the process.
Fail(w) ==
  /\ alive
  /\ hand[w] \in Mailbox /\ hand[w].good = "unset"
  /\ alive' = FALSE
  /\ UNCHANGED <<queues, mpc, search>>

-----------------------------------------------------------------------------
FinishTasks == \E m \in Mailbox : CheckRedundancy(m) \/ CheckAccept(m)

Master ==
  \/ NewRound \/ Exhausted
  \/ ExploreNew \/ SkipExplore \/ DoFilter
  \/ FinishTasks \/ DoAccept \/ NothingFinished \/ TestRound
  \/ Gather \/ ThrowAnswer \/ GiveUp \/ PrepareNextRound

Next == Master \/ \E w \in Worker : Take(w) \/ Process(w) \/ Finish(w) \/ Fail(w)

\* Threads are scheduled fairly and an oracle call returns.
Fairness ==
  /\ WF_vars(Master)
  /\ \A w \in Worker : WF_vars(Take(w)) /\ WF_vars(Process(w)) /\ WF_vars(Finish(w))

Spec == Init /\ [][Next]_vars
FairSpec == Spec /\ Fairness

-----------------------------------------------------------------------------
(* Properties. *)

InPool == Elems(pending_tasks) \cup Elems(finished_tasks) \cup {hand[w] : w \in Worker}

\* gather_candidates() and what follows touch the shared trees and visited with
\* no lock; that is safe because the pool is empty then: no task waits, is being
\* processed or is uncollected, in any interleaving (search_graph.cpp:210-212).
RoundBarrier ==
  mpc \in {"gather", "drain", "prepare", "loop", "return"} => InPool \subseteq {Idle}

\* A program that came back accepted with a hole left is never dropped before
\* it is explored, except for its complexity: the moves between this_round and
\* buffer keep it (search_graph.cpp:221-242, 307-338).
NoCandidateLost ==
  mpc # "return" =>
    \A p \in kept : \/ p \in explored \cup Elems(this_round) \cup Elems(buffer)
                   \/ Complexity[p] >= MaxComplexity

OnItsWay ==
  {m.candidate : m \in {n \in InPool \cap Mailbox : n.type = "FILTER"}}
    \cup Elems(tmp) \cup (IF mpc = "insert" THEN {msg} ELSE {})

\* For one of the holes of an explored program, every program that filling it
\* yields is visited, ruled out as redundant, or on its way to that: a result
\* that is overtaken or a stale lookup loses none of them.
ChildrenTried ==
  \A p \in explored : Expand[p] # {} =>
    \E q \in Expand[p] : Elems(q) \subseteq visited \cup Redundant \cup OnItsWay

\* What is returned is a finished program the oracle accepted, that no rule
\* drops and that the search itself produced, never an unchecked seed.
AnswersSound ==
  Elems(answer) \cup Elems(pending_answer)
    \subseteq (Complete \cap Accepted \cap visited) \ Redundant

OutOfBudget == search_counter > give_up_count \/ TooMany

\* The search returns fewer answers than it was asked for only when it is over
\* its budget, or when every program it accepted has been explored.
ShortOnlyWhenDone ==
  mpc = "return" /\ Len(answer) < answer_count =>
    \/ OutOfBudget
    \/ \A p \in kept : p \in explored \/ Complexity[p] >= MaxComplexity

\* The programs of the next round are the least complex of all that wait
\* (search_graph.cpp:237-242, 312, 335).
BestFirst ==
  [][mpc = "prepare" /\ mpc' = "loop" =>
       \A p \in Elems(this_round'), q \in Elems(buffer') :
         Complexity[p] <= Complexity[q]]_vars

\* Every round ends: no schedule of the workers keeps run_this_round() going.
RoundEnds == mpc = "explore" ~> (mpc = "gather" \/ ~alive)

\* Past its budget a search that has found nothing returns.
GivesUpEmptyHanded ==
  (search_counter > give_up_count /\ answer = <<>>)
     ~> (mpc = "return" \/ answer # <<>> \/ ~alive)

-----------------------------------------------------------------------------
(* What the documentation says, and the code does not do. *)

\* synthesizer/README.md:65: answer_count is "how many different programs do
\* you want to learn"; the answers of one search are different programs.
DistinctAnswers == IsInjective(answer)

\* synthesizer/README.md:79: "the enumerator will give up after searching over
\* this number of programs in total".
GivesUp == search_counter > give_up_count ~> (mpc = "return" \/ ~alive)
=============================================================================
