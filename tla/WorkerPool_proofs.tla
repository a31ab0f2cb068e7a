-------------------------- MODULE WorkerPool_proofs --------------------------
(***************************************************************************)
(* Proofs about WorkerPool, for every finite set of workers and every set  *)
(* of tasks.                                                               *)
(***************************************************************************)
EXTENDS WorkerPool, TaskQueues_proofs

-----------------------------------------------------------------------------
(* Types and the busy counter. *)

\* Type correctness together with the meaning of the busy counter.
CountInv == TypeOK /\ BusyIsHolding

\* The two halves of CountInv: that of the pool and that of its client.
LEMMA CountInvSplit ==
  /\ CountInv => QueueInv
  /\ CountInv' => QueueInv'
  /\ QueueInv' /\ (mpc' \in {"run", "quiet"}
                   /\ submitted' \subseteq Mailbox /\ collected' \subseteq Mailbox
                   /\ alive' \in BOOLEAN) => CountInv'
BY DEF CountInv, QueueInv, TypeOK

\* CountInv holds at the start.
LEMMA CountInit == Init => CountInv
BY QueueInvInit DEF Init, CountInv, QueueInv, TypeOK

\* CountInv is kept by every step.
LEMMA CountStep == CountInv /\ [Next]_vars => CountInv'
<1> SUFFICES ASSUME CountInv, [Next]_vars PROVE CountInv'
  OBVIOUS
<1>0. QueueInv /\ TypeOK
  BY CountInvSplit DEF CountInv
<1>1. ASSUME UNCHANGED queues PROVE QueueInv'
  BY <1>0, <1>1, QueueInvSame
<1>a. ASSUME NEW t \in Mailbox, Submit(t) PROVE CountInv'
  <2>1. QueueInv'
    BY <1>a, <1>0, QueueInvDoTask DEF Submit
  <2> QED BY <1>a, <1>0, <2>1, CountInvSplit DEF Submit, TypeOK
<1>b. ASSUME NEW t \in Mailbox, Collect(t) PROVE CountInv'
  <2>1. QueueInv'
    BY <1>b, <1>0, QueueInvFindFinished DEF Collect
  <2> QED BY <1>b, <1>0, <2>1, CountInvSplit DEF Collect, TypeOK
<1>c. CASE AskAllDone
  BY <1>c, <1>0, <1>1, CountInvSplit DEF AskAllDone, TypeOK
<1>g. ASSUME NEW w \in Worker, Take(w) PROVE CountInv'
  <2>1. QueueInv'
    BY <1>g, <1>0, QueueInvTake DEF Take
  <2> QED BY <1>g, <1>0, <2>1, CountInvSplit DEF Take, client, TypeOK
<1>i. ASSUME NEW w \in Worker, Finish(w) PROVE CountInv'
  <2>1. QueueInv'
    BY <1>i, <1>0, QueueInvPut DEF Finish, PutResult
  <2> QED BY <1>i, <1>0, <2>1, CountInvSplit DEF Finish, client, TypeOK
<1>k. ASSUME NEW w \in Worker, Fail(w) PROVE CountInv'
  BY <1>k, <1>0, <1>1, CountInvSplit DEF Fail, TypeOK
<1>l. CASE UNCHANGED vars
  BY <1>l, <1>0, <1>1, CountInvSplit DEF vars, client, TypeOK
<1> QED BY <1>a, <1>b, <1>c, <1>g, <1>i, <1>k, <1>l DEF Next

\* Type correctness, and the counter that all_tasks_done() tests is the number
\* of workers holding a mailbox (multithread.cpp:72-77, 121-149).
THEOREM TypeCorrect == Spec => []TypeOK
<1>1. CountInv => TypeOK
  BY DEF CountInv
<1> QED BY <1>1, CountInit, CountStep, PTL DEF Spec

\* The counter that all_tasks_done() trusts is right: it is
\* the number of workers holding a mailbox (multithread.cpp:72-77, 118-157).
THEOREM BusyCounted == Spec => []BusyIsHolding
<1>1. CountInv => BusyIsHolding
  BY DEF CountInv
<1> QED BY <1>1, CountInit, CountStep, PTL DEF Spec

-----------------------------------------------------------------------------
(* No task is lost or duplicated. *)

\* Nothing is anywhere at the start.
LEMMA OnePlaceInit == Init => EachTaskInOnePlace
BY QueuesAssumption DEF Init, QueuesInit, EachTaskInOnePlace, Elems, Held, NoRepeat

\* The part of a step that only reads the queues.
LEMMA OnePlaceSame ==
  ASSUME EachTaskInOnePlace, UNCHANGED <<queues, submitted, collected>>
  PROVE  EachTaskInOnePlace'
BY DEF EachTaskInOnePlace, Elems, Held, NoRepeat, queues

\* Every step moves a task from one place to the next, and to no other.
LEMMA OnePlaceStep == TypeOK /\ EachTaskInOnePlace /\ [Next]_vars => EachTaskInOnePlace'
<1> SUFFICES ASSUME TypeOK, EachTaskInOnePlace, [Next]_vars PROVE EachTaskInOnePlace'
  OBVIOUS
<1>0. /\ pending_tasks \in Seq(Mailbox)
      /\ finished_tasks \in Seq(Mailbox)
      /\ hand \in [Worker -> Mailbox \cup {Idle}]
      /\ submitted \subseteq Mailbox
      /\ Idle \notin Mailbox
  BY QueuesAssumption DEF TypeOK, QueuesTypeOK
<1>a. ASSUME NEW t \in Mailbox, Submit(t) PROVE EachTaskInOnePlace'
  <2>1. /\ t \notin submitted /\ submitted' = submitted \cup {t}
        /\ pending_tasks' = Append(pending_tasks, t)
        /\ UNCHANGED <<finished_tasks, hand, collected>>
    BY <1>a DEF Submit, DoTask
  <2>2. t \notin Elems(pending_tasks) \cup Held \cup Elems(finished_tasks)
    BY <2>1, <1>0 DEF EachTaskInOnePlace
  <2>3. /\ Elems(pending_tasks') = Elems(pending_tasks) \cup {t}
        /\ NoRepeat(pending_tasks')
    <3>1. NoRepeat(pending_tasks) /\ t \notin Elems(pending_tasks)
      BY <2>2 DEF EachTaskInOnePlace
    <3> QED BY <1>0, <2>1, <3>1, AppendElems
  <2>4. Held' = Held
    BY <2>1 DEF Held
  <2> QED BY <2>1, <2>2, <2>3, <2>4, <1>0 DEF EachTaskInOnePlace
<1>b. ASSUME NEW t \in Mailbox, Collect(t) PROVE EachTaskInOnePlace'
  <2>1. /\ finished_tasks # <<>> /\ t = Head(finished_tasks)
        /\ finished_tasks' = Tail(finished_tasks)
        /\ collected' = collected \cup {t}
        /\ UNCHANGED <<pending_tasks, hand, submitted>>
    BY <1>b DEF Collect, FindFinished
  <2>2. /\ Elems(finished_tasks) = {t} \cup Elems(finished_tasks')
        /\ NoRepeat(finished_tasks')
        /\ t \notin Elems(finished_tasks')
    <3>1. NoRepeat(finished_tasks)
      BY DEF EachTaskInOnePlace
    <3> QED BY <1>0, <2>1, <3>1, TailElems
  <2>3. Held' = Held /\ Elems(pending_tasks') = Elems(pending_tasks)
    BY <2>1 DEF Held
  <2> QED BY <2>1, <2>2, <2>3, <1>0 DEF EachTaskInOnePlace
<1>c. CASE AskAllDone
  BY <1>c, OnePlaceSame DEF AskAllDone
<1>g. ASSUME NEW w \in Worker, Take(w) PROVE EachTaskInOnePlace'
  <2> DEFINE m == Head(pending_tasks)
  <2>1. /\ hand[w] = Idle /\ pending_tasks # <<>>
        /\ hand' = [hand EXCEPT ![w] = m]
        /\ pending_tasks' = Tail(pending_tasks)
        /\ UNCHANGED <<finished_tasks, submitted, collected>>
    BY <1>g DEF Take, TakeTask, client
  <2>2. /\ m \in Mailbox
        /\ Elems(pending_tasks) = {m} \cup Elems(pending_tasks')
        /\ NoRepeat(pending_tasks')
        /\ m \notin Elems(pending_tasks')
    <3>1. NoRepeat(pending_tasks)
      BY DEF EachTaskInOnePlace
    <3> QED BY <1>0, <2>1, <3>1, TailElems
  <2> HIDE DEF m
  <2>3. Held' = Held \cup {m}
    BY <2>1, <2>2, <1>0 DEF Held
  <2>4. \A u, v \in Worker : hand'[u] = hand'[v] /\ hand'[u] \in Mailbox => u = v
    <3>1. m \in Mailbox => m \notin Held
      BY <2>2, <1>0 DEF EachTaskInOnePlace
    <3>2. \A v \in Worker \ {w} : hand'[v] = hand[v] /\ (hand[v] \in Mailbox => hand[v] \in Held)
      BY <2>1, <1>0 DEF Held
    <3>3. hand'[w] = m
      BY <2>1, <1>0
    <3> QED BY <3>1, <3>2, <3>3 DEF EachTaskInOnePlace
  <2> QED BY <2>1, <2>2, <2>3, <2>4, <1>0 DEF EachTaskInOnePlace
<1>i. ASSUME NEW w \in Worker, Finish(w) PROVE EachTaskInOnePlace'
  <2>1. /\ hand[w] \in Mailbox
        /\ hand' = [hand EXCEPT ![w] = Idle]
        /\ finished_tasks' = Append(finished_tasks, hand[w])
        /\ UNCHANGED <<pending_tasks, submitted, collected>>
    BY <1>i DEF Finish, PutResult, client
  <2>2. hand[w] \in Held
    BY <2>1 DEF Held
  <2>3. /\ Elems(finished_tasks') = Elems(finished_tasks) \cup {hand[w]}
        /\ NoRepeat(finished_tasks')
    <3>1. NoRepeat(finished_tasks) /\ hand[w] \notin Elems(finished_tasks)
      BY <2>2 DEF EachTaskInOnePlace
    <3> QED BY <1>0, <2>1, <3>1, AppendElems
  <2>4. Held' = Held \ {hand[w]}
    BY <2>1, <1>0 DEF Held, EachTaskInOnePlace
  <2>5. \A u, v \in Worker : hand'[u] = hand'[v] /\ hand'[u] \in Mailbox => u = v
    BY <2>1, <1>0 DEF EachTaskInOnePlace
  <2> QED BY <2>1, <2>2, <2>3, <2>4, <2>5, <1>0 DEF EachTaskInOnePlace
<1>k. ASSUME NEW w \in Worker, Fail(w) PROVE EachTaskInOnePlace'
  BY <1>k, OnePlaceSame DEF Fail
<1>l. CASE UNCHANGED vars
  BY <1>l, OnePlaceSame DEF vars, client
<1> QED BY <1>a, <1>b, <1>c, <1>g, <1>i, <1>k, <1>l DEF Next

\* Every task that is still owed is in exactly one place.
THEOREM NoTaskLost == Spec => []EachTaskInOnePlace
BY TypeCorrect, OnePlaceInit, OnePlaceStep, PTL DEF Spec

-----------------------------------------------------------------------------
(* Quiescence.  PoolInv is the inductive invariant: that all_tasks_done()   *)
(* can be trusted rests on the counter and on every task being somewhere.   *)

PoolInv ==
  /\ CountInv
  /\ EachTaskInOnePlace
  /\ QuietMeansCollected

\* What one evaluation of all_tasks_done() tells (multithread.cpp:72-77).
LEMMA DoneMeansCollected ==
  ASSUME CountInv, EachTaskInOnePlace, AllTasksDone
  PROVE  submitted = collected
<1>1. Holding \in SUBSET Worker /\ Cardinality(Holding) = 0
  BY DEF Holding, CountInv, BusyIsHolding, AllTasksDone
<1>2. Holding = {}
  BY <1>1, HoldingFinite, FS_EmptySet
<1>3. Held = {}
  BY <1>2, QueuesAssumption DEF Holding, Held
<1>4. Elems(pending_tasks) = {} /\ Elems(finished_tasks) = {}
  BY DEF AllTasksDone, Elems
<1> QED BY <1>3, <1>4 DEF EachTaskInOnePlace

\* After all_tasks_done() nothing is owed until the client submits again.
LEMMA QuietStep ==
  CountInv /\ EachTaskInOnePlace /\ QuietMeansCollected /\ [Next]_vars
    => QuietMeansCollected'
<1> SUFFICES ASSUME CountInv, EachTaskInOnePlace, QuietMeansCollected, [Next]_vars
             PROVE  QuietMeansCollected'
  OBVIOUS
<1> USE DEF QuietMeansCollected
<1>a. ASSUME NEW t \in Mailbox, Submit(t) PROVE QuietMeansCollected'
  BY <1>a DEF Submit
<1>b. ASSUME NEW t \in Mailbox, Collect(t) PROVE QuietMeansCollected'
  <2>1. /\ finished_tasks \in Seq(Mailbox) /\ finished_tasks # <<>>
        /\ t = Head(finished_tasks)
    BY <1>b DEF Collect, FindFinished, CountInv, TypeOK, QueuesTypeOK
  <2>2. t \in Elems(finished_tasks)
    BY <2>1, EmptySeq, LenProperties DEF Elems
  <2>3. t \in submitted \ collected
    BY <2>2 DEF EachTaskInOnePlace
  <2> QED BY <1>b, <2>3 DEF Collect
<1>c. CASE AskAllDone
  BY <1>c, DoneMeansCollected DEF AskAllDone
<1>f. ASSUME NEW w \in Worker, Take(w) \/ Finish(w) \/ Fail(w)
      PROVE  QuietMeansCollected'
  BY <1>f DEF Take, Finish, Fail, client
<1>g. CASE UNCHANGED vars
  BY <1>g DEF vars, client
<1> QED BY <1>a, <1>b, <1>c, <1>f, <1>g DEF Next

\* The invariant holds in every reachable state.
LEMMA PoolInvInductive == Spec => []PoolInv
<1>1. Init => PoolInv
  <2>1. Init => QuietMeansCollected
    BY DEF Init, QuietMeansCollected
  <2> QED BY <2>1, CountInit, OnePlaceInit DEF PoolInv
<1>2. PoolInv /\ [Next]_vars => PoolInv'
  BY CountStep, OnePlaceStep, QuietStep DEF PoolInv, CountInv
<1> QED BY <1>1, <1>2, PTL DEF Spec

\* all_tasks_done() is to be trusted: once it has said yes, the client has
\* every result until it submits again (multithread.cpp:72-77).
THEOREM QuietIsQuiet == Spec => []QuietMeansCollected
<1>1. PoolInv => QuietMeansCollected
  BY DEF PoolInv
<1> QED BY <1>1, PoolInvInductive, PTL

-----------------------------------------------------------------------------
(* Refinement. *)

\* Every step of the pool is a step of the abstract pool, or none of its own.
LEMMA RefineStep == PoolInv /\ [Next]_vars => [TP!Next]_(TP!vars)
<1> SUFFICES ASSUME PoolInv, Next PROVE TP!Next \/ UNCHANGED TP!vars
  BY DEF vars, client, TP!vars, Mode
<1>0. submitted \subseteq Mailbox /\ collected \subseteq submitted
  BY DEF PoolInv, CountInv, TypeOK, EachTaskInOnePlace
<1>a. ASSUME NEW t \in Mailbox, Submit(t) PROVE TP!Submit(t)
  BY <1>a, <1>0 DEF Submit, TP!Submit, Mode
<1>b. ASSUME NEW t \in Mailbox, Collect(t) PROVE TP!Deliver(t)
  <2>1. /\ finished_tasks \in Seq(Mailbox) /\ finished_tasks # <<>>
        /\ t = Head(finished_tasks)
    BY <1>b DEF Collect, FindFinished, PoolInv, CountInv, TypeOK, QueuesTypeOK
  <2>2. t \in Elems(finished_tasks)
    BY <2>1, EmptySeq, LenProperties DEF Elems
  <2>3. t \in submitted \ collected
    BY <2>2 DEF PoolInv, EachTaskInOnePlace
  <2>4. mpc = "run"
    BY <1>b, <2>3 DEF Collect, PoolInv, QuietMeansCollected, CountInv, TypeOK
  <2> QED BY <1>b, <2>3, <2>4 DEF Collect, TP!Deliver, Mode
<1>c. ASSUME AskAllDone PROVE TP!Quiesce \/ UNCHANGED TP!vars
  <2>1. submitted = collected
    BY <1>c, DoneMeansCollected DEF AskAllDone, PoolInv
  <2> QED BY <1>c, <2>1 DEF AskAllDone, TP!Quiesce, TP!vars, Mode
<1>f. ASSUME NEW w \in Worker, Take(w) \/ Finish(w) PROVE UNCHANGED TP!vars
  BY <1>f DEF Take, Finish, client, TP!vars, Mode
<1>g. ASSUME NEW w \in Worker, Fail(w) PROVE TP!Abort
  BY <1>g DEF Fail, TP!Abort, Mode
<1> QED BY <1>a, <1>b, <1>c, <1>f, <1>g DEF Next, TP!Next

\* The pool of threads and queues implements the abstract TaskPool: exactly-once
\* delivery, and truthful quiescence (multithread.h:34-71).
THEOREM PoolImplementsTaskPool == Spec => ImplementsTaskPool
<1>1. Init => TP!Init
  BY DEF Init, TP!Init, Mode
<1> QED BY <1>1, RefineStep, PoolInvInductive, PTL DEF Spec, ImplementsTaskPool, TP!Spec
=============================================================================
