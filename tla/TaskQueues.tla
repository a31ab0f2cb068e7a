----------------------------- MODULE TaskQueues -----------------------------
(***************************************************************************)
(* The state a MasterThread shares with its WorkerThreads                  *)
(* (synthesizer/core/multithread.{h,cpp}): two queues of mailboxes and the *)
(* counter of busy workers, every access under task_lock.  An operator     *)
(* here is one lock ... unlock section of the code, hence one atomic step. *)
(* WorkerPool puts a client on top of it and SearchGraph the real one.     *)
(*                                                                         *)
(* No mailbox of type KILL is ever in a queue: only ~MasterThread() pushes *)
(* one, and it never runs, because worker_pool owns the workers and each   *)
(* of them owns the master.                                                *)
(***************************************************************************)
EXTENDS Integers, Sequences, FiniteSets

CONSTANTS
  Worker,   \* the threads hire_workers() starts; population = Cardinality(Worker)
  Mailbox,  \* messages of type FILTER or ACCEPT
  Idle      \* hand[w] = Idle: w is at the top of its loop and holds nothing

ASSUME QueuesAssumption ==
  /\ IsFiniteSet(Worker)
  /\ Idle \notin Mailbox

VARIABLES
  pending_tasks,   \* queue of mailboxes no worker has taken
  finished_tasks,  \* queue of mailboxes the master has not collected
  buzy_workers,    \* the counter the code keeps, not a derived value
  hand             \* hand[w]: the mailbox worker w took, or Idle

queues == <<pending_tasks, finished_tasks, buzy_workers, hand>>

population == Cardinality(Worker)

Elems(q) == {q[i] : i \in DOMAIN q}

\* No mailbox occurs twice in q.
NoRepeat(q) == \A i, j \in DOMAIN q : q[i] = q[j] => i = j

QueuesTypeOK ==
  /\ pending_tasks \in Seq(Mailbox)
  /\ finished_tasks \in Seq(Mailbox)
  /\ buzy_workers \in 0..population
  /\ hand \in [Worker -> Mailbox \cup {Idle}]

QueuesInit ==
  /\ pending_tasks = <<>>
  /\ finished_tasks = <<>>
  /\ buzy_workers = 0
  /\ hand = [w \in Worker |-> Idle]

-----------------------------------------------------------------------------
(* Variants of the operators below, each with one slip a maintainer could  *)
(* make; they show that the properties depend on what the code does.       *)

AllTasksDoneIgnoresBusy == pending_tasks = <<>> /\ finished_tasks = <<>>

AllTasksDoneIgnoresFinished == buzy_workers = 0 /\ pending_tasks = <<>>

TakeTaskForgetsBusy(w) ==
  /\ hand[w] = Idle
  /\ pending_tasks # <<>>
  /\ hand' = [hand EXCEPT ![w] = Head(pending_tasks)]
  /\ pending_tasks' = Tail(pending_tasks)
  /\ UNCHANGED <<finished_tasks, buzy_workers>>

PutResultLosesIt(w, m) ==
  /\ hand[w] \in Mailbox
  /\ buzy_workers' = buzy_workers - 1
  /\ hand' = [hand EXCEPT ![w] = Idle]
  /\ UNCHANGED <<pending_tasks, finished_tasks>>

PutResultStillBusy(w, m) ==
  /\ hand[w] \in Mailbox
  /\ finished_tasks' = Append(finished_tasks, m)
  /\ hand' = [hand EXCEPT ![w] = Idle]
  /\ UNCHANGED <<pending_tasks, buzy_workers>>

FindFinishedPeeks(m) ==
  /\ finished_tasks # <<>>
  /\ m = Head(finished_tasks)
  /\ UNCHANGED queues

-----------------------------------------------------------------------------
(* The master's side. *)

\* do_task(): what do_filter() and do_accept() end in.
DoTask(m) ==
  /\ pending_tasks' = Append(pending_tasks, m)
  /\ UNCHANGED <<finished_tasks, buzy_workers, hand>>

\* find_finished_task() with a result: the oldest finished mailbox is m.
FindFinished(m) ==
  /\ finished_tasks # <<>>
  /\ m = Head(finished_tasks)
  /\ finished_tasks' = Tail(finished_tasks)
  /\ UNCHANGED <<pending_tasks, buzy_workers, hand>>

\* all_tasks_done(): the three tests are made under one lock.
AllTasksDone == buzy_workers = 0 /\ pending_tasks = <<>> /\ finished_tasks = <<>>

-----------------------------------------------------------------------------
(* The worker's side: the sections of working_loop().  An empty queue      *)
(* makes the worker sleep and look again, which changes nothing.           *)

TakeTask(w) ==
  /\ hand[w] = Idle
  /\ pending_tasks # <<>>
  /\ hand' = [hand EXCEPT ![w] = Head(pending_tasks)]
  /\ pending_tasks' = Tail(pending_tasks)
  /\ buzy_workers' = buzy_workers + 1
  /\ UNCHANGED finished_tasks

\* The worker processed its mailbox, which is now m, and hands it back.
PutResult(w, m) ==
  /\ hand[w] \in Mailbox
  /\ finished_tasks' = Append(finished_tasks, m)
  /\ buzy_workers' = buzy_workers - 1
  /\ hand' = [hand EXCEPT ![w] = Idle]
  /\ UNCHANGED pending_tasks

-----------------------------------------------------------------------------
Holding == {w \in Worker : hand[w] # Idle}

\* The counter all_tasks_done() trusts counts exactly the workers that hold a
\* mailbox, whatever the interleaving of takes and results.
BusyIsHolding == buzy_workers = Cardinality(Holding)
=============================================================================
