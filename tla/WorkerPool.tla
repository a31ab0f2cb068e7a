----------------------------- MODULE WorkerPool -----------------------------
(***************************************************************************)
(* MasterThread and WorkerThread (synthesizer/core/multithread.{h,cpp})    *)
(* with a client that may call do_task, find_finished_task and             *)
(* all_tasks_done in any order.  Mailbox is the set of tasks the client    *)
(* ever submits; each is submitted once, so that it can be followed        *)
(* through the pool.  Results are abstracted away: a worker hands back the *)
(* mailbox it took.                                                        *)
(***************************************************************************)
EXTENDS TaskQueues

VARIABLES
  mpc,        \* the client's thread, see TypeOK
  submitted,  \* history: tasks given to do_task()
  collected,  \* history: tasks find_finished_task() returned
  alive       \* FALSE once the process has exited

client == <<mpc, submitted, collected, alive>>
vars == <<queues, client>>

(* The queues and the client; the counter of busy workers counts workers.   *)
TypeOK ==
  /\ QueuesTypeOK
  /\ mpc \in {"run",     \* the client may be owed a task
              "quiet"}   \* all_tasks_done() returned true and no task was submitted since
  /\ submitted \subseteq Mailbox
  /\ collected \subseteq Mailbox
  /\ alive \in BOOLEAN

Init ==
  /\ QueuesInit
  /\ mpc = "run"
  /\ submitted = {}
  /\ collected = {}
  /\ alive = TRUE

-----------------------------------------------------------------------------
(* The client's thread. *)

Submit(t) ==
  /\ alive
  /\ t \notin submitted
  /\ DoTask(t)
  /\ submitted' = submitted \cup {t}
  /\ mpc' = "run"
  /\ UNCHANGED <<collected, alive>>

\* find_finished_task(); with nothing finished it returns at once and changes
\* nothing.
Collect(t) ==
  /\ alive
  /\ FindFinished(t)
  /\ collected' = collected \cup {t}
  /\ UNCHANGED <<mpc, submitted, alive>>

AskAllDone ==
  /\ alive
  /\ AllTasksDone
  /\ mpc' = "quiet"
  /\ UNCHANGED <<queues, submitted, collected, alive>>

-----------------------------------------------------------------------------
(* A worker's thread. *)

Take(w) == alive /\ TakeTask(w) /\ UNCHANGED client

Finish(w) == alive /\ PutResult(w, hand[w]) /\ UNCHANGED client

\* Processing a task may throw for want of a requirement; the worker catches
\* it and calls exit(1).
Fail(w) ==
  /\ alive
  /\ hand[w] \in Mailbox
  /\ alive' = FALSE
  /\ UNCHANGED <<queues, mpc, submitted, collected>>

Next ==
  \/ \E t \in Mailbox : Submit(t) \/ Collect(t)
  \/ AskAllDone
  \/ \E w \in Worker : Take(w) \/ Finish(w) \/ Fail(w)

\* Threads are scheduled fairly, a task terminates, and the client keeps
\* polling find_finished_task() (search_graph.cpp does, in finish_tasks).
Fairness ==
  /\ \A w \in Worker : WF_vars(Take(w)) /\ WF_vars(Finish(w))
  /\ WF_vars(\E t \in Mailbox : Collect(t))

Spec == Init /\ [][Next]_vars
FairSpec == Spec /\ Fairness

-----------------------------------------------------------------------------
(* Safety. *)

Held == {hand[w] : w \in Worker} \cap Mailbox

\* A task the client is still owed is in exactly one place: waiting, in the
\* hands of exactly one worker, or finished; nothing else is anywhere.  So no
\* task is lost, processed twice or answered twice (multithread.cpp:25-70, 118-157).
EachTaskInOnePlace ==
  /\ collected \subseteq submitted
  /\ submitted \ collected =
       Elems(pending_tasks) \cup Held \cup Elems(finished_tasks)
  /\ NoRepeat(pending_tasks) /\ NoRepeat(finished_tasks)
  /\ \A v, w \in Worker : hand[v] = hand[w] /\ hand[v] \in Mailbox => v = w
  /\ Elems(pending_tasks) \cap Held = {}
  /\ Elems(pending_tasks) \cap Elems(finished_tasks) = {}
  /\ Held \cap Elems(finished_tasks) = {}

\* When all_tasks_done() has returned true, and as long as the client submits
\* nothing, every task ever submitted has been collected (multithread.cpp:72-77).
QuietMeansCollected == mpc = "quiet" => submitted = collected

-----------------------------------------------------------------------------
(* Refinement and liveness. *)

\* What the client has been told about the pool.
Mode == IF ~alive THEN "aborted"
        ELSE IF mpc = "run" THEN "open" ELSE "quiet"

TP == INSTANCE TaskPool WITH
        Task        <- Mailbox,
        outstanding <- submitted \ collected,
        delivered   <- collected,
        mode        <- Mode

\* The pool implements the abstract TaskPool.
ImplementsTaskPool == TP!Spec

\* A submitted task comes back, unless the process exits
\* (multithread.cpp:25-70, 118-157).
EveryTaskComesBack ==
  \A t \in Mailbox : t \in submitted ~> (t \in collected \/ ~alive)

=============================================================================
