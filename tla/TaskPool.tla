------------------------------ MODULE TaskPool ------------------------------
(***************************************************************************)
(* What a MasterThread promises its client, with no threads or queues in   *)
(* sight: a task that is submitted is delivered back exactly once, and     *)
(* "all tasks are done" is said only when nothing is owed.  WorkerPool     *)
(* implements this.                                                        *)
(***************************************************************************)
CONSTANT Task

VARIABLES
  outstanding,  \* tasks submitted and not yet delivered
  delivered,    \* tasks handed back to the client
  mode          \* "open", "quiet" (told that all is done), "aborted"

vars == <<outstanding, delivered, mode>>

Init == outstanding = {} /\ delivered = {} /\ mode = "open"

Submit(t) ==
  /\ mode \in {"open", "quiet"}
  /\ t \notin outstanding \cup delivered
  /\ outstanding' = outstanding \cup {t}
  /\ mode' = "open"
  /\ UNCHANGED delivered

Deliver(t) ==
  /\ mode = "open"
  /\ t \in outstanding
  /\ outstanding' = outstanding \ {t}
  /\ delivered' = delivered \cup {t}
  /\ UNCHANGED mode

Quiesce ==
  /\ mode = "open"
  /\ outstanding = {}
  /\ mode' = "quiet"
  /\ UNCHANGED <<outstanding, delivered>>

Abort ==
  /\ mode' = "aborted"
  /\ UNCHANGED <<outstanding, delivered>>

Next ==
  \/ \E t \in Task : Submit(t) \/ Deliver(t)
  \/ Quiesce \/ Abort

Spec == Init /\ [][Next]_vars
=============================================================================
