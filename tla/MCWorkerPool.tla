---------------------------- MODULE MCWorkerPool ----------------------------
(* Three workers and four tasks: all workers can be busy while a task       *)
(* waits, and results overtake each other.                                 *)
EXTENDS WorkerPool
=============================================================================
