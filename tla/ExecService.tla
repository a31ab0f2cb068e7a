---------------------------- MODULE ExecService ----------------------------
(* What accept() expects of NetqreClientManager::exec() (interface.hpp,    *)
(* 364-375): a call hands over a list of configurations and returns, in    *)
(* one step, the value of each, at its place.  No cache, client, lock or   *)
(* server is seen.                                                         *)
EXTENDS Sequences, Naturals

CONSTANTS Caller, ExecLists, Value

VARIABLES
  running,   \* running[c]: c is in a call
  list,      \* list[c]: the argument of its latest call
  result     \* result[c]: what that call returned; empty while it runs

svars == <<running, list, result>>

SInit ==
  /\ running = [c \in Caller |-> FALSE]
  /\ list = [c \in Caller |-> <<>>]
  /\ result = [c \in Caller |-> <<>>]

SCall(c) ==
  /\ ~running[c]
  /\ running' = [running EXCEPT ![c] = TRUE]
  /\ \E l \in ExecLists : list' = [list EXCEPT ![c] = l]
  /\ result' = [result EXCEPT ![c] = <<>>]

SReturn(c) ==
  /\ running[c]
  /\ running' = [running EXCEPT ![c] = FALSE]
  /\ result' = [result EXCEPT ![c] = [j \in DOMAIN list[c] |-> Value[list[c][j]]]]
  /\ UNCHANGED list

SNext == \E c \in Caller : SCall(c) \/ SReturn(c)

SSpec == SInit /\ [][SNext]_svars
=============================================================================
