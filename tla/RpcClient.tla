----------------------------- MODULE RpcClient -----------------------------
(***************************************************************************)
(* NetqreClientManager and NetqreClient (netqre2dt/rpc/client.hpp): the    *)
(* enumerator's workers run a program on the examples by calls to          *)
(* execution servers (netqre2dt/rpc/server.cc), with a cache of answers    *)
(* that all calls share.  An ExecConf (a program, a sign and an example)   *)
(* is a member of Conf; a call of exec() is the sequence of its positive   *)
(* configurations followed by the negative ones, which the code handles by *)
(* two copies of the same loop.                                            *)
(***************************************************************************)
EXTENDS Integers, Sequences, FiniteSets

CONSTANTS
  Caller,     \* the threads that call exec(): the workers of the pool
  Conf,
  ExecLists,  \* the sequences of configurations exec() is called with
  Value,      \* Value[f]: what a server answers to f; it is the same each time
  servers,    \* how many clients the manager has
  MaxCalls,   \* bound of the model: calls of exec() by one caller
  None

ASSUME RpcAssumption ==
  /\ IsFiniteSet(Caller) /\ None \notin Caller
  /\ ExecLists \subseteq Seq(Conf)
  /\ DOMAIN Value = Conf /\ \A f \in Conf : Value[f] # None
  /\ servers \in Nat \ {0}
  /\ MaxCalls \in Nat

Client == 0..(servers - 1)
Result == {Value[f] : f \in Conf}

VARIABLES
  next_client,   \* read and written with no lock
  cache,         \* cache[f] = None: no entry
  count_lock,    \* count_lock[k]: the caller in a section of client k, or None
  buzy_threads,  \* the counter the code keeps for each client
  requests,      \* requests[k]: calls sent to server k and not answered yet
  replies,       \* the values of the futures that are ready
  up,            \* up[k]: server k is running
  pc,            \* pc[c]: the caller's place in exec(), see TypeOK
  list,          \* list[c]: its argument
  pos,           \* pos[c]: the loop index, from 1
  lazy_client,   \* lazy_client[c]: its local variable
  sent_to,       \* sent_to[c][j]: pos_client / neg_client, -1 for a cache hit
  ans,           \* ans[c]: pos_ans followed by neg_ans
  calls          \* calls[c]: calls made so far, bounded by MaxCalls

manager == <<next_client, cache, count_lock, buzy_threads>>
network == <<requests, replies, up>>
callers == <<pc, list, pos, lazy_client, sent_to, ans, calls>>
vars == <<manager, network, callers>>

\* The j-th configuration of a call by c: its future.
Request == [caller : Caller, at : Nat, conf : Conf]
Answer == [caller : Caller, at : Nat, value : Result]

(* The manager, the network and the place of each caller; the unlocked      *)
(* next_client never points past the clients.                               *)
TypeOK ==
  /\ next_client \in Client
  /\ cache \in [Conf -> Result \cup {None}]
  /\ count_lock \in [Client -> Caller \cup {None}]
  /\ buzy_threads \in [Client -> Nat]
  /\ requests \in [Client -> SUBSET Request] /\ replies \subseteq Answer
  /\ up \in [Client -> BOOLEAN]
  /\ pc \in [Caller -> {"idle",
                        "look",     \* about to look its configuration up
                        "next",     \* missed: about to read next_client
                        "advance",  \* about to write next_client
                        "send",     \* about to call the client's exec()
                        "collect",  \* in distribute(), at pos
                        "wait",     \* in collect(), holding count_lock
                        "save"}]    \* about to write its answer to the cache
  /\ list \in [Caller -> Seq(Conf)]
  /\ pos \in [Caller -> Nat \ {0}]
  /\ lazy_client \in [Caller -> Client]
  /\ sent_to \in [Caller -> Seq(Client \cup {-1})]
  /\ ans \in [Caller -> Seq(Result)]
  /\ calls \in [Caller -> 0..MaxCalls]

Init ==
  /\ next_client = 0
  /\ cache = [f \in Conf |-> None]
  /\ count_lock = [k \in Client |-> None]
  /\ buzy_threads = [k \in Client |-> 0]
  /\ requests = [k \in Client |-> {}] /\ replies = {}
  /\ up = [k \in Client |-> TRUE]
  /\ pc = [c \in Caller |-> "idle"]
  /\ list = [c \in Caller |-> <<>>]
  /\ pos = [c \in Caller |-> 1]
  /\ lazy_client = [c \in Caller |-> 0]
  /\ sent_to = [c \in Caller |-> <<>>]
  /\ ans = [c \in Caller |-> <<>>]
  /\ calls = [c \in Caller |-> 0]

conf(c) == list[c][pos[c]]
Goto(c, place) == pc' = [pc EXCEPT ![c] = place]

-----------------------------------------------------------------------------
(* Variants of operators below, each with one slip a maintainer could make. *)

\* The counter is left alone when the answer arrives.
ReceiveStaysBusy(c) ==
  LET k == sent_to[c][pos[c]]
  IN  /\ pc[c] = "wait"
      /\ \E r \in replies :
           /\ r.caller = c /\ r.at = pos[c]
           /\ replies' = replies \ {r}
           /\ ans' = [ans EXCEPT ![c] = Append(@, r.value)]
      /\ count_lock' = [count_lock EXCEPT ![k] = None]
      /\ Goto(c, "save")
      /\ UNCHANGED <<next_client, cache, buzy_threads, requests, up,
                     list, pos, lazy_client, sent_to, calls>>

\* The lock is kept, as an early return before unlock() would.
ReceiveKeepsLock(c) ==
  LET k == sent_to[c][pos[c]]
  IN  /\ pc[c] = "wait"
      /\ \E r \in replies :
           /\ r.caller = c /\ r.at = pos[c]
           /\ replies' = replies \ {r}
           /\ ans' = [ans EXCEPT ![c] = Append(@, r.value)]
      /\ buzy_threads' = [buzy_threads EXCEPT ![k] = @ - 1]
      /\ Goto(c, "save")
      /\ UNCHANGED <<next_client, cache, count_lock, requests, up,
                     list, pos, lazy_client, sent_to, calls>>

\* Whatever future is ready is taken for the one that is waited for.
ReceiveAny(c) ==
  LET k == sent_to[c][pos[c]]
  IN  /\ pc[c] = "wait"
      /\ \E r \in replies :
           /\ r.caller = c
           /\ replies' = replies \ {r}
           /\ ans' = [ans EXCEPT ![c] = Append(@, r.value)]
      /\ buzy_threads' = [buzy_threads EXCEPT ![k] = @ - 1]
      /\ count_lock' = [count_lock EXCEPT ![k] = None]
      /\ Goto(c, "save")
      /\ UNCHANGED <<next_client, cache, requests, up,
                     list, pos, lazy_client, sent_to, calls>>

\* The index moves on before the answer is cached.
SaveUnderNext(c) ==
  /\ pc[c] = "save"
  /\ pos' = [pos EXCEPT ![c] = @ + 1]
  /\ cache' = [f \in Conf |-> IF pos'[c] \in DOMAIN list[c] /\ f = list[c][pos'[c]]
                               THEN ans[c][Len(ans[c])] ELSE cache[f]]
  /\ Goto(c, "collect")
  /\ UNCHANGED <<next_client, count_lock, buzy_threads, network,
                 list, lazy_client, sent_to, ans, calls>>

\* The cache is bounded to its latest entry.
SaveEvicts(c) ==
  /\ pc[c] = "save"
  /\ cache' = [f \in Conf |-> IF f = conf(c) THEN ans[c][Len(ans[c])] ELSE None]
  /\ pos' = [pos EXCEPT ![c] = @ + 1]
  /\ Goto(c, "collect")
  /\ UNCHANGED <<next_client, count_lock, buzy_threads, network,
                 list, lazy_client, sent_to, ans, calls>>

\* A hit is passed over: the loop goes on before the answer is stored.
ReadCacheSkips(c) ==
  /\ pc[c] = "collect" /\ pos[c] <= Len(list[c]) /\ sent_to[c][pos[c]] = -1
  /\ pos' = [pos EXCEPT ![c] = @ + 1]
  /\ UNCHANGED <<manager, network, pc, list, lazy_client, sent_to, ans, calls>>

\* The shared variable is advanced in place, and wrapped too late.
WriteNextUnwrapped(c) ==
  /\ pc[c] = "advance"
  /\ next_client' = next_client + 1
  /\ Goto(c, "send")
  /\ UNCHANGED <<cache, count_lock, buzy_threads, network,
                 list, pos, lazy_client, sent_to, ans, calls>>

-----------------------------------------------------------------------------
(* exec(): send what the cache does not have. *)

Call(c) ==
  /\ pc[c] = "idle" /\ calls[c] < MaxCalls
  /\ \E l \in ExecLists : list' = [list EXCEPT ![c] = l]
  /\ calls' = [calls EXCEPT ![c] = @ + 1]
  /\ pos' = [pos EXCEPT ![c] = 1]
  /\ sent_to' = [sent_to EXCEPT ![c] = <<>>]
  /\ ans' = [ans EXCEPT ![c] = <<>>]
  /\ Goto(c, "look")
  /\ UNCHANGED <<manager, network, lazy_client>>

Look(c) ==
  /\ pc[c] = "look" /\ pos[c] <= Len(list[c])
  /\ IF cache[conf(c)] # None
       THEN /\ sent_to' = [sent_to EXCEPT ![c] = Append(@, -1)]
            /\ pos' = [pos EXCEPT ![c] = @ + 1]
            /\ UNCHANGED pc
       ELSE Goto(c, "next") /\ UNCHANGED <<sent_to, pos>>
  /\ UNCHANGED <<manager, network, list, lazy_client, ans, calls>>

ReadNext(c) ==
  /\ pc[c] = "next"
  /\ lazy_client' = [lazy_client EXCEPT ![c] = (next_client + 1) % servers]
  /\ Goto(c, "advance")
  /\ UNCHANGED <<manager, network, list, pos, sent_to, ans, calls>>

WriteNext(c) ==
  /\ pc[c] = "advance"
  /\ next_client' = lazy_client[c]
  /\ Goto(c, "send")
  /\ UNCHANGED <<cache, count_lock, buzy_threads, network,
                 list, pos, lazy_client, sent_to, ans, calls>>

\* NetqreClient::exec(); the call to a server that is down is lost.
Send(c) ==
  LET k == lazy_client[c]
  IN  /\ pc[c] = "send"
      /\ count_lock[k] = None
      /\ buzy_threads' = [buzy_threads EXCEPT ![k] = @ + 1]
      /\ requests' =
           IF up[k]
             THEN [requests EXCEPT ![k] =
                     @ \cup {[caller |-> c, at |-> pos[c], conf |-> conf(c)]}]
             ELSE requests
      /\ sent_to' = [sent_to EXCEPT ![c] = Append(@, k)]
      /\ pos' = [pos EXCEPT ![c] = @ + 1]
      /\ Goto(c, "look")
      /\ UNCHANGED <<next_client, cache, count_lock, replies, up,
                     list, lazy_client, ans, calls>>

AllSent(c) ==
  /\ pc[c] = "look" /\ pos[c] > Len(list[c])
  /\ pos' = [pos EXCEPT ![c] = 1]
  /\ Goto(c, "collect")
  /\ UNCHANGED <<manager, network, list, lazy_client, sent_to, ans, calls>>

-----------------------------------------------------------------------------
(* distribute(): collect in the order of the configurations. *)

Collecting(c) == pc[c] = "collect" /\ pos[c] <= Len(list[c])

ReadCache(c) ==
  /\ Collecting(c) /\ sent_to[c][pos[c]] = -1
  /\ ans' = [ans EXCEPT ![c] = Append(@, cache[conf(c)])]
  /\ pos' = [pos EXCEPT ![c] = @ + 1]
  /\ UNCHANGED <<manager, network, pc, list, lazy_client, sent_to, calls>>

\* collect() takes the lock before it waits for the answer ...
Lock(c) ==
  /\ Collecting(c) /\ sent_to[c][pos[c]] # -1
  /\ count_lock[sent_to[c][pos[c]]] = None
  /\ count_lock' = [count_lock EXCEPT ![sent_to[c][pos[c]]] = c]
  /\ Goto(c, "wait")
  /\ UNCHANGED <<next_client, cache, buzy_threads, network,
                 list, pos, lazy_client, sent_to, ans, calls>>

\* ... and releases it with the answer in hand.
Receive(c) ==
  LET k == sent_to[c][pos[c]]
  IN  /\ pc[c] = "wait"
      /\ \E r \in replies :
           /\ r.caller = c /\ r.at = pos[c]
           /\ replies' = replies \ {r}
           /\ ans' = [ans EXCEPT ![c] = Append(@, r.value)]
      /\ buzy_threads' = [buzy_threads EXCEPT ![k] = @ - 1]
      /\ count_lock' = [count_lock EXCEPT ![k] = None]
      /\ Goto(c, "save")
      /\ UNCHANGED <<next_client, cache, requests, up,
                     list, pos, lazy_client, sent_to, calls>>

Save(c) ==
  /\ pc[c] = "save"
  /\ cache' = [cache EXCEPT ![conf(c)] = ans[c][Len(ans[c])]]
  /\ pos' = [pos EXCEPT ![c] = @ + 1]
  /\ Goto(c, "collect")
  /\ UNCHANGED <<next_client, count_lock, buzy_threads, network,
                 list, lazy_client, sent_to, ans, calls>>

Return(c) ==
  /\ pc[c] = "collect" /\ pos[c] > Len(list[c])
  /\ Goto(c, "idle")
  /\ UNCHANGED <<manager, network, list, pos, lazy_client, sent_to, ans, calls>>

-----------------------------------------------------------------------------
(* The servers: THREAD_COUNT threads answer requests in any order. *)

Reply(k) ==
  /\ \E r \in requests[k] :
       /\ requests' = [requests EXCEPT ![k] = @ \ {r}]
       /\ replies' = replies \cup
                       {[caller |-> r.caller, at |-> r.at, value |-> Value[r.conf]]}
  /\ UNCHANGED <<manager, callers, up>>

\* A server process dies with the requests it has; nothing restarts it.
Crash(k) ==
  /\ up[k]
  /\ up' = [up EXCEPT ![k] = FALSE]
  /\ requests' = [requests EXCEPT ![k] = {}]
  /\ UNCHANGED <<manager, callers, replies>>

-----------------------------------------------------------------------------
Exec(c) ==
  \/ Look(c) \/ ReadNext(c) \/ WriteNext(c) \/ Send(c) \/ AllSent(c)
  \/ ReadCache(c) \/ Lock(c) \/ Receive(c) \/ Save(c) \/ Return(c)

Next ==
  \/ \E c \in Caller : Call(c) \/ Exec(c)
  \/ \E k \in Client : Reply(k) \/ Crash(k)

\* Threads run; a server that is up answers what it has.
Fairness ==
  /\ \A c \in Caller : WF_vars(Exec(c))
  /\ \A k \in Client : WF_vars(Reply(k))

Spec == Init /\ [][Next]_vars
FairSpec == Spec /\ Fairness

-----------------------------------------------------------------------------
(* Properties. *)

\* The answers of a call line up with its configurations, as accept() takes
\* for granted (interface.hpp:357-362), whichever servers answered in whichever
\* order and whatever came from the cache.
AnswersLineUp ==
  \A c \in Caller : \A j \in 1..Len(ans[c]) : ans[c][j] = Value[list[c][j]]

\* What is in the cache is what a server would answer, whoever wrote it.
CacheFaithful == \A f \in Conf : cache[f] \in {None, Value[f]}

\* A hit that was noted while sending is still in the cache when the call gets
\* round to reading it, in another critical section (client.hpp:134-142, 204-206).
HitStaysCached ==
  \A c \in Caller : \A j \in DOMAIN sent_to[c] :
    sent_to[c][j] = -1 => cache[list[c][j]] # None

\* How many answers of its call c has; none while it still sends.
Collected(c) == IF pc[c] \in {"look", "next", "advance", "send"} THEN 0
                ELSE Len(ans[c])

\* The places of c's call whose answer client k still owes it.
Owed(c, k) == {j \in DOMAIN sent_to[c] : sent_to[c][j] = k /\ j > Collected(c)}

\* The counter of a client is the number of its calls that nobody has collected.
BusyIsOwed ==
  \A k \in Client :
    buzy_threads[k] =
      Cardinality(UNION {{c} \X Owed(c, k) : c \in Caller})

\* A client is locked exactly while a caller waits in collect() for an answer
\* of that client: so a caller never waits for a lock while holding one, and
\* the callers cannot wait for each other in a circle.
LockedByWaiter ==
  \A k \in Client, c \in Caller :
    count_lock[k] = c <=> pc[c] = "wait" /\ sent_to[c][pos[c]] = k

\* What the manager is for its callers: exec() returns the value of each
\* configuration at its place, whatever happens behind it.
Service == INSTANCE ExecService
             WITH running <- [c \in Caller |-> pc[c] # "idle"],
                  result <- [c \in Caller |-> IF pc[c] = "idle" THEN ans[c] ELSE <<>>]
ImplementsExec == Service!SSpec

\* While all servers are up, every call of exec() returns.
ExecReturns ==
  \A c \in Caller : pc[c] = "look" ~> (pc[c] = "idle" \/ \E k \in Client : ~up[k])
=============================================================================
