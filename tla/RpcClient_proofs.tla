-------------------------- MODULE RpcClient_proofs --------------------------
(***************************************************************************)
(* Proofs about RpcClient, for every finite set of callers, every number   *)
(* of servers and all lists of configurations.                             *)
(***************************************************************************)
EXTENDS RpcClient, SequenceTheorems, FiniteSetTheorems, TLAPS

Sending == {"look", "next", "advance", "send"}

\* How far a call has got, at each of its places in the code.
ShapeOf(c) ==
  /\ pos[c] <= Len(list[c]) + 1
  /\ pc[c] \in Sending =>
       /\ ans[c] = <<>> /\ Len(sent_to[c]) = pos[c] - 1
       /\ pc[c] # "look" => pos[c] <= Len(list[c])
  /\ pc[c] \notin Sending =>
       /\ Len(sent_to[c]) = Len(list[c])
       /\ Len(ans[c]) = IF pc[c] = "save" THEN pos[c] ELSE pos[c] - 1
       /\ pc[c] \in {"wait", "save"} => /\ pos[c] <= Len(list[c])
                                        /\ sent_to[c][pos[c]] # -1
       /\ pc[c] = "idle" => pos[c] = Len(list[c]) + 1

LinedUp(c) == \A j \in 1..Len(ans[c]) : ans[c][j] = Value[list[c][j]]

HitsKept(c) ==
  \A j \in 1..Len(sent_to[c]) : sent_to[c][j] = -1 => cache[list[c][j]] # None

CallInv(c) == ShapeOf(c) /\ LinedUp(c) /\ HitsKept(c)

\* A request or a reply belongs to a place of the call of its caller that is
\* owed; it carries that place's configuration or its value, and no place has
\* both.
GoodRequest(q, k) ==
  q.at \in Owed(q.caller, k) /\ q.conf = list[q.caller][q.at]

GoodReply(r) ==
  /\ \E k \in Client : r.at \in Owed(r.caller, k)
  /\ r.value = Value[list[r.caller][r.at]]

InFlight ==
  /\ \A k \in Client : \A q \in requests[k] : GoodRequest(q, k)
  /\ \A r \in replies : GoodReply(r)

NotTwice ==
  \A k \in Client : \A q \in requests[k] : \A r \in replies :
    ~(r.caller = q.caller /\ r.at = q.at)

\* The inductive invariant.
RpcInv ==
  /\ TypeOK /\ BusyIsOwed /\ InFlight /\ NotTwice /\ CacheFaithful
  /\ \A c \in Caller : CallInv(c)

-----------------------------------------------------------------------------
(* Small facts. *)

LEMMA ClientFacts == Client \subseteq Nat /\ 0 \in Client /\ -1 \notin Client
BY RpcAssumption DEF Client

LEMMA ResultFacts == \A f \in Conf : Value[f] \in Result /\ Value[f] # None
BY RpcAssumption DEF Result

\* The next index stays in range.
LEMMA NextClient == ASSUME NEW n \in Client PROVE (n + 1) % servers \in Client
BY RpcAssumption DEF Client

\* The types of a caller's part of the state.
LEMMA CallTypes ==
  ASSUME TypeOK, NEW c \in Caller
  PROVE  /\ list[c] \in Seq(Conf) /\ pos[c] \in Nat \ {0}
         /\ sent_to[c] \in Seq(Client \cup {-1}) /\ ans[c] \in Seq(Result)
         /\ Len(list[c]) \in Nat /\ Len(sent_to[c]) \in Nat /\ Len(ans[c]) \in Nat
         /\ \A j \in 1..Len(list[c]) : list[c][j] \in Conf
BY DEF TypeOK

\* While a call is in its body, the configuration at its index is one.
LEMMA ConfHere ==
  ASSUME TypeOK, NEW c \in Caller, pos[c] <= Len(list[c])
  PROVE  conf(c) \in Conf /\ pos[c] \in 1..Len(list[c]) /\ conf(c) = list[c][pos[c]]
BY CallTypes DEF conf

\* The calls of client k that nobody has collected.
OwedBy(k) == UNION {{c} \X Owed(c, k) : c \in Caller}

LEMMA OwedByIs ==
  /\ BusyIsOwed <=> \A k \in Client : buzy_threads[k] = Cardinality(OwedBy(k))
  /\ \A k, c, j : <<c, j>> \in OwedBy(k) <=> c \in Caller /\ j \in Owed(c, k)
  /\ \A k : \A e \in OwedBy(k) : e = <<e[1], e[2]>>
BY DEF BusyIsOwed, OwedBy

LEMMA OwedByFinite ==
  ASSUME TypeOK, NEW k PROVE IsFiniteSet(OwedBy(k))
<1>1. ASSUME NEW c \in Caller PROVE IsFiniteSet({c} \X Owed(c, k))
  <2>1. Owed(c, k) \subseteq 1..Len(sent_to[c]) /\ Len(sent_to[c]) \in Nat
    BY CallTypes DEF Owed
  <2>2. IsFiniteSet(1..Len(sent_to[c]))
    BY <2>1, FS_Interval
  <2>3. IsFiniteSet(Owed(c, k))
    BY <2>1, <2>2, FS_Subset
  <2> QED BY <2>3, FS_Product, FS_Singleton
<1>2. IsFiniteSet({{c} \X Owed(c, k) : c \in Caller})
  <2> DEFINE T == {{c} \X Owed(c, k) : c \in Caller}
             g == [c \in Caller |-> {c} \X Owed(c, k)]
  <2>1. g \in Surjection(Caller, T)
    BY DEF Surjection
  <2> QED BY <2>1, RpcAssumption, FS_Surjection
<1> QED BY <1>1, <1>2, FS_UNION DEF OwedBy

\* While a caller waits for an answer, the client's counter counts it.
LEMMA BusyAtCollect ==
  ASSUME RpcInv, NEW c \in Caller, pc[c] = "wait"
  PROVE  buzy_threads[sent_to[c][pos[c]]] \in Nat \ {0}
<1> DEFINE k == sent_to[c][pos[c]]
<1>1. pos[c] \in 1..Len(sent_to[c]) /\ k # -1 /\ Len(ans[c]) < pos[c] /\ TypeOK
  BY CallTypes DEF RpcInv, CallInv, ShapeOf, Sending
<1>2. k \in Client /\ pos[c] \in DOMAIN sent_to[c]
  BY <1>1 DEF TypeOK
<1>3. <<c, pos[c]>> \in OwedBy(k)
  BY <1>1, <1>2, OwedByIs DEF Owed, Collected
<1>4. Cardinality(OwedBy(k)) \in Nat \ {0}
  BY <1>1, <1>3, OwedByFinite, FS_EmptySet, FS_CardinalityType
<1> QED BY <1>2, <1>4, OwedByIs DEF RpcInv

LEMMA RpcInit == Init => RpcInv
<1> SUFFICES ASSUME Init PROVE RpcInv
  OBVIOUS
<1>1. TypeOK
  BY RpcAssumption, ClientFacts DEF Init, TypeOK
<1>2. ASSUME NEW c \in Caller PROVE CallInv(c)
  BY DEF Init, CallInv, ShapeOf, LinedUp, HitsKept, Sending
<1>3. InFlight /\ NotTwice /\ CacheFaithful
  BY DEF Init, InFlight, NotTwice, CacheFaithful
<1>4. BusyIsOwed
  <2> SUFFICES ASSUME NEW k \in Client PROVE buzy_threads[k] = Cardinality(OwedBy(k))
    BY OwedByIs
  <2>1. OwedBy(k) = {}
    BY DEF Init, OwedBy, Owed
  <2> QED BY <2>1, FS_EmptySet DEF Init
<1> QED BY <1>1, <1>2, <1>3, <1>4 DEF RpcInv

-----------------------------------------------------------------------------
(* What a step by a caller does to its own call, and to the others. *)

Kept(d) ==
  /\ pc'[d] = pc[d] /\ list'[d] = list[d] /\ pos'[d] = pos[d]
  /\ sent_to'[d] = sent_to[d] /\ ans'[d] = ans[d]

OthersKept(c) == \A d \in Caller : d # c => Kept(d)

\* The call of c becomes <<place, l, p, s, a>>; the others stay.
Becomes(c, place, l, p, s, a) ==
  /\ pc'[c] = place /\ list'[c] = l /\ pos'[c] = p /\ sent_to'[c] = s /\ ans'[c] = a
  /\ OthersKept(c)

LEMMA CallEffect ==
  ASSUME TypeOK, NEW c \in Caller, Call(c)
  PROVE  /\ pc[c] = "idle"
         /\ \E l \in Seq(Conf) : Becomes(c, "look", l, 1, <<>>, <<>>)
         /\ UNCHANGED <<requests, replies, cache>>
BY RpcAssumption DEF Call, TypeOK, Becomes, Kept, OthersKept, Goto, manager, network, callers

LEMMA LookEffect ==
  ASSUME TypeOK, NEW c \in Caller, Look(c)
  PROVE  /\ pc[c] = "look" /\ pos[c] <= Len(list[c])
         /\ \/ /\ cache[conf(c)] # None
               /\ Becomes(c, "look", list[c], pos[c] + 1, Append(sent_to[c], -1), ans[c])
            \/ Becomes(c, "next", list[c], pos[c], sent_to[c], ans[c])
         /\ UNCHANGED <<requests, replies, cache>>
BY RpcAssumption DEF Look, TypeOK, Becomes, Kept, OthersKept, Goto, manager, network, callers

LEMMA ReadNextEffect ==
  ASSUME TypeOK, NEW c \in Caller, ReadNext(c)
  PROVE  /\ pc[c] = "next"
         /\ Becomes(c, "advance", list[c], pos[c], sent_to[c], ans[c])
         /\ UNCHANGED <<requests, replies, cache>>
BY RpcAssumption DEF ReadNext, TypeOK, Becomes, Kept, OthersKept, Goto, manager, network, callers

LEMMA WriteNextEffect ==
  ASSUME TypeOK, NEW c \in Caller, WriteNext(c)
  PROVE  /\ pc[c] = "advance"
         /\ Becomes(c, "send", list[c], pos[c], sent_to[c], ans[c])
         /\ UNCHANGED <<requests, replies, cache>>
BY RpcAssumption DEF WriteNext, TypeOK, Becomes, Kept, OthersKept, Goto, manager, network, callers

LEMMA SendEffect ==
  ASSUME TypeOK, NEW c \in Caller, Send(c)
  PROVE  /\ pc[c] = "send"
         /\ Becomes(c, "look", list[c], pos[c] + 1, Append(sent_to[c], lazy_client[c]), ans[c])
         /\ UNCHANGED <<replies, cache>>
BY RpcAssumption DEF Send, TypeOK, Becomes, Kept, OthersKept, Goto, manager, network, callers

LEMMA AllSentEffect ==
  ASSUME TypeOK, NEW c \in Caller, AllSent(c)
  PROVE  /\ pc[c] = "look" /\ pos[c] > Len(list[c])
         /\ Becomes(c, "collect", list[c], 1, sent_to[c], ans[c])
         /\ UNCHANGED <<requests, replies, cache>>
BY RpcAssumption DEF AllSent, TypeOK, Becomes, Kept, OthersKept, Goto, manager, network, callers

LEMMA ReadCacheEffect ==
  ASSUME TypeOK, NEW c \in Caller, ReadCache(c)
  PROVE  /\ pc[c] = "collect" /\ pos[c] <= Len(list[c]) /\ sent_to[c][pos[c]] = -1
         /\ Becomes(c, "collect", list[c], pos[c] + 1, sent_to[c], Append(ans[c], cache[conf(c)]))
         /\ UNCHANGED <<requests, replies, cache>>
BY RpcAssumption DEF ReadCache, TypeOK, Becomes, Kept, OthersKept, Goto, manager, network, callers, Collecting

LEMMA LockEffect ==
  ASSUME TypeOK, NEW c \in Caller, Lock(c)
  PROVE  /\ pc[c] = "collect" /\ pos[c] <= Len(list[c]) /\ sent_to[c][pos[c]] # -1
         /\ Becomes(c, "wait", list[c], pos[c], sent_to[c], ans[c])
         /\ UNCHANGED <<requests, replies, cache>>
BY RpcAssumption DEF Lock, TypeOK, Becomes, Kept, OthersKept, Goto, manager, network, callers, Collecting

LEMMA ReceiveEffect ==
  ASSUME TypeOK, NEW c \in Caller, Receive(c)
  PROVE  /\ pc[c] = "wait"
         /\ \E r \in replies :
              /\ r.caller = c /\ r.at = pos[c] /\ replies' = replies \ {r}
              /\ Becomes(c, "save", list[c], pos[c], sent_to[c], Append(ans[c], r.value))
         /\ UNCHANGED <<requests, cache>>
<1>1. PICK r \in replies :
        /\ r.caller = c /\ r.at = pos[c] /\ replies' = replies \ {r}
        /\ ans' = [ans EXCEPT ![c] = Append(@, r.value)]
  BY DEF Receive
<1>2. /\ pc[c] = "wait" /\ pc' = [pc EXCEPT ![c] = "save"]
      /\ UNCHANGED <<list, pos, sent_to, requests, cache>>
  BY DEF Receive, Goto
<1>3. Becomes(c, "save", list[c], pos[c], sent_to[c], Append(ans[c], r.value))
  BY <1>1, <1>2 DEF Becomes, Kept, OthersKept, TypeOK
<1> QED BY <1>1, <1>2, <1>3

LEMMA SaveEffect ==
  ASSUME TypeOK, NEW c \in Caller, Save(c)
  PROVE  /\ pc[c] = "save"
         /\ Becomes(c, "collect", list[c], pos[c] + 1, sent_to[c], ans[c])
         /\ UNCHANGED <<requests, replies>>
BY RpcAssumption DEF Save, TypeOK, Becomes, Kept, OthersKept, Goto, manager, network, callers

LEMMA ReturnEffect ==
  ASSUME TypeOK, NEW c \in Caller, Return(c)
  PROVE  /\ pc[c] = "collect" /\ pos[c] > Len(list[c])
         /\ Becomes(c, "idle", list[c], pos[c], sent_to[c], ans[c])
         /\ UNCHANGED <<requests, replies, cache>>
BY RpcAssumption DEF Return, TypeOK, Becomes, Kept, OthersKept, Goto, manager, network, callers

-----------------------------------------------------------------------------
(* Types. *)

LEMMA TypeStep == RpcInv /\ [Next]_vars => TypeOK'
<1> SUFFICES ASSUME RpcInv, [Next]_vars PROVE TypeOK'
  OBVIOUS
<1>0. TypeOK
  BY DEF RpcInv
<1> USE <1>0 DEF TypeOK, manager, network, callers, Goto
<1>a. ASSUME NEW c \in Caller, Call(c) PROVE TypeOK'
  <2>1. PICK l \in ExecLists : list' = [list EXCEPT ![c] = l]
    BY <1>a DEF Call
  <2>2. list' \in [Caller -> Seq(Conf)]
    BY <2>1, RpcAssumption
  <2>3. /\ sent_to' \in [Caller -> Seq(Client \cup {-1})] /\ ans' \in [Caller -> Seq(Result)]
    BY <1>a, EmptySeq DEF Call
  <2>4. calls' \in [Caller -> 0..MaxCalls]
    BY <1>a, RpcAssumption DEF Call
  <2>5. pos' \in [Caller -> Nat \ {0}]
    BY <1>a DEF Call
  <2> QED BY <1>a, <2>2, <2>3, <2>4, <2>5 DEF Call
<1>b. ASSUME NEW c \in Caller, Look(c) PROVE TypeOK'
  <2>1. sent_to[c] \in Seq(Client \cup {-1}) /\ Append(sent_to[c], -1) \in Seq(Client \cup {-1})
    BY AppendProperties
  <2>2. sent_to' \in [Caller -> Seq(Client \cup {-1})]
    <3>1. sent_to' = sent_to \/ sent_to' = [sent_to EXCEPT ![c] = Append(sent_to[c], -1)]
      BY <1>b DEF Look
    <3> QED BY <2>1, <3>1
  <2>3. pos' \in [Caller -> Nat \ {0}]
    <3>1. pos' = pos \/ pos' = [pos EXCEPT ![c] = pos[c] + 1]
      BY <1>b DEF Look
    <3>2. pos[c] + 1 \in Nat \ {0}
      OBVIOUS
    <3> QED BY <3>1, <3>2
  <2> QED BY <1>b, <2>2, <2>3 DEF Look
<1>c. ASSUME NEW c \in Caller, ReadNext(c) PROVE TypeOK'
  BY <1>c, NextClient DEF ReadNext
<1>d. ASSUME NEW c \in Caller, WriteNext(c) PROVE TypeOK'
  BY <1>d DEF WriteNext
<1>e. ASSUME NEW c \in Caller, Send(c) PROVE TypeOK'
  <2>1. Append(sent_to[c], lazy_client[c]) \in Seq(Client \cup {-1})
    BY AppendProperties
  <2>2. pos[c] <= Len(list[c])
    BY <1>e DEF Send, RpcInv, CallInv, ShapeOf, Sending
  <2>3. [caller |-> c, at |-> pos[c], conf |-> conf(c)] \in Request
    BY <2>2, ConfHere DEF Request
  <2>4. requests' \in [Client -> SUBSET Request]
    BY <1>e, <2>3 DEF Send
  <2>5. buzy_threads' \in [Client -> Nat]
    BY <1>e DEF Send
  <2>6. sent_to' \in [Caller -> Seq(Client \cup {-1})] /\ pos' \in [Caller -> Nat \ {0}]
    BY <1>e, <2>1 DEF Send
  <2> QED BY <1>e, <2>4, <2>5, <2>6 DEF Send
<1>f. ASSUME NEW c \in Caller, AllSent(c) PROVE TypeOK'
  BY <1>f DEF AllSent
<1>g. ASSUME NEW c \in Caller, ReadCache(c) PROVE TypeOK'
  <2>1. cache[conf(c)] \in Result
    <3>1. pos[c] <= Len(list[c]) /\ sent_to[c][pos[c]] = -1 /\ pos[c] \in 1..Len(sent_to[c])
      <4>1. /\ pc[c] = "collect" /\ pos[c] <= Len(list[c]) /\ sent_to[c][pos[c]] = -1
            /\ Len(sent_to[c]) = Len(list[c])
        BY <1>g DEF ReadCache, Collecting, RpcInv, CallInv, ShapeOf, Sending
      <4>2. pos[c] \in Nat \ {0} /\ Len(list[c]) \in Nat
        BY <1>g, CallTypes DEF RpcInv
      <4> QED BY <4>1, <4>2
    <3>2. cache[list[c][pos[c]]] # None /\ list[c][pos[c]] = conf(c) /\ conf(c) \in Conf
      BY <3>1, ConfHere DEF RpcInv, CallInv, HitsKept
    <3> QED BY <3>2
  <2>2. Append(ans[c], cache[conf(c)]) \in Seq(Result)
    BY <2>1, AppendProperties
  <2>3. ans' \in [Caller -> Seq(Result)] /\ pos' \in [Caller -> Nat \ {0}]
    BY <1>g, <2>2 DEF ReadCache
  <2>4. UNCHANGED <<manager, network, pc, list, lazy_client, sent_to, calls>>
    BY <1>g DEF ReadCache
  <2> QED BY <2>3, <2>4
<1>h. ASSUME NEW c \in Caller, Lock(c) PROVE TypeOK'
  BY <1>h DEF Lock
<1>i. ASSUME NEW c \in Caller, Receive(c) PROVE TypeOK'
  <2>1. PICK r \in replies :
          /\ replies' = replies \ {r} /\ ans' = [ans EXCEPT ![c] = Append(@, r.value)]
    BY <1>i DEF Receive
  <2>2. Append(ans[c], r.value) \in Seq(Result)
    BY AppendProperties DEF Answer
  <2>3. ans' \in [Caller -> Seq(Result)] /\ replies' \subseteq Answer
    BY <2>1, <2>2
  <2>4. buzy_threads' \in [Client -> Nat]
    <3>1. buzy_threads[sent_to[c][pos[c]]] - 1 \in Nat
      BY <1>i, BusyAtCollect DEF Receive
    <3> QED BY <1>i, <3>1 DEF Receive
  <2> QED BY <1>i, <2>3, <2>4 DEF Receive
<1>j. ASSUME NEW c \in Caller, Save(c) PROVE TypeOK'
  <2>1. pos[c] <= Len(list[c]) /\ Len(ans[c]) = pos[c]
    BY <1>j DEF Save, RpcInv, CallInv, ShapeOf, Sending
  <2>2. conf(c) \in Conf /\ ans[c][Len(ans[c])] \in Result
    BY <2>1, ConfHere
  <2> QED BY <1>j, <2>2 DEF Save
<1>k. ASSUME NEW c \in Caller, Return(c) PROVE TypeOK'
  BY <1>k DEF Return
<1>l. ASSUME NEW k \in Client, Reply(k) PROVE TypeOK'
  <2>1. PICK p \in requests[k] :
          /\ requests' = [requests EXCEPT ![k] = @ \ {p}]
          /\ replies' = replies \cup
               {[caller |-> p.caller, at |-> p.at, value |-> Value[p.conf]]}
    BY <1>l DEF Reply
  <2>2. p \in Request
    OBVIOUS
  <2>3. [caller |-> p.caller, at |-> p.at, value |-> Value[p.conf]] \in Answer
    BY <2>2, ResultFacts DEF Request, Answer
  <2> QED BY <1>l, <2>1, <2>3 DEF Reply
<1>m. ASSUME NEW k \in Client, Crash(k) PROVE TypeOK'
  BY <1>m DEF Crash
<1>n. CASE UNCHANGED vars
  BY <1>n DEF vars
<1> QED
  BY <1>a, <1>b, <1>c, <1>d, <1>e, <1>f, <1>g, <1>h, <1>i, <1>j, <1>k, <1>l, <1>m, <1>n
  DEF Next, Exec

-----------------------------------------------------------------------------
(* The cache, and what a call holds. *)

\* What is saved is what the server answers, and no entry is taken out.
LEMMA CacheStep ==
  ASSUME RpcInv, [Next]_vars
  PROVE  /\ CacheFaithful'
         /\ \A f \in Conf : cache[f] # None => cache'[f] # None
<1>0. TypeOK /\ CacheFaithful
  BY DEF RpcInv
<1>1. CASE UNCHANGED cache
  BY <1>0, <1>1 DEF CacheFaithful
<1>2. ASSUME NEW c \in Caller, Save(c)
      PROVE  /\ CacheFaithful'
             /\ \A f \in Conf : cache[f] # None => cache'[f] # None
  <2>1. pos[c] <= Len(list[c]) /\ Len(ans[c]) = pos[c] /\ LinedUp(c)
    BY <1>2 DEF Save, RpcInv, CallInv, ShapeOf, Sending
  <2>2. conf(c) \in Conf /\ ans[c][Len(ans[c])] = Value[conf(c)]
    BY <1>0, <2>1, ConfHere DEF LinedUp
  <2>3. cache' = [cache EXCEPT ![conf(c)] = Value[conf(c)]]
    BY <1>2, <2>2 DEF Save
  <2> QED BY <1>0, <2>2, <2>3, ResultFacts DEF TypeOK, CacheFaithful
<1> QED
  BY <1>1, <1>2 DEF Next, Exec, vars, manager, network, callers, Call, Look, ReadNext,
     WriteNext, Send, AllSent, ReadCache, Lock, Receive, Return, Reply, Crash

\* No more places are sent than the list has.
LEMMA ShapeFits ==
  ASSUME TypeOK, NEW c \in Caller, ShapeOf(c)
  PROVE  \A j \in 1..Len(sent_to[c]) : j \in 1..Len(list[c]) /\ list[c][j] \in Conf
<1>1. /\ Len(list[c]) \in Nat /\ Len(sent_to[c]) \in Nat /\ pos[c] \in Nat
      /\ \A j \in 1..Len(list[c]) : list[c][j] \in Conf
  BY CallTypes
<1>2. Len(sent_to[c]) <= Len(list[c])
  <2>1. CASE pc[c] \in Sending
    BY <1>1, <2>1 DEF ShapeOf
  <2>2. CASE pc[c] \notin Sending
    BY <1>1, <2>2 DEF ShapeOf
  <2> QED BY <2>1, <2>2
<1> QED BY <1>1, <1>2

\* A step of another caller, or of a server, does not disturb a call.
LEMMA OtherCall ==
  ASSUME RpcInv, [Next]_vars, NEW d \in Caller, Kept(d)
  PROVE  CallInv(d)'
<1>1. TypeOK /\ CallInv(d)
  BY DEF RpcInv
<1>2. ShapeOf(d)'
  BY <1>1 DEF CallInv, ShapeOf, Kept, Sending
<1>3. LinedUp(d)'
  BY <1>1 DEF CallInv, LinedUp, Kept
<1>4. HitsKept(d)'
  BY <1>1, CacheStep, ShapeFits DEF CallInv, HitsKept, Kept
<1> QED BY <1>2, <1>3, <1>4 DEF CallInv

\* A step that neither sends nor collects.
LEMMA SameHoldings ==
  ASSUME RpcInv, [Next]_vars, NEW c \in Caller, NEW place, NEW p \in Nat \ {0},
         Becomes(c, place, list[c], p, sent_to[c], ans[c])
  PROVE  LinedUp(c)' /\ HitsKept(c)'
BY CacheStep, ShapeFits DEF RpcInv, CallInv, LinedUp, HitsKept, Becomes

\* A step that sends for one more place.
LEMMA SendsOne ==
  ASSUME RpcInv, [Next]_vars, NEW c \in Caller, pc[c] \in Sending, pos[c] <= Len(list[c]),
         NEW k \in Client \cup {-1}, k = -1 => cache[conf(c)] # None,
         Becomes(c, "look", list[c], pos[c] + 1, Append(sent_to[c], k), ans[c])
  PROVE  CallInv(c)'
<1>0. TypeOK /\ CallInv(c)
  BY DEF RpcInv
<1>1. /\ Len(sent_to[c]) = pos[c] - 1 /\ ans[c] = <<>>
      /\ pos[c] \in 1..Len(list[c]) /\ conf(c) = list[c][pos[c]] /\ conf(c) \in Conf
  BY <1>0, ConfHere DEF CallInv, ShapeOf, Sending
<1>2. /\ Len(sent_to'[c]) = pos[c] /\ sent_to'[c][pos[c]] = k
      /\ \A j \in 1..(pos[c] - 1) : sent_to'[c][j] = sent_to[c][j]
  <2>1. sent_to[c] \in Seq(Client \cup {-1}) /\ sent_to'[c] = Append(sent_to[c], k)
    BY <1>0, CallTypes DEF Becomes
  <2> QED BY <1>1, <2>1, AppendProperties
<1>3. pc'[c] = "look" /\ list'[c] = list[c] /\ pos'[c] = pos[c] + 1 /\ ans'[c] = <<>>
  BY <1>1 DEF Becomes
<1>4. ShapeOf(c)'
  BY <1>1, <1>2, <1>3, <1>0, CallTypes DEF ShapeOf, Sending
<1>5. LinedUp(c)'
  BY <1>3 DEF LinedUp
<1>6. HitsKept(c)'
  <2> SUFFICES ASSUME NEW j \in 1..pos[c], sent_to'[c][j] = -1
               PROVE  cache'[list[c][j]] # None
    BY <1>2, <1>3 DEF HitsKept
  <2>1. list[c][j] \in Conf
    BY <1>0, <1>1, CallTypes
  <2>2. cache[list[c][j]] # None
    <3>1. CASE j = pos[c]
      BY <1>1, <1>2, <3>1
    <3>2. CASE j # pos[c]
      <4>1. j \in 1..(pos[c] - 1)
        BY <1>1, <3>2
      <4> QED BY <1>0, <1>1, <1>2, <4>1 DEF CallInv, HitsKept
    <3> QED BY <3>1, <3>2
  <2> QED BY <2>1, <2>2, CacheStep
<1> QED BY <1>4, <1>5, <1>6 DEF CallInv

\* A step that collects the answer of the place it is at.
LEMMA CollectsOne ==
  ASSUME RpcInv, [Next]_vars, NEW c \in Caller, pc[c] \in {"collect", "wait"},
         pos[c] <= Len(list[c]), NEW v \in Result, v = Value[conf(c)], NEW place,
         \/ place = "collect" /\ Becomes(c, place, list[c], pos[c] + 1, sent_to[c], Append(ans[c], v))
         \/ /\ place = "save" /\ pc[c] = "wait"
            /\ Becomes(c, place, list[c], pos[c], sent_to[c], Append(ans[c], v))
  PROVE  CallInv(c)'
<1>0. TypeOK /\ CallInv(c)
  BY DEF RpcInv
<1>1. /\ Len(ans[c]) = pos[c] - 1 /\ Len(sent_to[c]) = Len(list[c])
      /\ pos[c] \in 1..Len(list[c]) /\ conf(c) = list[c][pos[c]]
      /\ pc[c] = "wait" => sent_to[c][pos[c]] # -1
  BY <1>0, ConfHere DEF CallInv, ShapeOf, Sending
<1>2. /\ Len(ans'[c]) = pos[c] /\ ans'[c][pos[c]] = v
      /\ \A j \in 1..(pos[c] - 1) : ans'[c][j] = ans[c][j]
  <2>1. ans[c] \in Seq(Result) /\ ans'[c] = Append(ans[c], v)
    BY <1>0, CallTypes DEF Becomes
  <2> QED BY <1>1, <2>1, AppendProperties
<1>3. /\ pc'[c] = place /\ list'[c] = list[c] /\ sent_to'[c] = sent_to[c]
      /\ pos'[c] = IF place = "save" THEN pos[c] ELSE pos[c] + 1
  BY DEF Becomes
<1>4. ShapeOf(c)'
  BY <1>1, <1>2, <1>3, <1>0, CallTypes DEF ShapeOf, Sending
<1>5. LinedUp(c)'
  <2> SUFFICES ASSUME NEW j \in 1..pos[c] PROVE ans'[c][j] = Value[list[c][j]]
    BY <1>2, <1>3 DEF LinedUp
  <2>1. CASE j = pos[c]
    BY <1>1, <1>2, <2>1
  <2>2. CASE j # pos[c]
    <3>1. j \in 1..(pos[c] - 1)
      BY <1>1, <2>2
    <3> QED BY <1>0, <1>1, <1>2, <3>1 DEF CallInv, LinedUp
  <2> QED BY <2>1, <2>2
<1>6. HitsKept(c)'
  BY <1>0, <1>3, CacheStep, ShapeFits DEF HitsKept, CallInv
<1> QED BY <1>4, <1>5, <1>6 DEF CallInv

\* What a call holds stays true.
LEMMA CallInvStep ==
  ASSUME RpcInv, [Next]_vars PROVE \A d \in Caller : CallInv(d)'
<1>0. TypeOK /\ \A c \in Caller : CallInv(c)
  BY DEF RpcInv
<1>1. ASSUME NEW c \in Caller, OthersKept(c), CallInv(c)' PROVE \A d \in Caller : CallInv(d)'
  BY <1>1, OtherCall DEF OthersKept
<1>2. CASE UNCHANGED callers
  BY <1>2, OtherCall DEF callers, Kept
<1>a. ASSUME NEW c \in Caller, Call(c) PROVE \A d \in Caller : CallInv(d)'
  <2>1. PICK l \in Seq(Conf) : Becomes(c, "look", l, 1, <<>>, <<>>)
    BY <1>0, <1>a, CallEffect
  <2>2. CallInv(c)'
    BY <2>1 DEF Becomes, CallInv, ShapeOf, LinedUp, HitsKept, Sending
  <2> QED BY <1>1, <2>1, <2>2 DEF Becomes
<1>b. ASSUME NEW c \in Caller, Look(c) PROVE \A d \in Caller : CallInv(d)'
  <2>1. pc[c] = "look" /\ pos[c] <= Len(list[c])
    BY <1>0, <1>b, LookEffect
  <2>2. CASE /\ cache[conf(c)] # None
             /\ Becomes(c, "look", list[c], pos[c] + 1, Append(sent_to[c], -1), ans[c])
    BY <1>1, <2>1, <2>2, SendsOne DEF Becomes, Sending
  <2>3. CASE Becomes(c, "next", list[c], pos[c], sent_to[c], ans[c])
    <3>1. ShapeOf(c)'
      BY <1>0, <2>1, <2>3 DEF Becomes, CallInv, ShapeOf, Sending
    <3> QED BY <1>0, <1>1, <2>3, <3>1, SameHoldings, CallTypes DEF Becomes, CallInv
  <2> QED BY <1>0, <1>b, <2>2, <2>3, LookEffect
<1>c. ASSUME NEW c \in Caller, ReadNext(c) PROVE \A d \in Caller : CallInv(d)'
  <2>1. pc[c] = "next" /\ Becomes(c, "advance", list[c], pos[c], sent_to[c], ans[c])
    BY <1>0, <1>c, ReadNextEffect
  <2>2. ShapeOf(c)'
    BY <1>0, <2>1 DEF Becomes, CallInv, ShapeOf, Sending
  <2> QED BY <1>0, <1>1, <2>1, <2>2, SameHoldings, CallTypes DEF Becomes, CallInv
<1>d. ASSUME NEW c \in Caller, WriteNext(c) PROVE \A d \in Caller : CallInv(d)'
  <2>1. pc[c] = "advance" /\ Becomes(c, "send", list[c], pos[c], sent_to[c], ans[c])
    BY <1>0, <1>d, WriteNextEffect
  <2>2. ShapeOf(c)'
    BY <1>0, <2>1 DEF Becomes, CallInv, ShapeOf, Sending
  <2> QED BY <1>0, <1>1, <2>1, <2>2, SameHoldings, CallTypes DEF Becomes, CallInv
<1>e. ASSUME NEW c \in Caller, Send(c) PROVE \A d \in Caller : CallInv(d)'
  <2>1. /\ pc[c] = "send"
        /\ Becomes(c, "look", list[c], pos[c] + 1, Append(sent_to[c], lazy_client[c]), ans[c])
    BY <1>0, <1>e, SendEffect
  <2>2. lazy_client[c] \in Client /\ lazy_client[c] # -1 /\ pos[c] <= Len(list[c])
    BY <1>0, <2>1, ClientFacts DEF TypeOK, CallInv, ShapeOf, Sending
  <2>3. CallInv(c)'
    BY <2>1, <2>2, SendsOne DEF Sending
  <2> QED BY <1>1, <2>1, <2>3 DEF Becomes
<1>f. ASSUME NEW c \in Caller, AllSent(c) PROVE \A d \in Caller : CallInv(d)'
  <2>1. /\ pc[c] = "look" /\ pos[c] > Len(list[c])
        /\ Becomes(c, "collect", list[c], 1, sent_to[c], ans[c])
    BY <1>0, <1>f, AllSentEffect
  <2>2. ShapeOf(c)'
    BY <1>0, <2>1, CallTypes DEF Becomes, CallInv, ShapeOf, Sending
  <2> QED BY <1>0, <1>1, <2>1, <2>2, SameHoldings DEF Becomes, CallInv
<1>g. ASSUME NEW c \in Caller, ReadCache(c) PROVE \A d \in Caller : CallInv(d)'
  <2>1. /\ pc[c] = "collect" /\ pos[c] <= Len(list[c]) /\ sent_to[c][pos[c]] = -1
        /\ Becomes(c, "collect", list[c], pos[c] + 1, sent_to[c], Append(ans[c], cache[conf(c)]))
    BY <1>0, <1>g, ReadCacheEffect
  <2>2. pos[c] \in 1..Len(sent_to[c]) /\ conf(c) = list[c][pos[c]] /\ conf(c) \in Conf
    BY <1>0, <2>1, ConfHere DEF CallInv, ShapeOf, Sending
  <2>3. cache[conf(c)] = Value[conf(c)] /\ cache[conf(c)] \in Result
    BY <1>0, <2>1, <2>2, ResultFacts DEF CallInv, HitsKept, RpcInv, CacheFaithful
  <2>4. CallInv(c)'
    BY <2>1, <2>3, CollectsOne
  <2> QED BY <1>1, <2>1, <2>4 DEF Becomes
<1>h. ASSUME NEW c \in Caller, Lock(c) PROVE \A d \in Caller : CallInv(d)'
  <2>1. /\ pc[c] = "collect" /\ pos[c] <= Len(list[c]) /\ sent_to[c][pos[c]] # -1
        /\ Becomes(c, "wait", list[c], pos[c], sent_to[c], ans[c])
    BY <1>0, <1>h, LockEffect
  <2>2. ShapeOf(c)'
    BY <1>0, <2>1 DEF Becomes, CallInv, ShapeOf, Sending
  <2> QED BY <1>0, <1>1, <2>1, <2>2, SameHoldings, CallTypes DEF Becomes, CallInv
<1>i. ASSUME NEW c \in Caller, Receive(c) PROVE \A d \in Caller : CallInv(d)'
  <2>1. pc[c] = "wait"
    BY <1>0, <1>i, ReceiveEffect
  <2>2. PICK r \in replies :
          /\ r.caller = c /\ r.at = pos[c]
          /\ Becomes(c, "save", list[c], pos[c], sent_to[c], Append(ans[c], r.value))
    BY <1>0, <1>i, ReceiveEffect
  <2>3. pos[c] <= Len(list[c]) /\ conf(c) = list[c][pos[c]] /\ conf(c) \in Conf
    BY <1>0, <2>1, ConfHere DEF CallInv, ShapeOf, Sending
  <2>4. r.value = Value[conf(c)] /\ r.value \in Result
    BY <2>2, <2>3, ResultFacts DEF RpcInv, InFlight, GoodReply
  <2>5. CallInv(c)'
    BY <2>1, <2>2, <2>3, <2>4, CollectsOne
  <2> QED BY <1>1, <2>2, <2>5 DEF Becomes
<1>j. ASSUME NEW c \in Caller, Save(c) PROVE \A d \in Caller : CallInv(d)'
  <2>1. pc[c] = "save" /\ Becomes(c, "collect", list[c], pos[c] + 1, sent_to[c], ans[c])
    BY <1>0, <1>j, SaveEffect
  <2>2. ShapeOf(c)'
    BY <1>0, <2>1, CallTypes DEF Becomes, CallInv, ShapeOf, Sending
  <2>3. pos[c] + 1 \in Nat \ {0}
    BY <1>0, CallTypes
  <2> QED BY <1>1, <2>1, <2>2, <2>3, SameHoldings DEF Becomes, CallInv
<1>k. ASSUME NEW c \in Caller, Return(c) PROVE \A d \in Caller : CallInv(d)'
  <2>1. /\ pc[c] = "collect" /\ pos[c] > Len(list[c])
        /\ Becomes(c, "idle", list[c], pos[c], sent_to[c], ans[c])
    BY <1>0, <1>k, ReturnEffect
  <2>2. ShapeOf(c)'
    BY <1>0, <2>1, CallTypes DEF Becomes, CallInv, ShapeOf, Sending
  <2> QED BY <1>0, <1>1, <2>1, <2>2, SameHoldings, CallTypes DEF Becomes, CallInv
<1> QED
  BY <1>2, <1>a, <1>b, <1>c, <1>d, <1>e, <1>f, <1>g, <1>h, <1>i, <1>j, <1>k
  DEF Next, Exec, vars, Reply, Crash

-----------------------------------------------------------------------------
(* The places that are owed, and the counters. *)

LEMMA OwedOfKept ==
  ASSUME NEW d \in Caller, Kept(d) PROVE \A k : Owed(d, k)' = Owed(d, k)
BY DEF Owed, Collected, Kept

\* The places of a call as CallInv has them.
LEMMA OwedIn ==
  ASSUME RpcInv, NEW c \in Caller, NEW k
  PROVE  /\ \A j \in Owed(c, k) : j \in 1..Len(sent_to[c]) /\ j \in 1..Len(list[c])
         /\ \A j : j \in Owed(c, k) <=>
              j \in 1..Len(sent_to[c]) /\ sent_to[c][j] = k /\ j > Collected(c)
<1>1. TypeOK /\ CallInv(c)
  BY DEF RpcInv
<1>2. DOMAIN sent_to[c] = 1..Len(sent_to[c])
  BY <1>1, CallTypes, LenProperties
<1> QED BY <1>1, <1>2, ShapeFits DEF Owed, CallInv

\* A caller that is idle is owed nothing.
LEMMA IdleOwedNothing ==
  ASSUME RpcInv, NEW c \in Caller, pc[c] = "idle", NEW k PROVE Owed(c, k) = {}
<1>1. Len(sent_to[c]) = Len(list[c]) /\ Len(ans[c]) = pos[c] - 1
      /\ pos[c] = Len(list[c]) + 1 /\ Collected(c) = Len(ans[c])
  BY DEF RpcInv, CallInv, ShapeOf, Sending, Collected
<1> QED BY <1>1, OwedIn, CallTypes DEF RpcInv

\* Only Send and Receive change what is owed.
LEMMA OwedSame ==
  ASSUME RpcInv, NEW c \in Caller,
         \/ Call(c) \/ Look(c) \/ ReadNext(c) \/ WriteNext(c) \/ AllSent(c)
         \/ ReadCache(c) \/ Lock(c) \/ Save(c) \/ Return(c)
  PROVE  \A d \in Caller, k \in Client : Owed(d, k)' = Owed(d, k)
<1>0. TypeOK /\ CallInv(c) /\ ShapeOf(c)
  BY DEF RpcInv, CallInv
<1>1. ASSUME OthersKept(c), \A k \in Client : Owed(c, k)' = Owed(c, k)
      PROVE  \A d \in Caller, k \in Client : Owed(d, k)' = Owed(d, k)
  BY <1>1, OwedOfKept DEF OthersKept
<1>2. ASSUME NEW place, NEW p, NEW a, Becomes(c, place, list[c], p, sent_to[c], a),
             \A j \in 1..Len(sent_to[c]) :
               sent_to[c][j] # -1 => (j > Collected(c) <=> j > Collected(c)')
      PROVE  \A d \in Caller, k \in Client : Owed(d, k)' = Owed(d, k)
  <2>1. sent_to'[c] = sent_to[c] /\ DOMAIN sent_to[c] = 1..Len(sent_to[c])
    BY <1>0, <1>2, CallTypes, LenProperties DEF Becomes
  <2>2. ASSUME NEW k \in Client PROVE Owed(c, k)' = Owed(c, k)
    BY <1>2, <2>1, ClientFacts DEF Owed
  <2> QED BY <1>1, <1>2, <2>2 DEF Becomes
<1>a. CASE Call(c)
  <2>1. PICK l \in Seq(Conf) : Becomes(c, "look", l, 1, <<>>, <<>>)
    BY <1>0, <1>a, CallEffect
  <2>2. ASSUME NEW k \in Client PROVE Owed(c, k)' = {} /\ Owed(c, k) = {}
    <3>1. DOMAIN sent_to'[c] = {}
      BY <2>1 DEF Becomes
    <3>2. pc[c] = "idle"
      BY <1>0, <1>a, CallEffect
    <3> QED BY <3>1, <3>2, IdleOwedNothing DEF Owed
  <2> QED BY <1>1, <2>1, <2>2 DEF Becomes
<1>b. CASE Look(c)
  <2>1. pc[c] = "look" /\ Len(sent_to[c]) = pos[c] - 1 /\ Collected(c) = 0
    BY <1>0, <1>b, LookEffect DEF ShapeOf, Sending, Collected
  <2>2. CASE Becomes(c, "look", list[c], pos[c] + 1, Append(sent_to[c], -1), ans[c])
    <3>1. /\ DOMAIN sent_to[c] = 1..Len(sent_to[c]) /\ sent_to'[c][pos[c]] = -1
          /\ \A j \in 1..Len(sent_to[c]) : sent_to'[c][j] = sent_to[c][j]
          /\ DOMAIN sent_to'[c] = 1..pos[c] /\ pos[c] \in Nat \ {0}
      BY <1>0, <2>1, <2>2, CallTypes, AppendProperties, LenProperties DEF Becomes
    <3>2. Collected(c)' = 0
      BY <2>2 DEF Becomes, Collected
    <3>3. ASSUME NEW k \in Client PROVE Owed(c, k)' = Owed(c, k)
      <4>1. \A j : j \in 1..pos[c] <=> j = pos[c] \/ j \in 1..Len(sent_to[c])
        BY <2>1, <3>1
      <4> QED BY <2>1, <3>1, <3>2, <4>1, ClientFacts DEF Owed
    <3> QED BY <1>1, <2>2, <3>3 DEF Becomes
  <2>3. CASE Becomes(c, "next", list[c], pos[c], sent_to[c], ans[c])
    BY <1>2, <2>1, <2>3 DEF Becomes, Collected
  <2> QED BY <1>0, <1>b, <2>2, <2>3, LookEffect
<1>c. CASE ReadNext(c) \/ WriteNext(c)
  BY <1>0, <1>2, <1>c, ReadNextEffect, WriteNextEffect DEF Becomes, Collected
<1>d. CASE AllSent(c)
  BY <1>0, <1>2, <1>d, AllSentEffect DEF Becomes, Collected, ShapeOf, Sending
<1>e. CASE ReadCache(c)
  <2>1. /\ pc[c] = "collect" /\ pos[c] <= Len(list[c]) /\ sent_to[c][pos[c]] = -1
        /\ Becomes(c, "collect", list[c], pos[c] + 1, sent_to[c], Append(ans[c], cache[conf(c)]))
    BY <1>0, <1>e, ReadCacheEffect
  <2>2. Collected(c) = pos[c] - 1
    BY <1>0, <2>1 DEF ShapeOf, Sending, Collected
  <2>3. Collected(c)' = pos[c]
    <3>1. cache[conf(c)] \in Result /\ ans[c] \in Seq(Result)
      <4>1. /\ pos[c] \in 1..Len(sent_to[c]) /\ conf(c) = list[c][pos[c]] /\ conf(c) \in Conf
            /\ ans[c] \in Seq(Result)
        BY <1>0, <2>1, ConfHere, CallTypes DEF ShapeOf, Sending
      <4> QED BY <1>0, <2>1, <4>1 DEF TypeOK, CallInv, HitsKept
    <3>2. Len(Append(ans[c], cache[conf(c)])) = Len(ans[c]) + 1
      BY <3>1, AppendProperties
    <3> QED BY <1>0, <2>1, <3>2, CallTypes DEF Becomes, Collected, ShapeOf, Sending
  <2>4. \A j \in 1..Len(sent_to[c]) : sent_to[c][j] # -1 => (j > pos[c] - 1 <=> j > pos[c])
    BY <1>0, <2>1, CallTypes
  <2> QED BY <1>2, <2>1, <2>2, <2>3, <2>4
<1>f. CASE Lock(c)
  BY <1>0, <1>2, <1>f, LockEffect DEF Becomes, Collected
<1>g. CASE Save(c)
  BY <1>0, <1>2, <1>g, SaveEffect DEF Becomes, Collected
<1>h. CASE Return(c)
  BY <1>0, <1>2, <1>h, ReturnEffect DEF Becomes, Collected
<1> QED BY <1>a, <1>b, <1>c, <1>d, <1>e, <1>f, <1>g, <1>h

\* Send adds the place that is sent.
LEMMA OwedSend ==
  ASSUME RpcInv, NEW c \in Caller, Send(c)
  PROVE  /\ \A d \in Caller, k \in Client :
              Owed(d, k)' = IF d = c /\ k = lazy_client[c] THEN Owed(d, k) \cup {pos[c]}
                            ELSE Owed(d, k)
         /\ \A k \in Client : pos[c] \notin Owed(c, k)
<1>0. TypeOK /\ ShapeOf(c)
  BY DEF RpcInv, CallInv
<1>1. /\ pc[c] = "send" /\ OthersKept(c)
      /\ Becomes(c, "look", list[c], pos[c] + 1, Append(sent_to[c], lazy_client[c]), ans[c])
  BY <1>0, SendEffect DEF Becomes
<1>2. Len(sent_to[c]) = pos[c] - 1 /\ Collected(c) = 0 /\ Collected(c)' = 0
  BY <1>0, <1>1 DEF ShapeOf, Sending, Collected, Becomes
<1>3. /\ DOMAIN sent_to[c] = 1..Len(sent_to[c]) /\ sent_to'[c][pos[c]] = lazy_client[c]
      /\ \A j \in 1..Len(sent_to[c]) : sent_to'[c][j] = sent_to[c][j]
      /\ DOMAIN sent_to'[c] = 1..pos[c] /\ pos[c] \in Nat \ {0}
  <2>1. lazy_client[c] \in Client \cup {-1} /\ sent_to[c] \in Seq(Client \cup {-1})
        /\ sent_to'[c] = Append(sent_to[c], lazy_client[c]) /\ pos[c] \in Nat \ {0}
    BY <1>0, <1>1 DEF TypeOK, Becomes
  <2> QED BY <1>2, <2>1, AppendProperties, LenProperties
<1>4. \A j : j \in 1..pos[c] <=> j = pos[c] \/ j \in 1..Len(sent_to[c])
  BY <1>2, <1>3
<1>5. ASSUME NEW k \in Client
      PROVE  /\ Owed(c, k)' = IF k = lazy_client[c] THEN Owed(c, k) \cup {pos[c]} ELSE Owed(c, k)
             /\ pos[c] \notin Owed(c, k)
  <2>1. pos[c] \notin 1..Len(sent_to[c])
    BY <1>2, <1>3
  <2> QED BY <1>2, <1>3, <1>4, <2>1 DEF Owed
<1> QED BY <1>1, <1>5, OwedOfKept DEF OthersKept

\* Receive takes away the place that is collected.
LEMMA OwedReceive ==
  ASSUME RpcInv, NEW c \in Caller, Receive(c)
  PROVE  /\ \A d \in Caller, k \in Client :
              Owed(d, k)' = IF d = c /\ k = sent_to[c][pos[c]] THEN Owed(d, k) \ {pos[c]}
                            ELSE Owed(d, k)
         /\ sent_to[c][pos[c]] \in Client
         /\ pos[c] \in Owed(c, sent_to[c][pos[c]])
<1>0. TypeOK /\ ShapeOf(c)
  BY DEF RpcInv, CallInv
<1>1. pc[c] = "wait"
  BY <1>0, ReceiveEffect
<1>2. PICK r \in replies :
        Becomes(c, "save", list[c], pos[c], sent_to[c], Append(ans[c], r.value))
  BY <1>0, ReceiveEffect
<1>3. /\ Collected(c) = pos[c] - 1 /\ pos[c] \in 1..Len(sent_to[c])
      /\ sent_to[c][pos[c]] # -1
  BY <1>0, <1>1, CallTypes DEF ShapeOf, Sending, Collected
<1>4. Collected(c)' = pos[c]
  <2>1. r.value \in Result /\ ans[c] \in Seq(Result)
    BY <1>0 DEF TypeOK, Answer
  <2>2. Len(Append(ans[c], r.value)) = Len(ans[c]) + 1
    BY <2>1, AppendProperties
  <2> QED BY <1>0, <1>1, <1>2, <2>2, CallTypes DEF Becomes, Collected, ShapeOf, Sending
<1>5. /\ DOMAIN sent_to[c] = 1..Len(sent_to[c]) /\ sent_to'[c] = sent_to[c]
      /\ sent_to[c][pos[c]] \in Client
  BY <1>0, <1>2, <1>3, CallTypes, LenProperties, ElementOfSeq DEF Becomes
<1>6. \A j \in 1..Len(sent_to[c]) : j > pos[c] <=> j > pos[c] - 1 /\ j # pos[c]
  BY <1>0, <1>3, CallTypes
<1>7. pos[c] \in Owed(c, sent_to[c][pos[c]])
  BY <1>0, <1>3, <1>5, CallTypes DEF Owed
<1>8. ASSUME NEW k \in Client
      PROVE  Owed(c, k)' = IF k = sent_to[c][pos[c]] THEN Owed(c, k) \ {pos[c]} ELSE Owed(c, k)
  BY <1>3, <1>4, <1>5, <1>6 DEF Owed
<1> QED BY <1>2, <1>5, <1>7, <1>8, OwedOfKept DEF OthersKept, Becomes

\* The steps of callers, sorted by what they do to the places that are owed.
QuietStep(c) ==
  \/ Call(c) \/ Look(c) \/ ReadNext(c) \/ WriteNext(c) \/ AllSent(c)
  \/ ReadCache(c) \/ Lock(c) \/ Save(c) \/ Return(c)

LEMMA StepKinds ==
  ASSUME [Next]_vars
  PROVE  \/ \E c \in Caller : QuietStep(c) \/ Send(c) \/ Receive(c)
         \/ \E k \in Client : Reply(k) \/ Crash(k)
         \/ UNCHANGED vars
BY DEF Next, Exec, QuietStep

LEMMA QuietEffect ==
  ASSUME RpcInv, NEW c \in Caller, QuietStep(c)
  PROVE  /\ \A d \in Caller, k \in Client : Owed(d, k)' = Owed(d, k)
         /\ UNCHANGED <<requests, replies, buzy_threads>>
         /\ \/ list' = list
            \/ /\ \A d \in Caller : d # c => list'[d] = list[d]
               /\ \A k \in Client : Owed(c, k) = {}
<1>1. \A d \in Caller, k \in Client : Owed(d, k)' = Owed(d, k)
  BY OwedSame DEF QuietStep
<1>2. UNCHANGED <<requests, replies, buzy_threads>>
  BY DEF QuietStep, Call, Look, ReadNext, WriteNext, AllSent, ReadCache, Lock, Save, Return,
     manager, network
<1>3. CASE Call(c)
  BY <1>1, <1>2, <1>3, IdleOwedNothing DEF Call, RpcInv, TypeOK
<1>4. CASE ~Call(c)
  <2>1. list' = list
    BY <1>4 DEF QuietStep, Look, ReadNext, WriteNext, AllSent, ReadCache, Lock, Save, Return
  <2> QED BY <1>1, <1>2, <2>1
<1> QED BY <1>3, <1>4

LEMMA ServerEffect ==
  ASSUME RpcInv, (\E k \in Client : Reply(k) \/ Crash(k)) \/ UNCHANGED vars
  PROVE  /\ \A d \in Caller, k \in Client : Owed(d, k)' = Owed(d, k)
         /\ UNCHANGED <<list, buzy_threads>>
<1>1. UNCHANGED <<callers, buzy_threads>>
  BY DEF Reply, Crash, vars, manager
<1> QED BY <1>1, OwedOfKept DEF callers, Kept

\* The counter of each client counts what is owed.
LEMMA BusyStep ==
  ASSUME RpcInv, [Next]_vars PROVE BusyIsOwed'
<1>0. TypeOK /\ BusyIsOwed
  BY DEF RpcInv
<1>1. ASSUME \A d \in Caller, k \in Client : Owed(d, k)' = Owed(d, k),
             buzy_threads' = buzy_threads
      PROVE  BusyIsOwed'
  <2>1. ASSUME NEW k \in Client
        PROVE  UNION {{c} \X Owed(c, k)' : c \in Caller} = UNION {{c} \X Owed(c, k) : c \in Caller}
    BY <1>1
  <2> QED BY <1>0, <1>1, <2>1 DEF BusyIsOwed
<1>2. ASSUME NEW c \in Caller, Send(c) PROVE BusyIsOwed'
  <2>1. buzy_threads' = [buzy_threads EXCEPT ![lazy_client[c]] = @ + 1]
        /\ lazy_client[c] \in Client
    BY <1>0, <1>2 DEF Send, TypeOK
  <2>2. ASSUME NEW k \in Client
        PROVE  /\ OwedBy(k)' = IF k = lazy_client[c] THEN OwedBy(k) \cup {<<c, pos[c]>>}
                               ELSE OwedBy(k)
               /\ <<c, pos[c]>> \notin OwedBy(k)
    BY <1>2, OwedSend DEF OwedBy
  <2>3. ASSUME NEW k \in Client PROVE buzy_threads'[k] = Cardinality(OwedBy(k)')
    <3>1. IsFiniteSet(OwedBy(k)) /\ buzy_threads[k] = Cardinality(OwedBy(k))
      BY <1>0, OwedByFinite, OwedByIs
    <3>2. Cardinality(OwedBy(k) \cup {<<c, pos[c]>>}) = Cardinality(OwedBy(k)) + 1
      BY <2>2, <3>1, FS_AddElement
    <3> QED BY <1>0, <2>1, <2>2, <3>1, <3>2 DEF TypeOK
  <2> QED BY <2>3 DEF BusyIsOwed, OwedBy
<1>3. ASSUME NEW c \in Caller, Receive(c) PROVE BusyIsOwed'
  <2> DEFINE m == sent_to[c][pos[c]]
  <2>1. buzy_threads' = [buzy_threads EXCEPT ![m] = @ - 1] /\ m \in Client
    BY <1>3, OwedReceive DEF Receive
  <2>2. ASSUME NEW k \in Client
        PROVE  /\ OwedBy(k)' = IF k = m THEN OwedBy(k) \ {<<c, pos[c]>>} ELSE OwedBy(k)
               /\ k = m => <<c, pos[c]>> \in OwedBy(k)
    BY <1>3, OwedReceive DEF OwedBy
  <2>3. ASSUME NEW k \in Client PROVE buzy_threads'[k] = Cardinality(OwedBy(k)')
    <3>1. IsFiniteSet(OwedBy(k)) /\ buzy_threads[k] = Cardinality(OwedBy(k))
      BY <1>0, OwedByFinite, OwedByIs
    <3>2. k = m => Cardinality(OwedBy(k) \ {<<c, pos[c]>>}) = Cardinality(OwedBy(k)) - 1
      BY <2>2, <3>1, FS_RemoveElement
    <3> QED BY <1>0, <2>1, <2>2, <3>1, <3>2 DEF TypeOK
  <2> QED BY <2>3 DEF BusyIsOwed, OwedBy
<1> QED BY <1>1, <1>2, <1>3, StepKinds, QuietEffect, ServerEffect

-----------------------------------------------------------------------------
(* Messages. *)

LEMMA MessageTypes ==
  ASSUME TypeOK
  PROVE  /\ \A k \in Client : \A q \in requests[k] :
              q \in Request /\ q.caller \in Caller /\ q.conf \in Conf
         /\ \A r \in replies : r \in Answer /\ r.caller \in Caller
BY DEF TypeOK, Request, Answer

\* What is in flight stays owed, and no place gets a second message.
LEMMA FlightStep ==
  ASSUME RpcInv, [Next]_vars PROVE InFlight' /\ NotTwice'
<1>0. TypeOK /\ InFlight /\ NotTwice
  BY DEF RpcInv
<1>1. ASSUME NEW c \in Caller, QuietStep(c) PROVE InFlight' /\ NotTwice'
  <2>1. InFlight'
    BY <1>0, <1>1, QuietEffect, MessageTypes DEF InFlight, GoodRequest, GoodReply
  <2>2. NotTwice'
    <3>1. UNCHANGED <<requests, replies>>
      BY <1>1, QuietEffect
    <3> QED BY <1>0, <3>1 DEF NotTwice
  <2> QED BY <2>1, <2>2
<1>2. ASSUME NEW c \in Caller, Send(c) PROVE InFlight' /\ NotTwice'
  <2> DEFINE n == [caller |-> c, at |-> pos[c], conf |-> conf(c)]
  <2>1. /\ list' = list /\ replies' = replies /\ lazy_client[c] \in Client
        /\ \A k \in Client : \A q \in requests'[k] :
             q \in requests[k] \/ (q = n /\ k = lazy_client[c])
    BY <1>0, <1>2 DEF Send, TypeOK
  <2>2. ASSUME NEW k \in Client, k = lazy_client[c] PROVE pos[c] \in Owed(c, k)'
    BY <1>2, <2>2, OwedSend
  <2>c. n.caller = c /\ n.at = pos[c] /\ n.conf = list[c][pos[c]]
    BY DEF conf
  <2>3. \A d \in Caller, k \in Client : \A j \in Owed(d, k) : j \in Owed(d, k)'
    BY <1>2, OwedSend
  <2>4. InFlight'
    <3>1. ASSUME NEW k \in Client, NEW q \in requests'[k] PROVE GoodRequest(q, k)'
      <4>1. CASE q \in requests[k]
        BY <1>0, <2>1, <2>3, <4>1, MessageTypes DEF InFlight, GoodRequest
      <4>2. CASE q = n /\ k = lazy_client[c]
        BY <2>1, <2>2, <2>c, <4>2 DEF GoodRequest
      <4> QED BY <2>1, <4>1, <4>2
    <3>2. ASSUME NEW r \in replies' PROVE GoodReply(r)'
      BY <1>0, <2>1, <2>3, <3>2, MessageTypes DEF InFlight, GoodReply
    <3> QED BY <3>1, <3>2 DEF InFlight
  <2>5. NotTwice'
    <3> SUFFICES ASSUME NEW k \in Client, NEW q \in requests'[k], NEW r \in replies
                 PROVE  ~(r.caller = q.caller /\ r.at = q.at)
      BY <2>1 DEF NotTwice
    <3>1. CASE q \in requests[k]
      BY <1>0, <3>1 DEF NotTwice
    <3>2. CASE q = n
      <4>1. ~(r.caller = c /\ r.at = pos[c])
        BY <1>0, <1>2, OwedSend DEF InFlight, GoodReply
      <4> QED BY <3>2, <4>1
    <3> QED BY <2>1, <3>1, <3>2
  <2> QED BY <2>4, <2>5
<1>3. ASSUME NEW c \in Caller, Receive(c) PROVE InFlight' /\ NotTwice'
  <2>1. PICK p \in replies : p.caller = c /\ p.at = pos[c] /\ replies' = replies \ {p}
    BY <1>0, <1>3, ReceiveEffect
  <2>2. list' = list /\ requests' = requests
    BY <1>3 DEF Receive
  <2>3. ASSUME NEW d \in Caller, NEW k \in Client, NEW j \in Owed(d, k), ~(d = c /\ j = pos[c])
        PROVE  j \in Owed(d, k)'
    BY <1>3, <2>3, OwedReceive
  <2>4. ASSUME NEW r \in replies' PROVE ~(r.caller = c /\ r.at = pos[c])
    <3>1. r \in Answer /\ p \in Answer /\ r # p /\ r \in replies
      BY <1>0, <2>1, MessageTypes
    <3>2. r.caller = c /\ r.at = pos[c] => r.value = p.value
      BY <1>0, <2>1, <3>1 DEF InFlight, GoodReply
    <3> QED BY <2>1, <3>1, <3>2 DEF Answer
  <2>5. \A k \in Client : \A q \in requests[k] : ~(q.caller = c /\ q.at = pos[c])
    BY <1>0, <2>1 DEF NotTwice
  <2>6. InFlight'
    <3>1. ASSUME NEW k \in Client, NEW q \in requests'[k] PROVE GoodRequest(q, k)'
      BY <1>0, <2>2, <2>3, <2>5, MessageTypes DEF InFlight, GoodRequest
    <3>2. ASSUME NEW r \in replies' PROVE GoodReply(r)'
      <4>1. r \in replies /\ GoodReply(r) /\ r.caller \in Caller
        BY <1>0, <2>1, MessageTypes DEF InFlight
      <4> QED BY <2>2, <2>3, <2>4, <4>1 DEF GoodReply
    <3> QED BY <3>1, <3>2 DEF InFlight
  <2>7. NotTwice'
    BY <1>0, <2>1, <2>2 DEF NotTwice
  <2> QED BY <2>6, <2>7
<1>4. ASSUME NEW k \in Client, Reply(k) PROVE InFlight' /\ NotTwice'
  <2>1. PICK p \in requests[k] :
          /\ requests' = [requests EXCEPT ![k] = @ \ {p}]
          /\ replies' = replies \cup
               {[caller |-> p.caller, at |-> p.at, value |-> Value[p.conf]]}
    BY <1>4 DEF Reply
  <2>2. /\ \A d \in Caller, i \in Client : Owed(d, i)' = Owed(d, i)
        /\ list' = list
    BY <1>4, ServerEffect
  <2>3. GoodRequest(p, k) /\ p \in Request
    BY <1>0, MessageTypes DEF InFlight
  <2>4. ASSUME NEW i \in Client, NEW q \in requests'[i]
        PROVE  q \in requests[i] /\ q \in Request /\ (i = k => q # p) /\ GoodRequest(q, i)
    BY <1>0, <2>1, MessageTypes DEF TypeOK, InFlight
  <2>5. InFlight'
    <3>1. ASSUME NEW i \in Client, NEW q \in requests'[i] PROVE GoodRequest(q, i)'
      BY <2>2, <2>4 DEF GoodRequest, Request
    <3>2. ASSUME NEW r \in replies' PROVE GoodReply(r)'
      <4>1. CASE r \in replies
        BY <1>0, <2>2, <4>1, MessageTypes DEF InFlight, GoodReply
      <4>2. CASE r = [caller |-> p.caller, at |-> p.at, value |-> Value[p.conf]]
        BY <2>2, <2>3, <4>2 DEF GoodRequest, GoodReply, Request
      <4> QED BY <2>1, <4>1, <4>2
    <3> QED BY <3>1, <3>2 DEF InFlight
  <2>6. NotTwice'
    <3>1. ASSUME NEW i \in Client, NEW q \in requests'[i]
          PROVE  ~(p.caller = q.caller /\ p.at = q.at)
      <4> SUFFICES ASSUME p.caller = q.caller, p.at = q.at PROVE FALSE
        OBVIOUS
      <4>1. i = k
        BY <2>3, <2>4 DEF GoodRequest, Owed
      <4>2. q.conf = p.conf
        BY <2>3, <2>4 DEF GoodRequest
      <4> QED BY <2>3, <2>4, <4>1, <4>2 DEF Request
    <3>2. ASSUME NEW i \in Client, NEW q \in requests'[i], NEW r \in replies'
          PROVE  ~(r.caller = q.caller /\ r.at = q.at)
      <4>1. CASE r \in replies
        BY <1>0, <2>4, <4>1 DEF NotTwice
      <4>2. CASE r = [caller |-> p.caller, at |-> p.at, value |-> Value[p.conf]]
        BY <3>1, <4>2
      <4> QED BY <2>1, <4>1, <4>2
    <3> QED BY <3>2 DEF NotTwice
  <2> QED BY <2>5, <2>6
<1>5. ASSUME (\E k \in Client : Crash(k)) \/ UNCHANGED vars PROVE InFlight' /\ NotTwice'
  <2>1. /\ \A d \in Caller, i \in Client : Owed(d, i)' = Owed(d, i)
        /\ list' = list
    BY <1>5, ServerEffect
  <2>2. replies' = replies /\ \A k \in Client : requests'[k] \subseteq requests[k]
    BY <1>0, <1>5 DEF Crash, vars, network, TypeOK
  <2>3. InFlight'
    BY <1>0, <2>1, <2>2, MessageTypes DEF InFlight, GoodRequest, GoodReply
  <2>4. NotTwice'
    BY <1>0, <2>2 DEF NotTwice
  <2> QED BY <2>3, <2>4
<1> QED BY <1>1, <1>2, <1>3, <1>4, <1>5, StepKinds

-----------------------------------------------------------------------------
LEMMA RpcStep == RpcInv /\ [Next]_vars => RpcInv'
BY TypeStep, CacheStep, CallInvStep, BusyStep, FlightStep DEF RpcInv

\* The inductive invariant.
LEMMA RpcInvariant == Spec => []RpcInv
<1>1. Init => RpcInv
  BY RpcInit
<1>2. RpcInv /\ [Next]_vars => RpcInv'
  BY RpcStep
<1> QED BY <1>1, <1>2, PTL DEF Spec

\* All variables keep their types: no index leaves the range of clients, no
\* counter falls below zero, no answer is a null pointer.
THEOREM RpcTypes == Spec => []TypeOK
BY RpcInvariant, PTL DEF RpcInv

\* Answers line up with the configurations of their call.
THEOREM AnswersAlwaysLineUp == Spec => []AnswersLineUp
<1>1. RpcInv => AnswersLineUp
  BY DEF RpcInv, CallInv, LinedUp, AnswersLineUp
<1> QED BY <1>1, RpcInvariant, PTL

\* The cache holds what a server would answer.
THEOREM CacheAlwaysFaithful == Spec => []CacheFaithful
<1>1. RpcInv => CacheFaithful
  BY DEF RpcInv
<1> QED BY <1>1, RpcInvariant, PTL

\* A hit that was noted is still there when it is read.
THEOREM HitsAlwaysStay == Spec => []HitStaysCached
<1>1. RpcInv => HitStaysCached
  <2> SUFFICES ASSUME RpcInv, NEW c \in Caller PROVE DOMAIN sent_to[c] = 1..Len(sent_to[c])
    BY DEF RpcInv, CallInv, HitsKept, HitStaysCached
  <2> QED BY LenProperties DEF RpcInv, TypeOK
<1> QED BY <1>1, RpcInvariant, PTL

\* Each counter is the number of its client's calls nobody has collected.
THEOREM BusyAlwaysOwed == Spec => []BusyIsOwed
<1>1. RpcInv => BusyIsOwed
  BY DEF RpcInv
<1> QED BY <1>1, RpcInvariant, PTL

-----------------------------------------------------------------------------
(* Locks. *)

LockInv == RpcInv /\ LockedByWaiter

LEMMA LockStep ==
  ASSUME LockInv, [Next]_vars PROVE LockedByWaiter'
<1>0. TypeOK /\ LockedByWaiter /\ RpcInv /\ \A c \in Caller : ShapeOf(c)
  BY DEF LockInv, RpcInv, CallInv
\* Steps that leave the locks alone, of a caller that is not waiting.
<1>1. ASSUME NEW c \in Caller, pc[c] # "wait", pc'[c] # "wait", OthersKept(c),
             count_lock' = count_lock
      PROVE  LockedByWaiter'
  BY <1>0, <1>1 DEF LockedByWaiter, OthersKept, Kept
<1>2. ASSUME NEW c \in Caller, Lock(c) PROVE LockedByWaiter'
  <2> DEFINE m == sent_to[c][pos[c]]
  <2>1. /\ pc[c] = "collect" /\ count_lock[m] = None
        /\ count_lock' = [count_lock EXCEPT ![m] = c]
        /\ pc'[c] = "wait" /\ sent_to'[c] = sent_to[c] /\ pos'[c] = pos[c] /\ OthersKept(c)
    BY <1>0, <1>2, LockEffect DEF Lock, Becomes
  <2> SUFFICES ASSUME NEW k \in Client, NEW d \in Caller
               PROVE  count_lock'[k] = d <=> pc'[d] = "wait" /\ sent_to'[d][pos'[d]] = k
    BY DEF LockedByWaiter
  <2>2. count_lock'[k] = IF k = m THEN c ELSE count_lock[k]
    BY <1>0, <2>1 DEF TypeOK
  <2>3. CASE d = c
    BY <1>0, <2>1, <2>2, <2>3 DEF LockedByWaiter
  <2>4. CASE d # c
    BY <1>0, <2>1, <2>2, <2>4, RpcAssumption DEF LockedByWaiter, OthersKept, Kept
  <2> QED BY <2>3, <2>4
<1>3. ASSUME NEW c \in Caller, Receive(c) PROVE LockedByWaiter'
  <2> DEFINE m == sent_to[c][pos[c]]
  <2>1. /\ pc[c] = "wait" /\ count_lock' = [count_lock EXCEPT ![m] = None]
        /\ pc'[c] = "save" /\ OthersKept(c) /\ m \in Client
    BY <1>0, <1>3, ReceiveEffect, OwedReceive DEF Receive, Becomes
  <2>2. count_lock[m] = c
    BY <1>0, <2>1 DEF LockedByWaiter
  <2> SUFFICES ASSUME NEW k \in Client, NEW d \in Caller
               PROVE  count_lock'[k] = d <=> pc'[d] = "wait" /\ sent_to'[d][pos'[d]] = k
    BY DEF LockedByWaiter
  <2>3. count_lock'[k] = IF k = m THEN None ELSE count_lock[k]
    BY <1>0, <2>1 DEF TypeOK
  <2>4. CASE d = c
    BY <1>0, <2>1, <2>2, <2>3, <2>4, RpcAssumption DEF LockedByWaiter
  <2>5. CASE d # c
    BY <1>0, <2>1, <2>2, <2>3, <2>5, RpcAssumption DEF LockedByWaiter, OthersKept, Kept
  <2> QED BY <2>4, <2>5
<1>4. ASSUME NEW c \in Caller, QuietStep(c), ~Lock(c) PROVE LockedByWaiter'
  <2>1. pc[c] # "wait" /\ pc'[c] # "wait" /\ OthersKept(c)
    BY <1>0, <1>4, CallEffect, LookEffect, ReadNextEffect, WriteNextEffect, AllSentEffect,
       ReadCacheEffect, SaveEffect, ReturnEffect DEF QuietStep, Becomes
  <2>2. count_lock' = count_lock
    BY <1>4 DEF QuietStep, Call, Look, ReadNext, WriteNext, AllSent, ReadCache, Save, Return,
       manager
  <2> QED BY <1>1, <2>1, <2>2
<1>5. ASSUME NEW c \in Caller, Send(c) PROVE LockedByWaiter'
  BY <1>0, <1>1, <1>5, SendEffect DEF Send, Becomes
<1>6. CASE (\E k \in Client : Reply(k) \/ Crash(k)) \/ UNCHANGED vars
  <2>1. UNCHANGED <<count_lock, callers>>
    BY <1>6 DEF Reply, Crash, vars, manager
  <2> QED BY <1>0, <2>1 DEF LockedByWaiter, callers
<1> QED BY <1>2, <1>3, <1>4, <1>5, <1>6, StepKinds

\* A client is locked exactly while a caller waits for an answer of it.
THEOREM LocksBelongToWaiters == Spec => []LockedByWaiter
<1>1. Init => LockInv
  BY RpcInit, RpcAssumption DEF LockInv, Init, LockedByWaiter
<1>2. LockInv /\ [Next]_vars => LockInv'
  BY LockStep, RpcStep DEF LockInv
<1>3. LockInv => LockedByWaiter
  BY DEF LockInv
<1> QED BY <1>1, <1>2, <1>3, PTL DEF Spec

-----------------------------------------------------------------------------
(* Refinement. *)

\* The abstract variables.
Running == [c \in Caller |-> pc[c] # "idle"]
Returned == [c \in Caller |-> IF pc[c] = "idle" THEN ans[c] ELSE <<>>]

LEMMA ServiceInit == Init => Service!SInit
BY DEF Init, Service!SInit

LEMMA ServiceStep ==
  ASSUME RpcInv, [Next]_vars PROVE [Service!SNext]_(Service!svars)
<1>0. TypeOK
  BY DEF RpcInv
<1>1. ASSUME NEW c \in Caller, OthersKept(c), list' = list, pc[c] # "idle", pc'[c] # "idle"
      PROVE  UNCHANGED Service!svars
  <2>1. \A d \in Caller : /\ (pc'[d] # "idle") = (pc[d] # "idle")
                          /\ pc[d] = "idle" => ans'[d] = ans[d]
    BY <1>1 DEF OthersKept, Kept
  <2>2. Running' = Running /\ Returned' = Returned
    BY <1>1, <2>1 DEF Running, Returned
  <2> QED BY <1>1, <2>2 DEF Service!svars, Running, Returned
<1>2. ASSUME NEW c \in Caller, Call(c) PROVE Service!SCall(c)
  <2>1. PICK l \in ExecLists : list' = [list EXCEPT ![c] = l]
    BY <1>2 DEF Call
  <2>2. /\ pc[c] = "idle" /\ pc' = [pc EXCEPT ![c] = "look"]
        /\ ans' = [ans EXCEPT ![c] = <<>>]
    BY <1>2 DEF Call, Goto
  <2>3. Running' = [Running EXCEPT ![c] = TRUE] /\ ~Running[c]
    BY <1>0, <2>2 DEF Running, TypeOK
  <2>4. Returned' = [Returned EXCEPT ![c] = <<>>]
    BY <1>0, <2>2 DEF Returned, TypeOK
  <2> QED BY <2>1, <2>3, <2>4 DEF Service!SCall, Running, Returned
<1>3. ASSUME NEW c \in Caller, Return(c) PROVE Service!SReturn(c)
  <2>1. /\ pc[c] = "collect" /\ pos[c] > Len(list[c])
        /\ pc' = [pc EXCEPT ![c] = "idle"] /\ ans' = ans /\ list' = list
    BY <1>3 DEF Return, Goto
  <2>2. Running' = [Running EXCEPT ![c] = FALSE] /\ Running[c]
    BY <1>0, <2>1 DEF Running, TypeOK
  <2>3. ans[c] = [j \in DOMAIN list[c] |-> Value[list[c][j]]]
    <3>1. Len(ans[c]) = Len(list[c]) /\ LinedUp(c)
      BY <1>0, <2>1, CallTypes DEF RpcInv, CallInv, ShapeOf, Sending
    <3>2. ans[c] \in Seq(Result) /\ DOMAIN ans[c] = 1..Len(ans[c])
          /\ DOMAIN list[c] = 1..Len(list[c])
      BY <1>0, CallTypes, LenProperties
    <3>3. ans[c] = [j \in 1..Len(ans[c]) |-> ans[c][j]]
      BY <3>2
    <3> QED BY <3>1, <3>2, <3>3 DEF LinedUp
  <2>4. Returned' = [Returned EXCEPT ![c] = ans[c]]
    BY <1>0, <2>1 DEF Returned, TypeOK
  <2> QED BY <2>1, <2>2, <2>3, <2>4 DEF Service!SReturn, Running, Returned
<1>4. ASSUME NEW c \in Caller, QuietStep(c), ~Call(c), ~Return(c)
      PROVE  UNCHANGED Service!svars
  <2>1. pc[c] # "idle" /\ pc'[c] # "idle" /\ OthersKept(c)
    BY <1>0, <1>4, LookEffect, ReadNextEffect, WriteNextEffect, AllSentEffect,
       ReadCacheEffect, LockEffect, SaveEffect DEF QuietStep, Becomes
  <2>2. list' = list
    BY <1>4 DEF QuietStep, Look, ReadNext, WriteNext, AllSent, ReadCache, Lock, Save
  <2> QED BY <1>1, <2>1, <2>2
<1>5. ASSUME NEW c \in Caller, Send(c) PROVE UNCHANGED Service!svars
  BY <1>0, <1>1, <1>5, SendEffect DEF Send, Becomes
<1>6. ASSUME NEW c \in Caller, Receive(c) PROVE UNCHANGED Service!svars
  <2>1. pc[c] # "idle" /\ pc'[c] # "idle" /\ OthersKept(c)
    BY <1>0, <1>6, ReceiveEffect DEF Becomes
  <2>2. list' = list
    BY <1>6 DEF Receive
  <2> QED BY <1>1, <2>1, <2>2
<1>7. ASSUME (\E k \in Client : Reply(k) \/ Crash(k)) \/ UNCHANGED vars
      PROVE  UNCHANGED Service!svars
  <2>1. UNCHANGED callers
    BY <1>7 DEF Reply, Crash, vars
  <2> QED BY <2>1 DEF callers, Service!svars
<1> QED BY <1>2, <1>3, <1>4, <1>5, <1>6, <1>7, StepKinds DEF Service!SNext

\* RpcClient implements ExecService: behind the cache, the lazy round robin,
\* the locks and the servers, a call of exec() returns the values of its list.
THEOREM ClientImplementsExec == Spec => ImplementsExec
<1>1. RpcInv /\ [Next]_vars => [Service!SNext]_(Service!svars)
  BY ServiceStep
<1> QED BY <1>1, ServiceInit, RpcInvariant, PTL DEF Spec, ImplementsExec, Service!SSpec
=============================================================================
