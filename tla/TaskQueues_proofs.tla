------------------------- MODULE TaskQueues_proofs -------------------------
(***************************************************************************)
(* Lemmas about the operations of TaskQueues, for every finite set of      *)
(* workers and every set of mailboxes: what each does to the queues, to    *)
(* their types and to the busy counter.  The proofs about WorkerPool and   *)
(* SearchGraph both rest on them.                                          *)
(***************************************************************************)
EXTENDS TaskQueues, FiniteSetTheorems, SequenceTheorems, TLAPS

-----------------------------------------------------------------------------
(* What the queue operations do to the set of entries of a queue. *)

\* Taking the head of a queue removes exactly that entry from the set of its
\* entries, when it occurs once (multithread.cpp:57-58, 124-125).
LEMMA TailElems ==
  ASSUME NEW S, NEW q \in Seq(S), q # <<>>, NoRepeat(q)
  PROVE  /\ Head(q) \in S
         /\ Tail(q) \in Seq(S)
         /\ Len(Tail(q)) = Len(q) - 1
         /\ Elems(q) = {Head(q)} \cup Elems(Tail(q))
         /\ NoRepeat(Tail(q))
         /\ Head(q) \notin Elems(Tail(q))
<1> DEFINE t == Tail(q)
<1>1. /\ Head(q) \in S /\ t \in Seq(S) /\ Len(t) = Len(q) - 1
      /\ \A i \in 1..Len(t) : t[i] = q[i + 1]
  BY HeadTailProperties
<1>2. /\ Len(q) \in Nat \ {0} /\ DOMAIN q = 1..Len(q) /\ DOMAIN t = 1..(Len(q) - 1)
      /\ Head(q) = q[1]
  BY <1>1, EmptySeq, LenProperties
<1> HIDE DEF t
<1>3. Elems(q) = {Head(q)} \cup Elems(t)
  <2>1. ASSUME NEW x \in Elems(q) PROVE x \in {Head(q)} \cup Elems(t)
    <3>1. PICK i \in 1..Len(q) : x = q[i]
      BY <1>2, <2>1 DEF Elems
    <3>2. CASE i = 1
      BY <3>1, <3>2, <1>2
    <3>3. CASE i # 1
      <4>1. i - 1 \in 1..Len(t) /\ t[i - 1] = q[i]
        BY <3>1, <3>3, <1>1, <1>2
      <4> QED BY <4>1, <3>1, <1>1, <1>2 DEF Elems
    <3> QED BY <3>2, <3>3
  <2>2. ASSUME NEW x \in Elems(t) PROVE x \in Elems(q)
    <3>1. PICK i \in 1..Len(t) : x = t[i]
      BY <1>1, <1>2, <2>2 DEF Elems
    <3>2. i + 1 \in 1..Len(q) /\ x = q[i + 1]
      BY <3>1, <1>1, <1>2
    <3> QED BY <3>2, <1>2 DEF Elems
  <2>3. Head(q) \in Elems(q)
    BY <1>2 DEF Elems
  <2> QED BY <2>1, <2>2, <2>3
<1>4. NoRepeat(t)
  <2> SUFFICES ASSUME NEW i \in DOMAIN t, NEW j \in DOMAIN t, t[i] = t[j]
               PROVE  i = j
    BY DEF NoRepeat
  <2>1. i + 1 \in DOMAIN q /\ j + 1 \in DOMAIN q /\ t[i] = q[i + 1] /\ t[j] = q[j + 1]
    BY <1>1, <1>2
  <2>2. i + 1 = j + 1
    BY <2>1 DEF NoRepeat
  <2> QED BY <2>2, <1>2
<1>5. Head(q) \notin Elems(t)
  <2> SUFFICES ASSUME Head(q) \in Elems(t) PROVE FALSE
    OBVIOUS
  <2>1. PICK i \in 1..Len(t) : q[1] = q[i + 1]
    BY <1>1, <1>2 DEF Elems
  <2>2. i + 1 \in DOMAIN q /\ 1 \in DOMAIN q
    BY <1>1, <1>2
  <2>3. 1 = i + 1
    BY <2>1, <2>2, <1>2 DEF NoRepeat
  <2> QED BY <2>3, <1>1, <1>2
<1> QED BY <1>1, <1>3, <1>4, <1>5 DEF t

\* Pushing a new entry adds exactly that entry and repeats none
\* (multithread.cpp:27, 148).
LEMMA AppendElems ==
  ASSUME NEW S, NEW q \in Seq(S), NEW e \in S, NoRepeat(q), e \notin Elems(q)
  PROVE  /\ Append(q, e) \in Seq(S)
         /\ Elems(Append(q, e)) = Elems(q) \cup {e}
         /\ NoRepeat(Append(q, e))
<1> DEFINE a == Append(q, e)
<1>1. /\ a \in Seq(S) /\ Len(a) = Len(q) + 1 /\ a[Len(q) + 1] = e
      /\ \A i \in 1..Len(q) : a[i] = q[i]
  OBVIOUS
<1>2. Len(q) \in Nat /\ DOMAIN q = 1..Len(q) /\ DOMAIN a = 1..(Len(q) + 1)
  BY <1>1, LenProperties
<1> HIDE DEF a
<1>3. Elems(a) = Elems(q) \cup {e}
  <2>1. Elems(q) = {q[i] : i \in 1..Len(q)} /\ Elems(a) = {a[i] : i \in 1..(Len(q) + 1)}
    BY <1>2 DEF Elems
  <2>2. 1..(Len(q) + 1) = 1..Len(q) \cup {Len(q) + 1}
    BY <1>2
  <2> QED BY <2>1, <2>2, <1>1
<1>4. NoRepeat(a)
  <2> SUFFICES ASSUME NEW i \in DOMAIN a, NEW j \in DOMAIN a, a[i] = a[j]
               PROVE  i = j
    BY DEF NoRepeat
  <2>1. \A k \in 1..Len(q) : q[k] # e
    BY <1>2 DEF Elems
  <2>2. CASE i \in 1..Len(q) /\ j \in 1..Len(q)
    BY <2>2, <1>1, <1>2 DEF NoRepeat
  <2>3. CASE i = Len(q) + 1 /\ j = Len(q) + 1
    BY <2>3
  <2>4. CASE i \in 1..Len(q) /\ j = Len(q) + 1
    BY <2>1, <2>4, <1>1
  <2>5. CASE i = Len(q) + 1 /\ j \in 1..Len(q)
    BY <2>1, <2>5, <1>1
  <2> QED BY <2>2, <2>3, <2>4, <2>5, <1>2
<1> QED BY <1>1, <1>3, <1>4 DEF a

-----------------------------------------------------------------------------
(* The busy counter. *)

\* The number of threads is a number.
LEMMA PopulationNat == population \in Nat
BY FS_CardinalityType, QueuesAssumption DEF population

\* A set of workers is finite and has at most population members.
LEMMA HoldingFinite ==
  ASSUME NEW S \in SUBSET Worker
  PROVE  IsFiniteSet(S) /\ Cardinality(S) \in 0..population
<1>1. IsFiniteSet(S) /\ Cardinality(S) <= population
  BY FS_Subset, QueuesAssumption DEF population
<1> QED BY <1>1, FS_CardinalityType, PopulationNat

\* The types of the queues together with the meaning of the busy counter:
\* neither is inductive alone, because the counter's range rests on what it
\* counts.
QueueInv == QueuesTypeOK /\ BusyIsHolding

\* The pool starts with all workers idle.
LEMMA QueueInvInit == QueuesInit => QueueInv
<1> SUFFICES ASSUME QueuesInit PROVE QueueInv
  OBVIOUS
<1> USE DEF QueuesInit
<1>1. Holding = {}
  BY DEF Holding
<1>2. BusyIsHolding
  BY <1>1, FS_EmptySet DEF BusyIsHolding
<1>3. QueuesTypeOK
  BY PopulationNat DEF QueuesTypeOK
<1> QED BY <1>2, <1>3 DEF QueueInv

\* A step that leaves the pool alone.
LEMMA QueueInvSame ==
  ASSUME QueueInv, UNCHANGED queues
  PROVE  QueueInv'
BY DEF QueueInv, QueuesTypeOK, BusyIsHolding, Holding, queues

\* do_task() (multithread.cpp:25-29).
LEMMA QueueInvDoTask ==
  ASSUME QueueInv, NEW m \in Mailbox, DoTask(m)
  PROVE  QueueInv'
<1>1. pending_tasks' \in Seq(Mailbox)
  BY DEF QueueInv, DoTask, QueuesTypeOK
<1> QED BY <1>1 DEF QueueInv, DoTask, QueuesTypeOK, BusyIsHolding, Holding

\* find_finished_task() (multithread.cpp:51-70).
LEMMA QueueInvFindFinished ==
  ASSUME QueueInv, NEW m, FindFinished(m)
  PROVE  QueueInv' /\ m \in Mailbox
<1>1. /\ finished_tasks \in Seq(Mailbox) /\ finished_tasks # <<>>
      /\ m = Head(finished_tasks) /\ finished_tasks' = Tail(finished_tasks)
  BY DEF QueueInv, FindFinished, QueuesTypeOK
<1>2. finished_tasks' \in Seq(Mailbox) /\ m \in Mailbox
  BY <1>1, HeadTailProperties
<1> QED BY <1>2 DEF QueueInv, FindFinished, QueuesTypeOK, BusyIsHolding, Holding

\* A worker takes a mailbox (multithread.cpp:121-127): it joins Holding.
LEMMA QueueInvTake ==
  ASSUME QueueInv, NEW w \in Worker, TakeTask(w)
  PROVE  QueueInv'
<1> USE DEF QueueInv
<1>0. /\ Holding \in SUBSET Worker /\ buzy_workers = Cardinality(Holding)
      /\ IsFiniteSet(Holding) /\ buzy_workers \in Nat
  BY HoldingFinite DEF Holding, BusyIsHolding
<1>1. /\ hand[w] = Idle
      /\ pending_tasks \in Seq(Mailbox) /\ pending_tasks # <<>>
      /\ hand' = [hand EXCEPT ![w] = Head(pending_tasks)]
      /\ pending_tasks' = Tail(pending_tasks)
      /\ buzy_workers' = buzy_workers + 1
  BY DEF TakeTask, QueuesTypeOK
<1>2. /\ Head(pending_tasks) \in Mailbox
      /\ pending_tasks' \in Seq(Mailbox)
  BY <1>1, HeadTailProperties
<1>3. hand' \in [Worker -> Mailbox \cup {Idle}]
  BY <1>1, <1>2 DEF QueuesTypeOK
<1>4. Holding' = Holding \cup {w} /\ w \notin Holding
  BY <1>1, <1>2, QueuesAssumption DEF Holding, QueuesTypeOK
<1>5. Cardinality(Holding') = buzy_workers + 1
  BY <1>0, <1>4, FS_AddElement
<1>6. Holding \cup {w} \in SUBSET Worker
  BY <1>0
<1>7. buzy_workers' \in 0..population /\ BusyIsHolding'
  BY <1>1, <1>4, <1>5, <1>6, HoldingFinite DEF BusyIsHolding
<1> QED BY <1>2, <1>3, <1>7 DEF TakeTask, QueuesTypeOK

\* A worker gives up what it holds: it leaves Holding.
LEMMA HoldingLess ==
  ASSUME QueueInv, NEW w \in Worker, hand[w] \in Mailbox,
         hand'[w] = Idle, \A v \in Worker \ {w} : hand'[v] = hand[v],
         buzy_workers' = buzy_workers - 1
  PROVE  BusyIsHolding' /\ buzy_workers' \in 0..population
<1>0. /\ Holding \in SUBSET Worker /\ buzy_workers = Cardinality(Holding)
      /\ IsFiniteSet(Holding) /\ buzy_workers \in Nat
  BY HoldingFinite DEF QueueInv, Holding, BusyIsHolding
<1>1. Holding' = Holding \ {w} /\ w \in Holding
  BY QueuesAssumption DEF Holding
<1>2. Cardinality(Holding') = buzy_workers - 1
  BY <1>0, <1>1, FS_RemoveElement
<1>3. Holding' \in SUBSET Worker
  BY <1>0, <1>1
<1> QED BY <1>1, <1>2, <1>3, <1>0, HoldingFinite DEF BusyIsHolding

\* A worker hands a result back (multithread.cpp:147-153).
LEMMA QueueInvPut ==
  ASSUME QueueInv, NEW w \in Worker, NEW m \in Mailbox, PutResult(w, m)
  PROVE  QueueInv'
<1>1. /\ hand[w] \in Mailbox
      /\ hand' = [hand EXCEPT ![w] = Idle]
      /\ finished_tasks' \in Seq(Mailbox)
      /\ buzy_workers' = buzy_workers - 1
  BY DEF QueueInv, PutResult, QueuesTypeOK
<1>2. BusyIsHolding' /\ buzy_workers' \in 0..population
  BY <1>1, HoldingLess DEF QueueInv, QueuesTypeOK
<1> QED BY <1>1, <1>2 DEF QueueInv, PutResult, QueuesTypeOK

\* A worker fills in the mailbox it holds, off the lock (multithread.cpp:128-136).
LEMMA QueueInvProcess ==
  ASSUME QueueInv, NEW w \in Worker, hand[w] \in Mailbox, NEW m \in Mailbox,
         hand' = [hand EXCEPT ![w] = m],
         UNCHANGED <<pending_tasks, finished_tasks, buzy_workers>>
  PROVE  QueueInv'
<1>1. hand' \in [Worker -> Mailbox \cup {Idle}]
  BY DEF QueueInv, QueuesTypeOK
<1>2. Holding' = Holding
  BY QueuesAssumption DEF QueueInv, QueuesTypeOK, Holding
<1> QED BY <1>1, <1>2 DEF QueueInv, QueuesTypeOK, BusyIsHolding
=============================================================================
