-------------------------- MODULE Transducer_proofs --------------------------
(***************************************************************************)
(* Proofs about Transducer, for all programs, machines and registers that  *)
(* meet IsMachine, streams of any length, and gates called in any order.   *)
(***************************************************************************)
EXTENDS Transducer, Vectors_proofs

-----------------------------------------------------------------------------
(* The calls under way. *)

\* The gates of c; what g is wired from.
GatesOf(c) == ToSet(c.gates)
Inputs(c, g) == ToSet(c.in[g])

Errands(c) ==
  {Call(g) : g \in GatesOf(c)} \cup {Return(g) : g \in GatesOf(c)}
    \cup {e \in {Announce(g, h) : g \in GatesOf(c), h \in GatesOf(c)} :
            e.from \in Inputs(c, e.to)}

\* Nothing is to be done twice, and tick() calls no gate before all is done
\* that follows from its last call.
Ordered(todo) ==
  /\ IsInjective(todo)
  /\ \A i, j \in DOMAIN todo :
       i < j /\ todo[i].do = "posedge" => todo[j].do = "posedge"

\* When tick() calls a gate, nothing else is under way.
OnlyCalls(T, e) == e.do = "posedge" => \A d \in T : d.do = "posedge"

\* The innermost call ends.
LEMMA TailOrdered ==
  ASSUME NEW E, NEW todo \in Seq(E), todo # <<>>, Ordered(todo)
  PROVE  /\ Head(todo) \in ToSet(todo) /\ Head(todo) \in E
         /\ Tail(todo) \in Seq(E) /\ Ordered(Tail(todo))
         /\ ToSet(Tail(todo)) = ToSet(todo) \ {Head(todo)}
         /\ OnlyCalls(ToSet(todo), Head(todo))
<1> DEFINE n == Len(todo)
           t == Tail(todo)
<1>1. n \in Nat \ {0} /\ DOMAIN todo = 1..n /\ Head(todo) = todo[1] /\ todo[1] \in E
  BY EmptySeq, LenProperties
<1>2. t \in Seq(E) /\ Len(t) = n - 1 /\ DOMAIN t = 1..(n - 1)
  BY HeadTailProperties, LenProperties
<1>3. \A i \in 1..(n - 1) : t[i] = todo[i + 1]
  BY <1>2, HeadTailProperties
<1> HIDE DEF t, n
<1>4. Ordered(t)
  <2>1. \A i \in 1..(n - 1) : i + 1 \in 1..n
    BY <1>1
  <2>2. ASSUME NEW i \in 1..(n - 1), NEW j \in 1..(n - 1), t[i] = t[j] PROVE i = j
    <3>1. todo[i + 1] = todo[j + 1] /\ i + 1 \in 1..n /\ j + 1 \in 1..n
      BY <1>3, <2>1, <2>2
    <3>2. i + 1 = j + 1
      BY <1>1, <3>1 DEF Ordered, IsInjective
    <3> QED BY <3>2
  <2>3. ASSUME NEW i \in 1..(n - 1), NEW j \in 1..(n - 1), i < j, t[i].do = "posedge"
        PROVE  t[j].do = "posedge"
    <3>1. /\ i + 1 \in 1..n /\ j + 1 \in 1..n /\ i + 1 < j + 1
          /\ t[i] = todo[i + 1] /\ t[j] = todo[j + 1]
      BY <1>3, <2>1, <2>3
    <3> QED BY <1>1, <2>3, <3>1 DEF Ordered
  <2> QED BY <1>2, <2>2, <2>3 DEF Ordered, IsInjective
<1>5. ToSet(t) = ToSet(todo) \ {todo[1]}
  <2>1. ASSUME NEW i \in 1..(n - 1) PROVE t[i] \in ToSet(todo) \ {todo[1]}
    <3>1. i + 1 \in 1..n /\ 1 \in 1..n /\ i + 1 # 1 /\ t[i] = todo[i + 1]
      BY <1>1, <1>3
    <3>2. todo[i + 1] # todo[1]
      BY <1>1, <3>1 DEF Ordered, IsInjective
    <3> QED BY <1>1, <3>1, <3>2 DEF ToSet
  <2>2. ASSUME NEW i \in 1..n, todo[i] # todo[1] PROVE todo[i] \in ToSet(t)
    <3>1. i - 1 \in 1..(n - 1) /\ t[i - 1] = todo[i]
      BY <1>1, <1>3, <2>2
    <3> QED BY <1>2, <3>1 DEF ToSet
  <2> QED BY <1>1, <1>2, <2>1, <2>2 DEF ToSet
<1>6. OnlyCalls(ToSet(todo), todo[1])
  BY <1>1 DEF Ordered, ToSet, OnlyCalls
<1>7. todo[1] \in ToSet(todo)
  BY <1>1 DEF ToSet
<1> QED BY <1>1, <1>2, <1>4, <1>5, <1>6, <1>7 DEF t

\* No call of tick() is among them.
NoCalls(new) == \A e \in ToSet(new) : e.do # "posedge"

\* The calls that a gate sends are put in front.
LEMMA CallsOrdered ==
  ASSUME NEW E, NEW new \in Seq(E), NEW todo \in Seq(E), IsInjective(new), Ordered(todo),
         ToSet(new) \cap ToSet(todo) = {}, NoCalls(new)
  PROVE  /\ new \o todo \in Seq(E) /\ Ordered(new \o todo)
         /\ ToSet(new \o todo) = ToSet(new) \cup ToSet(todo)
<1> DEFINE m == Len(new)
           n == Len(todo)
           t == new \o todo
<1>1. /\ m \in Nat /\ DOMAIN new = 1..m
      /\ n \in Nat /\ DOMAIN todo = 1..n
  BY LenProperties
<1>2. /\ t \in Seq(E) /\ DOMAIN t = 1..(m + n)
      /\ \A i \in 1..(m + n) : t[i] = IF i <= m THEN new[i] ELSE todo[i - m]
  BY ConcatProperties, LenProperties
<1> HIDE DEF t, m, n
<1>3. /\ \A i \in 1..m : t[i] = new[i] /\ new[i] \in ToSet(new) /\ t[i].do # "posedge"
      /\ \A i \in (m + 1)..(m + n) : t[i] = todo[i - m] /\ i - m \in 1..n /\ t[i] \in ToSet(todo)
      /\ \A i \in 1..(m + n) : i \in 1..m \/ i \in (m + 1)..(m + n)
  <2>1. \A i \in 1..m : i \in 1..(m + n)
    BY <1>1
  <2>2. \A i \in (m + 1)..(m + n) : i \in 1..(m + n) /\ i - m \in 1..n /\ ~(i <= m)
    BY <1>1
  <2>3. \A i \in 1..m : new[i] \in ToSet(new)
    BY <1>1 DEF ToSet
  <2>4. \A i \in 1..n : todo[i] \in ToSet(todo)
    BY <1>1 DEF ToSet
  <2>5. \A i \in 1..(m + n) : i \in 1..m \/ i \in (m + 1)..(m + n)
    BY <1>1
  <2> QED BY <1>2, <2>1, <2>2, <2>3, <2>4, <2>5 DEF NoCalls
<1>4. IsInjective(t)
  <2> SUFFICES ASSUME NEW i \in 1..(m + n), NEW j \in 1..(m + n), t[i] = t[j] PROVE i = j
    BY <1>2 DEF IsInjective
  <2>1. CASE i \in 1..m /\ j \in 1..m
    BY <1>1, <1>3, <2>1 DEF IsInjective
  <2>2. CASE i \in (m + 1)..(m + n) /\ j \in (m + 1)..(m + n)
    <3>1. i - m = j - m
      BY <1>1, <1>3, <2>2 DEF Ordered, IsInjective
    <3> QED BY <1>1, <3>1
  <2>3. CASE ~(i \in 1..m <=> j \in 1..m)
    BY <1>3, <2>3
  <2> QED BY <1>3, <2>1, <2>2, <2>3
<1>5. ASSUME NEW i \in 1..(m + n), NEW j \in 1..(m + n), i < j, t[i].do = "posedge"
      PROVE  t[j].do = "posedge"
  <2>1. i \in (m + 1)..(m + n) /\ j \in (m + 1)..(m + n) /\ i - m < j - m
    BY <1>1, <1>3, <1>5
  <2>2. /\ i - m \in 1..n /\ j - m \in 1..n
        /\ t[i] = todo[i - m] /\ t[j] = todo[j - m]
    BY <1>3, <2>1
  <2> QED BY <1>1, <1>5, <2>1, <2>2 DEF Ordered
<1>6. ToSet(t) = ToSet(new) \cup ToSet(todo)
  <2>1. ASSUME NEW i \in 1..m PROVE new[i] \in ToSet(t)
    <3>1. i \in 1..(m + n)
      BY <1>1
    <3> QED BY <1>2, <1>3, <3>1 DEF ToSet
  <2>2. ASSUME NEW i \in 1..n PROVE todo[i] \in ToSet(t)
    <3>1. m + i \in (m + 1)..(m + n) /\ (m + i) - m = i /\ m + i \in 1..(m + n)
      BY <1>1
    <3>2. t[m + i] = todo[i]
      BY <1>3, <3>1
    <3> QED BY <1>2, <3>1, <3>2 DEF ToSet
  <2>3. \A i \in 1..(m + n) : t[i] \in ToSet(new) \cup ToSet(todo)
    BY <1>3
  <2>4. ToSet(t) = {t[i] : i \in 1..(m + n)}
    BY <1>2 DEF ToSet
  <2>5. ToSet(new) = {new[i] : i \in 1..m} /\ ToSet(todo) = {todo[i] : i \in 1..n}
    BY <1>1 DEF ToSet
  <2>6. ToSet(t) \subseteq ToSet(new) \cup ToSet(todo)
    BY <2>3, <2>4
  <2>7. ToSet(new) \subseteq ToSet(t) /\ ToSet(todo) \subseteq ToSet(t)
    BY <2>1, <2>2, <2>5
  <2> QED BY <2>6, <2>7
<1> QED BY <1>2, <1>4, <1>5, <1>6 DEF Ordered, t

-----------------------------------------------------------------------------
(* Gates and wires. *)

\* A gate has as many inputs as wires lead to it.
LEMMA WiredIn ==
  ASSUME NEW c, IsCircuit(c), NEW g \in GatesOf(c)
  PROVE  /\ c.in[g] \in Seq(GatesOf(c)) /\ Inputs(c, g) \subseteq GatesOf(c)
         /\ Len(c.in[g]) \in Nat /\ DOMAIN c.in[g] = 1..Len(c.in[g])
         /\ IsFiniteSet(Inputs(c, g)) /\ Cardinality(Inputs(c, g)) = Len(c.in[g])
         /\ c.in[g] = <<>> <=> Inputs(c, g) = {}
<1> DEFINE in == c.in[g]
           n == Len(in)
<1>1. in \in Seq(GatesOf(c)) /\ IsInjective(in)
  BY DEF IsCircuit, GatesOf
<1> HIDE DEF in
<1>2. n \in Nat /\ DOMAIN in = 1..n /\ in \in [1..n -> GatesOf(c)]
  BY <1>1, LenProperties
<1> HIDE DEF n
<1>3. ToSet(in) = MembersAt(in, 1..n)
  BY <1>2 DEF ToSet, MembersAt
<1>4. IsFiniteSet(1..n) /\ Cardinality(1..n) = n
  BY <1>2, FS_Interval
<1>5. IsFiniteSet(ToSet(in)) /\ Cardinality(ToSet(in)) = n
  <2>1. \A i, j \in 1..n : in[i] = in[j] => i = j
    BY <1>1, <1>2 DEF IsInjective
  <2> QED BY <1>3, <1>4, <2>1, ImageCardinality
<1>6. ToSet(in) \subseteq GatesOf(c)
  BY <1>2 DEF ToSet
<1>7. in = <<>> <=> ToSet(in) = {}
  <2>1. in # <<>> => n # 0
    BY <1>1, EmptySeq DEF n
  <2>2. in = <<>> => n = 0
    BY EmptySeq DEF n
  <2> QED BY <1>2, <1>5, <2>1, <2>2, FS_EmptySet
<1> QED BY <1>1, <1>2, <1>5, <1>6, <1>7 DEF Inputs, in, n

\* What is in a call.
LEMMA CallParts ==
  ASSUME NEW g, NEW h
  PROVE  /\ Call(g).do = "posedge" /\ Call(g).from = g /\ Call(g).to = g
         /\ Announce(g, h).do = "wire_ready" /\ Announce(g, h).from = g
         /\ Announce(g, h).to = h
         /\ Return(g).do = "return" /\ Return(g).from = g /\ Return(g).to = g
BY DEF Call, Announce, Return

\* The calls of a gate that has computed: every gate that it is an input of
\* hears of it, and its posedge() ends.
Sent(c, g) == Loop(c, g) \o <<Return(g)>>

\* A gate sends each of these calls once.
LEMMA SentCalls ==
  ASSUME NEW c, IsCircuit(c), NEW g \in GatesOf(c)
  PROVE  /\ Sent(c, g) \in Seq(Errands(c)) /\ IsInjective(Sent(c, g))
         /\ \A e : e \in ToSet(Sent(c, g)) <=>
              \/ e = Return(g)
              \/ \E h \in GatesOf(c) : g \in Inputs(c, h) /\ e = Announce(g, h)
<1> DEFINE E == Errands(c)
           out == c.out[g]
           m == Len(out)
           t == Sent(c, g)
<1>1. out \in Seq(GatesOf(c)) /\ IsInjective(out)
  BY DEF IsCircuit, GatesOf
<1>2. \A h \in GatesOf(c) : h \in ToSet(out) <=> g \in Inputs(c, h)
  BY DEF IsCircuit, GatesOf, Inputs
<1> HIDE DEF out
<1>3. m \in Nat /\ DOMAIN out = 1..m /\ out \in [1..m -> GatesOf(c)]
  BY <1>1, LenProperties
<1> HIDE DEF m
<1>4. Loop(c, g) = [k \in 1..m |-> Announce(g, out[k])]
  BY <1>3 DEF Loop, out
<1>5. \A k \in 1..m : Announce(g, out[k]) \in E
  <2> SUFFICES ASSUME NEW k \in 1..m PROVE Announce(g, out[k]) \in E
    OBVIOUS
  <2>1. out[k] \in GatesOf(c) /\ g \in Inputs(c, out[k])
    BY <1>2, <1>3 DEF ToSet
  <2> QED BY <2>1 DEF Errands, Announce
<1>6. Loop(c, g) \in Seq(E) /\ Len(Loop(c, g)) = m
  BY <1>3, <1>4, <1>5, IsASeq
<1>7. Return(g) \in E
  BY DEF Errands
<1>8. <<Return(g)>> \in Seq(E) /\ Len(<<Return(g)>>) = 1 /\ <<Return(g)>>[1] = Return(g)
  BY <1>7
<1>9. /\ t \in Seq(E) /\ DOMAIN t = 1..(m + 1) /\ t[m + 1] = Return(g)
      /\ \A k \in 1..m : t[k] = Announce(g, out[k])
  <2>1. /\ t \in Seq(E) /\ Len(t) = m + 1
        /\ \A i \in 1..(m + 1) : t[i] = IF i <= m THEN Loop(c, g)[i] ELSE <<Return(g)>>[i - m]
    BY <1>6, <1>8, ConcatProperties DEF Sent
  <2> HIDE DEF t
  <2>2. DOMAIN t = 1..(m + 1)
    BY <2>1, LenProperties
  <2>3. m + 1 \in 1..(m + 1) /\ ~(m + 1 <= m) /\ (m + 1) - m = 1
    BY <1>3
  <2>4. t[m + 1] = Return(g)
    BY <1>8, <2>1, <2>3
  <2>5. \A k \in 1..m : k \in 1..(m + 1) /\ k <= m
    BY <1>3
  <2> QED BY <1>4, <2>1, <2>2, <2>4, <2>5
<1> HIDE DEF t
<1>10. IsInjective(t)
  <2> SUFFICES ASSUME NEW i \in 1..(m + 1), NEW j \in 1..(m + 1), t[i] = t[j] PROVE i = j
    BY <1>9 DEF IsInjective
  <2>1. CASE i \in 1..m /\ j \in 1..m
    <3>1. out[i] = out[j]
      BY <1>9, <2>1, CallParts
    <3> QED BY <1>1, <1>3, <2>1, <3>1 DEF IsInjective
  <2>2. CASE ~(i \in 1..m /\ j \in 1..m)
    <3>1. \A k \in 1..m : t[k] # t[m + 1]
      BY <1>9, CallParts
    <3> QED BY <1>3, <2>2, <3>1
  <2> QED BY <2>1, <2>2
<1>11. ASSUME NEW e
       PROVE  e \in ToSet(t) <=>
                \/ e = Return(g)
                \/ \E h \in GatesOf(c) : g \in Inputs(c, h) /\ e = Announce(g, h)
  <2>1. e \in ToSet(t) <=> \E k \in 1..(m + 1) : e = t[k]
    BY <1>9 DEF ToSet
  <2>2. \A k \in 1..(m + 1) : k = m + 1 \/ k \in 1..m
    BY <1>3
  <2>3. \A k \in 1..m : k \in 1..(m + 1)
    BY <1>3
  <2>4. m + 1 \in 1..(m + 1)
    BY <1>3
  <2>5. e \in ToSet(t) <=> e = Return(g) \/ \E k \in 1..m : e = Announce(g, out[k])
    BY <1>9, <2>1, <2>2, <2>3, <2>4
  <2>6. \A h \in GatesOf(c) : g \in Inputs(c, h) <=> \E k \in 1..m : h = out[k]
    BY <1>2, <1>3 DEF ToSet
  <2> QED BY <1>3, <2>5, <2>6
<1> QED BY <1>9, <1>10, <1>11 DEF t

-----------------------------------------------------------------------------
(* What a clock cycle has come to: C are the gates that have computed, T is *)
(* what is left to do.                                                      *)

\* The inputs that g has been told of.
Heard(c, C, T, g) == {f \in Inputs(c, g) : f \in C /\ Announce(f, g) \notin T}

\* A gate has computed when it has been told of all its inputs, and not before;
\* one with no input waits for its call.
Waits(c, C, T) ==
  /\ \A e \in T : e.do # "posedge" => e.from \in C
  /\ \A g \in C : Heard(c, C, T, g) = Inputs(c, g)
  /\ \A g \in GatesOf(c) \ C :
       Heard(c, C, T, g) = Inputs(c, g) => Inputs(c, g) = {} /\ Call(g) \in T

\* ready_wires counts them, and the end of the posedge.
Counts(c, C, T, ready) ==
  /\ ready \in [GatesOf(c) -> Nat]
  /\ \A g \in GatesOf(c) :
       ready[g] = Cardinality(Heard(c, C, T, g))
                    + (IF g \in C /\ Return(g) \notin T THEN 1 ELSE 0)

\* What ready_wires becomes by e.
Told(ready, e) == ready[e.to] + (IF e.do = "posedge" THEN 0 ELSE 1)

\* A gate can hear of no more gates than it has inputs.
LEMMA HeardSized ==
  ASSUME NEW c, IsCircuit(c), NEW C, NEW T, NEW g \in GatesOf(c)
  PROVE  /\ IsFiniteSet(Heard(c, C, T, g)) /\ Cardinality(Heard(c, C, T, g)) \in Nat
         /\ Cardinality(Heard(c, C, T, g)) <= Len(c.in[g])
         /\ Cardinality(Heard(c, C, T, g)) = Len(c.in[g]) <=> Heard(c, C, T, g) = Inputs(c, g)
<1>1. Heard(c, C, T, g) \subseteq Inputs(c, g)
  BY DEF Heard
<1>2. IsFiniteSet(Inputs(c, g)) /\ Cardinality(Inputs(c, g)) = Len(c.in[g])
  BY WiredIn
<1> QED BY <1>1, <1>2, FS_Subset, FS_CardinalityType

\* What is done.
LEMMA ErrandCases ==
  ASSUME NEW c, NEW e \in Errands(c)
  PROVE  /\ e.to \in GatesOf(c)
         /\ \/ e = Call(e.to) /\ e.do = "posedge"
            \/ e = Return(e.to) /\ e.do = "return" /\ e.from = e.to
            \/ e = Announce(e.from, e.to) /\ e.do = "wire_ready" /\ e.from \in Inputs(c, e.to)
<1>1. CASE \E g \in GatesOf(c) : e = Call(g)
  BY <1>1, CallParts
<1>2. CASE \E g \in GatesOf(c) : e = Return(g)
  BY <1>2, CallParts
<1>3. CASE \E g, h \in GatesOf(c) : e = Announce(g, h) /\ e.from \in Inputs(c, e.to)
  BY <1>3, CallParts
<1> QED BY <1>1, <1>2, <1>3 DEF Errands

\* An announcement adds its gate to what is heard.
LEMMA HeardMore ==
  ASSUME NEW c, NEW C, NEW T \in SUBSET Errands(c), Waits(c, C, T), NEW e \in T,
         e.do = "wire_ready", NEW g, g = e.to
  PROVE  /\ Heard(c, C, T \ {e}, g) = Heard(c, C, T, g) \cup {e.from}
         /\ e.from \notin Heard(c, C, T, g) /\ g \notin C
<1>1. e = Announce(e.from, g) /\ e.from \in Inputs(c, g)
  BY ErrandCases
<1>2. e.from \in C
  BY DEF Waits
<1>3. e.from \notin Heard(c, C, T, g)
  BY <1>1 DEF Heard
<1>4. e.from \in Heard(c, C, T \ {e}, g)
  BY <1>1, <1>2 DEF Heard
<1>5. Heard(c, C, T, g) \subseteq Heard(c, C, T \ {e}, g)
  BY DEF Heard
<1>6. ASSUME NEW f \in Heard(c, C, T \ {e}, g), f \notin Heard(c, C, T, g)
      PROVE  f = e.from
  <2>1. e = Announce(f, g)
    BY <1>6 DEF Heard
  <2> QED BY <2>1, CallParts
<1>7. g \notin C
  BY <1>1, <1>3 DEF Waits
<1> QED BY <1>3, <1>4, <1>5, <1>6, <1>7

\* The call tells g of one of its wires.
Tells(e, g) == e.do = "wire_ready" /\ e.to = g

\* A call to another gate changes nothing that this one has heard.
LEMMA HeardSame ==
  ASSUME NEW c, NEW C, NEW T, NEW e, NEW g, ~Tells(e, g)
  PROVE  Heard(c, C, T \ {e}, g) = Heard(c, C, T, g)
<1>1. \A f : Announce(f, g).do = "wire_ready" /\ Announce(f, g).to = g
  BY CallParts
<1>2. \A f : e # Announce(f, g)
  BY <1>1 DEF Tells
<1> QED BY <1>2 DEF Heard

\* The counter counts on.
LEMMA CountsOn ==
  ASSUME NEW c, IsCircuit(c), NEW C, NEW T \in SUBSET Errands(c), Waits(c, C, T),
         NEW ready, Counts(c, C, T, ready), NEW e \in T
  PROVE  Counts(c, C, T \ {e}, [ready EXCEPT ![e.to] = Told(ready, e)])
<1> DEFINE T1 == T \ {e}
           r1 == [ready EXCEPT ![e.to] = Told(ready, e)]
           Through1(g, U) == g \in C /\ Return(g) \notin U
<1>1. e.to \in GatesOf(c) /\ ready \in [GatesOf(c) -> Nat]
  BY ErrandCases DEF Counts
<1>2. Told(ready, e) \in Nat
  BY <1>1 DEF Told
<1>3. r1 \in [GatesOf(c) -> Nat]
  BY <1>1, <1>2
<1>4. ASSUME NEW g \in GatesOf(c)
      PROVE  r1[g] = Cardinality(Heard(c, C, T1, g)) + (IF Through1(g, T1) THEN 1 ELSE 0)
  <2>1. ready[g] = Cardinality(Heard(c, C, T, g)) + (IF Through1(g, T) THEN 1 ELSE 0)
    BY DEF Counts
  <2>2. IsFiniteSet(Heard(c, C, T, g)) /\ Cardinality(Heard(c, C, T, g)) \in Nat
    BY HeardSized
  <2>3. CASE e.to # g \/ e.do = "posedge"
    <3>1. r1[g] = ready[g]
      BY <1>1, <2>3 DEF Told
    <3>2. Heard(c, C, T1, g) = Heard(c, C, T, g)
      <4>1. ~Tells(e, g)
        BY <2>3 DEF Tells
      <4> QED BY <4>1, HeardSame
    <3>3. e # Return(g)
      BY <2>3, CallParts
    <3> QED BY <2>1, <3>1, <3>2, <3>3
  <2>4. CASE e.to = g /\ e.do = "wire_ready"
    <3>1. r1[g] = ready[g] + 1
      BY <1>1, <2>4 DEF Told
    <3>2. /\ Heard(c, C, T1, g) = Heard(c, C, T, g) \cup {e.from}
          /\ e.from \notin Heard(c, C, T, g) /\ g \notin C
      <4>1. e.do = "wire_ready" /\ e.to = g
        BY <2>4
      <4> QED BY <4>1, HeardMore
    <3>3. Cardinality(Heard(c, C, T1, g)) = Cardinality(Heard(c, C, T, g)) + 1
      BY <2>2, <3>2, FS_AddElement
    <3> QED BY <2>1, <2>2, <3>1, <3>2, <3>3
  <2>5. CASE e.to = g /\ e.do = "return"
    <3>1. r1[g] = ready[g] + 1
      BY <1>1, <2>5 DEF Told
    <3>2. Heard(c, C, T1, g) = Heard(c, C, T, g)
      <4>1. ~Tells(e, g)
        BY <2>5 DEF Tells
      <4> QED BY <4>1, HeardSame
    <3>3. e = Return(g) /\ g \in C
      BY <2>5, ErrandCases, CallParts DEF Waits
    <3> QED BY <2>1, <2>2, <3>1, <3>2, <3>3
  <2> QED BY <2>3, <2>4, <2>5, ErrandCases
<1> QED BY <1>3, <1>4 DEF Counts

\* A gate computes with e if that was all it waited for.
Sets(c, ready, e) == e.do # "return" /\ Told(ready, e) = Len(c.in[e.to])

\* It does so when it has not computed and has then been told of all its inputs.
LEMMA SetsWhenHeard ==
  ASSUME NEW c, IsCircuit(c), NEW C, NEW T \in SUBSET Errands(c), Waits(c, C, T),
         NEW ready, Counts(c, C, T, ready), NEW e \in T,
         OnlyCalls(T, e)
  PROVE  Sets(c, ready, e) <=>
           e.to \notin C /\ Heard(c, C, T \ {e}, e.to) = Inputs(c, e.to)
<1> DEFINE T1 == T \ {e}
<1> SUFFICES ASSUME NEW g \in GatesOf(c), g = e.to
             PROVE  Sets(c, ready, e) <=> g \notin C /\ Heard(c, C, T1, g) = Inputs(c, g)
  BY ErrandCases
<1>1. g \in GatesOf(c) /\ g = e.to
  OBVIOUS
<1>2. Told(ready, e) = Cardinality(Heard(c, C, T1, g))
                         + (IF g \in C /\ Return(g) \notin T1 THEN 1 ELSE 0)
  <2>1. [ready EXCEPT ![g] = Told(ready, e)][g] = Told(ready, e)
    BY <1>1 DEF Counts
  <2>2. Counts(c, C, T1, [ready EXCEPT ![g] = Told(ready, e)])
    BY CountsOn
  <2> QED BY <1>1, <2>1, <2>2 DEF Counts
<1>3. /\ Cardinality(Heard(c, C, T1, g)) \in Nat /\ Len(c.in[g]) \in Nat
      /\ Cardinality(Heard(c, C, T1, g)) = Len(c.in[g]) <=> Heard(c, C, T1, g) = Inputs(c, g)
  BY <1>1, HeardSized, WiredIn
<1>4. CASE g \notin C
  <2>1. e.do # "return"
    BY <1>4, ErrandCases DEF Waits
  <2> QED BY <1>2, <1>3, <1>4, <2>1 DEF Sets
<1>5. CASE g \in C
  <2>1. ~(e.do = "wire_ready")
    <3> SUFFICES ASSUME e.do = "wire_ready" PROVE FALSE
      OBVIOUS
    <3>1. e = Announce(e.from, g) /\ e.from \in Inputs(c, g)
      BY <1>1, ErrandCases
    <3>2. e.from \notin Heard(c, C, T, g)
      BY <3>1 DEF Heard
    <3> QED BY <1>5, <3>1, <3>2 DEF Waits
  <2>2. ASSUME e.do = "posedge" PROVE ~Sets(c, ready, e)
    <3>1. Heard(c, C, T, g) = Inputs(c, g)
      BY <1>5 DEF Waits
    <3>2. Heard(c, C, T1, g) = Inputs(c, g)
      <4>1. ~Tells(e, g)
        BY <2>2 DEF Tells
      <4> QED BY <3>1, <4>1, HeardSame
    <3>3. Return(g) \notin T1
      BY <2>2, CallParts DEF OnlyCalls
    <3>4. Told(ready, e) = Len(c.in[g]) + 1
      BY <1>2, <1>3, <1>5, <3>2, <3>3
    <3> QED BY <1>3, <3>4 DEF Sets
  <2> QED BY <1>5, <2>1, <2>2, ErrandCases DEF Sets
<1> QED BY <1>4, <1>5

\* If not, the others wait as before.
LEMMA WaitsOn ==
  ASSUME NEW c, IsCircuit(c), NEW C, NEW T \in SUBSET Errands(c), Waits(c, C, T), NEW e \in T,
         e.to \in C \/ Heard(c, C, T \ {e}, e.to) # Inputs(c, e.to)
  PROVE  Waits(c, C, T \ {e})
<1> DEFINE T1 == T \ {e}
<1>1. ASSUME NEW g \in C PROVE Heard(c, C, T1, g) = Inputs(c, g)
  <2>1. Heard(c, C, T, g) = Inputs(c, g)
    BY DEF Waits
  <2> QED BY <2>1 DEF Heard
<1>2. ASSUME NEW g \in GatesOf(c) \ C, Heard(c, C, T1, g) = Inputs(c, g)
      PROVE  Inputs(c, g) = {} /\ Call(g) \in T1
  <2>1. g # e.to
    BY <1>2
  <2>2. Heard(c, C, T1, g) = Heard(c, C, T, g)
    <3>1. ~Tells(e, g)
      BY <2>1 DEF Tells
    <3> QED BY <3>1, HeardSame
  <2>3. Inputs(c, g) = {} /\ Call(g) \in T
    BY <1>2, <2>2 DEF Waits
  <2> QED BY <2>1, <2>3, CallParts
<1>3. \A d \in T1 : d.do # "posedge" => d.from \in C
  BY DEF Waits
<1> QED BY <1>1, <1>2, <1>3 DEF Waits

\* If so, it has computed, and is going to say so.
Joins(c, C, T, ready, g) ==
  LET D == C \cup {g}
      U == ToSet(Sent(c, g)) \cup T
  IN  /\ g \in GatesOf(c) /\ g \notin C /\ Inputs(c, g) \subseteq C
      /\ ToSet(Sent(c, g)) \cap T = {}
      /\ Waits(c, D, U) /\ Counts(c, D, U, ready)

\* The gate that computes joins those that have.
LEMMA SendsOn ==
  ASSUME NEW c, IsCircuit(c), NEW C \in SUBSET GatesOf(c), NEW T \in SUBSET Errands(c),
         Waits(c, C, T), NEW ready, NEW e \in T, Counts(c, C, T \ {e}, ready),
         e.to \notin C, Heard(c, C, T \ {e}, e.to) = Inputs(c, e.to)
  PROVE  Joins(c, C, T \ {e}, ready, e.to)
<1> DEFINE g == e.to
           T1 == T \ {e}
           D == C \cup {g}
           S == ToSet(Sent(c, g))
           U == S \cup T1
<1>1. g \in GatesOf(c) /\ g \notin C /\ Heard(c, C, T1, g) = Inputs(c, g)
  BY ErrandCases
<1>2. \A d : d \in S <=> d = Return(g)
                          \/ \E h \in GatesOf(c) : g \in Inputs(c, h) /\ d = Announce(g, h)
  BY <1>1, SentCalls
<1>3. \A d \in T : d.do # "posedge" => d.from \in C
  BY DEF Waits
<1>4. \A d \in S : d.do # "posedge" /\ d.from = g
  BY <1>2, CallParts
<1> HIDE DEF S
<1>5. S \cap T1 = {}
  BY <1>1, <1>3, <1>4
<1>6. ASSUME NEW h \in GatesOf(c) PROVE Heard(c, D, U, h) = Heard(c, C, T1, h)
  <2>1. ASSUME NEW f \in Inputs(c, h), f # g
        PROVE  f \in D /\ Announce(f, h) \notin U <=> f \in C /\ Announce(f, h) \notin T1
    <3>1. Announce(f, h) \notin S
      BY <1>4, <2>1, CallParts
    <3> QED BY <2>1, <3>1
  <2>2. ASSUME g \in Inputs(c, h) PROVE Announce(g, h) \in U
    BY <1>2, <2>2
  <2> QED BY <1>1, <2>1, <2>2 DEF Heard
<1>7. Counts(c, D, U, ready)
  <2>1. \A h \in GatesOf(c) : h \in D /\ Return(h) \notin U <=> h \in C /\ Return(h) \notin T1
    <3> SUFFICES ASSUME NEW h \in GatesOf(c)
                 PROVE  h \in D /\ Return(h) \notin U <=> h \in C /\ Return(h) \notin T1
      OBVIOUS
    <3>1. CASE h = g
      BY <1>1, <1>2, <3>1
    <3>2. CASE h # g
      <4>1. Return(h) \notin S
        BY <1>4, <3>2, CallParts
      <4> QED BY <3>2, <4>1
    <3> QED BY <3>1, <3>2
  <2> HIDE DEF D, U, T1
  <2> QED BY <1>6, <2>1 DEF Counts, T1
<1>8. Waits(c, D, U)
  <2>1. \A d \in U : d.do # "posedge" => d.from \in D
    BY <1>3, <1>4
  <2>2. ASSUME NEW h \in D PROVE Heard(c, D, U, h) = Inputs(c, h)
    <3>1. CASE h = g
      BY <1>1, <1>6, <3>1
    <3>2. CASE h \in C
      <4>1. Heard(c, C, T, h) = Inputs(c, h) /\ Heard(c, C, T, h) \subseteq Heard(c, C, T1, h)
        BY <3>2 DEF Waits, Heard
      <4>2. Heard(c, C, T1, h) = Inputs(c, h)
        BY <4>1 DEF Heard
      <4> QED BY <1>6, <3>2, <4>2
    <3> QED BY <3>1, <3>2
  <2>3. ASSUME NEW h \in GatesOf(c) \ D, Heard(c, D, U, h) = Inputs(c, h)
        PROVE  Inputs(c, h) = {} /\ Call(h) \in U
    <3>1. h \notin C /\ h # g
      OBVIOUS
    <3>2. Heard(c, C, T1, h) = Heard(c, C, T, h)
      <4>1. ~Tells(e, h)
        BY <3>1 DEF Tells
      <4> QED BY <4>1, HeardSame
    <3>3. Inputs(c, h) = {} /\ Call(h) \in T
      BY <1>6, <2>3, <3>1, <3>2 DEF Waits
    <3> QED BY <3>1, <3>3, CallParts
  <2> HIDE DEF D, U
  <2> QED BY <2>1, <2>2, <2>3 DEF Waits
<1>9. Inputs(c, g) \subseteq C
  BY <1>1 DEF Heard
<1> QED BY <1>1, <1>5, <1>7, <1>8, <1>9 DEF S, Joins

\* So much for one of them.
LEMMA ErrandDone ==
  ASSUME NEW c, IsCircuit(c), NEW C \in SUBSET GatesOf(c), NEW T \in SUBSET Errands(c),
         NEW ready, Waits(c, C, T), Counts(c, C, T, ready), NEW e \in T, OnlyCalls(T, e),
         NEW told, told = [ready EXCEPT ![e.to] = Told(ready, e)]
  PROVE  IF Sets(c, ready, e) THEN Joins(c, C, T \ {e}, told, e.to)
         ELSE Waits(c, C, T \ {e}) /\ Counts(c, C, T \ {e}, told)
<1>1. Counts(c, C, T \ {e}, told)
  BY CountsOn
<1>2. Sets(c, ready, e) <=> e.to \notin C /\ Heard(c, C, T \ {e}, e.to) = Inputs(c, e.to)
  BY SetsWhenHeard
<1>3. e.to \in GatesOf(c)
  BY ErrandCases
<1>4. CASE ~Sets(c, ready, e)
  <2>1. Waits(c, C, T \ {e})
    BY <1>2, <1>4, WaitsOn
  <2> QED BY <1>1, <1>4, <2>1
<1>5. CASE Sets(c, ready, e)
  <2>1. Joins(c, C, T \ {e}, told, e.to)
    BY <1>1, <1>2, <1>5, SendsOn
  <2> QED BY <1>5, <2>1
<1> QED BY <1>4, <1>5

-----------------------------------------------------------------------------
(* What is in the gates. *)

\* The gates C have computed, from what is in their inputs; the others hold
\* what was loaded.
Settles(c, load, C, val) ==
  val = [g \in GatesOf(c) |->
           IF g \in C THEN Computed(c.op[g], Params(c, val, g), load[g]) ELSE load[g]]

\* A gate whose inputs have all computed has so too; C are no more than follows
\* from that.
Closed(c, B) == \A g \in GatesOf(c) : Inputs(c, g) \subseteq B => g \in B
Least(c, C) == \A B \in SUBSET GatesOf(c) : Closed(c, B) => C \subseteq B

\* What a gate computes on depends on its inputs only.
LEMMA ParamsAgree ==
  ASSUME NEW c, NEW g, NEW v, NEW w, \A f \in Inputs(c, g) : v[f] = w[f]
  PROVE  Params(c, v, g) = Params(c, w, g)
<1>1. \A k \in DOMAIN c.in[g] : c.in[g][k] \in Inputs(c, g)
  BY DEF Inputs, ToSet
<1> QED BY <1>1 DEF Params

\* What is in one gate.
LEMMA SettledAt ==
  ASSUME NEW c, NEW load, NEW C, NEW val, Settles(c, load, C, val), NEW g \in GatesOf(c)
  PROVE  /\ g \in C => val[g] = Computed(c.op[g], Params(c, val, g), load[g])
         /\ g \notin C => val[g] = load[g]
<1> DEFINE w == [h \in GatesOf(c) |->
           IF h \in C THEN Computed(c.op[h], Params(c, val, h), load[h]) ELSE load[h]]
<1>1. val = w
  BY DEF Settles
<1>2. w[g] = IF g \in C THEN Computed(c.op[g], Params(c, val, g), load[g]) ELSE load[g]
  OBVIOUS
<1> HIDE DEF w
<1> QED BY <1>1, <1>2

\* A gate computes after its inputs, and what they hold is not changed by it.
LEMMA SettlesOn ==
  ASSUME NEW c, NEW load, NEW C \in SUBSET GatesOf(c), NEW val, Settles(c, load, C, val),
         \A h \in C : Inputs(c, h) \subseteq C,
         NEW g \in GatesOf(c) \ C, Inputs(c, g) \subseteq C
  PROVE  Settles(c, load, C \cup {g},
                 [val EXCEPT ![g] = Computed(c.op[g], Params(c, val, g), val[g])])
<1> DEFINE x == Computed(c.op[g], Params(c, val, g), val[g])
           w == [val EXCEPT ![g] = x]
           D == C \cup {g}
           y(h) == IF h \in D THEN Computed(c.op[h], Params(c, w, h), load[h]) ELSE load[h]
<1>1. DOMAIN val = GatesOf(c)
  BY DEF Settles
<1>2. w = [h \in GatesOf(c) |-> IF h = g THEN x ELSE val[h]]
  <2> HIDE DEF x
  <2> QED BY <1>1
<1>3. \A h \in GatesOf(c) \ {g} : w[h] = val[h]
  BY <1>2
<1>4. ASSUME NEW h \in D PROVE Params(c, w, h) = Params(c, val, h)
  <2>1. \A f \in Inputs(c, h) : w[f] = val[f]
    BY <1>3
  <2> HIDE DEF w
  <2> QED BY <2>1, ParamsAgree
<1> HIDE DEF w
<1>5. ASSUME NEW h \in GatesOf(c) PROVE (IF h = g THEN x ELSE val[h]) = y(h)
  <2>1. CASE h = g
    <3>1. val[g] = load[g]
      BY SettledAt
    <3> QED BY <1>4, <2>1, <3>1
  <2>2. CASE h \in C
    <3>1. val[h] = Computed(c.op[h], Params(c, val, h), load[h])
      BY <2>2, SettledAt
    <3>2. Params(c, w, h) = Params(c, val, h)
      BY <1>4, <2>2
    <3>3. h # g /\ h \in D
      BY <2>2
    <3> HIDE DEF x
    <3> QED BY <3>1, <3>2, <3>3
  <2>3. CASE h \notin D
    <3>1. val[h] = load[h]
      BY <2>3, SettledAt
    <3> QED BY <2>3, <3>1
  <2> QED BY <2>1, <2>2, <2>3
<1>6. w = [h \in GatesOf(c) |-> y(h)]
  <2> HIDE DEF x, y
  <2> QED BY <1>2, <1>5
<1>7. Settles(c, load, D, w)
  <2> HIDE DEF D
  <2> QED BY <1>6 DEF Settles
<1> QED BY <1>7 DEF w

\* With the same inputs to compute from, there is one way for the gates to hold
\* what they computed.
LEMMA SettledOnce ==
  ASSUME NEW c, NEW load, NEW C \in SUBSET GatesOf(c), Closed(c, C), Least(c, C),
         NEW v, Settles(c, load, C, v), NEW w, Settles(c, load, C, w)
  PROVE  v = w
<1> DEFINE B == {g \in C : v[g] = w[g]}
<1>1. Closed(c, B)
  <2> SUFFICES ASSUME NEW g \in GatesOf(c), Inputs(c, g) \subseteq B PROVE g \in B
    BY DEF Closed
  <2>1. g \in C
    BY DEF Closed
  <2>2. \A f \in Inputs(c, g) : v[f] = w[f]
    OBVIOUS
  <2>3. Params(c, v, g) = Params(c, w, g)
    BY <2>2, ParamsAgree
  <2>4. v[g] = w[g]
    BY <2>1, <2>3, SettledAt
  <2> QED BY <2>1, <2>4
<1>2. C \subseteq B
  BY <1>1 DEF Least
<1>3. \A g \in GatesOf(c) : v[g] = w[g]
  BY <1>2, SettledAt
<1>4. v = [g \in GatesOf(c) |-> v[g]] /\ w = [g \in GatesOf(c) |-> w[g]]
  BY DEF Settles
<1> QED BY <1>3, <1>4

-----------------------------------------------------------------------------
(* A clock cycle. *)

\* What holds of it between any two calls, with the gates C that have computed.
Shape(c, load, s, C) ==
  /\ C \in SUBSET GatesOf(c)
  /\ s.todo \in Seq(Errands(c)) /\ Ordered(s.todo)
  /\ Waits(c, C, ToSet(s.todo))
  /\ Counts(c, C, ToSet(s.todo), s.ready)
  /\ Settles(c, load, C, s.val)
  /\ Least(c, C)

\* It begins with none of them, all of them called.
LEMMA StartShape ==
  ASSUME NEW c, IsCircuit(c), NEW order \in Seq(GatesOf(c)), IsInjective(order),
         ToSet(order) = GatesOf(c), NEW load, load = [g \in GatesOf(c) |-> load[g]]
  PROVE  Shape(c, load, Start(order, load), {})
<1> DEFINE s == Start(order, load)
           n == Len(order)
           T == ToSet(s.todo)
<1>1. n \in Nat /\ DOMAIN order = 1..n /\ order \in [1..n -> GatesOf(c)]
  BY LenProperties
<1>2. /\ s.todo = [k \in 1..n |-> Call(order[k])] /\ s.val = load
      /\ s.ready = [g \in DOMAIN load |-> 0]
  BY <1>1 DEF Start
<1> HIDE DEF n, s
<1>3. DOMAIN load = GatesOf(c)
  OBVIOUS
<1>4. s.todo \in Seq(Errands(c))
  <2>1. \A k \in 1..n : Call(order[k]) \in Errands(c)
    BY <1>1 DEF Errands
  <2> QED BY <1>1, <1>2, <2>1, IsASeq
<1>5. DOMAIN s.todo = 1..n /\ \A k \in 1..n : s.todo[k] = Call(order[k])
  BY <1>2
<1>6. Ordered(s.todo)
  <2>1. ASSUME NEW i \in 1..n, NEW j \in 1..n, Call(order[i]) = Call(order[j]) PROVE i = j
    <3>1. order[i] = order[j]
      BY <2>1, CallParts
    <3> QED BY <1>1, <3>1 DEF IsInjective
  <2>2. \A i \in 1..n : s.todo[i].do = "posedge"
    BY <1>5, CallParts
  <2> QED BY <1>5, <2>1, <2>2 DEF Ordered, IsInjective
<1>7. \A e : e \in T <=> \E g \in GatesOf(c) : e = Call(g)
  <2>1. T = {Call(order[k]) : k \in 1..n}
    BY <1>5 DEF ToSet
  <2>2. GatesOf(c) = {order[k] : k \in 1..n}
    BY <1>1 DEF ToSet
  <2> QED BY <2>1, <2>2
<1> HIDE DEF T
<1>8. \A g : Heard(c, {}, T, g) = {}
  BY DEF Heard
<1>9. Waits(c, {}, T)
  <2>1. \A g : Call(g).do = "posedge"
    BY CallParts
  <2>2. \A e \in T : e.do = "posedge"
    BY <1>7, <2>1
  <2> QED BY <1>7, <1>8, <2>2 DEF Waits
<1>10. Counts(c, {}, T, s.ready)
  <2>1. Cardinality({}) = 0
    BY FS_EmptySet
  <2>2. s.ready = [g \in GatesOf(c) |-> 0]
    BY <1>2, <1>3
  <2>3. s.ready \in [GatesOf(c) -> Nat] /\ \A g \in GatesOf(c) : s.ready[g] = 0
    BY <2>2
  <2>4. \A g \in GatesOf(c) : Cardinality(Heard(c, {}, T, g)) = 0
    BY <1>8, <2>1
  <2> QED BY <2>3, <2>4 DEF Counts
<1>11. Settles(c, load, {}, s.val)
  BY <1>2 DEF Settles
<1> QED BY <1>4, <1>6, <1>9, <1>10, <1>11 DEF Shape, Least, T, s

\* Each call leads on.
LEMMA PosedgeShape ==
  ASSUME NEW c, IsCircuit(c), NEW load, NEW s, NEW C, Shape(c, load, s, C), s.todo # <<>>
  PROVE  \E D : Shape(c, load, Posedge(c, s), D)
<1> DEFINE todo == s.todo
           T == ToSet(todo)
           e == Head(todo)
           g == e.to
           s1 == Posedge(c, s)
<1>1. /\ C \in SUBSET GatesOf(c) /\ todo \in Seq(Errands(c)) /\ Ordered(todo)
      /\ Waits(c, C, T) /\ Counts(c, C, T, s.ready) /\ Settles(c, load, C, s.val)
      /\ Least(c, C)
  BY DEF Shape
<1>2. /\ s1.ready = [s.ready EXCEPT ![g] = Told(s.ready, e)]
      /\ ~Sets(c, s.ready, e) => s1.val = s.val /\ s1.todo = Tail(todo)
      /\ Sets(c, s.ready, e) =>
           /\ s1.val = [s.val EXCEPT ![g] = Computed(c.op[g], Params(c, s.val, g), s.val[g])]
           /\ s1.todo = Sent(c, g) \o Tail(todo)
  BY DEF Posedge, ReadyWires, Told, Fires, Sets, Sent
<1> HIDE DEF s1
<1>3. todo # <<>>
  OBVIOUS
<1> HIDE DEF todo
<1>4. /\ e \in T /\ OnlyCalls(T, e) /\ Tail(todo) \in Seq(Errands(c)) /\ Ordered(Tail(todo))
      /\ ToSet(Tail(todo)) = T \ {e}
  BY <1>1, <1>3, TailOrdered
<1>5. T \in SUBSET Errands(c)
  <2>1. todo \in [1..Len(todo) -> Errands(c)]
    BY <1>1, LenProperties
  <2> QED BY <2>1 DEF ToSet
<1> HIDE DEF T, e
<1>6. IF Sets(c, s.ready, e) THEN Joins(c, C, T \ {e}, s1.ready, g)
      ELSE Waits(c, C, T \ {e}) /\ Counts(c, C, T \ {e}, s1.ready)
  <2>1. Waits(c, C, T) /\ Counts(c, C, T, s.ready) /\ C \in SUBSET GatesOf(c)
    BY <1>1
  <2>2. e \in T /\ OnlyCalls(T, e)
    BY <1>4
  <2>3. s1.ready = [s.ready EXCEPT ![e.to] = Told(s.ready, e)]
    BY <1>2
  <2> QED BY <2>1, <2>2, <2>3, <1>5, ErrandDone
<1>7. CASE ~Sets(c, s.ready, e)
  <2>1. Shape(c, load, s1, C)
    BY <1>1, <1>2, <1>4, <1>6, <1>7 DEF Shape
  <2> QED BY <2>1 DEF s1
<1>8. CASE Sets(c, s.ready, e)
  <2> DEFINE D == C \cup {g}
             sent == Sent(c, g)
  <2>1. /\ g \in GatesOf(c) /\ g \notin C /\ Inputs(c, g) \subseteq C
        /\ ToSet(sent) \cap (T \ {e}) = {}
        /\ Waits(c, D, ToSet(sent) \cup (T \ {e}))
        /\ Counts(c, D, ToSet(sent) \cup (T \ {e}), s1.ready)
    BY <1>6, <1>8 DEF Joins
  <2> HIDE DEF g
  <2>2. /\ sent \in Seq(Errands(c)) /\ IsInjective(sent)
        /\ \A d \in ToSet(sent) :
             d = Return(g) \/ \E h \in GatesOf(c) : d = Announce(g, h)
    BY <2>1, SentCalls
  <2>3. s1.todo = sent \o Tail(todo)
    BY <1>2, <1>8 DEF g
  <2> HIDE DEF sent
  <2>4. NoCalls(sent)
    BY <2>2, CallParts DEF NoCalls
  <2>5. /\ s1.todo \in Seq(Errands(c)) /\ Ordered(s1.todo)
        /\ ToSet(s1.todo) = ToSet(sent) \cup (T \ {e})
    <3>1. /\ Tail(todo) \in Seq(Errands(c)) /\ Ordered(Tail(todo))
          /\ ToSet(sent) \cap ToSet(Tail(todo)) = {} /\ ToSet(Tail(todo)) = T \ {e}
      BY <1>4, <2>1
    <3> DEFINE rest == Tail(todo)
    <3> HIDE DEF D, rest
    <3>2. /\ sent \o rest \in Seq(Errands(c)) /\ Ordered(sent \o rest)
          /\ ToSet(sent \o rest) = ToSet(sent) \cup ToSet(rest)
      <4>1. sent \in Seq(Errands(c)) /\ IsInjective(sent)
        BY <2>2
      <4>2. rest \in Seq(Errands(c)) /\ Ordered(rest) /\ ToSet(sent) \cap ToSet(rest) = {}
        BY <3>1 DEF rest
      <4> QED BY <2>4, <4>1, <4>2, CallsOrdered
    <3> QED BY <2>3, <3>1, <3>2 DEF rest
  <2>6. Settles(c, load, D, s1.val)
    <3>1. \A h \in C : Inputs(c, h) \subseteq C
      BY <1>1 DEF Waits, Heard
    <3>2. g \in GatesOf(c) \ C /\ Inputs(c, g) \subseteq C
      BY <2>1
    <3>3. C \in SUBSET GatesOf(c) /\ Settles(c, load, C, s.val)
      BY <1>1
    <3>4. Settles(c, load, D,
                  [s.val EXCEPT ![g] = Computed(c.op[g], Params(c, s.val, g), s.val[g])])
      BY <3>1, <3>2, <3>3, SettlesOn
    <3> QED BY <1>2, <1>8, <3>4 DEF g
  <2>7. Least(c, D)
    BY <1>1, <2>1 DEF Least, Closed
  <2>8. D \in SUBSET GatesOf(c)
    BY <1>1, <2>1
  <2>9. Shape(c, load, s1, D)
    <3> HIDE DEF D
    <3> QED BY <2>1, <2>5, <2>6, <2>7, <2>8 DEF Shape
  <2> QED BY <2>9 DEF s1
<1> QED BY <1>7, <1>8

\* When nothing is left to do, the gates that have computed are closed, and they
\* are those that ready_wires tells.
LEMMA EndShape ==
  ASSUME NEW c, IsCircuit(c), NEW load, NEW s, NEW C, Shape(c, load, s, C), s.todo = <<>>
  PROVE  /\ Closed(c, C)
         /\ \A g \in GatesOf(c) : Through(c, s, g) <=> g \in C
<1> DEFINE T == ToSet(s.todo)
<1>1. T = {}
  BY DEF ToSet
<1>2. C \in SUBSET GatesOf(c) /\ Waits(c, C, T) /\ Counts(c, C, T, s.ready)
  BY DEF Shape
<1> HIDE DEF T
<1>3. \A g \in GatesOf(c) : Heard(c, C, T, g) = Inputs(c, g) \cap C
  BY <1>1 DEF Heard
<1>4. \A g \in GatesOf(c) : Inputs(c, g) \subseteq C <=> g \in C
  BY <1>1, <1>2, <1>3 DEF Waits
<1>5. ASSUME NEW g \in GatesOf(c) PROVE Through(c, s, g) <=> g \in C
  <2>1. s.ready[g] = Cardinality(Heard(c, C, T, g)) + (IF g \in C THEN 1 ELSE 0)
    BY <1>1, <1>2 DEF Counts
  <2>2. /\ Cardinality(Heard(c, C, T, g)) \in Nat /\ Len(c.in[g]) \in Nat
        /\ Cardinality(Heard(c, C, T, g)) <= Len(c.in[g])
        /\ Cardinality(Heard(c, C, T, g)) = Len(c.in[g]) <=> Heard(c, C, T, g) = Inputs(c, g)
    BY HeardSized, WiredIn
  <2>3. Heard(c, C, T, g) = Inputs(c, g) <=> g \in C
    <3>1. Heard(c, C, T, g) = Inputs(c, g) \cap C /\ (Inputs(c, g) \subseteq C <=> g \in C)
      BY <1>3, <1>4
    <3> QED BY <3>1
  <2> QED BY <2>1, <2>2, <2>3 DEF Through
<1> QED BY <1>4, <1>5 DEF Closed

-----------------------------------------------------------------------------
(* What a cycle is to come to. *)

Rounds(c, load, f, n) ==
  f = [k \in 0..n |-> IF k = 0 THEN [through |-> {}, val |-> load] ELSE Round(c, load, f[k - 1])]

\* The rounds exist.
LEMMA RoundsExist ==
  ASSUME NEW c, NEW load, NEW n \in Nat
  PROVE  \E f : Rounds(c, load, f, n)
<1> DEFINE Bad == {k \in 0..n : ~\E f : Rounds(c, load, f, k)}
<1> SUFFICES Bad = {}
  <2>1. n \in 0..n
    OBVIOUS
  <2> QED BY <2>1, Zenon
<1> SUFFICES ASSUME Bad # {} PROVE FALSE
  OBVIOUS
<1>1. PICK k \in Bad : \A j \in Bad : k <= j
  <2>1. Bad \in SUBSET (0..n) /\ Bad # {}
    OBVIOUS
  <2> HIDE DEF Bad
  <2> QED BY <2>1, LeastUpTo
<1>2. k \in 0..n /\ ~\E f : Rounds(c, load, f, k)
  OBVIOUS
<1>3. k # 0
  <2> DEFINE f == [i \in 0..0 |-> [through |-> {}, val |-> load]]
  <2>1. f = [i \in 0..0 |-> IF i = 0 THEN [through |-> {}, val |-> load]
                           ELSE Round(c, load, f[i - 1])]
    OBVIOUS
  <2>2. Rounds(c, load, f, 0)
    <3> HIDE DEF f
    <3> QED BY <2>1 DEF Rounds
  <2> QED BY <1>2, <2>2
<1>4. k - 1 \in 0..n /\ k - 1 \notin Bad
  BY <1>1, <1>2, <1>3
<1>5. PICK f : Rounds(c, load, f, k - 1)
  BY <1>4
<1> DEFINE h == [i \in 0..k |-> IF i = 0 THEN [through |-> {}, val |-> load]
                               ELSE Round(c, load, f[i - 1])]
<1>6. \A i \in 0..(k - 1) : h[i] = f[i]
  <2>1. f = [i \in 0..(k - 1) |-> IF i = 0 THEN [through |-> {}, val |-> load]
                                 ELSE Round(c, load, f[i - 1])]
    BY <1>5 DEF Rounds
  <2>2. \A i \in 0..(k - 1) : f[i] = IF i = 0 THEN [through |-> {}, val |-> load]
                                    ELSE Round(c, load, f[i - 1])
    BY <2>1
  <2>3. \A i \in 0..(k - 1) : i \in 0..k
    BY <1>2
  <2> QED BY <2>2, <2>3
<1>7. h = [i \in 0..k |-> IF i = 0 THEN [through |-> {}, val |-> load]
                         ELSE Round(c, load, h[i - 1])]
  <2>1. \A i \in 0..k : i # 0 => i - 1 \in 0..(k - 1)
    BY <1>2
  <2>2. \A i \in 0..k : i # 0 => h[i - 1] = f[i - 1]
    BY <1>6, <2>1
  <2> QED BY <2>2
<1>8. Rounds(c, load, h, k)
  <2> HIDE DEF h
  <2> QED BY <1>7 DEF Rounds
<1> QED BY <1>2, <1>8

\* Settled is what the last one leaves in the gates.
LEMMA SettledIsLast ==
  ASSUME NEW c, NEW load, Len(c.gates) \in Nat
  PROVE  \E f : Rounds(c, load, f, Len(c.gates)) /\ Settled(c, load) = f[Len(c.gates)].val
<1> DEFINE n == Len(c.gates)
           round[k \in 0..n] ==
             IF k = 0 THEN [through |-> {}, val |-> load] ELSE Round(c, load, round[k - 1])
<1>1. PICK f : Rounds(c, load, f, n)
  BY RoundsExist
<1>2. f = [k \in 0..n |-> IF k = 0 THEN [through |-> {}, val |-> load]
                         ELSE Round(c, load, f[k - 1])]
  BY <1>1 DEF Rounds
<1>3. round = [k \in 0..n |-> IF k = 0 THEN [through |-> {}, val |-> load]
                             ELSE Round(c, load, round[k - 1])]
  BY <1>2
<1>4. Settled(c, load) = round[n].val
  BY DEF Settled
<1> HIDE DEF round
<1>5. Rounds(c, load, round, n)
  BY <1>3 DEF Rounds
<1> QED BY <1>4, <1>5

\* One round.
LEMMA RoundSettles ==
  ASSUME NEW c, NEW load, load = [g \in GatesOf(c) |-> load[g]],
         NEW r, NEW C, C = r.through, C \in SUBSET GatesOf(c),
         \A g \in C : Inputs(c, g) \subseteq C, Settles(c, load, C, r.val), Least(c, C),
         NEW s, s = Round(c, load, r), NEW D, D = s.through
  PROVE  /\ D \in SUBSET GatesOf(c) /\ C \subseteq D
         /\ \A g \in GatesOf(c) : Inputs(c, g) \subseteq C <=> g \in D
         /\ \A g \in D : Inputs(c, g) \subseteq D
         /\ Settles(c, load, D, s.val) /\ Least(c, D)
<1> DEFINE v == r.val
           w == s.val
<1>1. DOMAIN load = GatesOf(c)
  OBVIOUS
<1>2. D = {g \in GatesOf(c) : Inputs(c, g) \subseteq C}
  BY <1>1 DEF Round, Inputs
<1>3. w = [g \in GatesOf(c) |->
             IF g \in D THEN Computed(c.op[g], Params(c, v, g), load[g]) ELSE load[g]]
  BY <1>1, <1>2 DEF Round, Inputs
<1>4. C \subseteq D
  BY <1>2
<1> HIDE DEF v, w
<1>5. ASSUME NEW g \in C PROVE w[g] = v[g]
  <2>1. w[g] = Computed(c.op[g], Params(c, v, g), load[g])
    BY <1>3, <1>4
  <2>2. Settles(c, load, C, v) /\ g \in GatesOf(c)
    BY DEF v
  <2>3. v[g] = Computed(c.op[g], Params(c, v, g), load[g])
    BY <2>2, SettledAt
  <2> QED BY <2>1, <2>3
<1>6. ASSUME NEW g \in D PROVE Params(c, v, g) = Params(c, w, g)
  <2>1. \A f \in Inputs(c, g) : v[f] = w[f]
    BY <1>2, <1>5
  <2> QED BY <2>1, ParamsAgree
<1>7. Settles(c, load, D, w)
  BY <1>3, <1>6 DEF Settles
<1>8. Least(c, D)
  BY <1>2 DEF Least, Closed
<1> QED BY <1>2, <1>4, <1>7, <1>8 DEF w

\* After as many rounds as there are gates no other one can compute.
LEMMA SettledSettles ==
  ASSUME NEW c, IsCircuit(c), NEW load, load = [g \in GatesOf(c) |-> load[g]]
  PROVE  \E C \in SUBSET GatesOf(c) :
           Closed(c, C) /\ Least(c, C) /\ Settles(c, load, C, Settled(c, load))
<1> DEFINE n == Len(c.gates)
<1>1. /\ n \in Nat /\ IsFiniteSet(GatesOf(c)) /\ Cardinality(GatesOf(c)) = n
  <2> DEFINE gates == c.gates
  <2>1. gates \in Seq(GatesOf(c)) /\ IsInjective(gates)
    BY DEF IsCircuit, GatesOf
  <2> HIDE DEF gates
  <2>2. n \in Nat /\ DOMAIN gates = 1..n
    BY <2>1, LenProperties DEF gates
  <2>3. GatesOf(c) = MembersAt(gates, 1..n)
    BY <2>2 DEF gates, GatesOf, ToSet, MembersAt
  <2>4. IsFiniteSet(1..n) /\ Cardinality(1..n) = n
    <3>1. n \in Nat
      BY <2>2
    <3> HIDE DEF n
    <3> QED BY <3>1, FS_Interval
  <2>5. \A i, j \in 1..n : gates[i] = gates[j] => i = j
    BY <2>1, <2>2 DEF IsInjective
  <2> HIDE DEF n
  <2> QED BY <2>2, <2>3, <2>4, <2>5, ImageCardinality
<1>2. PICK f : Rounds(c, load, f, n) /\ Settled(c, load) = f[n].val
  BY <1>1, SettledIsLast
<1> HIDE DEF n
<1> DEFINE C(k) == f[k].through
           Good(k) == /\ C(k) \in SUBSET GatesOf(c)
                      /\ \A g \in C(k) : Inputs(c, g) \subseteq C(k)
                      /\ Settles(c, load, C(k), f[k].val) /\ Least(c, C(k))
                      /\ Closed(c, C(k)) \/ Cardinality(C(k)) >= k
<1>3. \A k \in 0..n : f[k] = IF k = 0 THEN [through |-> {}, val |-> load]
                            ELSE Round(c, load, f[k - 1])
  <2>1. f = [k \in 0..n |-> IF k = 0 THEN [through |-> {}, val |-> load]
                           ELSE Round(c, load, f[k - 1])]
    BY <1>2 DEF Rounds
  <2> QED BY <2>1
<1>4. Good(0)
  <2>1. f[0] = [through |-> {}, val |-> load]
    BY <1>1, <1>3
  <2>2. C(0) = {} /\ f[0].val = load
    BY <2>1
  <2>3. Settles(c, load, {}, load) /\ Least(c, {})
    BY DEF Settles, Least
  <2> HIDE DEF C
  <2>4. Cardinality({}) = 0
    BY FS_EmptySet
  <2> QED BY <2>2, <2>3, <2>4
<1>5. ASSUME NEW k \in 1..n, Good(k - 1) PROVE Good(k)
  <2>1. f[k] = Round(c, load, f[k - 1]) /\ k - 1 \in Nat
    <3>1. k \in 0..n /\ k # 0 /\ k - 1 \in Nat
      BY <1>1
    <3> QED BY <1>3, <3>1
  <2>2. /\ C(k) \in SUBSET GatesOf(c) /\ C(k - 1) \subseteq C(k)
        /\ \A g \in GatesOf(c) : Inputs(c, g) \subseteq C(k - 1) <=> g \in C(k)
        /\ \A g \in C(k) : Inputs(c, g) \subseteq C(k)
        /\ Settles(c, load, C(k), f[k].val) /\ Least(c, C(k))
    BY <1>5, <2>1, RoundSettles
  <2> HIDE DEF C
  <2>3. Closed(c, C(k)) \/ Cardinality(C(k)) >= k
    <3>1. CASE C(k) = C(k - 1)
      BY <2>2, <3>1 DEF Closed
    <3>2. CASE C(k) # C(k - 1)
      <4>1. ~Closed(c, C(k - 1))
        BY <2>2, <3>2 DEF Closed
      <4>2. Cardinality(C(k - 1)) >= k - 1
        BY <1>5, <4>1
      <4>3. IsFiniteSet(C(k)) /\ IsFiniteSet(C(k - 1))
        BY <1>1, <2>2, FS_Subset
      <4>4. /\ Cardinality(C(k)) \in Nat /\ Cardinality(C(k - 1)) \in Nat
            /\ Cardinality(C(k - 1)) <= Cardinality(C(k))
            /\ Cardinality(C(k - 1)) # Cardinality(C(k))
        BY <2>2, <3>2, <4>3, FS_Subset, FS_CardinalityType
      <4> QED BY <2>1, <4>2, <4>4
    <3> QED BY <3>1, <3>2
  <2> QED BY <2>2, <2>3
<1>6. Good(n)
  <2> DEFINE Bad == {k \in 0..n : ~Good(k)}
  <2> HIDE DEF Good
  <2> SUFFICES Bad = {}
    <3>1. n \in 0..n
      BY <1>1
    <3> QED BY <3>1, Zenon
  <2> SUFFICES ASSUME Bad # {} PROVE FALSE
    OBVIOUS
  <2>1. PICK k \in Bad : \A j \in Bad : k <= j
    <3>1. Bad \in SUBSET (0..n) /\ Bad # {}
      OBVIOUS
    <3> HIDE DEF Bad
    <3> QED BY <1>1, <3>1, LeastUpTo
  <2>2. k \in 0..n /\ ~Good(k)
    OBVIOUS
  <2>3. k \in 1..n
    BY <1>1, <1>4, <2>2
  <2>4. k - 1 \in 0..n /\ k - 1 \notin Bad
    BY <1>1, <2>1, <2>3
  <2> QED BY <1>5, <2>2, <2>3, <2>4
<1>7. Closed(c, C(n))
  <2>1. CASE Cardinality(C(n)) >= n
    <3>1. C(n) \subseteq GatesOf(c)
      BY <1>6
    <3> HIDE DEF C
    <3>2. Cardinality(C(n)) = n
      BY <1>1, <2>1, <3>1, FS_Subset, FS_CardinalityType
    <3>3. C(n) = GatesOf(c)
      BY <1>1, <3>1, <3>2, FS_Subset
    <3> QED BY <3>3 DEF Closed
  <2> QED BY <1>6, <2>1
<1> QED BY <1>2, <1>6, <1>7

\* When a cycle ends, that is what is in the gates.
LEMMA EndSettled ==
  ASSUME NEW c, IsCircuit(c), NEW load, load = [g \in GatesOf(c) |-> load[g]],
         NEW s, NEW C, Shape(c, load, s, C), s.todo = <<>>
  PROVE  s.val = Settled(c, load)
<1>1. C \in SUBSET GatesOf(c) /\ Least(c, C) /\ Settles(c, load, C, s.val)
  BY DEF Shape
<1>2. Closed(c, C)
  BY EndShape
<1>3. PICK D \in SUBSET GatesOf(c) :
        Closed(c, D) /\ Least(c, D) /\ Settles(c, load, D, Settled(c, load))
  BY SettledSettles
<1>4. C = D
  BY <1>1, <1>2, <1>3 DEF Least
<1> QED BY <1>1, <1>2, <1>3, <1>4, SettledOnce

-----------------------------------------------------------------------------
(* Registers. *)

Interval == {i \in [lower : Int, upper : Int] : i.lower <= i.upper}

\* UNDEF, or a state with n registers.
Stacked(n) ==
  {v \in [valid : BOOLEAN, active : BOOLEAN, stack : Seq(Interval)] :
     v.valid => Len(v.stack) = n}

\* The stack of such a state.
LEMMA StackedParts ==
  ASSUME NEW n, NEW v \in Stacked(n)
  PROVE  v.stack \in Seq(Interval) /\ (v.valid => Len(v.stack) = n)
BY DEF Stacked

\* A state with a stack.
LEMMA ValidStacked ==
  ASSUME NEW n, NEW stack \in Seq(Interval), Len(stack) = n
  PROVE  Valid(stack) \in Stacked(n)
BY DEF Valid, Stacked

\* UNDEF fits everywhere.
LEMMA UndefStacked ==
  ASSUME NEW n
  PROVE  Undef \in Stacked(n)
<1>1. <<>> \in Seq(Interval)
  BY EmptySeq
<1> QED BY <1>1 DEF Undef, Stacked

\* The bounds of a register do not cross.
LEMMA Intervals ==
  /\ Neutral \in Interval /\ Exactly(1) \in Interval
  /\ \A agg, a, b : a \in Interval /\ b \in Interval => Aggregated(agg, a, b) \in Interval
  /\ \A a, b : a \in Interval /\ b \in Interval => MergeOp(a, b) \in Interval
<1>1. Neutral \in Interval /\ Exactly(1) \in Interval
  BY DEF Neutral, Exactly, Interval
<1>2. ASSUME NEW agg, NEW a \in Interval, NEW b \in Interval
      PROVE  Aggregated(agg, a, b) \in Interval
  BY DEF Aggregated, Interval, Largest
<1>3. ASSUME NEW a \in Interval, NEW b \in Interval PROVE MergeOp(a, b) \in Interval
  BY DEF MergeOp, Interval, Largest, Smallest
<1> QED BY <1>1, <1>2, <1>3

\* What the operators do to the stack.
LEMMA PushStacked ==
  ASSUME NEW n \in Nat, NEW s \in Stacked(n)
  PROVE  PushStackOp(s) \in Stacked(n + 1)
<1>1. CASE ~s.valid
  BY <1>1, UndefStacked DEF PushStackOp
<1>2. CASE s.valid
  <2>1. s.stack \in Seq(Interval) /\ Len(s.stack) = n
    BY <1>2, StackedParts
  <2>2. Append(s.stack, Neutral) \in Seq(Interval) /\ Len(Append(s.stack, Neutral)) = n + 1
    BY <2>1, Intervals, AppendProperties
  <2> QED BY <1>2, <2>2, ValidStacked DEF PushStackOp
<1> QED BY <1>1, <1>2

\* CondOp pushes one register.
LEMMA CondStacked ==
  ASSUME NEW n \in Nat, NEW s \in Stacked(n)
  PROVE  CondOp(s) \in Stacked(n + 1)
<1>1. CASE ~s.valid
  BY <1>1, UndefStacked DEF CondOp
<1>2. CASE s.valid
  <2>1. s.stack \in Seq(Interval) /\ Len(s.stack) = n
    BY <1>2, StackedParts
  <2>2. Append(s.stack, Exactly(1)) \in Seq(Interval) /\ Len(Append(s.stack, Exactly(1))) = n + 1
    BY <2>1, Intervals, AppendProperties
  <2> QED BY <1>2, <2>2, ValidStacked DEF CondOp
<1> QED BY <1>1, <1>2

\* PopStackOp leaves one register less, if there are two.
LEMMA PopStacked ==
  ASSUME NEW n \in Nat, n >= 2, NEW s \in Stacked(n), NEW agg
  PROVE  PopStackOp(agg, s) \in Stacked(n - 1)
<1>1. CASE ~s.valid
  BY <1>1, UndefStacked DEF PopStackOp
<1>2. CASE s.valid
  <2> DEFINE stack == s.stack
             below == SubSeq(stack, 1, n - 2)
             x == Aggregated(agg, stack[n], stack[n - 1])
  <2>1. stack \in Seq(Interval) /\ Len(stack) = n
    BY <1>2, StackedParts
  <2>2. PopStackOp(agg, s) = Valid(Append(below, x))
    BY <1>2, <2>1 DEF PopStackOp
  <2> HIDE DEF stack
  <2>3. \A i \in 1..n : stack[i] \in Interval
    BY <2>1, ElementOfSeq
  <2>4. n - 2 \in Int /\ 1 \in Int /\ \A i \in 1..(n - 2) : stack[i] \in Interval
    BY <2>3
  <2>5. below \in Seq(Interval) /\ Len(below) = n - 2
    <3>1. /\ below \in Seq(Interval)
          /\ Len(below) = IF 1 <= n - 2 THEN (n - 2) - 1 + 1 ELSE 0
      BY <2>4, SubSeqProperties
    <3> QED BY <3>1
  <2>6. stack[n] \in Interval /\ stack[n - 1] \in Interval
    BY <2>3
  <2>7. x \in Interval
    BY <2>6, Intervals
  <2> HIDE DEF below, x
  <2>8. Append(below, x) \in Seq(Interval) /\ Len(Append(below, x)) = n - 1
    BY <2>5, <2>7, AppendProperties
  <2> QED BY <2>2, <2>8, ValidStacked
<1> QED BY <1>1, <1>2

\* TransitionOp merges two stacks of one size.
LEMMA MergedStacked ==
  ASSUME NEW n \in Nat, NEW a \in Stacked(n), NEW b \in Stacked(n)
  PROVE  TransitionOp(a, b) \in Stacked(n)
<1>1. CASE ~a.valid \/ ~b.valid
  BY <1>1 DEF TransitionOp
<1>2. CASE a.valid /\ b.valid
  <2> DEFINE stack == [i \in 1..n |-> MergeOp(a.stack[i], b.stack[i])]
  <2>1. /\ a.stack \in Seq(Interval) /\ Len(a.stack) = n /\ DOMAIN a.stack = 1..n
        /\ b.stack \in Seq(Interval) /\ Len(b.stack) = n
    BY <1>2, StackedParts, LenProperties
  <2>2. \A i \in 1..n : a.stack[i] \in Interval /\ b.stack[i] \in Interval
    BY <2>1, ElementOfSeq
  <2>3. \A i \in 1..n : MergeOp(a.stack[i], b.stack[i]) \in Interval
    BY <2>2, Intervals
  <2>4. stack \in Seq(Interval) /\ Len(stack) = n
    BY <2>3, IsASeq
  <2>5. TransitionOp(a, b) = Valid(stack)
    BY <1>2, <2>1 DEF TransitionOp
  <2> HIDE DEF stack
  <2> QED BY <2>4, <2>5, ValidStacked
<1> QED BY <1>1, <1>2

\* A gate finds the registers it expects, and leaves those that are expected of it.
LEMMA ComputedStacked ==
  ASSUME NEW c, IsCircuit(c), NEW reg \in [GatesOf(c) -> Nat], RegistersFit(c, reg),
         NEW g \in GatesOf(c), NEW val,
         \A f \in Inputs(c, g) : val[f] \in Stacked(After(c, reg, f)),
         NEW current \in Stacked(reg[g])
  PROVE  Computed(c.op[g], Params(c, val, g), current) \in Stacked(After(c, reg, g))
<1> DEFINE op == c.op[g]
           in == c.in[g]
           param == Params(c, val, g)
           first == IF param = <<>> THEN current ELSE param[1]
           before == Before(c, reg, g)
           after == After(c, reg, g)
<1>1. /\ in \in Seq(GatesOf(c)) /\ Inputs(c, g) \subseteq GatesOf(c)
      /\ Len(in) \in Nat /\ DOMAIN in = 1..Len(in)
  BY WiredIn
<1>2. /\ op.name \in OpName
      /\ op.name \in {"PredicateOp", "TransitionOp"} => Len(in) = 2
  BY DEF IsCircuit, GatesOf
<1>3. \A f \in GatesOf(c) : After(c, reg, f) \in Nat
  BY DEF After
<1>4. op.name # "ConstOp" =>
        /\ after = before + Change(op)
        /\ op.name = "PopStackOp" => before >= 2
        /\ op.name = "TransitionOp" => After(c, reg, in[2]) = after
  BY DEF RegistersFit, GatesOf
<1> HIDE DEF op
<1>5. \A k \in 1..Len(in) : in[k] \in Inputs(c, g)
  BY <1>1 DEF Inputs, ToSet
<1>6. /\ param = [k \in 1..Len(in) |-> val[in[k]]]
      /\ \A k \in 1..Len(in) : param[k] \in Stacked(After(c, reg, in[k]))
  <2>1. param = [k \in 1..Len(in) |-> val[in[k]]]
    BY <1>1 DEF Params
  <2> QED BY <1>5, <2>1
<1>7. in # <<>> => 1 \in 1..Len(in)
  BY <1>1, EmptySeq
<1> HIDE DEF param
<1>8. before \in Nat /\ first \in Stacked(before)
  <2>1. CASE in = <<>>
    <3>1. param = <<>>
      BY <1>6, <2>1
    <3>2. before = reg[g]
      BY <2>1 DEF Before
    <3> QED BY <3>1, <3>2
  <2>2. CASE in # <<>>
    <3>1. before = After(c, reg, in[1]) /\ in[1] \in GatesOf(c)
      BY <1>1, <1>5, <1>7, <2>2 DEF Before
    <3>2. param # <<>>
      BY <1>6, <1>7, <2>2
    <3> QED BY <1>3, <1>6, <1>7, <2>2, <3>1, <3>2
  <2> QED BY <2>1, <2>2
<1>9. after \in Nat
  BY <1>3
<1>10. after = reg[g] + (IF op.name = "PushStackOp" THEN 1 ELSE 0)
  BY DEF After, op
<1> HIDE DEF in, first, before, after
<1>11. CASE op.name = "ConstOp"
  <2>1. Computed(op, param, current) = current
    BY <1>11 DEF Computed
  <2> QED BY <1>10, <1>11, <2>1 DEF op, param, after
<1>12. CASE op.name = "CopyOp"
  <2>1. Computed(op, param, current) = first
    BY <1>12 DEF Computed, first
  <2>2. after = before
    BY <1>4, <1>8, <1>12 DEF Change
  <2> QED BY <1>8, <2>1, <2>2 DEF op, param, after
<1>13. CASE op.name = "PushStackOp"
  <2>1. Computed(op, param, current) = PushStackOp(first)
    BY <1>13 DEF Computed, first
  <2>2. after = before + 1
    BY <1>4, <1>8, <1>13 DEF Change
  <2> QED BY <1>8, <2>1, <2>2, PushStacked DEF op, param, after
<1>14. CASE op.name = "PopStackOp"
  <2>1. Computed(op, param, current) = PopStackOp(op.agg, first)
    BY <1>14 DEF Computed, first
  <2>2. after = before - 1 /\ before >= 2
    BY <1>4, <1>8, <1>14 DEF Change
  <2> QED BY <1>8, <2>1, <2>2, PopStacked DEF op, param, after
<1>15. CASE op.name = "CondOp"
  <2>1. Computed(op, param, current) = CondOp(first)
    BY <1>15 DEF Computed, first
  <2>2. after = before + 1
    BY <1>4, <1>8, <1>15 DEF Change
  <2> QED BY <1>8, <2>1, <2>2, CondStacked DEF op, param, after
<1>16. ASSUME op.name \in {"PredicateOp", "TransitionOp"}
       PROVE  /\ param[1] \in Stacked(after)
              /\ op.name = "TransitionOp" => param[2] \in Stacked(after)
  <2>1. Len(in) = 2 /\ 1 \in 1..Len(in) /\ 2 \in 1..Len(in)
    <3>1. Len(in) = 2
      BY <1>2, <1>16
    <3> QED BY <3>1
  <2>2. before = After(c, reg, in[1])
    BY <2>1, EmptySeq DEF Before, in, before
  <2>3. after = before
    BY <1>4, <1>8, <1>16 DEF Change
  <2> QED BY <1>4, <1>6, <1>16, <2>1, <2>2, <2>3
<1>17. CASE op.name = "PredicateOp"
  <2>1. Computed(op, param, current) = PredicateOp(param[1], param[2])
    BY <1>17 DEF Computed
  <2> QED BY <1>16, <1>17, <2>1, UndefStacked DEF PredicateOp, op, param, after
<1>18. CASE op.name = "TransitionOp"
  <2>1. Computed(op, param, current) = TransitionOp(param[1], param[2])
    BY <1>18 DEF Computed
  <2>2. param[1] \in Stacked(after) /\ param[2] \in Stacked(after)
    BY <1>16, <1>18
  <2> HIDE DEF op
  <2> QED BY <1>9, <2>1, <2>2, MergedStacked DEF op, param, after
<1> QED BY <1>2, <1>11, <1>12, <1>13, <1>14, <1>15, <1>17, <1>18 DEF OpName

\* So at the end of a cycle, if what is loaded has the registers of its gates.
LEMMA EndStacked ==
  ASSUME NEW c, IsCircuit(c), NEW reg \in [GatesOf(c) -> Nat], RegistersFit(c, reg),
         NEW load, \A g \in GatesOf(c) : load[g] \in Stacked(reg[g]),
         NEW s, NEW C, Shape(c, load, s, C), s.todo = <<>>,
         NEW g \in GatesOf(c), c.op[g].name # "PushStackOp"
  PROVE  s.val[g] \in Stacked(reg[g])
<1> DEFINE B == {h \in C : s.val[h] \in Stacked(After(c, reg, h))}
<1>1. C \in SUBSET GatesOf(c) /\ Least(c, C) /\ Settles(c, load, C, s.val)
  BY DEF Shape
<1>2. Closed(c, C)
  BY EndShape
<1>3. Closed(c, B)
  <2> SUFFICES ASSUME NEW h \in GatesOf(c), Inputs(c, h) \subseteq B PROVE h \in B
    BY DEF Closed
  <2>1. h \in C
    BY <1>2 DEF Closed
  <2>2. s.val[h] = Computed(c.op[h], Params(c, s.val, h), load[h])
    BY <1>1, <2>1, SettledAt
  <2>3. \A f \in Inputs(c, h) : s.val[f] \in Stacked(After(c, reg, f))
    OBVIOUS
  <2>4. Computed(c.op[h], Params(c, s.val, h), load[h]) \in Stacked(After(c, reg, h))
    BY <2>3, ComputedStacked
  <2> QED BY <2>1, <2>2, <2>4
<1>4. C \subseteq B
  BY <1>1, <1>3 DEF Least
<1>5. CASE g \in C
  <2>1. After(c, reg, g) = reg[g]
    BY DEF After
  <2> QED BY <1>4, <1>5, <2>1
<1>6. CASE g \notin C
  BY <1>1, <1>6, SettledAt
<1> QED BY <1>5, <1>6

-----------------------------------------------------------------------------
(* The run over a stream. *)

Ticks == pc \in {"epsilon tick", "char tick"}

TypeInv == TypeOK /\ (pc \in {"char", "char tick"} => tag <= Len(M.tags))

\* The states between the circuits have the registers of their places,
PortInv == \A g \in States(M) : states[g] \in Stacked(registers[program][g])

\* and a cycle is somewhere on its way.
CycleInv == Ticks => \E C : Shape(Running, Load, cycle, C)

Inv == TypeInv /\ PortInv /\ CycleInv

\* What is known of a machine.
LEMMA MachineParts ==
  ASSUME NEW m, NEW reg, IsMachine(m, reg)
  PROVE  /\ m.tags # <<>> /\ Len(m.tags) \in Nat \ {0}
         /\ m.epsilon \in Circuits(m)
         /\ \A t \in 1..Len(m.tags) : m.char[m.tags[t]] \in Circuits(m)
         /\ reg \in [Gates(m) -> Nat]
         /\ m.fin \in States(m) /\ reg[m.fin] = 1 /\ m.init \in States(m) /\ reg[m.init] = 0
<1> DEFINE tags == m.tags
<1>1. tags \in Seq(ToSet(tags)) /\ tags # <<>>
  BY DEF IsMachine
<1> HIDE DEF tags
<1>2. Len(tags) \in Nat \ {0} /\ \A t \in 1..Len(tags) : tags[t] \in ToSet(tags)
  BY <1>1, EmptySeq, LenProperties, ElementOfSeq
<1>3. \A t \in 1..Len(tags) : m.char[tags[t]] \in Circuits(m)
  BY <1>2 DEF Circuits, tags
<1> QED BY <1>1, <1>2, <1>3 DEF tags, IsMachine, Circuits

\* What is asked of each circuit.
LEMMA CircuitParts ==
  ASSUME NEW m, NEW reg, IsMachine(m, reg), NEW c \in Circuits(m)
  PROVE  /\ IsCircuit(c) /\ GatesOf(c) = Gates(m) /\ RegistersFit(c, reg)
         /\ \A g \in States(m) : g \in Gates(m) /\ c.op[g].name # "PushStackOp"
         /\ \A o \in Orders(c) : o \in Seq(Gates(m)) /\ IsInjective(o) /\ ToSet(o) = Gates(m)
BY DEF IsMachine, GatesOf, States

\* What is loaded has the registers of its gates, if the states have theirs.
LEMMA LoadedStacked ==
  ASSUME NEW m, NEW reg, IsMachine(m, reg),
         NEW port, \A g \in States(m) : port[g] \in Stacked(reg[g]),
         NEW wire \in Stacked(0)
  PROVE  /\ \A g \in Gates(m) : Loaded(m, port, wire)[g] \in Stacked(reg[g])
         /\ Loaded(m, port, wire) = [g \in Gates(m) |-> Loaded(m, port, wire)[g]]
<1>1. ASSUME NEW g \in Gates(m) PROVE Loaded(m, port, wire)[g] \in Stacked(reg[g])
  <2>1. CASE g.slot = "stream"
    <3>1. reg[g] = 0 /\ Loaded(m, port, wire)[g] = wire
      BY <2>1 DEF IsMachine, Loaded
    <3> QED BY <3>1
  <2>2. CASE g.slot # "stream"
    <3>1. StateOf(g) \in States(m) /\ reg[g] = reg[StateOf(g)]
      BY <2>2 DEF IsMachine
    <3>2. Loaded(m, port, wire)[g] = Undef \/ Loaded(m, port, wire)[g] = port[StateOf(g)]
      BY <2>2 DEF Loaded
    <3> QED BY <3>1, <3>2, UndefStacked
  <2> QED BY <2>1, <2>2
<1> QED BY <1>1 DEF Loaded

\* A stream wire carries no registers.
LEMMA TagStacked ==
  ASSUME NEW word, NEW p
  PROVE  Tag(word, p) \in Stacked(0)
<1>1. <<>> \in Seq(Interval) /\ Len(<<>>) = 0
  BY EmptySeq
<1> QED BY <1>1 DEF Tag, Satisfies, Stacked

\* The program that runs has a machine as it is to be.
LEMMA MachineNow ==
  ASSUME TypeOK
  PROVE  IsMachine(M, registers[program])
BY TransducerAssumption DEF TypeOK, M

\* The circuit that runs is one of the machine's, and what is loaded into it fits.
LEMMA RunningNow ==
  ASSUME TypeInv, PortInv, Ticks
  PROVE  /\ Running \in Circuits(M) /\ IsCircuit(Running) /\ GatesOf(Running) = Gates(M)
         /\ RegistersFit(Running, registers[program])
         /\ registers[program] \in [Gates(M) -> Nat]
         /\ \A g \in Gates(M) : Load[g] \in Stacked(registers[program][g])
         /\ Load = [g \in Gates(M) |-> Load[g]]
<1>1. IsMachine(M, registers[program])
  BY MachineNow DEF TypeInv
<1>2. Running \in Circuits(M)
  <2>1. CASE pc = "epsilon tick"
    BY <1>1, <2>1, MachineParts DEF Running
  <2>2. CASE pc = "char tick"
    <3>1. tag \in 1..Len(M.tags)
      <4>1. Len(M.tags) \in Nat
        BY <1>1, MachineParts
      <4>2. tag \in 1..(Len(M.tags) + 1) /\ tag <= Len(M.tags)
        BY <2>2 DEF TypeInv, TypeOK
      <4> QED BY <4>1, <4>2
    <3> QED BY <1>1, <2>2, <3>1, MachineParts DEF Running
  <2> QED BY <2>1, <2>2 DEF Ticks
<1>3. /\ \A g \in Gates(M) : Load[g] \in Stacked(registers[program][g])
      /\ Load = [g \in Gates(M) |-> Load[g]]
  <2> DEFINE wire == IF pc = "epsilon tick" THEN Undef ELSE Tag(Last(stream), M.pred[M.tags[tag]])
  <2>1. wire \in Stacked(0)
    BY UndefStacked, TagStacked
  <2>2. Load = Loaded(M, states, wire)
    BY DEF Load
  <2> HIDE DEF wire
  <2> QED BY <1>1, <2>1, <2>2, LoadedStacked DEF PortInv
<1> QED BY <1>1, <1>2, <1>3, CircuitParts, MachineParts

\* At the start only the initial state is there, with no register.
LEMMA InvInit == Init => Inv
<1> SUFFICES ASSUME Init PROVE Inv
  OBVIOUS
<1>1. /\ program \in Program /\ pc = "epsilon" /\ states = Reset(M) /\ stream = <<>>
      /\ tag = 1 /\ answer = Unmatched
  BY DEF Init, M
<1>2. IsMachine(M, registers[program])
  BY <1>1, TransducerAssumption DEF M
<1>3. TypeInv
  <2>1. tag \in 1..(Len(M.tags) + 1)
    <3>1. Len(M.tags) \in Nat
      BY <1>2, MachineParts
    <3> QED BY <1>1, <3>1
  <2>2. stream \in Seq(Word) /\ Len(stream) <= MaxWords
    <3>1. stream \in Seq(Word) /\ Len(stream) = 0
      BY <1>1, EmptySeq
    <3> QED BY <3>1, TransducerAssumption
  <2>3. answer.lower <= answer.upper
    BY <1>1 DEF Unmatched
  <2>4. DOMAIN states = States(M)
    BY <1>1 DEF Reset
  <2> QED BY <1>1, <2>1, <2>2, <2>3, <2>4 DEF TypeInv, TypeOK
<1>4. PortInv
  <2> SUFFICES ASSUME NEW g \in States(M) PROVE states[g] \in Stacked(registers[program][g])
    BY DEF PortInv
  <2>1. states[g] = IF g = M.init THEN Valid(<<>>) ELSE Undef
    BY <1>1 DEF Reset
  <2>2. registers[program][M.init] = 0
    BY <1>2, MachineParts
  <2>3. Valid(<<>>) \in Stacked(0)
    <3>1. <<>> \in Seq(Interval) /\ Len(<<>>) = 0
      BY EmptySeq
    <3> QED BY <3>1, ValidStacked
  <2> QED BY <2>1, <2>2, <2>3, UndefStacked
<1>5. CycleInv
  BY <1>1 DEF CycleInv, Ticks
<1> QED BY <1>3, <1>4, <1>5 DEF Inv

\* A cycle of the circuit for epsilon begins.
LEMMA InvEpsilon == ASSUME Inv, Epsilon PROVE Inv'
<1>1. TypeInv /\ PortInv /\ IsMachine(M, registers[program])
  BY MachineNow DEF Inv, TypeInv
<1>2. /\ pc' = "epsilon tick" /\ program' = program /\ states' = states /\ stream' = stream
      /\ tag' = tag /\ answer' = answer
  BY DEF Epsilon
<1>3. TypeInv'
  BY <1>1, <1>2 DEF TypeInv, TypeOK, M
<1>4. PortInv'
  BY <1>1, <1>2 DEF PortInv, M
<1>5. CycleInv'
  <2> DEFINE load == Loaded(M, states, Undef)
  <2>1. Running' = M.epsilon /\ Load' = load
    BY <1>2 DEF Running, Load, M
  <2>2. PICK order \in Orders(M.epsilon) : cycle' = Start(order, load)
    BY DEF Epsilon
  <2>3. /\ IsCircuit(M.epsilon) /\ order \in Seq(GatesOf(M.epsilon)) /\ IsInjective(order)
        /\ ToSet(order) = GatesOf(M.epsilon) /\ GatesOf(M.epsilon) = Gates(M)
    BY <1>1, MachineParts, CircuitParts
  <2>4. load = [g \in GatesOf(M.epsilon) |-> load[g]]
    BY <2>3 DEF Loaded
  <2> HIDE DEF load
  <2>5. Shape(M.epsilon, load, cycle', {})
    BY <2>2, <2>3, <2>4, StartShape
  <2> QED BY <2>1, <2>5 DEF CycleInv
<1> QED BY <1>3, <1>4, <1>5 DEF Inv

\* A cycle of the circuit for a predicate begins.
LEMMA InvChar == ASSUME Inv, Char PROVE Inv'
<1>1. TypeInv /\ PortInv /\ IsMachine(M, registers[program])
  BY MachineNow DEF Inv, TypeInv
<1>2. /\ pc = "char" /\ pc' = "char tick" /\ program' = program /\ states' = states
      /\ stream' = stream /\ tag' = tag /\ answer' = answer
  BY DEF Char
<1>3. TypeInv'
  BY <1>1, <1>2 DEF TypeInv, TypeOK, M
<1>4. PortInv'
  BY <1>1, <1>2 DEF PortInv, M
<1>5. CycleInv'
  <2> DEFINE t == M.tags[tag]
             load == Loaded(M, states, Tag(Last(stream), M.pred[t]))
             c == M.char[t]
  <2>1. Running' = c /\ Load' = load
    BY <1>2 DEF Running, Load, M
  <2>2. PICK order \in Orders(c) : cycle' = Start(order, load)
    BY DEF Char
  <2>3. c \in Circuits(M)
    <3>1. Len(M.tags) \in Nat
      BY <1>1, MachineParts
    <3>2. tag \in 1..(Len(M.tags) + 1) /\ tag <= Len(M.tags)
      BY <1>1, <1>2 DEF TypeInv, TypeOK
    <3>3. tag \in 1..Len(M.tags)
      BY <3>1, <3>2
    <3> QED BY <1>1, <3>3, MachineParts
  <2>4. /\ IsCircuit(c) /\ order \in Seq(GatesOf(c)) /\ IsInjective(order)
        /\ ToSet(order) = GatesOf(c) /\ GatesOf(c) = Gates(M)
    <3> HIDE DEF c
    <3> QED BY <1>1, <2>2, <2>3, CircuitParts
  <2>5. load = [g \in GatesOf(c) |-> load[g]]
    BY <2>4 DEF Loaded
  <2> HIDE DEF load, c
  <2>6. Shape(c, load, cycle', {})
    BY <2>2, <2>4, <2>5, StartShape
  <2> QED BY <2>1, <2>6 DEF CycleInv
<1> QED BY <1>3, <1>4, <1>5 DEF Inv

\* It goes on,
LEMMA InvCompute == ASSUME Inv, Compute PROVE Inv'
<1>1. TypeInv /\ PortInv /\ CycleInv
  BY DEF Inv
<1>2. /\ pc' = pc /\ program' = program /\ states' = states /\ stream' = stream
      /\ tag' = tag /\ answer' = answer
      /\ Ticks /\ cycle.todo # <<>> /\ cycle' = Posedge(Running, cycle)
  BY DEF Compute, Ticks
<1>3. TypeInv'
  BY <1>1, <1>2 DEF TypeInv, TypeOK, M
<1>4. PortInv'
  BY <1>1, <1>2 DEF PortInv, M
<1>5. CycleInv'
  <2>1. Running' = Running /\ Load' = Load
    BY <1>2 DEF Running, Load, M
  <2>2. IsCircuit(Running)
    BY <1>1, <1>2, RunningNow
  <2>3. PICK C : Shape(Running, Load, cycle, C)
    BY <1>1, <1>2 DEF CycleInv
  <2>4. \E D : Shape(Running, Load, cycle', D)
    BY <1>2, <2>2, <2>3, PosedgeShape
  <2> QED BY <2>1, <2>4 DEF CycleInv
<1> QED BY <1>3, <1>4, <1>5 DEF Inv

\* and ends with the states of the output.
LEMMA InvStateOut == ASSUME Inv, StateOut PROVE Inv'
<1>1. TypeInv /\ PortInv /\ CycleInv /\ IsMachine(M, registers[program])
  BY MachineNow DEF Inv, TypeInv
<1>2. /\ program' = program /\ stream' = stream /\ cycle' = cycle /\ answer' = answer
      /\ Ticks /\ cycle.todo = <<>> /\ states' = [g \in States(M) |-> cycle.val[g]]
      /\ IF pc = "epsilon tick" THEN pc' = "read" /\ tag' = tag
         ELSE pc' = (IF tag = Len(M.tags) THEN "epsilon" ELSE "char") /\ tag' = tag + 1
  BY DEF StateOut, Ticks
<1>3. TypeInv'
  <2>1. Len(M.tags) \in Nat /\ tag \in 1..(Len(M.tags) + 1)
    BY <1>1, MachineParts DEF TypeInv, TypeOK
  <2>2. /\ pc' \in {"read", "epsilon", "char"} /\ tag' \in 1..(Len(M.tags) + 1)
        /\ pc' = "char" => tag' <= Len(M.tags)
    <3>1. CASE pc = "epsilon tick"
      BY <1>2, <2>1, <3>1
    <3>2. CASE pc = "char tick"
      <4>1. tag <= Len(M.tags)
        BY <1>1, <3>2 DEF TypeInv
      <4>2. pc' = (IF tag = Len(M.tags) THEN "epsilon" ELSE "char") /\ tag' = tag + 1
        BY <1>2, <3>2
      <4>3. tag + 1 \in 1..(Len(M.tags) + 1) /\ (tag # Len(M.tags) => tag + 1 <= Len(M.tags))
        BY <2>1, <4>1
      <4> QED BY <4>2, <4>3
    <3> QED BY <1>2, <3>1, <3>2 DEF Ticks
  <2>3. DOMAIN states' = States(M)
    BY <1>2
  <2> QED BY <1>1, <1>2, <2>2, <2>3 DEF TypeInv, TypeOK, M
<1>4. PortInv'
  <2>1. PICK C : Shape(Running, Load, cycle, C)
    BY <1>1, <1>2 DEF CycleInv
  <2>2. /\ Running \in Circuits(M) /\ IsCircuit(Running) /\ GatesOf(Running) = Gates(M)
        /\ RegistersFit(Running, registers[program])
        /\ registers[program] \in [Gates(M) -> Nat]
        /\ \A g \in Gates(M) : Load[g] \in Stacked(registers[program][g])
    BY <1>1, <1>2, RunningNow
  <2>3. \A g \in States(M) : g \in Gates(M) /\ Running.op[g].name # "PushStackOp"
    BY <1>1, <2>2, CircuitParts
  <2>4. ASSUME NEW g \in States(M) PROVE cycle.val[g] \in Stacked(registers[program][g])
    <3>1. g \in GatesOf(Running) /\ Running.op[g].name # "PushStackOp"
      BY <2>2, <2>3
    <3> QED BY <1>2, <2>1, <2>2, <3>1, EndStacked
  <2> QED BY <1>2, <2>4 DEF PortInv, M
<1>5. CycleInv'
  BY <1>2 DEF CycleInv, Ticks
<1> QED BY <1>3, <1>4, <1>5 DEF Inv

\* No word is read in a cycle.
LEMMA InvRead == ASSUME Inv, Read PROVE Inv'
<1>1. TypeInv /\ PortInv /\ IsMachine(M, registers[program])
  BY MachineNow DEF Inv, TypeInv
<1>2. /\ Len(stream) < MaxWords /\ pc' = "char" /\ tag' = 1
      /\ program' = program /\ states' = states /\ cycle' = cycle /\ answer' = answer
  BY DEF Read
<1>3. PICK w \in Word : stream' = Append(stream, w)
  BY DEF Read
<1>4. TypeInv'
  <2>1. stream' \in Seq(Word) /\ Len(stream') <= MaxWords
    <3>1. stream \in Seq(Word) /\ Len(stream) \in Nat
      BY <1>1, LenProperties DEF TypeInv, TypeOK
    <3>2. stream' \in Seq(Word) /\ Len(stream') = Len(stream) + 1
      BY <1>3, <3>1, AppendProperties
    <3> QED BY <1>2, <3>1, <3>2, TransducerAssumption
  <2>2. tag' \in 1..(Len(M.tags) + 1) /\ tag' <= Len(M.tags)
    <3>1. Len(M.tags) \in Nat \ {0}
      BY <1>1, MachineParts
    <3> QED BY <1>2, <3>1
  <2> QED BY <1>1, <1>2, <2>1, <2>2 DEF TypeInv, TypeOK, M
<1>5. PortInv'
  BY <1>1, <1>2 DEF PortInv, M
<1>6. CycleInv'
  BY <1>2 DEF CycleInv, Ticks
<1> QED BY <1>4, <1>5, <1>6 DEF Inv

\* The answer is the register of the last state.
LEMMA InvFinish == ASSUME Inv, Finish PROVE Inv'
<1>1. TypeInv /\ PortInv /\ IsMachine(M, registers[program])
  BY MachineNow DEF Inv, TypeInv
<1>2. /\ pc' = "done" /\ answer' = Answer(M, states) /\ program' = program
      /\ states' = states /\ stream' = stream /\ tag' = tag /\ cycle' = cycle
  BY DEF Finish
<1>3. Answer(M, states).lower <= Answer(M, states).upper
  <2>1. states[M.fin] \in Stacked(1)
    BY <1>1, MachineParts DEF PortInv
  <2>2. CASE states[M.fin].valid
    <3> DEFINE stack == states[M.fin].stack
    <3>1. stack \in Seq(Interval) /\ Len(stack) = 1
      BY <2>1, <2>2, StackedParts
    <3>2. stack[1] \in Interval
      <4> HIDE DEF stack
      <4>1. 1 \in 1..Len(stack)
        BY <3>1
      <4> QED BY <3>1, <4>1, ElementOfSeq
    <3>3. Answer(M, states) = stack[1]
      BY <2>2 DEF Answer
    <3> QED BY <3>2, <3>3 DEF Interval
  <2>3. CASE ~states[M.fin].valid
    BY <2>3 DEF Answer, Unmatched
  <2> QED BY <2>2, <2>3
<1>4. TypeInv'
  BY <1>1, <1>2, <1>3 DEF TypeInv, TypeOK, M
<1>5. PortInv'
  BY <1>1, <1>2 DEF PortInv, M
<1>6. CycleInv'
  BY <1>2 DEF CycleInv, Ticks
<1> QED BY <1>4, <1>5, <1>6 DEF Inv

\* Nothing changes.
LEMMA InvStutter == ASSUME Inv, UNCHANGED vars PROVE Inv'
<1>1. /\ program' = program /\ pc' = pc /\ states' = states /\ stream' = stream
      /\ tag' = tag /\ cycle' = cycle /\ answer' = answer
  BY DEF vars
<1>2. M' = M /\ Running' = Running /\ Load' = Load /\ Ticks' = Ticks
  BY <1>1 DEF M, Running, Load, Ticks
<1> QED BY <1>1, <1>2 DEF Inv, TypeInv, TypeOK, PortInv, CycleInv

\* Every step keeps the invariant.
LEMMA InvStep == Inv /\ [Next]_vars => Inv'
BY InvEpsilon, InvChar, InvCompute, InvStateOut, InvRead, InvFinish, InvStutter DEF Next

(***************************************************************************)
(* Between the circuits every state is Undef or has the registers of its   *)
(* place; in a cycle the calls that are left, the counters of the gates    *)
(* and what they hold always belong to one set of gates that have          *)
(* computed, the least one could expect (process(), Gate::posedge()).      *)
(***************************************************************************)
THEOREM InvAlways == Spec => []Inv
BY InvInit, InvStep, PTL DEF Spec

\* What holds at the end of a cycle.
LEMMA CycleEnded ==
  ASSUME Inv, CycleEnds
  PROVE  /\ IsCircuit(Running) /\ GatesOf(Running) = Gates(M)
         /\ Load = [g \in Gates(M) |-> Load[g]]
         /\ \E C : Shape(Running, Load, cycle, C)
<1>1. TypeInv /\ PortInv /\ CycleInv /\ Ticks
  BY DEF Inv, CycleEnds, Ticks
<1> QED BY <1>1, RunningNow DEF CycleInv

-----------------------------------------------------------------------------
(* Results. *)

(***************************************************************************)
(* The run is always in its place between the circuits, its port holds the *)
(* states of the machine, and an answer is an interval whose bounds have   *)
(* not crossed, however the gates aggregate and merge registers.           *)
(***************************************************************************)
THEOREM TransducerTypeCorrect == Spec => []TypeOK
<1>1. Inv => TypeOK
  BY DEF Inv, TypeInv
<1> QED BY <1>1, InvAlways, PTL

(***************************************************************************)
(* In every machine whose wires lead to gates that expect the registers    *)
(* they bring, a state has the registers of its place between any two      *)
(* circuits: what is merged has as many registers, and PopStackOp finds    *)
(* the one it needs below the one it pops.                                 *)
(***************************************************************************)
THEOREM StacksStayAligned == Spec => []StacksAlign
<1>1. Inv => StacksAlign
  BY StackedParts DEF Inv, PortInv, StacksAlign
<1> QED BY <1>1, InvAlways, PTL

(***************************************************************************)
(* In whatever order the gates of a circuit are called, and call each      *)
(* other, cycles of wires or not, a clock cycle leaves in them what it     *)
(* does when each computes after all its inputs ("Sending a posedge to all *)
(* gates in any order will trigger a clock cycle", gate.h).                *)
(***************************************************************************)
THEOREM OrderDoesNotMatter == Spec => []AnyOrder
<1>1. ASSUME Inv PROVE AnyOrder
  <2> SUFFICES ASSUME CycleEnds PROVE cycle.val = Settled(Running, Load)
    BY DEF AnyOrder
  <2>1. /\ IsCircuit(Running) /\ GatesOf(Running) = Gates(M)
        /\ Load = [g \in Gates(M) |-> Load[g]]
    BY <1>1, CycleEnded
  <2>2. PICK C : Shape(Running, Load, cycle, C)
    BY <1>1, CycleEnded
  <2>3. cycle.todo = <<>>
    BY DEF CycleEnds
  <2> QED BY <2>1, <2>2, <2>3, EndSettled
<1> QED BY <1>1, InvAlways, PTL

(***************************************************************************)
(* The calls of tick() and of the gates reach every gate but those that    *)
(* wait for one that waits itself: only what is on a cycle of wires, or    *)
(* behind one, does not compute.                                           *)
(***************************************************************************)
THEOREM OnlyCyclesAreLeftOut == Spec => []OnlyCyclesWait
<1>1. ASSUME Inv PROVE OnlyCyclesWait
  <2> SUFFICES ASSUME CycleEnds, NEW g \in Gates(M), ~Through(Running, cycle, g)
               PROVE  \E h \in ToSet(Running.in[g]) : ~Through(Running, cycle, h)
    BY DEF OnlyCyclesWait
  <2>1. IsCircuit(Running) /\ GatesOf(Running) = Gates(M)
    BY <1>1, CycleEnded
  <2>2. PICK C : Shape(Running, Load, cycle, C)
    BY <1>1, CycleEnded
  <2>3. /\ Closed(Running, C)
        /\ \A h \in Gates(M) : Through(Running, cycle, h) <=> h \in C
    BY <2>1, <2>2, EndShape DEF CycleEnds
  <2>4. PICK h \in Inputs(Running, g) : h \notin C
    BY <2>1, <2>3 DEF Closed
  <2>5. h \in Gates(M)
    BY <2>1, <2>4, WiredIn
  <2> QED BY <2>3, <2>4, <2>5 DEF Inputs
<1> QED BY <1>1, InvAlways, PTL

=============================================================================
