------------------------------ MODULE Circuit ------------------------------
(***************************************************************************)
(* Gates, what they compute, and one clock cycle of a circuit of them      *)
(* (data-transducer, and the operators of netqre2dt/op.hpp).               *)
(*                                                                         *)
(* A circuit c is a record: c.gates, all gates in the order of its vector; *)
(* c.in[g] and c.out[g], the gates that g is wired from and to; c.op[g],   *)
(* the operator of g.                                                      *)
(***************************************************************************)
EXTENDS Integers, SequencesExt

(* What is in a gate or on a wire: a state with its stack of registers,     *)
(* each an interval, or UNDEF.  On a stream wire active tells whether the   *)
(* word meets the predicate.                                                *)

Undef == [valid |-> FALSE, active |-> FALSE, stack |-> <<>>]
Valid(stack) == [valid |-> TRUE, active |-> TRUE, stack |-> stack]

Exactly(n) == [lower |-> n, upper |-> n]

Largest(a, b) == IF a > b THEN a ELSE b
Smallest(a, b) == IF a < b THEN a ELSE b

\* AddOp, MaxOp and the value they start from
Aggregated(agg, a, b) ==
  IF agg = "sum" THEN [lower |-> a.lower + b.lower, upper |-> a.upper + b.upper]
  ELSE [lower |-> Largest(a.lower, b.lower), upper |-> Largest(a.upper, b.upper)]

Neutral == Exactly(0)

PushStackOp(s) == IF s.valid THEN Valid(Append(s.stack, Neutral)) ELSE Undef

\* Variant: the register of the value stays on the stack.
PopStackKept(agg, s) ==
  IF ~s.valid THEN Undef
  ELSE LET len == Len(s.stack)
       IN  Valid(Append(s.stack, Aggregated(agg, s.stack[len], s.stack[len - 1])))

PopStackOp(agg, s) ==
  IF ~s.valid THEN Undef
  ELSE LET len == Len(s.stack)
       IN  Valid(Append(SubSeq(s.stack, 1, len - 2),
                        Aggregated(agg, s.stack[len], s.stack[len - 1])))

CondOp(s) == IF s.valid THEN Valid(Append(s.stack, Exactly(1))) ELSE Undef

PredicateOp(s, p) == IF s.valid /\ p.valid /\ p.active THEN s ELSE Undef

\* Variants: one of the two ways is forgotten; the bounds are mixed up.
MergeFirst(a, b) == a

MergeCrossed(a, b) ==
  [lower |-> Largest(a.lower, b.lower), upper |-> Smallest(a.upper, b.upper)]

MergeOp(a, b) ==
  [lower |-> Smallest(a.lower, b.lower), upper |-> Largest(a.upper, b.upper)]

TransitionOp(a, b) ==
  IF ~a.valid THEN b ELSE IF ~b.valid THEN a
  ELSE Valid([i \in DOMAIN a.stack |-> MergeOp(a.stack[i], b.stack[i])])

\* A gate with no input works on what it holds.
Computed(op, param, current) ==
  LET first == IF param = <<>> THEN current ELSE param[1]
  IN  CASE op.name = "ConstOp" -> current
        [] op.name = "CopyOp" -> first
        [] op.name = "PushStackOp" -> PushStackOp(first)
        [] op.name = "PopStackOp" -> PopStackOp(op.agg, first)
        [] op.name = "CondOp" -> CondOp(first)
        [] op.name = "PredicateOp" -> PredicateOp(param[1], param[2])
        [] op.name = "TransitionOp" -> TransitionOp(param[1], param[2])

-----------------------------------------------------------------------------
(* A clock cycle s.  s.val is what is in each gate; s.ready, how many of    *)
(* its wires have been announced, and one more once it is through; s.todo,  *)
(* what is left of the calls under way, the innermost first: a posedge() of *)
(* tick(), the wire_ready() and posedge() that a gate sends along a wire,   *)
(* and the end of a posedge() behind its loop.                              *)

Call(g) == [do |-> "posedge", from |-> g, to |-> g]
Announce(g, h) == [do |-> "wire_ready", from |-> g, to |-> h]
Return(g) == [do |-> "return", from |-> g, to |-> g]

\* tick() on what is loaded, the gates in this order
Start(order, load) ==
  [val |-> load,
   ready |-> [g \in DOMAIN load |-> 0],
   todo |-> [k \in DOMAIN order |-> Call(order[k])]]

Params(c, val, g) == [k \in DOMAIN c.in[g] |-> val[c.in[g][k]]]

Loop(c, g) == [k \in DOMAIN c.out[g] |-> Announce(g, c.out[g][k])]

\* ready_wires ++, by what a wire announces and at the end of posedge()
ReadyWires(s) ==
  s.ready[Head(s.todo).to] + (IF Head(s.todo).do = "posedge" THEN 0 ELSE 1)

\* Variant: the outputs are told, but get no posedge of their own.
FiresAlone(c, s) ==
  Head(s.todo).do = "posedge" /\ ReadyWires(s) = Len(c.in[Head(s.todo).to])

\* Variant: one wire is enough.
FiresEarly(c, s) ==
  /\ Head(s.todo).do # "return"
  /\ ReadyWires(s) = (IF Len(c.in[Head(s.todo).to]) = 0 THEN 0 ELSE 1)

Fires(c, s) ==
  Head(s.todo).do # "return" /\ ReadyWires(s) = Len(c.in[Head(s.todo).to])

\* The next of these calls
Posedge(c, s) ==
  LET g == Head(s.todo).to
  IN  [val |-> IF Fires(c, s)
                 THEN [s.val EXCEPT ![g] = Computed(c.op[g], Params(c, s.val, g), s.val[g])]
                 ELSE s.val,
       ready |-> [s.ready EXCEPT ![g] = ReadyWires(s)],
       todo |-> IF Fires(c, s) THEN Loop(c, g) \o <<Return(g)>> \o Tail(s.todo)
                ELSE Tail(s.todo)]

Through(c, s, g) == s.ready[g] = Len(c.in[g]) + 1

(* What a cycle is to come to, with no calls: in every round the gates      *)
(* compute whose inputs all have, and after as many rounds as there are     *)
(* gates no other one can.                                                  *)

Round(c, load, r) ==
  LET now == {g \in DOMAIN load : ToSet(c.in[g]) \subseteq r.through}
  IN  [through |-> now,
       val |-> [g \in DOMAIN load |->
                  IF g \in now THEN Computed(c.op[g], Params(c, r.val, g), load[g])
                  ELSE load[g]]]

Settled(c, load) ==
  LET round[k \in 0..Len(c.gates)] ==
        IF k = 0 THEN [through |-> {}, val |-> load] ELSE Round(c, load, round[k - 1])
  IN  round[Len(c.gates)].val

-----------------------------------------------------------------------------
(* What a circuit is to be like. *)

OpName == {"ConstOp", "CopyOp", "PushStackOp", "PopStackOp", "CondOp", "PredicateOp",
           "TransitionOp"}

\* wire_in() and wire_out() come in pairs, and no two gates are wired twice.
IsCircuit(c) ==
  LET G == ToSet(c.gates)
  IN  /\ c.gates \in Seq(G) /\ IsInjective(c.gates)
      /\ c.in \in [G -> Seq(G)] /\ c.out \in [G -> Seq(G)]
      /\ \A g \in G : IsInjective(c.in[g]) /\ IsInjective(c.out[g])
      /\ \A g, h \in G : h \in ToSet(c.out[g]) <=> g \in ToSet(c.in[h])
      /\ c.op \in [G -> [name : OpName, agg : {"none", "sum", "max"}]]
      /\ \A g \in G : c.op[g].name \in {"PredicateOp", "TransitionOp"} => Len(c.in[g]) = 2

\* The registers in g once it has computed, if what is loaded has reg[g].
After(c, reg, g) == reg[g] + (IF c.op[g].name = "PushStackOp" THEN 1 ELSE 0)

\* The registers that the operator of g finds, and by how many it changes them.
Before(c, reg, g) ==
  IF c.in[g] = <<>> THEN reg[g] ELSE After(c, reg, c.in[g][1])

Change(op) ==
  CASE op.name \in {"PushStackOp", "CondOp"} -> 1
    [] op.name = "PopStackOp" -> -1
    [] OTHER -> 0

\* A wire leads to gates that expect the registers it brings.
RegistersFit(c, reg) ==
  \A g \in ToSet(c.gates) :
    c.op[g].name # "ConstOp" =>
      /\ After(c, reg, g) = Before(c, reg, g) + Change(c.op[g])
      /\ c.op[g].name = "PopStackOp" => Before(c, reg, g) >= 2
      /\ c.op[g].name = "TransitionOp" => After(c, reg, c.in[g][2]) = After(c, reg, g)
=============================================================================
