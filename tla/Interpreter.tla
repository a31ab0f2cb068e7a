---------------------------- MODULE Interpreter ----------------------------
(***************************************************************************)
(* The machines that the interpreter builds for expressions (data-         *)
(* transducer/circuit.cpp and netqre2dt/interpreter.cpp), and what an      *)
(* expression means.                                                       *)
(*                                                                         *)
(* An expression is a tree of "leaf" (a predicate; "_" is met by every     *)
(* word), "star", "concat" and "cond" nodes, with the aggregation of iter  *)
(* and split in agg and "none" inside a regular expression, or a hole that *)
(* the search is still to fill.                                            *)
(***************************************************************************)
EXTENDS Transducer

CONSTANTS
  Filler      \* Filler[symbol]: expressions a hole may be filled with

ASSUME InterpreterAssumption == DOMAIN Filler = {"#re", "#qre_ps"}

-----------------------------------------------------------------------------
(* Expressions.                                                             *)

Leaf(p) == [op |-> "leaf", agg |-> "none", pred |-> p, sub |-> <<>>]
Star(agg, e) == [op |-> "star", agg |-> agg, pred |-> "_", sub |-> <<e>>]
Concat(agg, l, r) == [op |-> "concat", agg |-> agg, pred |-> "_", sub |-> <<l, r>>]
Cond(e) == [op |-> "cond", agg |-> "none", pred |-> "_", sub |-> <<e>>]
Hole(symbol) == [op |-> "hole", agg |-> "none", pred |-> symbol, sub |-> <<>>]

AnyWords == Concat("none", Leaf("_"), Star("none", Leaf("_")))

\* Variant: a regular expression is taken for one word.
AbstractOneWord(symbol) ==
  CASE symbol = "#re" -> Leaf("_")
    [] symbol = "#qre_ps" -> Star("sum", Cond(AnyWords))

\* positive_abstract of the grammar
Abstract(symbol) ==
  CASE symbol = "#re" -> AnyWords
    [] symbol = "#qre_ps" -> Star("sum", Cond(AnyWords))

\* to_code(): a hole is run as the abstract of its symbol.
RECURSIVE to_code(_)
to_code(e) ==
  IF e.op = "hole" THEN Abstract(e.pred)
  ELSE [e EXCEPT !.sub = [i \in DOMAIN e.sub |-> to_code(e.sub[i])]]

\* The nodes of e below place at, children first.
RECURSIVE Nodes(_, _)
Nodes(e, at) ==
  FlattenSeq([i \in DOMAIN e.sub |-> Nodes(e.sub[i], Append(at, i))])
    \o <<e @@ [at |-> at]>>

-----------------------------------------------------------------------------
(* Gates.  A state of the transducer is held by a pair of gates "i" and     *)
(* "o" of the same slot; a leaf has a stream gate too.                      *)

Gate(at, slot, side) == [at |-> at, slot |-> slot, side |-> side]
In(at, slot) == Gate(at, slot, "i")
Out(at, slot) == Gate(at, slot, "o")

Slots(n) ==
  CASE n.op = "leaf" -> <<"init", "fin">>
    [] n.op = "concat" -> <<"init", "commit", "fin">>
    [] n.op = "star" -> <<"commit", "merge", "init", "fin">>
    [] n.op = "cond" -> <<"fin">>

GatesOf(n) ==
  (IF n.op = "leaf" THEN <<In(n.at, "stream")>> ELSE <<>>)
    \o FlattenSeq([k \in DOMAIN Slots(n) |->
         <<In(n.at, Slots(n)[k]), Out(n.at, Slots(n)[k])>>])

\* stateii of the circuit of e: a condition keeps that of its regular expression.
RECURSIVE stateii(_, _)
stateii(e, at) ==
  IF e.op = "cond" THEN stateii(e.sub[1], Append(at, 1)) ELSE In(at, "init")

stateof(at) == Out(at, "fin")

InitOp(agg) == [name |-> IF agg = "none" THEN "CopyOp" ELSE "PushStackOp", agg |-> agg]
CommitOp(agg) == [name |-> IF agg = "none" THEN "CopyOp" ELSE "PopStackOp", agg |-> agg]
Plain(name) == [name |-> name, agg |-> "none"]

(* combine_epsilon_*: the wires <<from, to>> of a node and the operators of *)
(* its gates.                                                               *)

\* Variant: fin is fed from init and not from merge.
StarWiresAround(at, childFin, childInit) ==
  << <<childFin, In(at, "commit")>>,
     <<In(at, "commit"), In(at, "merge")>>,
     <<In(at, "init"), In(at, "merge")>>,
     <<In(at, "merge"), childInit>>,
     <<In(at, "init"), Out(at, "fin")>> >>

StarWires(at, childFin, childInit) ==
  << <<childFin, In(at, "commit")>>,
     <<In(at, "commit"), In(at, "merge")>>,
     <<In(at, "init"), In(at, "merge")>>,
     <<In(at, "merge"), childInit>>,
     <<In(at, "merge"), Out(at, "fin")>> >>

EpsilonWires(n) ==
  LET at == n.at
      left == Append(at, 1)
      right == Append(at, 2)
  IN  CASE n.op = "leaf" ->
             << <<In(at, "init"), Out(at, "init")>>, <<In(at, "fin"), Out(at, "fin")>> >>
        [] n.op = "concat" ->
             << <<In(at, "init"), stateii(n.sub[1], left)>>,
                <<stateof(left), Out(at, "commit")>>,
                <<Out(at, "commit"), stateii(n.sub[2], right)>>,
                <<stateof(right), Out(at, "fin")>> >>
        [] n.op = "star" ->
             StarWires(at, stateof(left), stateii(n.sub[1], left))
        [] n.op = "cond" -> << <<stateof(left), Out(at, "fin")>> >>

EpsilonOp(n, slot, side) ==
  CASE n.op = "leaf" -> Plain("CopyOp")
    [] n.op = "concat" /\ side = "i" -> IF slot = "init" THEN InitOp(n.agg) ELSE Plain("ConstOp")
    [] n.op = "concat" /\ side = "o" -> IF slot = "init" THEN Plain("ConstOp") ELSE CommitOp(n.agg)
    [] n.op = "star" /\ side = "i" ->
         (CASE slot = "init" -> InitOp(n.agg)
            [] slot = "commit" -> CommitOp(n.agg)
            [] slot = "merge" -> Plain("TransitionOp")
            [] slot = "fin" -> Plain("ConstOp"))
    [] n.op = "star" /\ side = "o" -> Plain(IF slot = "fin" THEN "CopyOp" ELSE "ConstOp")
    [] n.op = "cond" -> Plain(IF side = "o" THEN "CondOp" ELSE "ConstOp")

(* combine_char_*: every state is kept but for the leaf of the tag.         *)

CharWires(n, t) ==
  IF n.at = t
    THEN << <<In(n.at, "init"), Out(n.at, "fin")>>, <<In(n.at, "stream"), Out(n.at, "fin")>> >>
    ELSE [k \in DOMAIN Slots(n) |-> <<In(n.at, Slots(n)[k]), Out(n.at, Slots(n)[k])>>]

CharOp(n, slot, side, t) ==
  IF n.at = t THEN Plain(IF slot = "fin" /\ side = "o" THEN "PredicateOp" ELSE "CopyOp")
  ELSE Plain(IF n.op = "leaf" \/ side = "o" THEN "CopyOp" ELSE "ConstOp")

AllGates(nodes) == FlattenSeq([k \in DOMAIN nodes |-> GatesOf(nodes[k])])

\* The gates of all nodes, joined by their wires, with an operator for each.
CircuitOf(nodes, WiresOf(_), OpOf(_, _, _)) ==
  LET wires == FlattenSeq([k \in DOMAIN nodes |-> WiresOf(nodes[k])])
      gates == AllGates(nodes)
      From(ws) == [k \in DOMAIN ws |-> ws[k][1]]
      To(ws) == [k \in DOMAIN ws |-> ws[k][2]]
      NodeOf(g) == CHOOSE n \in ToSet(nodes) : n.at = g.at
  IN  [gates |-> gates,
       in |-> [g \in ToSet(gates) |-> From(SelectSeq(wires, LAMBDA w : w[2] = g))],
       out |-> [g \in ToSet(gates) |-> To(SelectSeq(wires, LAMBDA w : w[1] = g))],
       op |-> [g \in ToSet(gates) |-> OpOf(NodeOf(g), g.slot, g.side)]]

EpsilonCircuit(nodes) == CircuitOf(nodes, EpsilonWires, EpsilonOp)

CharCircuit(nodes, t) ==
  CircuitOf(nodes, LAMBDA n : CharWires(n, t),
                 LAMBDA n, slot, side : CharOp(n, slot, side, t))

\* The tags, the places of the leaves from left to right.
Tags(nodes) ==
  LET leaves == SelectSeq(nodes, LAMBDA n : n.op = "leaf")
  IN  [k \in DOMAIN leaves |-> leaves[k].at]

Machine(e) ==
  LET code == to_code(e)
      nodes == Nodes(code, <<>>)
  IN  [init |-> [stateii(code, <<>>) EXCEPT !.side = "o"],
       fin |-> stateof(<<>>),
       tags |-> Tags(nodes),
       pred |-> [t \in ToSet(Tags(nodes)) |->
                   (CHOOSE n \in ToSet(nodes) : n.at = t).pred],
       epsilon |-> EpsilonCircuit(nodes),
       char |-> [t \in ToSet(Tags(nodes)) |-> CharCircuit(nodes, t)]]

Machines == [e \in Program |-> Machine(e)]

(* The registers at a place: one for every iter or split around it, and one *)
(* for the value of what ends there, if it has one.                         *)
Registers(nodes, g) ==
  LET Above(Kind(_)) == {n \in ToSet(nodes) : Kind(n) /\ IsStrictPrefix(n.at, g.at)}
  IN  IF g.slot = "stream" THEN 0
      ELSE Cardinality(Above(LAMBDA n : n.agg # "none"))
             + (IF g.slot # "init" /\ Above(LAMBDA n : n.op = "cond") = {} THEN 1 ELSE 0)

MachineRegisters ==
  [e \in Program |->
     LET nodes == Nodes(to_code(e), <<>>)
     IN  [g \in ToSet(AllGates(nodes)) |-> Registers(nodes, g)]]

-----------------------------------------------------------------------------
(* The meaning of an expression on a part of a stream: how many ways it has *)
(* to match it, and the values of these.                                    *)

First(w, k) == SubSeq(w, 1, k)
Rest(w, k) == SubSeq(w, k + 1, Len(w))

Total(f) == FoldFunction(LAMBDA x, y : x + y, 0, f)

\* An iteration takes one word at least.
RECURSIVE Ways(_, _)
Ways(e, w) ==
  CASE e.op = "leaf" -> IF Len(w) = 1 /\ Satisfies(w[1], e.pred) THEN 1 ELSE 0
    [] e.op = "cond" -> Ways(e.sub[1], w)
    [] e.op = "concat" ->
         Total([k \in 0..Len(w) |-> Ways(e.sub[1], First(w, k)) * Ways(e.sub[2], Rest(w, k))])
    [] e.op = "star" ->
         IF w = <<>> THEN 1
         ELSE Total([k \in 1..Len(w) |-> Ways(e.sub[1], First(w, k)) * Ways(e, Rest(w, k))])

Plus(agg, a, b) == IF agg = "sum" THEN a + b ELSE Largest(a, b)

RECURSIVE Values(_, _)
Values(e, w) ==
  CASE e.op = "leaf" -> {}
    [] e.op = "cond" -> IF Ways(e.sub[1], w) > 0 THEN {1} ELSE {}
    [] e.op = "concat" ->
         UNION {{Plus(e.agg, a, b) : a \in Values(e.sub[1], First(w, k)),
                                     b \in Values(e.sub[2], Rest(w, k))} : k \in 0..Len(w)}
    [] e.op = "star" ->
         IF w = <<>> THEN {0}
         ELSE UNION {{Plus(e.agg, a, b) : a \in Values(e.sub[1], First(w, k)),
                                          b \in Values(e, Rest(w, k))} : k \in 1..Len(w)}

Nullable(e) == Ways(e, <<>>) > 0

\* A star around what may match nothing is a cycle of wires.
Cyclic(e) == \E n \in ToSet(Nodes(e, <<>>)) : n.op = "star" /\ Nullable(n.sub[1])

(***************************************************************************)
(* An answer is the interval of the values of all the ways to match the     *)
(* stream, exact when there is one way, and there is none exactly when      *)
(* nothing matches: through any interleaving of the circuits of the tags    *)
(* the run keeps all ways apart that may still end differently.             *)
(***************************************************************************)
AnswersAllWays ==
  pc = "done" =>
    LET e == to_code(program)
    IN  ~Cyclic(e) =>
          /\ (answer # Unmatched) <=> Ways(e, stream) > 0
          /\ \A v \in Values(e, stream) : answer.lower <= v /\ v <= answer.upper
          /\ Ways(e, stream) = 1 => answer.lower = answer.upper

(***************************************************************************)
(* A program with a star around what may match nothing matches no stream:   *)
(* the gates of the cycle wait for each other, silently, but no answer      *)
(* comes of it.                                                             *)
(***************************************************************************)
CyclesNeverAnswer == pc = "done" /\ Cyclic(to_code(program)) => answer = Unmatched

(* The programs a program with holes may become, when what fills a hole     *)
(* takes a word wherever it has a regular expression to match.              *)

Consuming(symbol, e) ==
  IF symbol = "#re" THEN ~Nullable(e)
  ELSE \A n \in ToSet(Nodes(e, <<>>)) : n.op = "cond" => ~Nullable(n.sub[1])

RECURSIVE Filled(_)
Filled(e) ==
  IF e.op = "hole" THEN {f \in Filler[e.pred] : Consuming(e.pred, f)}
  ELSE {[e EXCEPT !.sub = f] : f \in
          CASE Len(e.sub) = 0 -> {<<>>}
            [] Len(e.sub) = 1 -> {<<x>> : x \in Filled(e.sub[1])}
            [] Len(e.sub) = 2 -> Filled(e.sub[1]) \X Filled(e.sub[2])}

(***************************************************************************)
(* The answer of a program with holes, run as the abstracts of their        *)
(* symbols, covers all values of the programs it may become: the search     *)
(* drops the program and all of these on the strength of its answers.       *)
(***************************************************************************)
AbstractCovers ==
  pc = "done" /\ ~Cyclic(to_code(program)) =>
    \A e \in Filled(program) : Values(e, stream) \subseteq answer.lower..answer.upper
=============================================================================
