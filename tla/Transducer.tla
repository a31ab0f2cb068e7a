----------------------------- MODULE Transducer -----------------------------
(***************************************************************************)
(* The data transducer of a program (data-transducer, and the part of      *)
(* netqre2dt/interpreter.cpp that feeds it): circuits of gates, one for    *)
(* epsilon and one for every predicate, that carry the states of a run     *)
(* over a stream from word to word.                                        *)
(*                                                                         *)
(* A machine m is a record: m.epsilon and m.char[t], the circuits; m.tags, *)
(* the tags t of the predicates m.pred[t]; m.init and m.fin, the gates of  *)
(* the first and the last state.  A gate is a record with a slot, "stream" *)
(* or the state it holds, and a side, "i" or "o": a state of the           *)
(* transducer is held by a pair of gates of both sides.                    *)
(***************************************************************************)
EXTENDS Circuit

CONSTANTS
  Program,    \* the programs that are run
  machine,    \* machine[p]: the machine of program p
  registers,  \* registers[p][g]: how many the state of gate g is to have
  Predicate,  \* the predicates, "_" among them
  MaxWords,   \* bound: the length of a stream
  Orders(_)   \* Orders(c): the orders in which the gates of circuit c are called

Gates(m) == ToSet(m.epsilon.gates)
States(m) == {g \in Gates(m) : g.side = "o"}
StateOf(g) == [g EXCEPT !.side = "o"]
Circuits(m) == {m.epsilon} \cup {m.char[t] : t \in ToSet(m.tags)}

\* The circuits share their gates, and keep the states apart.
IsMachine(m, reg) ==
  /\ m.tags \in Seq(ToSet(m.tags)) /\ m.tags # <<>>
  /\ \A c \in Circuits(m) :
       /\ IsCircuit(c) /\ ToSet(c.gates) = Gates(m) /\ RegistersFit(c, reg)
       /\ \A g \in States(m) : c.op[g].name # "PushStackOp"
       /\ Orders(c) \subseteq Seq(Gates(m))
       /\ \A o \in Orders(c) : IsInjective(o) /\ ToSet(o) = Gates(m)
  /\ reg \in [Gates(m) -> Nat]
  /\ \A g \in Gates(m) :
       IF g.slot = "stream" THEN g \notin States(m) /\ reg[g] = 0
       ELSE StateOf(g) \in States(m) /\ reg[g] = reg[StateOf(g)]
  /\ m.init \in States(m) /\ reg[m.init] = 0
  /\ m.fin \in States(m) /\ reg[m.fin] = 1

ASSUME TransducerAssumption ==
  /\ MaxWords \in Nat
  /\ \A p \in Program : IsMachine(machine[p], registers[p])

Word == SUBSET (Predicate \ {"_"})

-----------------------------------------------------------------------------
\* reset(), set_stream_in(), set_state_in(): the initial state goes to its input
\* only, the final one to its output only, every other one to both.
Loaded(m, states, stream) ==
  [g \in Gates(m) |->
     IF g.slot = "stream" THEN stream
     ELSE IF \/ StateOf(g) = m.init /\ g = StateOf(g)
             \/ StateOf(g) = m.fin /\ g # StateOf(g) THEN Undef
     ELSE states[StateOf(g)]]

\* Transducer::reset() with the parameter of Machine::aggregate()
Reset(m) == [g \in States(m) |-> IF g = m.init THEN Valid(<<>>) ELSE Undef]

Satisfies(word, p) == p = "_" \/ p \in word

Tag(word, p) == [valid |-> TRUE, active |-> Satisfies(word, p), stack |-> <<>>]

Unmatched == [lower |-> -1, upper |-> -1]

Answer(m, states) == IF states[m.fin].valid THEN states[m.fin].stack[1] ELSE Unmatched

-----------------------------------------------------------------------------
(* Transducer::process() on a stream that is made up as it is read.         *)

VARIABLES
  program,  \* of Program
  pc,       \* "epsilon", "epsilon tick", "read", "char", "char tick", "done"
  states,   \* the port between the circuits
  stream,   \* the words read
  tag,      \* the next circuit for the last word
  cycle,    \* what is in the gates
  answer    \* what Machine::aggregate() returns

vars == <<program, pc, states, stream, tag, cycle, answer>>

M == machine[program]

Init ==
  /\ program \in Program
  /\ pc = "epsilon"
  /\ states = Reset(machine[program])
  /\ stream = <<>>
  /\ tag = 1
  /\ cycle = Start(<<>>, [g \in Gates(machine[program]) |-> Undef])
  /\ answer = Unmatched

\* The circuit that runs, and what has been loaded into its gates.
Running == IF pc = "epsilon tick" THEN M.epsilon ELSE M.char[M.tags[tag]]

Load ==
  Loaded(M, states,
         IF pc = "epsilon tick" THEN Undef ELSE Tag(Last(stream), M.pred[M.tags[tag]]))

Epsilon ==
  /\ pc = "epsilon"
  /\ pc' = "epsilon tick"
  /\ \E order \in Orders(M.epsilon) : cycle' = Start(order, Loaded(M, states, Undef))
  /\ UNCHANGED <<program, states, stream, tag, answer>>

\* The circuits of all tags, one after the other, each on what the last one left.
Char ==
  /\ pc = "char"
  /\ pc' = "char tick"
  /\ LET t == M.tags[tag]
     IN  \E order \in Orders(M.char[t]) :
           cycle' = Start(order, Loaded(M, states, Tag(Last(stream), M.pred[t])))
  /\ UNCHANGED <<program, states, stream, tag, answer>>

\* tick()
Compute ==
  /\ pc \in {"epsilon tick", "char tick"} /\ cycle.todo # <<>>
  /\ cycle' = Posedge(Running, cycle)
  /\ UNCHANGED <<program, pc, states, stream, tag, answer>>

\* get_state_out()
StateOut ==
  /\ pc \in {"epsilon tick", "char tick"} /\ cycle.todo = <<>>
  /\ states' = [g \in States(M) |-> cycle.val[g]]
  /\ IF pc = "epsilon tick" THEN pc' = "read" /\ tag' = tag
     ELSE pc' = (IF tag = Len(M.tags) THEN "epsilon" ELSE "char") /\ tag' = tag + 1
  /\ UNCHANGED <<program, stream, cycle, answer>>

Read ==
  /\ pc = "read" /\ Len(stream) < MaxWords
  /\ pc' = "char"
  /\ \E w \in Word : stream' = Append(stream, w)
  /\ tag' = 1
  /\ UNCHANGED <<program, states, cycle, answer>>

\* The final epsilon circuit has run.
Finish ==
  /\ pc = "read"
  /\ pc' = "done"
  /\ answer' = Answer(M, states)
  /\ UNCHANGED <<program, states, stream, tag, cycle>>

Next == Epsilon \/ Char \/ Compute \/ StateOut \/ Read \/ Finish

Spec == Init /\ [][Next]_vars

-----------------------------------------------------------------------------
(* The place in process() and the port; an answer is an interval, never one *)
(* whose bounds have crossed.                                               *)
TypeOK ==
  /\ program \in Program
  /\ pc \in {"epsilon", "epsilon tick", "read", "char", "char tick", "done"}
  /\ stream \in Seq(Word) /\ Len(stream) <= MaxWords
  /\ tag \in 1..(Len(M.tags) + 1)
  /\ answer.lower <= answer.upper
  /\ DOMAIN states = States(M)

(***************************************************************************)
(* Every state has the registers of its place in the expression, whatever   *)
(* way it came: two states that meet are merged register by register, and   *)
(* PopStackOp needs the register below the one it pops.                     *)
(***************************************************************************)
StacksAlign ==
  \A g \in States(M) :
    states[g].valid => Len(states[g].stack) = registers[program][g]

\* tick() is about to return.
CycleEnds == pc \in {"epsilon tick", "char tick"} /\ cycle.todo = <<>>

(***************************************************************************)
(* "Sending a posedge to all gates in any order will trigger a clock cycle. *)
(* Computations will be made in topologically sorted order" (gate.h): in    *)
(* whatever order the gates are called and call each other, a cycle leaves  *)
(* in them what it does when each computes after all its inputs.            *)
(***************************************************************************)
AnyOrder == CycleEnds => cycle.val = Settled(Running, Load)

(***************************************************************************)
(* In a cycle every gate computes its output, and once only ("only posedge  *)
(* once", gate.cpp), but for a gate that waits for another one that does    *)
(* not compute either: nobody is left out but the gates on a cycle of wires *)
(* and behind one.                                                          *)
(***************************************************************************)
OnlyCyclesWait ==
  CycleEnds =>
    \A g \in Gates(M) :
      \/ Through(Running, cycle, g)
      \/ \E h \in ToSet(Running.in[g]) : ~Through(Running, cycle, h)

(***************************************************************************)
(* In every cycle every gate computes its output, once all its inputs have  *)
(* theirs (gate.h: "Computations will be made in topologically sorted       *)
(* order").                                                                 *)
(***************************************************************************)
EveryGateComputes == CycleEnds => \A g \in Gates(M) : Through(Running, cycle, g)
=============================================================================
