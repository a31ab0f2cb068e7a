---------------------------- MODULE MCTransducer ----------------------------
EXTENDS Interpreter

a == Leaf("a")
b == Leaf("b")
any == Leaf("_")
Anything == Star("none", any)
Then(l, r) == Concat("none", l, r)

\* iter(/ _* [a] _* /?1, sum)
Count == Star("sum", Cond(Then(Anything, Then(a, Anything))))

\* iter(#qre_ps, sum), whose hole is run as an iter
OpenIter == Star("sum", Hole("#qre_ps"))

\* The order of the vector, and the reverse one
BothWays(c) == {c.gates, Reverse(c.gates)}

MCOpenIter == {OpenIter}

MCProgram ==
  {Cond(a),
   Count,
   Star("max", Cond(Then(a, Anything))),
   Concat("sum", Star("sum", Cond(a)), Star("sum", Cond(any))),
   Concat("max", Star("sum", Cond(Then(a, a))), Cond(Anything)),
   Star("sum", Concat("sum", Cond(a), Star("max", Cond(b)))),
   Star("max", Concat("sum", Star("sum", Cond(a)), Cond(b))),
   OpenIter,
   Concat("sum", Cond(a), Star("sum", Cond(Anything))),
   Hole("#qre_ps"),
   Star("sum", Cond(Then(Hole("#re"), a))),
   Concat("sum", Hole("#qre_ps"), Cond(Hole("#re")))}

MCMachine == Machines
MCRegisters == MachineRegisters

MCFiller ==
  [symbol \in {"#re", "#qre_ps"} |->
     IF symbol = "#re" THEN {a, any, Then(a, b), Then(a, Anything), Anything}
     ELSE {Cond(b), Cond(AnyWords), Cond(Anything), Star("max", Cond(Then(any, a))),
           Concat("sum", Cond(a), Star("sum", Cond(any)))}]
=============================================================================
