--------------------------- MODULE MCSearchGraph ---------------------------
(* A grammar small enough to enumerate: the start symbol has two holes to   *)
(* pick from, two partial programs lead to the same finished one, one rule  *)
(* drops a program, and one partial program is too complex to be kept.      *)
EXTENDS SearchGraph

CONSTANTS s, a, b, z, x, y, r, o

MCProgram == {s, a, b, z, x, y, r, o}
MCExpand ==
  [p \in MCProgram |->
     CASE p = s -> {<<a, b>>, <<z>>, <<o, r>>}
       [] p = a -> {<<x>>}
       [] p = b -> {<<x, y>>}
       [] p = z -> {<<r>>, <<y>>}
       [] OTHER -> {}]
MCComplexity ==
  [p \in MCProgram |->
     CASE p = s -> 500 [] p = a -> 400 [] p = b -> 300
       [] p = z -> 20000 [] p = x -> 100 [] p = y -> 10000 [] p = r -> 50 [] p = o -> 600]
MCSeed == <<>>
=============================================================================
