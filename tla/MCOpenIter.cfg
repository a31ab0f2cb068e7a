CONSTANTS
  Orders <- BothWays
  machine <- MCMachine
  registers <- MCRegisters
  Program <- MCOpenIter
  Filler <- MCFiller
  Predicate = {"_", "a", "b"}
  MaxWords = 3
SPECIFICATION Spec
INVARIANT EveryGateComputes
\* A run over a stream ends.
CHECK_DEADLOCK FALSE
