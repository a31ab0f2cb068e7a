CONSTANTS
  Orders <- BothWays
  machine <- MCMachine
  registers <- MCRegisters
  Program <- MCProgram
  Filler <- MCFiller
  Predicate = {"_", "a", "b"}
  MaxWords = 3
SPECIFICATION Spec
INVARIANT TypeOK
INVARIANT StacksAlign
INVARIANT AnswersAllWays
INVARIANT CyclesNeverAnswer
INVARIANT AnyOrder
INVARIANT OnlyCyclesWait
INVARIANT AbstractCovers
\* A run over a stream ends.
CHECK_DEADLOCK FALSE
