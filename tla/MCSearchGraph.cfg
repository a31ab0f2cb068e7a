CONSTANTS
  Worker = {w1, w2}
  Idle = Idle
  s = s
  a = a
  b = b
  z = z
  x = x
  y = y
  r = r
  o = o
  Program <- MCProgram
  Mailbox <- Message
  Start = s
  Seed <- MCSeed
  Eliminate = {}
  Expand <- MCExpand
  Complete = {x, y, r, o}
  Accepted = {s, a, b, z, x, y}
  Redundant = {r}
  Complexity <- MCComplexity
  batch_size = 2
  explore_rate = 1
  answer_count = 3
  give_up_count = 4
SPECIFICATION FairSpec
INVARIANT TypeOK
INVARIANT RoundBarrier
INVARIANT NoCandidateLost
INVARIANT ChildrenTried
INVARIANT AnswersSound
INVARIANT ShortOnlyWhenDone
PROPERTY BestFirst
PROPERTY RoundEnds
PROPERTY GivesUpEmptyHanded
\* The search stops when it returns or the process exited.
CHECK_DEADLOCK FALSE
