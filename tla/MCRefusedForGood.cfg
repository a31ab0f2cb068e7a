CONSTANTS
  p1 = p1
  p2 = p2
  n1 = n1
  n2 = n2
  n3 = n3
  n4 = n4
  n5 = n5
  Pos <- OnePos
  Neg <- FiveNeg
  Parts <- FiveParts
  norm_zip <- Stretched
  MaxValue = 5
  Widest <- FiveWidest
  Programs = {}
  accuracy <- FourFifths
  One = 4
  Targets = {4}
  answer_count = 1
SPECIFICATION Spec
INVARIANT RefusedForGood
\* The program is over once an answer has been reported.
CHECK_DEADLOCK FALSE
