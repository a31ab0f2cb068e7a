CONSTANTS
  p1 = p1
  p2 = p2
  n1 = n1
  n2 = n2
  n3 = n3
  n4 = n4
  n5 = n5
  Pos <- MCPos
  Neg <- MCNeg
  Parts <- MCParts
  norm_zip <- Stretched
  MaxValue = 2
  Widest <- MCWidest
  Programs <- MCPrograms
  accuracy <- OneHalf
  One = 4
  Targets = {2, 8}
  answer_count = 2
SPECIFICATION Spec
SYMMETRY Alike
INVARIANT TypeOK
INVARIANT PruningSound
INVARIANT ThresholdFits
INVARIANT AnswersStandAlone
\* The program is over once an answer has been reported.
CHECK_DEADLOCK FALSE
