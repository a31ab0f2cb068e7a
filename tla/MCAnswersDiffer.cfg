CONSTANTS
  p1 = p1
  p2 = p2
  p3 = p3
  p4 = p4
  n1 = n1
  n2 = n2
  n3 = n3
  n4 = n4
  all = all
  other = other
  scattered = scattered
  left = left
  single = single
  right = right
  Pos = {p1, p2, p3, p4}
  Neg = {n1, n2, n3, n4}
  norm_zip <- Stretched
  One = 4
  e_tree <- MCTree
  Program <- MCProgram
  Value <- MCValue
  answer_count = 3
  Accuracies <- MCAccuracies
  Target = 4
  MaxReturned = 3
SPECIFICATION Spec
INVARIANT GlobalAnswersDiffer
\* search() returns.
CHECK_DEADLOCK FALSE
