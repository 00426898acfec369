CONSTANTS
  n1 = n1
  n2 = n2
  n3 = n3
  Ids <- MCIds
  Nil = Nil
  MaxIndex = 1
  MaxChanges = 2
SYMMETRY Symmetry
SPECIFICATION Spec
INVARIANTS
  ResultIsReference
PROPERTIES
  DecisionIsFinal
  QuorumsOverlap
CHECK_DEADLOCK FALSE
