CONSTANT Programs <- Programs_
SPECIFICATION Spec
INVARIANTS
  InvariantsAreTheRest
  HoistedInOrder
  KeepsDominance
PROPERTY PassEnds
\* the pass ends
CHECK_DEADLOCK FALSE
