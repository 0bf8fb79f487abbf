CONSTANT Programs <- Functions
SPECIFICATION Spec
INVARIANTS
  SolvesEquations
  ClosedNeverFails
  OnlyMatMulRejected
PROPERTY ImplementsEquations
\* the pass ends
CHECK_DEADLOCK FALSE
