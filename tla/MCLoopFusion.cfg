CONSTANTS
  Functions <- MCFunctions
  MaxSteps = 70
SPECIFICATION FusionSpec
INVARIANTS
  FusedOnce
  
\* the pass ends
CHECK_DEADLOCK FALSE
