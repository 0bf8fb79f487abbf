CONSTANT Inputs <- MCInputs
SPECIFICATION Spec
INVARIANTS
  MeaningKept
  BuffersLive
  DialectOfOutput
  
PROPERTY CompilerEnds
\* the compiler ends
CHECK_DEADLOCK FALSE
