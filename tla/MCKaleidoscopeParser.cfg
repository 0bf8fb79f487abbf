CONSTANTS
  Identifiers = {"a"}
  Numbers <- NumberValues
  Ascii <- Characters
  Tokens <- Alphabet
  Scripts <- Beginnings
  Free = 2
SPECIFICATION Spec
INVARIANTS
  ExpressionsFollowGrammar
  PrototypesFitOperators
  NothingIsLost
PROPERTY LoopAdvances
\* the program ends with the file
CHECK_DEADLOCK FALSE
