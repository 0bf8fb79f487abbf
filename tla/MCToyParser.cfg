CONSTANTS
  Identifiers = {"a", "print"}
  Numbers = {"1"}
  Tokens <- Alphabet
  Scripts <- Beginnings
  Free = 5
SPECIFICATION Spec
INVARIANTS
  ExpressionsFollowGrammar
  SilentHolesAreEmpty
  NothingIsLost
 
\* the parser ends
CHECK_DEADLOCK FALSE
