CONSTANTS
  Sources <- Modules
  Within <- MCWithin
SPECIFICATION Spec
INVARIANTS
  UsesDominated
  LossHasAReason
  SoundIsAccepted
\* the generator ends
CHECK_DEADLOCK FALSE
