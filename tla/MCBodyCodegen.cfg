CONSTANTS
  NoNode <- MCNoNode
  Node <- MCNode
  Var <- MCVar
  Op <- MCOp
  Callee <- MCCallee
  Ast <- MCAst
  Root <- MCRoot
  FnName <- MCFnName
  Params <- MCParams
  LexEnv <- MCLexEnv
  KnownProtos <- MCKnownProtos
SPECIFICATION Spec
INVARIANTS
  ScopeRestored
  BlocksTerminated
  PhisMatchPredecessors
  DefsDominateUses
  InsertPointOpen
PROPERTY CodegenTerminates
\* one function is generated and the generator has nothing more to do
CHECK_DEADLOCK FALSE
