CONSTANTS
  Items <- Inconsistent
  NoNode <- MCNoNode
  Node <- MCNode
  Var <- MCVar
  Op <- MCOp
  Callee <- MCCallee
  Ast <- MCAst
  Root <- MCRoot
  FnName <- MCFnName
  Params <- MCParams
  LexEnv <- MCLexEnv
  Externs <- MCExterns
  HostArity <- MCHostArity
  Precedence <- MCPrecedence
  BodyOf <- MCBodyOf
SPECIFICATION SessionSpec
INVARIANT CallsAreSafe
CHECK_DEADLOCK FALSE
