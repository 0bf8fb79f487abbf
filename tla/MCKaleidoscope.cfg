CONSTANTS
  Items <- Consistent
  NoNode <- MCNoNode
  Node <- MCNode
  Var <- MCVar
  Op <- MCOp
  Callee <- MCCallee
  Ast <- MCAst
  Root <- MCRoot
  FnName <- MCFnName
  Params <- MCParams
  LexEnv <- MCLexEnv
  Externs <- MCExterns
  HostArity <- MCHostArity
  Precedence <- MCPrecedence
  BodyOf <- MCBodyOf
SPECIFICATION SessionSpec
INVARIANTS
  ResolvesLexically
  NoAssertFailure
  OnlyCurrentBody
  CallsMatchDeclarations
  CallsAreSafeIfConsistent
PROPERTY ItemsAreWorkedOff
\* the process may have died
CHECK_DEADLOCK FALSE
