CONSTANTS
  Width = 6
  Programs <- MCPrograms
  Pipelines <- MCPipelines
SPECIFICATION Spec
INVARIANT ConstantInPlace
\* the passes end
CHECK_DEADLOCK FALSE
