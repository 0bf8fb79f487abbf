CONSTANTS
  Width = 6
  Programs <- MCPrograms
  Pipelines <- MCPipelines
SPECIFICATION Spec
INVARIANTS
  KeepsValue
  ErasedUnused
\* the passes end
CHECK_DEADLOCK FALSE
