SPECIFICATION MCSpec
CONSTANTS
  NULL = NULL
  ERROR = ERROR
  first = first
  second = second
  third = third
  twice = twice
  over = over
  open = open
  Nodes = {first, over}
  Values <- MCValues
  Operators = {"+", "-", "/"}
  Apply <- MCApply
  Same <- MCSame
  Op <- MCOp
  Args <- MCArgs
  Envs <- OneEnv
  Meaning <- MCMeaning
  Steady <- MCSteady
  PipelineOps <- MCPipelineOps
  MaxSize = 0
  CompileThreshold = 2
  MaxClauses = 2
  SpecThreshold = 2
  Levels = {2}
  RewriteThreshold = 2
  RewriteInterval = 2
  CompiledHitsCount = FALSE
  MaxRequests = 4
  MaxRestarts = 0
INVARIANT
  NoSpuriousErrors
