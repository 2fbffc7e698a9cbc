SPECIFICATION MCFairSpec
CONSTANTS
  NULL = NULL
  ERROR = ERROR
  first = first
  second = second
  third = third
  twice = twice
  over = over
  open = open
  Nodes = {first, second, third, twice, over, open}
  Values <- MCValues
  Operators = {"+", "-", "/"}
  Apply <- MCApply
  Same <- MCSame
  Op <- MCOp
  Args <- MCArgs
  Envs <- MayBind
  Meaning <- MCMeaning
  Steady <- MCSteady
  PipelineOps <- MCPipelineOps
  MaxSize = 2
  CompileThreshold = 1
  MaxClauses = 1
  SpecThreshold = 2
  Levels = {1, 3}
  RewriteThreshold = 2
  RewriteInterval = 2
  CompiledHitsCount = FALSE
  MaxRequests = 5
  MaxRestarts = 1
INVARIANTS
  TypeOK
  CacheStaysBounded
PROPERTIES
  AnswersAsIfComputed
  EvictsLeastRecentlyUsed
  EveryCallReturns
