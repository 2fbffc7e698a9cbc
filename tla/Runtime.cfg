SPECIFICATION MCSpec
CONSTANTS
  NULL = NULL
  x = x
  y = y
  Global = Global
  Threads = {t1, t2}
  Names <- MCNames
  BadName = BadName
  Values = {1, 2}
  Expressions <- MCExpressions
  CallKinds = {"hit", "null_float"}
  MaxVariables = 1
  Locking = TRUE
  Levels = {0}
  Builds <- MCBuilds
  MaxCalls = 4
INVARIANTS
  TypeOK
  MutexIsHeldInsideCalls
  AnswersReflectOneMoment
  FailuresAreCounted
  CallsAddUp
  ErrorRecordsAgree
SYMMETRY MCSymmetry
