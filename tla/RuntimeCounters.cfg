SPECIFICATION MCSpec
CONSTANTS
  NULL = NULL
  x = x
  y = y
  Global = Global
  Threads = {t1, t2}
  Names <- MCNames
  BadName = BadName
  Values = {1}
  Expressions <- MCExpressions
  CallKinds = {"hit"}
  MaxVariables = 1
  Locking = TRUE
  Levels = {0}
  Builds <- Generated
  MaxCalls = 3
PROPERTIES
  CountersNeverDecrease
