SPECIFICATION MCSpec
CONSTANTS
  NULL = NULL
  Byte <- MCByte
  Count = 2
  StateSize = 7
  Budgets = {0, 1, 100}
  States <- MCStates
  GivenIndices = {0, 1, 2}
  MayPassNull = FALSE
  Batches <- MCBatches
  StreamCalls <- MCStreamCalls
  Capacities = {1}
  StackStreams = 8
  MemoryMayRunOut = TRUE
  Uninitialized <- MCUninitialized
  MaxCalls = 2
PROPERTY
  StreamsObserveEveryRecord
