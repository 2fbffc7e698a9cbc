SPECIFICATION MCSpec
CONSTANTS
  NULL = NULL
  Byte <- MCByte
  Count = 2
  StateSize = 7
  Budgets = {0, 1, 100}
  States <- MCStates
  GivenIndices = {0, 1, 2}
  MayPassNull = TRUE
  Batches <- MCBatches
  StreamCalls <- MCStreamCalls
  Capacities = {0, 1}
  StackStreams = 8
  MemoryMayRunOut = TRUE
  Uninitialized <- MCUninitialized
  MaxCalls = 3
INVARIANTS
  TypeOK
  CountersAgree
PROPERTIES
  OnlyClearForgets
  ReportsAgreeWithCounters
  ReportsExactlyTheChanges
  StreamsReadWholeRecords
