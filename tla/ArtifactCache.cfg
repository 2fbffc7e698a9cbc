SPECIFICATION MCSpec
CONSTANTS
  NULL = NULL
  Byte <- MCByte
  Keys <- MCKeys
  Hash <- MCHash
  EntryCount = 2
  MaxKeySize = 2
  MaxPayloadSize = 1
  Values <- MCValues
  NullValueSizes = {0}
  Capacities = {0, 1}
  Budgets = {0, 1, 100}
  HeaderSize = 3
  Uninitialized <- MCUninitialized
  MaxCalls = 4
INVARIANTS
  TypeOK
  SlotIntegrity
PROPERTIES
  OccupancyIsAccounted
  EveryLossIsCounted
  ForgetsButNeverLies
