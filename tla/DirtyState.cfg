SPECIFICATION MCSpec
CONSTANTS
  NULL = NULL
  Byte <- MCByte
  Keys <- MCKeys
  Hash <- MCHash
  EntryCount = 2
  MaxKeySize = 2
  MaxPayloadSize = 1
  States <- MCStates
  NullStateSizes = {0}
  Budgets = {0, 1, 100}
  HeaderSize = 3
  Uninitialized <- MCUninitialized
  MaxCalls = 4
INVARIANTS
  TypeOK
  SlotIntegrity
  CountersAgree
PROPERTIES
  EveryForgottenKeyIsCounted
  NeverMissesAChange
