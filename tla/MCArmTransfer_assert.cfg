CONSTANTS
  ByteSize = 16
  WordBits = 16
  MemSize = 48
  VectorBase = 16
  StackBase = 24
  StackStep = 2
  Program <- TransferProgram
  IrqBytes = {}
  GarbageStorage <- TransferStorage
  GarbageStatus <- TransferStatus
  GarbageMemory <- TransferMemory
  Lists <- TransferLists
  Transfers <- Straddling
SPECIFICATION Spec
INVARIANT AssertsHold
CHECK_DEADLOCK FALSE
