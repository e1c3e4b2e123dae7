CONSTANTS
  ByteSize = 16
  WordBits = 16
  MemSize = 48
  VectorBase = 16
  StackBase = 24
  StackStep = 2
  Program <- LoopingProgram
  IrqBytes = {6}
  GarbageStorage <- SimStorage
  GarbageStatus <- SimStatus
  GarbageMemory <- SimMemory
  Requests <- LiveRequests
  MaxRequests = 2
  MaxIrqs = 1
  BreakAddress = 8
SPECIFICATION SimSpec

PROPERTY IrqRaised
CHECK_DEADLOCK FALSE
