CONSTANTS
  ByteSize = 16
  WordBits = 16
  MemSize = 48
  VectorBase = 16
  StackBase = 24
  StackStep = 2
  Program <- EndingProgram
  IrqBytes = {6}
  GarbageStorage <- SimStorage
  GarbageStatus <- SimStatus
  GarbageMemory <- SimMemory
  Requests <- LiveRequests
  MaxRequests = 2
  MaxIrqs = 2
  BreakAddress = 8
SPECIFICATION SimSpec

PROPERTIES IrqRaised RequestServed EndsWithDebugger
CHECK_DEADLOCK FALSE
