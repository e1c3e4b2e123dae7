CONSTANTS
  ByteSize = 16
  WordBits = 16
  MemSize = 48
  VectorBase = 16
  StackBase = 24
  StackStep = 2
  Program <- EndingProgram
  IrqBytes = {6}
  GarbageStorage <- SimStorage
  GarbageStatus <- SimStatus
  GarbageMemory <- SimMemory
  Requests <- AllRequests
  MaxRequests = 3
  MaxIrqs = 1
  BreakAddress = 8
SPECIFICATION SimSpec
INVARIANT SimTypeOK
PROPERTIES OneUser ContinueObeysBreakpoint RegistersWrittenBack MemoryWriteReported
CHECK_DEADLOCK FALSE
