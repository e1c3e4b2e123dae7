CONSTANTS
  ByteSize = 16
  WordBits = 16
  MemSize = 48
  VectorBase = 16
  StackBase = 24
  StackStep = 2
  Program <- Computation
  IrqBytes = {}
  GarbageStorage <- Registers
  GarbageStatus <- Status
  GarbageMemory <- Cleared
SPECIFICATION Spec
INVARIANT ZeroCountsAsReferenced
CHECK_DEADLOCK FALSE
