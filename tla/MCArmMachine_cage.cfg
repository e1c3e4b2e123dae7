CONSTANTS
  ByteSize = 16
  WordBits = 16
  MemSize = 48
  VectorBase = 16
  StackBase = 30
  StackStep = 2
  Program <- CageProgram
  IrqBytes = {6, 7}
  GarbageStorage <- CageStorage
  GarbageStatus <- CageStatus
  GarbageMemory <- CageMemory
SPECIFICATION Spec
INVARIANT TypeOK
PROPERTIES UserConfined BanksPrivate MasksReopenedByReturn
CHECK_DEADLOCK FALSE
