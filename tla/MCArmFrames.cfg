CONSTANTS
  ByteSize = 16
  WordBits = 16
  MemSize = 160
  VectorBase = 96
  StackBase = 128
  StackStep = 4
  Program <- FramesProgram
  IrqBytes = {6, 7}
  GarbageStorage <- FramesStorage
  GarbageStatus <- FramesStatus
  GarbageMemory <- FramesMemory
  Boot <- FramesBoot
  Scratch = {4, 5}
SPECIFICATION FSpec
INVARIANTS SavedInBanks InterruptsNest
PROPERTIES ResumesContext HandlersRestore
