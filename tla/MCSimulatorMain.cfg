CONSTANTS
  named = named
  silent = silent
  holder = holder
  Names = {1, 2}
  MaxFiles = 2
  Senders = {named, silent}
  IrqName <- MCIrqName
  Others = {holder}
  Backlog = 1
  Descriptors = {6}
  Options <- MCOptions
  MaxOptions = 3
  MaxRequests = 1
SPECIFICATION MainSpec
INVARIANTS SearchFindsNamed NamedExceptionRaised
PROPERTIES SearchEnds SenderHeard
CHECK_DEADLOCK FALSE
