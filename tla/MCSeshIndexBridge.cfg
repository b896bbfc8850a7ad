SPECIFICATION Spec
CONSTANTS
  Corpora <- Bridge
  LineLen = 1
  Buffer = 1
  MaxHandlers = 1
  MaxFaults = 0
INVARIANTS
  AgreesWithReindex
