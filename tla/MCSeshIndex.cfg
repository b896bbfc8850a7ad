SPECIFICATION MCSpec
CONSTANTS
  Corpora <- Pairs
  LineLen = 1
  Buffer = 1
  MaxHandlers = 1
  MaxFaults = 0
INVARIANTS PairsAgree RowsSound
PROPERTIES LinesArrive
