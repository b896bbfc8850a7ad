SPECIFICATION MCSpec
CONSTANTS
  a = a
  b = b
  Byte = {a, b}
  Window = 2
  MaxBody = 1
  MaxLen = 3
  MaxGen = 4
  ShipBody = 2
  Lines <- OneLine
  Edits = {"append", "truncate", "delete"}
  Delays = TRUE
  RegistryLoss = TRUE
  MaxEdits = 2
  MaxFaults = 2
INVARIANTS TypeOK CursorIsAcked PoisonHasCause ShippedIsMirrored
PROPERTIES StoreSteps FileArrives
