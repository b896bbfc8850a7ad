SPECIFICATION Spec
CONSTANTS
  a = a
  b = b
  Byte = {a, b}
  Window = 2
  MaxBody = 2
  MaxLen = 3
  MaxGen = 4
  ShipBody = 2
  Lines <- TwoLines
  Edits = {"append", "replace"}
  Delays = FALSE
  RegistryLoss = TRUE
  MaxEdits = 4
  MaxFaults = 2
INVARIANTS
  QuiescentIsMirrored
