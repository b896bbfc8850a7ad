SPECIFICATION Spec
CONSTANTS
  a = a
  b = b
  Byte = {a, b}
  Claims <- MCClaims
  Window = 2
  MaxBody = 1
  MaxLen = 3
  MaxGen = 2
  MaxDrops = 1
SYMMETRY Symmetry
INVARIANTS RowsBacked DurableAck OpenedForDivergence
PROPERTIES MirrorAppendOnly PoisonFrozen DropAudited
