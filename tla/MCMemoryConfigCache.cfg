SPECIFICATION Spec
CONSTANTS
  Slots = {s1, s2, s3}
  Configs = {c1}
  Callers = {p1, p2}
  NoEntry = NoEntry
  NoSlot = NoSlot
  TTL = 1
  SweepMinInterval = 2
  MaxClock = 2
  MaxVersion = 4
SYMMETRY Symmetry
INVARIANTS
  TypeOK
  SweepCostAmortized
PROPERTIES
  ImplementsContract
  LiveEntriesSurvive
  SetRestoresBound
