SPECIFICATION Spec
CONSTANTS
  Opens = {o1, o2}
  Factories = {f1}
  Slots = {s1}
  CacheKinds = {TRUE}
  SourceMayFail = FALSE
  CacheMayFail = FALSE
  SourceMayPanic = FALSE
  MaxRev = 1
  NoEntry = NoEntry
  NoCall = NoCall
  Orphan = Orphan
INVARIANT
  SubsequentOpensSeeUpdate
