SPECIFICATION FairSpec
CONSTANTS
  Opens = {o1, o2}
  Factories = {f1}
  Slots = {s1}
  CacheKinds = {TRUE}
  SourceMayFail = TRUE
  CacheMayFail = TRUE
  SourceMayPanic = TRUE
  MaxRev = 2
  NoEntry = NoEntry
  NoCall = NoCall
  Orphan = Orphan
PROPERTIES
  OpenReturns
  CanceledOpenReturns
