SPECIFICATION Spec
CONSTANTS
  Opens = {o1, o2, o3}
  Factories = {f1, f2}
  Slots = {s1}
  CacheKinds = {TRUE, FALSE}
  SourceMayFail = FALSE
  CacheMayFail = TRUE
  SourceMayPanic = TRUE
  MaxRev = 1
  NoEntry = NoEntry
  NoCall = NoCall
  Orphan = Orphan
SYMMETRY Symmetry
INVARIANTS
  TypeOK
  SingleFlight
  NoLostWakeup
  CacheCoherent
  NoStaleResult
  CacheOutageNeverFailsOpen
  ReloadNeedsCause
  CancellationStaysInItsLoad
