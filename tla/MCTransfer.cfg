SPECIFICATION Spec
CONSTANTS
  u1 = u1  d1 = d1  d2 = d2  n1 = n1
  Uploads <- MCUploads
  Downloads <- MCDownloads
  Destinations <- MCDestinations
  Calls <- MCCalls
  MaxSize = 3
  MaxLosses = 1
  Old = Old  None = None  Torn = Torn
INVARIANTS
  TypeOK
  StoredIsTheRest
  NothingLeftBehind
PROPERTIES
  DownloadsReplaceWhole
  TransfersEnd
