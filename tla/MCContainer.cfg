SPECIFICATION Spec
CONSTANTS
  c1 = c1  c2 = c2  r1 = r1  r2 = r2  x1 = x1  v1 = v1  v2 = v2
  Opens <- MCOpens
  Requests <- MCRequests
  Contexts <- MCContexts
  Tenants <- MCTenants
  Contents <- MCContents
  BackendNames <- MCBackendNames
  Backends <- MCBackends
  Files <- MCFiles
  Calls <- MCCalls
  Normalizers <- MCNormalizers
  None = None
SYMMETRY Symmetry
INVARIANTS
  TypeOK
  SnapshotsHold
  MapsArePrivate
  TenantIsWhole
  KeysStayHome
  TenantsStayApart
