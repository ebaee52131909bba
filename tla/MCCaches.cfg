SPECIFICATION CachesSpec
CONSTANTS
  request1 = request1
  request2 = request2
  Clients = {"browser"}
  Requests = {request1, request2}
  Keys = {"old", "key1", "key2"}
  Users = {"user"}
  StaleKeys = {"old"}
  NoKey = NoKey
  NoUser = NoUser
  Absent = Absent
  MaxWrites = 1
  Backend = "cached_db"
  Interrupted = "override"
  CycleAtLogin = TRUE
  SaveEveryRequest = FALSE
  CreateFaults = FALSE
  CacheFaults = FALSE
  AsyncBackends = {"starlette"}
  SyncBackends = {"django"}
  Aliases = {"default"}
  OpsAlias = "__ops"
  Extensions = {"users"}
  Routes = {"users", "ops"}
  OpsRoute = "ops"
SYMMETRY MCSymmetry
INVARIANT AnonymousKeyStaysAnonymous
INVARIANT StartsComplete
INVARIANT CacheOfDbBacked
PROPERTY RevokedStaysGone
