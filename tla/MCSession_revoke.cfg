SPECIFICATION SettingSpec
CONSTANTS
  c1 = c1
  r1 = r1
  r2 = r2
  k0 = k0
  k1 = k1
  k2 = k2
  u1 = u1
  Clients = {c1}
  Requests = {r1, r2}
  Keys = {k0, k1, k2}
  Users = {u1}
  StaleKeys = {k0}
  NoKey = NoKey
  NoUser = NoUser
  Absent = Absent
  Backend = "cached_db"
  Interrupted = "override"
  CycleAtLogin = TRUE
  SaveEveryRequest = FALSE
  CreateFaults = FALSE
  CacheFaults = FALSE
  MaxWrites = 1
  Callers = {"task1", "task2"}
  MaxRequests = 2
  MaxBlocks = 2
  Middlewares = 2
  MaxServed = 3
  Templates <- MCTemplates
  Unions <- MCUnions
  Gifts <- MCGifts
  Servers = {"starlette", "sanic"}
  MaxHops = 2
SYMMETRY Symmetry
INVARIANT RevokedUnreadable
CHECK_DEADLOCK FALSE
