SPECIFICATION TablesSpec
CONSTANTS
  cycle1 = cycle1
  cycle2 = cycle2
  cycle3 = cycle3
  worker1 = worker1
  worker2 = worker2
  Cycles = {cycle1, cycle2, cycle3}
  Workers = {worker1, worker2}
  WorkerOf <- MCWorkerOf
  FirstPrimary = worker1
  Slots = 2
  DayHours = 2
  Expiry <- MCExpiry
  ReportBatch = 2
  MaxClock = 6
  MaxLogs = 6
  MaxUpsets = 1
  MaxLost = 1
  MaxPartial = 1
  Terminals = {"shell1", "shell2"}
  AccessKeys = {1, 2}
  MaxLinkRows = 3
  MaxNodes = 3
  MaxCommands = 3
  MaxBroken = 1
  Processes = {"process1", "process2"}
  Releases <- MCReleases
  FirstRelease = 1
  MaxResources = 6
  MaxSyncs = 3
  MaxSetups = 2
  MaxDeploys = 1
  MaxBreaks = 1
  Tasks = {"main", "helper"}
  Main = "main"
  MaxSpans = 3
  MaxEmits = 2
  Base <- MCBase
  Apis <- MCApis
  ApiEndpoints <- MCApiEndpoints
  Externals <- MCExternals
  MaxWalk = 4
CHECK_DEADLOCK FALSE
INVARIANT LayerKept
