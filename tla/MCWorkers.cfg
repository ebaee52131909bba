SPECIFICATION WorkersSpec
CONSTANTS
  Pids <- MCPids
  Retention = 3
  MaxStarts = 3
  MaxLate = 2
  Watchers = {"thread1", "thread2"}
  Subscribed = TRUE
  NoValue = NoValue
  UserWindow = 2
  DefaultWindow = 1
  UserPause = 1
  DefaultPause = 2
  MinTimes = 2
  MaxMinute = 3
  MaxIncidents = 4
  MaxCount = 2
  MaxCalls = 3
  Servants = {"thread1", "thread2"}
  Savers = {"cycle1"}
  MaxLogged = 2
  MaxSaves = 2
  MaxUnsaved = 1
INVARIANT OrphanOnlyIfLate
INVARIANT CountedOnce
PROPERTY ElectionSettles
PROPERTY IncidentsCompressed
PROPERTY TriggerEnds
CHECK_DEADLOCK FALSE
