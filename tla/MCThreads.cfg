SPECIFICATION ThreadsSpec
CONSTANTS
  Cycle = Cycle
  Responses = {"response1", "response2", "response3"}
  Flushers = {flusher}
  MaxBacklog = 2
  MaxFaults = 1
  Lockers = {"thread1", "thread2"}
  LockKeys = {"key1", "key2"}
  Timed = TRUE
  MaxEnters = 2
  N = 2
  MaxLoops = 3
  MaxLatency = 2
  Overshoot = 1
  MaxAfter = 2
  DatedHeaders = TRUE
  MaxTime = 27
  Plugins <- AllChains
INVARIANT TargetsAreLocked
INVARIANT SendBound
INVARIANT Deadline
PROPERTY PassCoversQueue
PROPERTY SecondsHonoured
PROPERTY WaitsEnd
CHECK_DEADLOCK FALSE
