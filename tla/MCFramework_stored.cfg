SPECIFICATION FrameworkSpec
CONSTANTS
  client1 = client1
  client2 = client2
  key1 = key1
  key2 = key2
  key3 = key3
  list1 = list1
  Clients = {client1, client2}
  CacheKeys = {key1, key2, key3, list1}
  ListKeys = {list1}
  BatchSize = 1
  Policies = {"LFU", "LRU", "RANDOM"}
  MaxEntries = 1
  Tolerance = 0
  AlterLimit = 1
  MaxHits = 1
  MaxLapses = 1
  MaxOps = 3
  Endings <- MCEndings
  MaxLines = 4
  Visitors = {"visitor1"}
  Settings <- MCSettings
  MaxVersion = 3
  Depth = 2
  MaxLoops = 2
  PluggedLayers <- MCPlugged
  Objects = {"object1", "object2", "object3"}
  NewObjects = {"object1"}
  RelKeys = {"row1", "row2"}
  SaveOptions <- MCOptions
  Tasks = {task1}
  Old = Old
  task1 = task1
  task2 = task2
  Main = Main
  Schemas <- MCSchemas
  Root = "u1"
  MaxFailures = 1
  MaxDeleted = 1
CHECK_DEADLOCK FALSE
INVARIANT SuccessIsStored
