SPECIFICATION ValuesSpec
CONSTANTS
  Owner = o
  Viewers = {v1, v2}
  MaxRuns = 2
  Handles = {h1, h2}
  Fields = {8, 9}
  RecordsAt = {1}
  Width = 2
  Depth = 3
  MaxGeneration = 2
  Tasks = {"main", "a", "b"}
  Coroutines = {"a", "b"}
  Workers = {"w1", "w2"}
  Kinds = {"owned", "partial", "handle"}
  MaxValues = 3
  MaxFrames = 2
  MaxFails = 3
  MaxExecutions = 2
  OsThreads = {t1, t2}
  MaxCopies = 4
  MaxWires = 2
  MaxRefs = 3
  t1 = t1
  t2 = t2
  h1 = h1
  h2 = h2
  Parts = {"contained"}
INVARIANT FailureContained
CHECK_DEADLOCK FALSE
