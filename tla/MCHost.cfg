SPECIFICATION HostSpec
CONSTANTS
  Parts = {"callbacks", "output", "table", "exhausted", "waits", "handles", "transfer", "foreign"}
  CThreads = {"c1", "c2"}
  Capacity = 2
  ByteLimit = 2
  MaxEvents = 4
  Owners = {"o1", "o2", "o3"}
  MaxToken = 2
  Limit = 2
  MaxWritten = 3
  Threads = {"t1", "t2", "t3"}
  Kinds = {"listen", "connect", "accept", "wait", "read", "write", "close"}
  Descriptors = {"f1", "f2"}
  MaxHandle = 3
  Timeout = 2
  MaxSockets = 3
  MaxInput = 1
  MaxOutput = 5
  Chunks = 2
  MaxResources = 3
  MaxDepth = 2
INVARIANTS
  CallbackDelivery
  AwaitExact
  ChildrenOwned
  WaitKeepsSocket
  WritesWhole
  NothingDangles
  LeasesExact
CHECK_DEADLOCK FALSE
