SPECIFICATION ToolsSpec
CONSTANTS
  Parts = {"edits", "files", "session"}
  Docs = {"main", "lib"}
  Uses <- MCUses
  Edited = {"main", "lib"}
  Watched = {"lib"}
  Asked = {"main"}
  Kinds = {"rename", "hover"}
  Fallible = {"lib"}
  MayEnd = FALSE
  RecentLimit = 1
  Requests = {"r"}
  MaxGeneration = 3
  MaxWrites = 1
  Layout <- MCLayout
  Main = "main"
  Hidden = {"lib"}
  MaxDepth = 3
  MaxQueue = 1
  MaxStops = 2
  Commands = {"launch", "configurationDone", "setBreakpoints", "continue", "stepIn", "stepOut", "frame"}
INVARIANTS
  EditsCurrentText
  DiagnosticsMatch
  NothingResurrected
  BreakpointExact
CHECK_DEADLOCK FALSE
