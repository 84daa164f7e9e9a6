SPECIFICATION ProgressSpec
CONSTANTS
  Parts = {"remote", "actor", "messages", "gate", "callbacks", "output", "waits", "server", "debugger"}
PROPERTIES
  ShutdownCompletes
  Teardown
  GateOpens
  HostCallsReturn
  ServerAnswers
  DisconnectEnds
CHECK_DEADLOCK FALSE
