SPECIFICATION RemoteSpec
CONSTANTS
  Parts = {"vm", "native"}
  Callers = {c1, c2}
  Worker = w
  Threads = {c1, c2, w}
  Requests = {r1, r2, r3}
SYMMETRY AnyOrder
INVARIANTS
  ExactlyOnce
  PendingReachable
  AwaitWitness
  Containment
  PromptStop
  MailboxOpen
  JoinsIdleWorker
  WordsFreedOnce
  FailurePublishes
  JoinsAnother
PROPERTIES
  KeepsPromise
