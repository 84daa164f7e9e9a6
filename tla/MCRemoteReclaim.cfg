SPECIFICATION RemoteSpec
CONSTANTS
  Parts = {"vm"}
  Callers = {c1, c2}
  Worker = w
  Threads = {c1, c2, w}
  Requests = {r1, r2}
INVARIANT PublishedBeforeReclaim
