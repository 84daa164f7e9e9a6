SPECIFICATION CompilerSpec
CONSTANTS
  Parts = {"replaced"}
  Functions <- MoveFunctions
  Places <- MovePlaces
  AnyIndex = "i"
  Deinits <- MoveDeinits
  Opaque <- Generic
  PathBound = 6
  Borrowed = {}
INVARIANT OwnerOutlivesRequests
CHECK_DEADLOCK FALSE
