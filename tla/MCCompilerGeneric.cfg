SPECIFICATION CompilerSpec
CONSTANTS
  Parts = {"boxes"}
  Functions <- MoveFunctions
  Places <- MovePlaces
  AnyIndex = "i"
  Deinits <- MoveDeinits
  Opaque <- Generic
  PathBound = 6
  Borrowed = {}
INVARIANT DeinitSeesWhole
CHECK_DEADLOCK FALSE
