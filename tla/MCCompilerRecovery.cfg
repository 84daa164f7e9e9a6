SPECIFICATION CompilerSpec
CONSTANTS
  Parts = {"recovery"}
  Functions <- MoveFunctions
  Places <- MovePlaces
  AnyIndex = "i"
  Deinits <- MoveDeinits
  Opaque <- Generic
  PathBound = 6
  Borrowed = {}
INVARIANT EffectsExact
CHECK_DEADLOCK FALSE
