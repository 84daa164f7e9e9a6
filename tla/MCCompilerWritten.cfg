SPECIFICATION CompilerSpec
CONSTANTS
  Parts = {"written"}
  Functions <- MoveFunctions
  Places <- MovePlaces
  AnyIndex = "i"
  Deinits <- MoveDeinits
  Opaque <- Generic
  PathBound = 6
  Borrowed = {}
INVARIANT BorrowsValid
CHECK_DEADLOCK FALSE
