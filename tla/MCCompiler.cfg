SPECIFICATION CompilerSpec
CONSTANTS
  Parts = {"records", "lists", "boxes", "loops", "branches", "conditions", "turns", "edits", "declared", "backend"}
  Functions <- MoveFunctions
  Places <- MovePlaces
  AnyIndex = "i"
  Deinits <- MoveDeinits
  Opaque <- Generic
  PathBound = 6
  Borrowed = {}
INVARIANTS
  AcceptedSafe
  RejectedByPath
  CompletionSound
  LoansSound
  EffectsSound
  BackendFaithful
CHECK_DEADLOCK FALSE
