SPECIFICATION Spec
CONSTANTS
  E = 2
  Shape <- Mixed
  Watched = {1, 2}
  Moves = {"write", "drift", "vanish"}
  Faults = {}
  Operations = {"remove"}
  SweepEnabled = TRUE
  CandidateKeys = 4
  KeyBudget = 4
  GuardMin = 10
  CatchUpLag = 2
  SweepLag = 1
  MaxLedger = 5
  MaxMoves = 2
  LastChange = 5
  MaxCommands = 1
  MaxCrashes = 0
INVARIANTS NoFalseRemoval
