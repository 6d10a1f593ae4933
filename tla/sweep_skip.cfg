SPECIFICATION Spec
CONSTANTS
  E = 2
  Shape <- Mixed
  Watched = {1, 2}
  Moves = {"write", "drift", "vanish"}
  Faults = {"sweepFetch"}
  Operations = {}
  SweepEnabled = TRUE
  CandidateKeys = 4
  KeyBudget = 4
  GuardMin = 10
  CatchUpLag = 2
  SweepLag = 1
  MaxLedger = 6
  MaxMoves = 2
  LastChange = 6
  MaxCommands = 0
  MaxCrashes = 0
INVARIANTS FilterAlwaysSound
