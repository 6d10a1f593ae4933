SPECIFICATION FairSpec
CONSTANTS
  E = 2
  Shape <- Mixed
  Watched = {1, 2}
  Moves = {"write", "drift", "vanish"}
  Faults = {"sweepFetch", "commandFetch"}
  Operations = {"track", "refresh", "remove", "reconcile"}
  SweepEnabled = TRUE
  CandidateKeys = 4
  KeyBudget = 3
  GuardMin = 10
  CatchUpLag = 2
  SweepLag = 1
  MaxLedger = 6
  MaxMoves = 1
  LastChange = 3
  MaxCommands = 1
  MaxCrashes = 1
INVARIANTS TypeOK FilterSound RemovalsTrue ActivityCovered
PROPERTIES Converges
