SPECIFICATION Spec
CONSTANTS
  Contracts = {"e1", "e2", "e3", "dex", "token"}
  Codes = {"escrow", "swap"}
  Approved = {"escrow"}
  Symbols = {"transfer", "init", "fund", "release", "swap"}
  NotASymbol = "none"
  NoAddress = "none"
  Escrows <- Escrow3
  Chain <- ChainOf
  SeedFile = {"e2"}
  Commands <- AllCommands
  QueueSize = 2
  MaxPauseTTL = 2
  MaxLedger = 3
  MaxCommands = 3
  MaxCrashes = 1
  MaxReplays = 0
PROPERTY MutationSurvivesError
