SPECIFICATION FairSpec
CONSTANTS
  Contracts = {"e1", "e2", "e3", "dex", "token"}
  Codes = {"escrow", "swap"}
  Approved = {"escrow"}
  Symbols = {"transfer", "init", "fund", "release", "swap"}
  NotASymbol = "none"
  NoAddress = "none"
  Escrows <- Escrow3
  Chain <- ChainOf
  SeedFile = {"e2"}
  Commands <- AllCommands
  QueueSize = 1
  MaxPauseTTL = 2
  MaxLedger = 3
  MaxCommands = 1
  MaxCrashes = 0
  MaxReplays = 0
PROPERTY LedgersPass
