SPECIFICATION FairSpec
CONSTANTS
  a = a
  b = b
  NoChain = NoChain
  Chains = {a, b}
  N = 2
  ChainOf <- SameChain
  Retention <- ShortDeep
  WrongNetwork = {}
  MaxLedger = 3
  Escrows <- AllEscrows
  Deploys <- DeploysOf
  Events <- EventsOf
  Seed <- SeedOf
  StartLedger = 1
  EndLedger = 0
  CheckpointInterval = 2
  CatchUpLag = 2
  ResetSlack = 1
  MaxCrashes = 1
PROPERTIES CatchesUp EvidenceReachesBroker
