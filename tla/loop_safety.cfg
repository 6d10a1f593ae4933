SPECIFICATION Spec
CONSTANTS
  a = a
  b = b
  NoChain = NoChain
  Chains = {a, b}
  N = 2
  ChainOf <- TwoChains
  Retention <- ShortDeep
  WrongNetwork = {}
  MaxLedger = 4
  Escrows <- AllEscrows
  Deploys <- DeploysOf
  Events <- EventsOf
  Seed <- SeedOf
  StartLedger = 0
  EndLedger = 4
  CheckpointInterval = 2
  CatchUpLag = 1
  ResetSlack = 1
  MaxCrashes = 2
INVARIANTS TypeOK NoSilentLoss RegistryCoversCursor NoHoleBehind GapsSignalled ReplayWindow RunEndDurable
PROPERTIES NeverRegresses ImplementsFeed OneChain
