SPECIFICATION Spec
CONSTANTS
  MaxAttempts = 3
  InitialBackoff = 1
  MaxBackoff = 3
  TipWaitInterval = 1
  TipStallAfter = 2
  TipStallSlack = 2
  LedgerFetchTimeout = 2
  ReadyStaleAfter = 3
  HeartbeatInterval = 3
  HeartbeatTimeout = 2
  LedgerEvery = 2
  Never = Never
  MaxPauseTTL = 2
INVARIANTS TypeOK NoFakeStall HeldBounded NoFalseAlarm PauseShown
PROPERTIES PingMeansLedger
