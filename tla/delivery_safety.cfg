SPECIFICATION FairSpec
CONSTANTS
  LastMessage = 4
  Invalid <- LastInvalid
  QueueLimit = 1
  ReturnsBuffer = 1
  InitialBackoff = 1
  MaxBackoff = 3
  MaxFaults = 4
INVARIANTS TypeOK SuccessMeansQueued
PROPERTIES NoHotLoop ImplementsOutbox  AnswerComes AllArrive
