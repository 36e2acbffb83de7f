SPECIFICATION FairWorkerSpec
CONSTANTS
  Accounts <- MCAccounts
  NoOne = "none"
  Prices <- MCPrices
  Fees <- MCFees
  MaxDuration = 3
  MaxTime = 4
  MaxGeneration = 1
  MaxStray = 0
  Owner = "owner"
  Worker = "worker"
  w1 = w1
  w2 = w2
  Invocations = {w1, w2}
  SessionOf <- NoSessions
  Confirmations = 1
  DeadlineMargin = 0
  Duration = 3
  ReviewLife = 2
  MaxReviews = 1
  MaxChanges = 1
  MaxFree = 0
  MaxFaults = 1
PROPERTIES
  AuthorizationIsTakenUp
  MintIsRecorded
