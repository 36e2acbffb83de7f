SPECIFICATION FairOwnerSpec
CONSTANTS
  Accounts <- MCAccounts
  NoOne = "none"
  Prices <- MCPrices
  Fees <- MCFees
  MaxDuration = 3
  MaxTime = 0
  MaxGeneration = 2
  MaxStray = 0
  Owner = "owner"
  Worker = "worker"
  w1 = w1
  Invocations = {w1}
  SessionOf <- NoSessions
  Confirmations = 0
  DeadlineMargin = 0
  Duration = 3
  ReviewLife = 2
  MaxReviews = 4
  MaxChanges = 1
  MaxFree = 0
  MaxFaults = 0
PROPERTIES
  RecheckFreesTheJournal
