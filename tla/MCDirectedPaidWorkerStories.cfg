SPECIFICATION StoriesSpec
CONSTANTS
  Accounts <- MCAccounts
  NoOne = "none"
  Prices <- MCPrices
  Fees <- MCFees
  MaxDuration = 3
  MaxTime = 3
  MaxGeneration = 2
  MaxStray = 0
  Owner = "owner"
  Worker = "worker"
  w1 = w1
  w2 = w2
  Invocations = {w1, w2}
  SessionOf <- MCSessions
  Confirmations = 1
  DeadlineMargin = 0
  Duration = 3
  ReviewLife = 2
  MaxReviews = 3
  MaxChanges = 2
  MaxFree = 2
  MaxFaults = 2
INVARIANTS
  WorkerTypeOK
  SavedBeforeSent
  OneTransactionPerNonce
  JournalsAreTrue
PROPERTIES
  ForsakenStays
SYMMETRY Symmetry
