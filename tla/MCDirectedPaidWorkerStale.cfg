SPECIFICATION WorkerSpec
CONSTANTS
  Accounts <- MCAccounts
  NoOne = "none"
  Prices <- MCPrices
  Fees <- MCFees
  MaxDuration = 3
  MaxTime = 3
  MaxGeneration = 1
  MaxStray = 0
  Owner = "owner"
  Worker = "worker"
  w1 = w1
  w2 = w2
  Invocations = {w1, w2}
  SessionOf <- OneSession
  Confirmations = 1
  DeadlineMargin = 0
  Duration = 3
  ReviewLife = 2
  MaxReviews = 1
  MaxChanges = 0
  MaxFree = 1
  MaxFaults = 1
INVARIANTS
  OneReservationOfTheSigner
SYMMETRY Symmetry
