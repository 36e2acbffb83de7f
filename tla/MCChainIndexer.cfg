CONSTANTS
    Confirmations = 1 Window = 1 BatchSize = 1 BlocksPerRun = 2
    Jobs <- MCJobs
    MaxHeight = 4 MaxReorgs = 1 MaxFaults = 1
SPECIFICATION Spec
INVARIANTS IndexerTypeOK RowsAreTheChains ProjectionsFollow
PROPERTIES IndexCatchesUp
CHECK_DEADLOCK FALSE
