CONSTANTS
    d1 = d1 d2 = d2 w1 = w1 w2 = w2
    Deposits = {d1, d2} Workers = {w1, w2}
    PunkOf <- MCPunkOf Amount <- MCAmount Life <- MCLife Requested <- MCRequested
    LeaseTerm = 1 LaneTerm = 1 Cutoff = 2 Costs = {2}
    MaxAttempts = 4 MaxSends = 2 MaxTime = 2 MaxFaults = 1
SPECIFICATION Spec
INVARIANTS PriorityTypeOK NothingSentIsForgotten LedgerIsReceipts CountIsMints
PROPERTIES OverMeansQuiet
SYMMETRY Symmetry
CHECK_DEADLOCK FALSE
