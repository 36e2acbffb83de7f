SPECIFICATION FunderSpec
CONSTANTS
    Accounts = {a1, a2}
    NoOne = NoOne
    Prices = {2, 3}
    Fees = {0, 1}
    MaxDuration = 1
    MaxTime = 2
    MaxGeneration = 2
    MaxStray = 1
INVARIANTS
    TypeOK
    Solvent
    FunderMadeWhole
    LiabilityIsTheSumOfRefunds
PROPERTIES
    Implements
    FunderGetsOut
