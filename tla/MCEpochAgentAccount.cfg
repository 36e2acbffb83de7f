SPECIFICATION Spec
CONSTANTS
    Wallets = {alice, bob}
    Wrapper = Wrapper
    Nobody = Nobody
    Keys = {k1, k2}
    Limits <- MCLimits
    DayLength = 2
    MaxBundle = 2
    MaxTime = 3
    MaxEpoch = 3
    MaxGeneration = 3
    MaxPauses = 2
INVARIANTS
    TypeOK
    ReceiptsAreBacked
PROPERTIES
    CallbacksChangeNothing
    Implements
CHECK_DEADLOCK FALSE
