SPECIFICATION Spec
CONSTANTS
    Wallets = {alice, bob}
    Nobody = Nobody
    Prices = {1, 2}
    MaxDuration = 1
    MaxBids = 2
    MaxGifts = 1
    MaxTime = 1
SYMMETRY Symmetry
INVARIANTS
    BidsAreBacked
    BidsEndOnce
CHECK_DEADLOCK FALSE
