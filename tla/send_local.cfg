SPECIFICATION Spec
CONSTANTS
    Envelopes = {e1, e2, e3}
    Genuine = {e1, e2, e3}
    Stamped = {e1, e2}
    MaxClock = 1
    Items = {i, j}
    LocalRelay = TRUE
    MaxAttempts = 3
    MaxCrashes = 1
    e1 = e1
    e2 = e2
    e3 = e3
    i = i
    j = j
INVARIANTS
    TypeOK
    PaidBeforeRelayed
    PaidNeverRefused
    ConfirmedWasDelivered
    OneCopy
SYMMETRY Symmetry
CHECK_DEADLOCK FALSE
