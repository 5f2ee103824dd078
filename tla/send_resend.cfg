SPECIFICATION Spec
CONSTANTS
    Envelopes = {e1, e2}
    Genuine = {e1, e2}
    Stamped = {e1, e2}
    MaxClock = 0
    Items = {i}
    LocalRelay = TRUE
    MaxAttempts = 1
    MaxCrashes = 0
    e1 = e1
    e2 = e2
    i = i
INVARIANTS
    NoReplacementStamp
CHECK_DEADLOCK FALSE
