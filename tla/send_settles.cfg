SPECIFICATION FairSpec
CONSTANTS
    Envelopes = {e1, e2}
    Genuine = {e1, e2}
    Stamped = {e1}
    MaxClock = 0
    Items = {i}
    LocalRelay = FALSE
    MaxAttempts = 3
    MaxCrashes = 1
    e1 = e1
    e2 = e2
    i = i
PROPERTIES
    SendsSettle
CHECK_DEADLOCK FALSE
