SPECIFICATION Spec
CONSTANTS
    Envelopes = {a, b}
    Genuine = {a, b}
    Stamped = {a, b}
    MaxClock = 1
    Malformed = {}
    Own = {}
    Deletable = {b}
    Threads = 2
    MaxRetries = 2
    MaxPuts = 2
    MaxDrops = 1
    MaxRestarts = 1
    a = a
    b = b
INVARIANTS
    TypeOK
    ShownOnce
    ShownIsSavedOrSaving
    
CHECK_DEADLOCK FALSE
