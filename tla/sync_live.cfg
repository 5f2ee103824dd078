SPECIFICATION FairSpec
CONSTANTS
    Envelopes = {a, c}
    Genuine = {a, c}
    Stamped = {a, c}
    MaxClock = 1
    Malformed = {c}
    Own = {o}
    Deletable = {}
    Threads = 2
    MaxRetries = 1
    MaxPuts = 3
    MaxDrops = 0
    MaxRestarts = 0
    a = a
    c = c
    o = o
PROPERTIES
    NotifiedIsSaved
    PageIsSaved
CHECK_DEADLOCK FALSE
