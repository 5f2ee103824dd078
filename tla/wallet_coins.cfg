SPECIFICATION Spec
CONSTANTS
    hd = hd
    stamp = stamp
    TxIds = {t1, t2}
    Outs = {0}
    Addrs = {hd, stamp}
    HDAddrs = {hd}
    OutAddr <- MCOutAddr
    Sends = {s1}
    Forwards = {}
    Sweeps = {}
    MaxSnaps = 1
    MaxRestarts = 1
SYMMETRY Symmetry
INVARIANTS
    TypeOK
    
    ShownCoversCache
    
PROPERTIES
    HeldThawedOnlyByCheckOrNotice
    
CHECK_DEADLOCK FALSE
