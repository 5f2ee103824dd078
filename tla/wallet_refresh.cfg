SPECIFICATION Spec
CONSTANTS
    hd = hd
    stamp = stamp
    TxIds = {t1, t2, t3}
    Outs = {0}
    Addrs = {hd, stamp}
    HDAddrs = {hd}
    OutAddr <- MCOutAddr
    Sends = {}
    Forwards = {}
    Sweeps = {}
    MaxSnaps = 1
    MaxRestarts = 0
SYMMETRY Symmetry
PROPERTIES
    RefreshRemovesOnlyMissing
CHECK_DEADLOCK FALSE
