SPECIFICATION Spec
CONSTANTS
    hd = hd
    stamp = stamp
    TxIds = {t1, t2}
    Outs = {1}
    Addrs = {hd, stamp}
    HDAddrs = {hd}
    OutAddr <- MCOutAddr
    Sends = {}
    Forwards = {f1}
    Sweeps = {w1}
    MaxSnaps = 1
    MaxRestarts = 0
SYMMETRY Symmetry
PROPERTIES
    CheckDeletesOnlyGone
CHECK_DEADLOCK FALSE
