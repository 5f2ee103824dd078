\* Desktop: two processes and two calls that provision a profile.  Chats: two
\* addresses, one message that comes and two that are sent, four clicks, one
\* restart.
SPECIFICATION ClientSpec
CONSTANTS
    p1 = p1
    p2 = p2
    k1 = k1
    k2 = k2
    msg = msg
    addr1 = addr1
    addr2 = addr2

    Procs = {p1, p2}
    Mac = TRUE
    Calls = {k1, k2}
    Inbound = {msg}
    MaxReg = 2
    None = None
    MaxStops = 2

    Addrs = {addr1, addr2}
    Me = addr2
    Incoming = {msg}
    Outbound = {p1, p2}
    From <- MCFrom
    Batches = {k1, k2}
    undef = undef
    none = none
    MaxRestarts = 1
    MaxClicks = 4
SYMMETRY Symmetry
INVARIANTS
    
    BundlesVerify
    StableProfile
    ReceiptConsumes
    WindowBehindTor
    MessagesListedOnce
    SendingInProgress
    KeyBelongs
    ReadWhileOpen
\* Every call and click is bounded.
CHECK_DEADLOCK FALSE
