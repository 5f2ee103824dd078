\* Every generated message type with two accessor calls on an empty or a full
\* one; up to four coins of six values around the code's limits; messages of up
\* to two stamp and two stealth transactions; six calls on a transaction
\* of up to two inputs; three clicks on "next", for a new and an imported seed.
CONSTANTS
    MaxCalls = 2
    CoinValues = {700, 1578, 3000, 6152, 12000, 90000}
    MaxCoins = 4
    Amounts = {1, 546, 5120, 10000, 40000}
    Splits = {40, 50, 59}
    NumChange = 3
    maximumTransactionSize = 520
    Alice = Alice
    Bob = Bob
    MaxTxs = 2
    Faults = {"payload", "hmac", "scheme", "size", "salt", "stamp", "stored"}

    MaxIns = 2
    MaxOuts = 2
    UtxoSats = {20000, 90000}
    Payments = {3000}
    Fees = {0, 700}
    MaxTxnCalls = 6

    s1 = s1
    s2 = s2
    c1 = c1
    c2 = c2
    nothing = nothing
    Seeds = {s1, s2}
    Imported = {s2}
    Clicks = {c1, c2}
    MaxNext = 3
    MaxStops = 1

SPECIFICATION PartsSpec

SYMMETRY Symmetry

INVARIANTS
    WireAgrees
    SetPaysAsAsked
    OpenedAsSent
    ChangeUpToDate
    PhraseOfKey
    SetUpIsPublished

\* Each part ends with its result.
CHECK_DEADLOCK FALSE
