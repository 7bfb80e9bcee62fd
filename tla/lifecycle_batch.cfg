\* Two bundles that share a slot and a transaction, and a failing call.
CONSTANTS
    b1 = b1
    b2 = b2
    c1 = c1
    NoBundle = NoBundle
    NoTx = NoTx
    Bundles = {b1, b2}
    Requests = {r1}
    Txs = {t1, t2}
    VerifierCycles = {v1}
    MaxRetry = 2
    StartupExpiry = FALSE
    MaxCrashes = 0
    MaxFaults = 1
    Capacity = 2
    Weight <- EqualWeight
    Priority <- EqualPriority
    Channels <- MCChannels
    ChannelOf <- MCChannelOf
SYMMETRY BatchSymmetry
SPECIFICATION Spec
INVARIANTS
    RecordsSound
PROPERTIES
    ImplementsSettlement
