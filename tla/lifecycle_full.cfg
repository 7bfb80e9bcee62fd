\* A bundle that displaces another and one heavier than a slot, over a crash and a boot with startup expiry.
CONSTANTS
    b1 = b1
    b2 = b2
    c1 = c1
    NoBundle = NoBundle
    NoTx = NoTx
    Bundles = {b1, b2}
    Requests = {r1}
    Txs = {t1}
    VerifierCycles = {v1}
    MaxRetry = 2
    StartupExpiry = TRUE
    MaxCrashes = 1
    MaxFaults = 0
    Capacity = 1
    Weight <- HeavyWeight
    Priority <- MCPriority
    Channels <- MCChannels
    ChannelOf <- MCChannelOf
SPECIFICATION Spec
INVARIANTS
    SingleCustody
