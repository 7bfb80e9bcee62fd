\* A bundle is resubmitted after it failed.
CONSTANTS
    b1 = b1
    b2 = b2
    c1 = c1
    NoBundle = NoBundle
    NoTx = NoTx
    Bundles = {b1}
    Requests = {r1}
    Txs = {t1}
    VerifierCycles = {v1}
    MaxRetry = 1
    StartupExpiry = FALSE
    MaxCrashes = 0
    MaxFaults = 0
    Capacity = 1
    Weight <- EqualWeight
    Priority <- MCPriority
    Channels <- MCChannels
    ChannelOf <- MCChannelOf
SPECIFICATION FairSpec
PROPERTIES
    ReusedBundleProceeds
