\* One bundle, two concurrent submissions, overlapping verifier cycles, a crash and a failing call.
CONSTANTS
    b1 = b1
    b2 = b2
    c1 = c1
    NoBundle = NoBundle
    NoTx = NoTx
    Bundles = {b1}
    Requests = {r1, r2}
    Txs = {t1, t2}
    VerifierCycles = {v1, v2}
    MaxRetry = 2
    StartupExpiry = FALSE
    MaxCrashes = 1
    MaxFaults = 1
    Capacity = 1
    Weight <- EqualWeight
    Priority <- MCPriority
    Channels <- MCChannels
    ChannelOf <- MCChannelOf
SYMMETRY Symmetry
SPECIFICATION Spec
INVARIANTS
    TypeOK
    CompletedIsApplied
    SingleCustody
    ExecutionsBounded
    SubmittedOnce
