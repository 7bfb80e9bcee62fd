\* The queue on its own: replacement cascades over two channels.
CONSTANTS
    b1 = b1
    b2 = b2
    b3 = b3
    b4 = b4
    b5 = b5
    c1 = c1
    c2 = c2
    NoBundle = NoBundle
    Bundles <- MCBundles
    Channels <- MCChannels
    ChannelOf <- MCChannelOf
    Weight <- MCWeight
    Priority <- MCPriority
    Capacity = 2
SPECIFICATION MempoolSpec
INVARIANTS
    MempoolTypeOK
    SlotsPartitionBundles
    NoEmptySlot
PROPERTIES
    AddBundleLosesNothing
    OnlyLowerPriorityYields
