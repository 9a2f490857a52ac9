SPECIFICATION TLSpec
CONSTANTS
    c1 = c1
    c2 = c2
    r1 = r1
    r2 = r2
    b1 = b1
    NoCpu = NoCpu
    NoResource = NoResource
    MaxThreads = 4
    CPUs <- MCCPUs
    Resources <- MCResources
    Buckets <- MCBuckets
    Hash <- MCHash
    WakeKinds <- MCWakeKinds
SYMMETRY Symmetry
INVARIANTS
    ListsRepresentQueues
    TypeOK
    ReadyListExact
    OneCpuPerThread
    ChainsExact
    SleepersFindable
    RowsReusedSafely
PROPERTY ThreadLifeCycle
