SPECIFICATION KSSpec
CONSTANTS
    c1 = c1
    c2 = c2
    s1 = s1
    s2 = s2
    b1 = b1
    NoCpu = NoCpu
    NoResource = NoResource
    MaxThreads = 4
    InitialValues = {0, 1}
    MaxValue = 1
    CPUs <- MCCPUs
    Resources <- MCSemaphores
    Buckets <- MCBuckets
    Hash <- MCHash
SYMMETRY Symmetry
INVARIANTS
    ValueCountsWaiters
    LockHolderInKernel
    NoWakeMisses
PROPERTY ImplementsSemaphore
