\* Processes that all wait for each other's userland_semaphore_V stop.
SPECIFICATION AllSpec
CONSTANTS
    t1 = t1
    t2 = t2
    t3 = t3
    s1 = s1
    s2 = s2
    None = None
    Threads <- MCThreads
    Users <- MCUsers
    Semaphores <- MCSemaphores
    BufSize = 2
    Serials = 4
    MaxLength = 3
    MaxWrites = 2
    nameA = nameA
    nameB = nameB
    longA = longA
    NoName = NoName
    NoProcess = NoProcess
    Names <- MCNames
    Cut <- MCCut
    MaxSemaphores = 2
    InitialValues = {0, 1}
    MaxValue = 2
    Careful = TRUE
    Processes <- MCThreads
CHECK_DEADLOCK FALSE
INVARIANTS
    EachRequestAnsweredOnce
    RingHoldsTyped
    ValueCountsSleepers
    ClosedUnused
    NamesLeadToOne
PROPERTIES
    RequestsReturn
    CallsServed
