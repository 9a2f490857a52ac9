SPECIFICATION Spec
CONSTANTS
    p1 = p1
    p2 = p2
    p3 = p3
    nameA = nameA
    nameB = nameB
    longA = longA
    NoProcess = NoProcess
    NoName = NoName
    MaxSemaphores = 2
    InitialValues = {0, 1}
    MaxValue = 2
    Careful = FALSE
    Processes <- MCProcesses
    Names <- MCNames
    Cut <- MCCut
SYMMETRY Symmetry
CHECK_DEADLOCK FALSE
INVARIANT FreshNotAvailable
