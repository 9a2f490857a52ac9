SPECIFICATION Spec
CONSTANTS
    startup = startup
    t1 = t1
    t2 = t2
    t3 = t3
    t4 = t4
    progA = progA
    progB = progB
    NoProgram = NoProgram
    StartupThread = startup
    MaxProcesses = 4
    OrphansAllowed = TRUE
    Threads <- MCThreads
    Programs <- MCPrograms
SYMMETRY Symmetry
CHECK_DEADLOCK FALSE
PROPERTY JoinReturnsOwnChild
