\* A process that was spawned when the thread table is full, and the end of the
\* initial program, stop the kernel.
SPECIFICATION Spec
CONSTANTS
    startup = startup
    t1 = t1
    t2 = t2
    t3 = t3
    t4 = t4
    progA = progA
    progB = progB
    NoProgram = NoProgram
    StartupThread = startup
    MaxProcesses = 4
    OrphansAllowed = FALSE
    Threads <- MCThreads
    Programs <- MCPrograms
SYMMETRY Symmetry
CHECK_DEADLOCK FALSE
INVARIANTS
    TypeOK
    SlotsOwnedOnce
    JoinersNotForgotten
    RunsWhatWasSpawned
PROPERTY JoinReturnsOwnChild
