SPECIFICATION Spec
CONSTANTS
    c1 = c1
    c2 = c2
    a = a
    b = b
    Idle = Idle
    CPUs <- MCCPUs
    Tids <- MCTids
    Programs <- MCPrograms
    Pages <- MCPages
    StaticPages = {0}
    NoPage = 0
    MaxRows = 2
    Leftovers <- MCLeftovers
    TlbSize = 1
VIEW View
SYMMETRY Symmetry
CONSTRAINT OneBuffer
CHECK_DEADLOCK FALSE
INVARIANT ProcessesIsolated
