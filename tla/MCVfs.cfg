\* Calls are bounded, so the machine may have nothing left to do but to halt.
SPECIFICATION Spec
SYMMETRY Symmetry
CONSTANTS
    t1 = t1
    t2 = t2
    nameA = nameA
    nameB = nameB
    h1 = h1
    h2 = h2
    NoThread = NoThread
    NoName = NoName
    NoHandle = NoHandle
    Halter = Halter
    Threads <- MCThreads
    Names <- MCNames
    Handles <- MCHandles
    MaxFiles = 2
    TotalBlocks = 7
    BlockSize = 2
    InodeBlocks = 2
    Sizes = {0, 3}
    Lengths = {3}
    MaxCalls = 5
    MaxFaults = 1
CHECK_DEADLOCK FALSE
INVARIANTS
    VfsTypeOK
    DiskSoundUnlessTorn
    NothingLeaks
    FilesKeepToThemselves
    UnmountedWhenQuiet
    HandleNamesItsFile
    NobodyStuck
PROPERTY ImplementsVolume
