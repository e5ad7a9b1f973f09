CONSTANTS
    Cmds = {"a", "b", "c"}
    NoCmd = "none"
    MaxEntries = 4
    MaxLine = 5
    Paths = {"root", "home", "sub"}
    ParentOf <- Tree
    HomeDir = "home"
    NoDir = "none"
    Named = {"sub"}
    MaxArgs = 2
    Tasks = {"p1", "p2", "p3"}
    InitTask = "p1"
    NoTask = "none"
    Slots = {"p1", "p2"}
    InitSlot = "p1"
    NPages = 15
    PgSize = 2
    TopPage = 3
    Levels = 2
    Growth <- SbrkSizes
    SegmentEnds = {0, 1}
    Argc = {1}
    CPUs = {1, 2}
    NoCPU = 0
    SpinLocks = {"a", "b"}
    Clients = {1, 2}
    Nobody = 0
    Bufs = {1, 2}
    Sectors = {1, 2, 3}
    NDescs = {5, 8}
    MaxPinned = 1
    InputBuf = 2
    IndexMod = 4
    UartFifo = 2
    Writers = {1}
    ReadSizes = {1, 3}
    WriteLengths = {2}
    Sides = {"client", "server"}
    MaxTyped = 2
    Burst = 2
    MaxOnWay = 3
    HeapStart = 2
    HeapEnd = 14
    MoreUnits = 4
    Units = {2, 3}
SPECIFICATION AllSpec
CHECK_DEADLOCK FALSE
INVARIANTS
    Persistent HistorySound LineUnderstood DirsSound FamilySound NoLostExit MemorySound
    SpinSound DiskSound ConsoleInput SerialOutput ChatSound HeapSound
