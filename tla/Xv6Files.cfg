CONSTANTS
    u1 = u1
    u2 = u2
    Users = {u1, u2}
    Nobody = Nobody
    NInodes = 4
    NBlocks = 5
    NDirect = 1
    NIndirect = 1
    DirSlots = 3
    NFile = 2
    NOFile = 2
    WriteMax = 1
    Names = {"a", "b"}
    Calls <- SharedCalls
    WriteSizes = {2}
    MaxCalls = 3
    MaxCrashes = 1
SPECIFICATION Spec
SYMMETRY Both
CHECK_DEADLOCK FALSE
INVARIANTS LinksOnDisk BlocksSound OrphansAreUsed NoLockCycle NoPanic TablesSound
