CONSTANTS
    Columns = 2
    Rows = 6
    CoreLocks = 4
    MemLocks = 4
    CoreBDs = 4
    MemBDs = 4
    MaxChannels = 8
    CoreMemory = 32
    MemTileMemory = 32
    MaxIterations = 4
    NumArbiters = 6
    NumMsels = 4
    NoLockID = NoLockID
    NoBdID = NoBdID
    NoChannel = NoChannel
    NoAddress = NoAddress
    NoBank = NoBank
    Programs <- AllPrograms
SPECIFICATION Spec
INVARIANTS
    TypeOK LocksDistinct GivesUpRightly LocalLocksUnambiguous
    ChainsFollowProgram BdsReachable BuffersDisjoint BanksMatchAddresses
    RoutesApart RoutesReach PacketsReach FifoDataArrives 
CHECK_DEADLOCK FALSE
