SPECIFICATION NativeSpec
CONSTANTS
    NumCpus = 3
    Workloads <- CallWorkloads
    StateFields = {"state"}
    InfoFields = {"info"}
    FieldValues = {0, 1}
    HeapPages = 4
    ExtraPages = 3
    HeapBase = 1
    ExBase = 6
    MaxRequest = 3
    PoolPages = {1, 2, 3, 4}
    PerPage = 2
    NodesPerPage = 3
    FreeUnusedAt = 3
    MaxHeld = 4
    AllocRequests <- PoolRequests
    GmCpus = {0, 1}
    GmStarts <- MemoryStarts
    TableAddrs = {1, 2}
    MaxChanges = 1
    MaxWrites = 1
    Fanout = 2
    TopLevel = 3
    MamRequests <- MapRequests
    SuperPages = TRUE
    QueryPages = {3}
    MaxUpdates = 3
    MaxCalls = 6
    MaxNonce = 14
    Machines = {m1, m2}
    MaxPolicyKeys = 2
    MaxHierarchies = 1
    MaxProgramKeys = 1
    MaxResets = 0
    TransientSlots = 3
    SessionSlots = 2
    MaxRuns = 2
    MaxLost = 1
    BootConfigs <- Boots
    MaxEntries = 10
    TotalMem = 52
    StackPages = 1
    MaxProcessors = 2
    Aps = {1, 2}
    ImageSize = 3
    StackSize = 2
    Locked = {0}
    LaCpus = {0, 1}
    ApicIdOf <- ApicIdentifiers
    BasePages = {0, 1}
    PhysPages = 12
    Low = 8
    VirtFirst = 10
    VirtLast = 15
    TablePages = 8
    LayoutConfigs <- Layouts
    ApicPages = {0, 10}
    RegisterWrites <- GuestRegisterWrites
    MaxRegisterWrites = 1
    LayoutCpus = {0, 1}
    CpuConfigs <- GuestCpus
    GuestCr0s <- Cr0Values
    GuestCr4s <- Cr4Values
    Cr3s = {0, 1}
    MaxRequests = 1
    Unrestricted = TRUE
    Ports = {"p1", "p2"}
    IoSlots = 1
    CallIds = {"c1"}
    CallSlots = 1
    MaxSetups = 1
    Tasks = {"A", "B", "C"}
    FirstTask = "A"
    LdtOf <- TaskLdts
    SegmentsOf <- TaskSegments
    MaxWork = 3
    RpcOps = {"Seal", "Unseal", "ExtendTaoName"}
    MaxRpcCalls = 4
    PolicyCerts = {"p1", "p2"}
    FirstPolicy = "p1"
    MaxKeySets = 2
    MaxStarts = 3
    MaxRotations = 1
    ChannelConfigs <- Channels
    Sizes = {0, 4}
    ReadSize = 8
    MaxSends = 2
    CipherSuites = {"128", "192", "256"}
    Messages = {"m1", "m2"}
    Lengths = {1, 4}
    CounterWord = 2
    MaxObjects = 6
    PwModes <- WalkModes
    PwMemories <- WalkTables
    PwAccesses <- WalkAccesses
    PwEntries <- WalkEntries
    PwAliases = {1, 4}
    PwMaxChanges = 1
    GpmPages = 10
    GpmBlock = 4
    FourGig = 6
    OriginalMaps <- HostMaps
    E820Room = 3
    GpmRequests <- GpmRequestsMade
    MaxGpmCalls = 3
    EncBytes <- SampleBytes
    EncTexts <- SampleTexts
    HexTexts <- SampleHex
    EncStrings <- SampleStrings
    EncLists <- SampleLists
    Delimiter <- CommaBlank
    Keys <- SampleKeys
    Rooms = {0, 2, 3, 6}
    Printers = {"p1", "p2"}
    Handlers = {"h1"}
    HwFifo = 2
    StopLimit = 1
    TextLen = 1
    PortTypes = {"serial", "none"}
    MaxPrints = 1
    MaxStops = 1
    HashKeys = {0, 1, 2}
    HashValues = {"v", "w"}
    HashSizes = {1, 2}
    HostCpus = 2
    StartStates <- GuestStarts
    ObserversLimit = 3
    MaxStateChanges = 3
    SwapCpus = {0, 1}
    SwapConfigs <- SwapControls
    SwapValues = {1, 2}
    MaxSwapWrites = 2
    MaxParams = 100
    Passwords <- SamplePasswords
    Blobs <- SampleBlobs
    PcrNums <- SamplePcrs
    HalfWord = 256
    Directives <- NumberForms
    Values <- SampleNumbers
    PrintRoom = 40
    SprintFormats <- SampleFormats
    SprintRooms = {0, 1, 2, 5, 8, 12, 30}
    ScreenTexts <- ScreenLines
    MaxLines = 3
    MaxCols = 5
    MaxBprints = 3
    MemBytes = 9
    WordBytes = 3
INVARIANTS
    TypesOK
    SignalsSound
    HeapSound
    UtilitiesSound
    
    SessionInStep
    
    HandlesReturned
    
    InitializedBeforeUse
    
    GuestCpuSound
    
    TaoClientSound
    
PROPERTIES
    
    MapsAsAsked
    TableIsMap
    SendReturns
    GuestLaunches
