SPECIFICATION Spec
CONSTANTS
    PageSize = 2
    RamPages = 40
    MemoryMap <- TwoRanges
    InitialTables <- FirmwareTables
    LargeSpan = 8
    GigaSpan = 32
    ImageBase = 8
    ImageLimit = 16
    FramebufferLimit = 18
    StackTop = 24
    StackPages = 2
    LowPages <- LowMappings
    KernelPages <- KernelSections
    DirectBase = 64
    DemandPage = 200
    HeapMaxPages = 4
    UnitsPerPage = 11
    Images <- TwoImages
    Processes = {1, 2}
    MaxThreads = 2
    FramebufferSizes = {1, 2, 3}
    MaxMemoryCalls = 7
    Alignment = 2
    HeaderSize = 4
    HeapPage = 16
    HeapMaxSize = 64
    SizeMax = 127
    Sizes = {1, 10, 127}
    Counts = {2, 50}
    MaxLive = 3
    WordMax = 31
    LoaderPage = 4
    LoaderBase = 8
    LoaderLimit = 24
    Executables <- Files
    StackBottom = 64
    StackEnd = 96
    PointerSize = 2
    StackAlign = 4
    Vectors <- StringVectors
    HalfMax = 15
    Inputs <- LinkCalls
    HostThreads = {1}
    Visitors = {3, 4}
    DeviceModules <- TwoModules
    SlotCount = 3
    BusCapacity = 3
    WindowEnd = 5
    Addresses = {0, 2, 4}
    Lines = {2, 3, 4}
    MaxAttempts = 3
    MaxVisits = 2
INVARIANTS PagesAccounted MappingsExact KernelShared HeapSound LaunchSound LinksFaithfully LinkedImagesLoad
    CallbacksMeetLiveDevices ResourcesExact
PROPERTIES PlugCallsEnd
CHECK_DEADLOCK FALSE
