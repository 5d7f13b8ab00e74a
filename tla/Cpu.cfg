SPECIFICATION MCSpec
CONSTANTS
    UnitBits = 4
    PageUnits = 8
    RamUnits = 48
    DevAddr = 48
    RomAddr = 56
    RomUnits = 8
    VaUnits = 64
    Roots = {1}
    VectorBase = 0
    VectorUnits = 4
    Handlers <- MCHandlers
INVARIANT ActiveExact
PROPERTIES TrapsReturnExactly UserConfined ResultsAgree
CHECK_DEADLOCK FALSE
