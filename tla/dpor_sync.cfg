SPECIFICATION PSpec
CONSTANTS
    NumThreads = 3
    RegisterCount = 2
    ValueHalf = 4
    AddressOrder <- MCAddressOrder
    Mutexes = {"m", "n"}
    RwLocks = {"l"}
    Semaphores = {"q"}
    Barriers = {"b"}
    Conditions = {"c"}
    Labels = {"a", "held", "nowhere"}
    FlushActionIndex = 1000
    Programs <- MCSyncPrograms
    MemoryModels = {"SC"}
    StepBound = 8
    ScheduleCaps = {2000}
INVARIANTS SameKinds SameTerminals
