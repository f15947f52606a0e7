SPECIFICATION HSpec
CONSTANTS
    NumThreads = 3
    RegisterCount = 2
    ValueHalf = 4
    AddressOrder <- MCAddressOrder
    Mutexes = {"m", "n"}
    RwLocks = {"l"}
    Semaphores = {"q"}
    Barriers = {"b"}
    Conditions = {"c"}
    Labels = {"a", "held", "nowhere"}
    FlushActionIndex = 1000
    Programs <- MCPrograms
    MemoryModels = {"SC"}
    StepBound = 8
CHECK_DEADLOCK FALSE
INVARIANTS ClocksExact
