SPECIFICATION Spec
CONSTANTS
    NumThreads = 2
    RegisterCount = 3
    ValueHalf = 4
    AddressOrder <- MCAddressOrder
    Mutexes = {"m", "n"}
    RwLocks = {"l"}
    Semaphores = {"q"}
    Barriers = {"b"}
    Conditions = {"c"}
    Labels = {"again", "second", "go", "release", "end"}
    FlushActionIndex = 1000
    Programs <- MCRereadPrograms
    MemoryModels = {"SC"}
    StepBound = 12
CHECK_DEADLOCK FALSE
INVARIANTS RaceComplete
