SPECIFICATION Spec
CONSTANTS
    NumThreads = 4
    RegisterCount = 2
    ValueHalf = 4
    AddressOrder <- MCAddressOrder
    Mutexes = {"m", "n"}
    RwLocks = {"l"}
    Semaphores = {"q"}
    Barriers = {"b"}
    Conditions = {"c"}
    Labels = {"a", "held", "nowhere"}
    FlushActionIndex = 1000
    Programs <- MCMemoryPrograms
    MemoryModels = {"SC", "TSO", "PSO"}
    StepBound = 8
CHECK_DEADLOCK FALSE
INVARIANTS EpochInv RaceSound RaceComplete Diamond NoForbiddenOutcome
PROPERTIES Progress
