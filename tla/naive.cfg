SPECIFICATION Spec
CONSTANTS
    NumThreads = 2
    RegisterCount = 2
    ValueHalf = 16
    AddressOrder <- MCAddressOrder
    Mutexes = {"m", "n"}
    RwLocks = {}
    Semaphores = {}
    Barriers = {}
    Conditions = {}
    Labels = {"a", "held", "nowhere"}
    FlushActionIndex = 1000
    Programs <- MCSearchPrograms
    MemoryModels = {"SC", "TSO", "PSO"}
    StepBound = 5
    ScheduleCaps = {0, 3, 1000}
INVARIANT ExactSearch
PROPERTY ImplementsExploration
