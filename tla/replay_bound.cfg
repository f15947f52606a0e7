SPECIFICATION CSpec
CONSTANTS
    NumThreads = 2
    RegisterCount = 2
    ValueHalf = 16
    AddressOrder <- MCAddressOrder
    Mutexes = {"m", "n"}
    RwLocks = {}
    Semaphores = {}
    Barriers = {}
    Conditions = {"c"}
    Labels = {"a", "again", "bad", "held", "out"}
    FlushActionIndex = 1000
    Programs <- MCCheckedPrograms
    MemoryModels = {"SC"}
    StepBound = 8
    ReplayBound = 4
    ScheduleCaps = {1000}
INVARIANT VerdictReplays
