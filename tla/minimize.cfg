SPECIFICATION MSpec
CONSTANTS
    NumThreads = 2
    RegisterCount = 2
    ValueHalf = 16
    AddressOrder <- MCAddressOrder
    Mutexes = {"m", "n"}
    RwLocks = {}
    Semaphores = {}
    Barriers = {}
    Conditions = {"c"}
    Labels = {"a", "held", "nowhere"}
    FlushActionIndex = 1000
    Programs <- MCBuggyPrograms
    MemoryModels = {"SC", "TSO"}
    StepBound = 6
    ScheduleCaps = {1}
INVARIANTS SameBug OneMinimal
PROPERTY Terminates
