SPECIFICATION PSpec
CONSTANTS
    NumThreads = 2
    RegisterCount = 2
    ValueHalf = 16
    AddressOrder <- MCAddressOrder
    Mutexes = {"m"}
    RwLocks = {}
    Semaphores = {}
    Barriers = {}
    Conditions = {}
    Labels = {"a", "held", "nowhere"}
    FlushActionIndex = 1000
    Programs <- PostponedPrograms
    MemoryModels = {"SC"}
    StepBound = 7
    ScheduleCaps = {2000}
INVARIANT SameCycleClasses
