SPECIFICATION Spec
CONSTANTS
    NumThreads = 2
    RegisterCount = 2
    ValueHalf = 16
    AddressOrder <- MCAddressOrder
    Mutexes = {"m", "n"}
    RwLocks = {}
    Semaphores = {"q"}
    Barriers = {"b"}
    Conditions = {"c"}
    Labels = {"a", "held", "nowhere"}
    FlushActionIndex = 1000
    Programs <- MCPathPrograms
    MemoryModels = {"SC", "TSO", "PSO"}
    StepBound = 6
    ScheduleCaps = {1}
INVARIANTS CycleRepeats FairnessExact ReplayExact NoContinuation EffectsExplain
