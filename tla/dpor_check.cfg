SPECIFICATION CSpec
CONSTANTS
    NumThreads = 2
    RegisterCount = 2
    ValueHalf = 16
    AddressOrder <- MCAddressOrder
    Mutexes = {"m", "n"}
    RwLocks = {}
    Semaphores = {}
    Barriers = {}
    Conditions = {"c"}
    Labels = {"a", "held", "nowhere"}
    FlushActionIndex = 1000
    Programs <- MCCheckedPrograms
    MemoryModels = {"SC", "TSO", "PSO"}
    StepBound = 7
    ReplayBound = 7
    ScheduleCaps = {0, 3, 2000}
INVARIANTS SameTerminals SameKinds HistoryExact SleepCovered VerdictReplays PhasesRendered
PROPERTY ImplementsExploration
