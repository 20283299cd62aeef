SPECIFICATION FairSpec
CONSTANTS
    Streams = {s1, s2}
    Fds = {1, 2}
    Posters = {worker}
    LoopThread = main
    BatchSize = 2
    Delays = {0, 1}
    Signers = {worker, main}
    Child = child
    Refiller = refiller
    Capacity = 2
    Slots = 2
    RefillCount = 1
    Scenarios <- RunScenarios
    Opens = 2
    Posts = 3
    Data = 2
    SignPosts = 1
    Signs = 1
    Entries = 2
    ForkSigns = 2
    ForkEntries = 3
    ClockSteps = 1
INVARIANTS
    
    NoncesIncrease
    NonceUsedOnce
    PoolIntact
PROPERTIES
    CallbacksReachTheirOwner
    NoLostWakeup
    SigningEnds
CHECK_DEADLOCK FALSE
