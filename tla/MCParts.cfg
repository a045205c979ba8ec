SPECIFICATION PartsSpec
CONSTANTS
    W = w
    Thieves = {t1, t2, t3}
    NoOwner = none
    UserThreads = {e1, e2, e3}
    UserWorkers = {2, 3}
    NoWorker = NoWorker
    AdHoc = AdHoc
    MaxEnds = 2
    Owners = {w1, w2}
    Allocators = {w1, w2}
    Shared = Shared
    PoolSize = 2
    SharedSize = 2
    MaxStacks = 5
    BucketSizes = {1, 2}
    Chunk = 5
    BatchSize = 2
    PotentialLimit = 3
    MaxChunks = 2
    MaxPotential = 3
    NoFrame = 0
    Unset = Unset
    Long = Long
    Junk = Junk
INVARIANTS
    LockIsExclusive
    AtMostOneOvertakes
    TableIsRight
    FibersCounted
    FramesAccounted
    LoopsAreRight
    StacksAreRight
PROPERTIES
    WorkerGetsIn
    LoopsEnd
    ReplayEnds
CHECK_DEADLOCK FALSE
