SPECIFICATION Spec
CONSTANTS
    e1 = e1
    p1 = p1
    p2 = p2
    StatusEncoder = {e1}
    Pass = {p1, p2}
    MaxCalls = 5
    c1 = c1
    c2 = c2
    Client = {c1, c2}
    MaxIssued = 5
    Mips = 2
    Layers = 5
    t1 = t1
    t2 = t2
    t3 = t3
    Thread = {t1, t2, t3}
    Lock <- MCLock
    Mutex = {"mapA", "mapB", "writes"}
    Rank <- MCRank
    RankOf <- MCRankOf
    Followers <- RankTable
    Images = 2
    MaxSubmissions = 4
    MaxFrames = 3
    Presenter = {c1, c2}
    SwapImages = 2
    MaxTextures = 3
    MaxConfigures = 2
    Blas <- MCBlas
    Tlas <- MCTlas
    AsBatch <- MCAsBatch
    MaxAsSubmits = 4
    MaxCompacts = 3
    ChunkSize = 4
    BeltSizes = {1, 2, 5}
    Alignments = {1, 4}
    MaxWrites = 4
    Decls = 3
    Names = 3
    Naming <- MCNaming
    MaxStatements = 6
CHECK_DEADLOCK FALSE
INVARIANT FinishedWellNested
INVARIANT RunsOnce
INVARIANT IdsSound
INVARIANT RangesExact
INVARIANT AnswersRight
INVARIANT AlwaysProgress
INVARIANT FenceSound
INVARIANT SemaphoresRight
INVARIANT HandedBackOnce
INVARIANT ImagesAccounted
INVARIANT CompactSizeRight
INVARIANT TlasCurrent
INVARIANT PrepareAnswered
INVARIANT BeltIntact
INVARIANT OrderSound
INVARIANT ForwardedRight
