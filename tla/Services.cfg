SPECIFICATION Spec
CONSTANTS
    Parts = {"registry", "providers", "keys", "inventory", "retention", "pulls", "kills", "links", "resolver", "disk", "reading"}
    Nodes = {n0, n1}
    Local = n0
    Urls = {u0, u1, u2}
    LocalUrl = u0
    NoUrl = NoUrl
    Kinds = {gpu}
    Unknown = Unknown
    LocalKind = gpu
    Labels = {l1}
    NoLabel = NoLabel
    Tokens = {t1, t2}
    Supervised = {t2}
    MaxUses = 2
    Calls = {c1, c2}
    MissLimit = 2
    Provs = {"p1", "p2"}
    NeedsKey = {"p1"}
    Refs = {"r1", "r2", "own"}
    MintedRef <- MCRef
    Sends = {"s1", "s2"}
    Budget = 1
    Retries = 1
    Models = {"m1", "m2"}
    Curated = {"m1"}
    Folders = {"f1"}
    FolderOf <- MCFolder
    RepoOf <- MCRepo
    Machines = {"n1", "n2"}
    Polls = {"q1"}
    MaxRevision = 2
    Minute = 2
    Hour = 4
    Day = 8
    Lag = 1
    Window = 3
    Interval = 2
    SampleKeep = 8
    RequestKeep = 14
    GapKeep = 10
    MinuteKeep = 12
    HourKeep = 16
    RawSpan = 4
    MinuteSpan = 8
    ArchiveMax = 2
    SampleStamps = {2, 3, 9}
    RequestStamps = {1}
    MaxNow = 14
    PullIds = {"p1", "p2"}
    LayerSizes <- MCLayers
    HostFree = 100
    Headroom = 80
    Pids = {"p7", "p8"}
    Protected = {"p8"}
    Processes = {"x", "y", "z"}
    OwnedBy <- MCOwned
    Deployments = {"d"}
    KillCalls = {"k1"}
    LinkNodes = {"a", "b", "c"}
    LocalNode = "a"
    LinkCallers = {"k1", "k2"}
    Outcomes <- MCOutcomes
    HandFigures = {5000}
    MeasureOrders <- MCOrders
    BwFloor = 16
    Repos = {"m", "g", "d"}
    RepoKind <- MCKind
    Commits = {"c1", "c2"}
    Config <- MCConfig
    Overrides = {"none", "fp8"}
    Ttl = 1
    MemoryEntries = 1
    ResolveCalls = {"q1", "q2"}
    ResolveRequests <- MCRequests
    LastTick = 2
    Engines = {"vllm", "tts"}
    Profile <- MCProfile
    ImageLists <- MCImages
    HalfBytes <- MCHalf
    Configs <- MCConfigs
    Listings <- MCListings
    MaxHeaderProbes = 3
    MaxGgufRepos = 1
SYMMETRY CallsAlike
INVARIANTS
    RetentionPromise  LinksPromise
PROPERTIES
     ProvidersPromise   ResolverPromise
CHECK_DEADLOCK FALSE
