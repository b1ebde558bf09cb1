SPECIFICATION Spec
CONSTANTS
    Parts = {"fit", "planner", "capacity", "launch", "routing", "speech"}
    Halves <- MCHalves
    KvBytes <- MCKvBytes
    Ladder <- MCLadder
    Chunk = 2
    Step = 2
    MaxContext = 8
    MaxNodes = 6
    CommBuffer = 6
    EpBuffer = 5
    Overhead = 4
    TpsFloor = 1
    FitRequests <- MCFitRequests
    TpViable = 40
    EpViable = 40
    MinNodesForEp = 4
    LatencyCeiling = 2
    Scale = 100
    PlanRequests <- MCPlanRequests
    MinUseful = 4
    FallbackContext = 6
    CapacityRequests <- MCCapacityRequests
    NodeIds <- MCIds
    Ceiling <- MCCeiling
    HardwareOf <- MCHardware
    WeightBytes = 5
    CacheBytes = 1
    Window = 4
    Supports = {"vllm", "tts"}
    Shards = {"vllm", "sglang"}
    LaunchCalls = {"c1", "c2"}
    LaunchRequests <- MCBodies
    UsedLevels = {0, 2}
    Locals = {"a", "b"}
    Remotes = {"p"}
    IdOrder <- MCOrder
    Predicted <- MCPredicted
    Bandwidth <- MCBandwidth
    Speeds = {1}
    RemoteDefault = 3
    Seats <- MCSeats
    Priority <- MCPriority
    Cost <- MCCost
    WeakFloor = 15
    AutoSpread = 25
    WeightScale = 60
    Keys = {"k"}
    Home <- MCHome
    MaxBusy = 4
    Servers = {"v1"}
    Offers <- MCOffers
    Speakers = {"s1", "s2", "mine"}
    OwnVoices = {"mine"}
    SpeechCalls = {"c1", "c2"}
    CalledAt <- MCCalledAt
    MaxNumSeqs = 1
INVARIANTS
    FitPromise  CapacityPromise LaunchPromise
PROPERTIES
    RoutingPromise 
CHECK_DEADLOCK FALSE
