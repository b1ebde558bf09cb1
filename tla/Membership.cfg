SPECIFICATION MembershipSpec
CONSTANTS
    Nodes = {n0, n1}
    Local = n0
    Urls = {u0, u1, u2}
    LocalUrl = u0
    NoUrl = NoUrl
    Kinds = {gpu}
    Unknown = Unknown
    LocalKind = gpu
    Labels = {l1}
    NoLabel = NoLabel
    Tokens = {t1}
    Supervised = {}
    MaxUses = 1
    Calls = {c1, c2}
    MissLimit = 2
    Worker = n1
    Environment = {"none", "cluster", t1}
    MaxFaults = 2
PROPERTY MembershipPromise
CHECK_DEADLOCK FALSE
