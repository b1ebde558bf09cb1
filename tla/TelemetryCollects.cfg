SPECIFICATION FairSpec
CONSTANTS
    c1 = c1
    c2 = c2
    Drains = {c1, c2}
    QueueMax = 1
    BatchRows = 1
    PageRows = 1
    Cap = 1
    Power = {}
    MaxRows = 2
    MaxFaults = 1
INVARIANT AckSafe
PROPERTY Collected
