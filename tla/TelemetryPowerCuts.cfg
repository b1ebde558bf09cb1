SPECIFICATION Spec
CONSTANTS
    c1 = c1
    c2 = c2
    Drains = {c1}
    QueueMax = 2
    BatchRows = 2
    PageRows = 2
    Cap = 2
    Power = {"node", "coordinator"}
    MaxRows = 3
    MaxFaults = 1
INVARIANTS  Kept WrittenOnce
