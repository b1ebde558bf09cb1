SPECIFICATION Spec
CONSTANTS
    d1 = d1
    d2 = d2
    n1 = n1
    n2 = n2
    m1 = m1
    m2 = m2
    op1 = op1
    op2 = op2
    fin = fin
    Ids = {d1, d2}
    Nodes = {n1, n2}
    Requests <- MCOne
    Ports = {8000, 8001}
    BasePort = 8000
    Callers = {op1}
    Finisher = fin
    FailThreshold = 1
    KeepTerminal = 1
    MaxCrashes = 2
    StartupWaits = TRUE
    SparkrunVanishes = TRUE
SYMMETRY MCSymmetry
INVARIANTS OneCopyPerNode StoreAgrees StopAccounted
PROPERTIES TerminalIsFinal ImplementsClaims
CHECK_DEADLOCK FALSE
