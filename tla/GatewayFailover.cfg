SPECIFICATION Spec
CONSTANTS
    r1 = r1
    r2 = r2
    r3 = r3
    r4 = r4
    t1 = t1
    t2 = t2
    t3 = t3
    None = None
    Requests = {r1, r2}
    Targets = {t1, t2, t3}
    Local = {t1}
    Cost <- MCEqualCost
    KvBudget = 1
    MaxAttempts = 2
    Threshold = 1
    Hedging = FALSE
    Churn = {t1}
SYMMETRY MCProviderSymmetry
INVARIANTS BooksBalance RequestBounds 
CHECK_DEADLOCK FALSE
