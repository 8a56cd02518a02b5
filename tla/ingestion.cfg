CONSTANTS
    None = None
    x = x
    y = y
    n1 = n1
    n2 = n2
    Requests = {r1, r2, r3}
    Contents = {x, y}
    Names = {n1, n2}
    Inputs <- AllInputs
    PoolSize = 2
    Faults = {"crash", "write", "database"}
SPECIFICATION FairSpec
CHECK_DEADLOCK FALSE
INVARIANTS TypeOK OneRowPerContent DuplicateIsFound FileBeforeRow NoCircularWait
PROPERTIES ImplementsIntake RequestsEnd
