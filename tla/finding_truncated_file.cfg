CONSTANTS
    None = None
    x = x
    y = y
    n1 = n1
    n2 = n2
    Requests = {r1, r2}
    Contents = {x, y}
    Names = {n1, n2}
    Inputs <- AllInputs
    PoolSize = 2
    Faults = {"write"}
SPECIFICATION Spec
SYMMETRY Symmetry
CHECK_DEADLOCK FALSE
INVARIANT RowFileIsWhole
