SPECIFICATION AppSpec
CONSTANTS
    e1 = e1
    e2 = e2
    u1 = u1
    i1 = i1
    Requests <- MCRequests
    Kind <- MCKind
    Workers = 2
    Databases <- AnyDatabase
INVARIANT LockExact
PROPERTY EveryRequestAnswered
CHECK_DEADLOCK FALSE
