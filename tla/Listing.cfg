SPECIFICATION Spec
CONSTANTS
    Rows = {q1, q2, q3}
    Old <- SomeRows
    Requests <- ManyRequests
    Changes = {"insert", "update", "delete", "remove", "break"}
    MaxTime = 3
    MaxChanges = 2
SYMMETRY RowSymmetry
INVARIANTS
    TypeOK
    UntouchedSeen
    NothingTwice
    StillTableInOrder
CHECK_DEADLOCK FALSE
