SPECIFICATION Spec
CONSTANTS
    Rows = {q1, q2}
    Old <- SomeRows
    Requests <- OneRequest
    Changes = {"insert"}
    MaxTime = 3
    MaxChanges = 1
SYMMETRY RowSymmetry
INVARIANTS
    ListingAnswers
CHECK_DEADLOCK FALSE
