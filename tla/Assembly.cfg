SPECIFICATION FairSpec
CONSTANTS
    w1 = w1
    w2 = w2
    f1 = f1
    f2 = f2
    f3 = f3
    f4 = f4
    p1 = p1
    None = None
    Workers = {w1, w2}
    Files = {f1, f2, f3, f4}
    Found <- FoundOverlapping
    NotImages = {f3}
    Names = {p1}
    NameOf <- OneName
    TakenAt <- Times
    UnitOf <- Units
    Latest = 1000000
    Faults = {"download", "generate", "save", "upload"}
INVARIANTS
    TypeOK
    PagesWhole
    NoLeftovers
    PagesNewestFirst
PROPERTIES
    TaskEnds
CHECK_DEADLOCK FALSE
