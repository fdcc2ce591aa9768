SPECIFICATION Spec
CONSTANTS
    r1 = r1
    r2 = r2
    r3 = r3
    w1 = w1
    w2 = w2
    t1 = t1
    t2 = t2
    t3 = t3
    n1 = n1
    n2 = n2
    None = None
    SourceFile = SourceFile
    Requests = {r1, r2, r3}
    Tasks = {t1, t2}
    TaskOf <- SharedAndOwn
    Workers = {w1, w2}
    Nodes = {n1}
    HomeOf <- OneProcess
    NoSession = {r3}
    Faults = {"upload"}
    MaxRetries = 1
SYMMETRY SharedSymmetry
INVARIANTS
    TypeOK
    ProcessingHasWorker
    FileOfSameTask
