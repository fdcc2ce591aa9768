SPECIFICATION Spec
CONSTANTS
    r1 = r1
    r2 = r2
    r3 = r3
    w1 = w1
    w2 = w2
    t1 = t1
    t2 = t2
    t3 = t3
    n1 = n1
    n2 = n2
    None = None
    SourceFile = SourceFile
    Requests = {r1}
    Tasks = {t1}
    TaskOf <- LoneTaskOf
    Workers = {w1, w2}
    Nodes = {n1, n2}
    HomeOf <- TwoProcesses
    NoSession = {}
    Faults = {"redis", "db", "search", "upload", "expire", "crash", "stop"}
    MaxRetries = 1
INVARIANTS
    TaskHeldOnce
    UploadedOnce
    DoneHasFile
PROPERTIES
    RecordSpec
    TerminalIsFinal
