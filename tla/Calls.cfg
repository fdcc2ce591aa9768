SPECIFICATION FairSpec
CONSTANTS
    c1 = c1
    c2 = c2
    t1 = t1
    t2 = t2
    u1 = u1
    u2 = u2
    d = d
    k = k
    None = None
    Gone = Gone
    Users = {u1, u2}
    Domains = {d}
    Classes = {k}
    Calls = {c1, c2}
    Tokens = {t1, t2}
    UserOf <- OwnUser
    Grants <- SomeGrants
INVARIANTS
    TypeOK
    SessionFresh
    RefusalHasCause
    UnauthenticatedMeansNoSession
    RightsOfAccount
PROPERTIES
    CallsEnd
