CONSTANTS
    Tasks = {t1, t2}
    UserIds = {u1}
    Logins = {l1, l2}
    l1 = l1
    l2 = l2
    Emails = {}
    Passwords = {p1}
    None = None
    NameOf <- TwoNames
    Masks <- SomeMasks
    Workload = {"register", "query"}
    Builds = {"memory", "postgres", "mongo", "cached"}
    RedisFaults = TRUE
    StorageFaults = TRUE
    ServiceFaults = TRUE
SPECIFICATION FairSpec
INVARIANTS QueryAnswersTrue MaskFindsAll MaskFindsOnly
PROPERTIES RegisteredIsFound NoDenialReturns
