CONSTANTS
    Tasks = {t1, t2}
    UserIds = {u1, u2}
    Logins = {l1, l2}
    l1 = l1
    l2 = l2
    Emails = {e1}
    Passwords = {p1, p2}
    None = None
    NameOf <- OneName
    Masks <- FewMasks
    Workload = {"register", "login", "all", "mask", "incomplete"}
    Builds = {"memory", "postgres", "mongo", "cached"}
    RedisFaults = FALSE
    StorageFaults = TRUE
    ServiceFaults = TRUE
SPECIFICATION Spec
SYMMETRY Interchangeable
INVARIANTS TypeOK TwoUsersNeedARace TokenNamesOwner RegistrationsCount
PROPERTY ImplementsRegistry
