CONSTANTS
    Tasks = {t1, t2}
    UserIds = {u1, u2}
    Logins = {l1}
    l1 = l1
    l2 = l2
    Emails = {e1}
    Passwords = {p1}
    None = None
    NameOf <- OneName
    Masks = {}
    Workload = {"register", "login", "incomplete"}
    Builds = {"memory"}
    RedisFaults = FALSE
    StorageFaults = FALSE
    ServiceFaults = FALSE
SPECIFICATION Spec
SYMMETRY Interchangeable
INVARIANTS OneUserPerLogin
