CONSTANTS
    Tasks = {t1, t2}
    Services = {s1}
    Workload = {"list", "doc", "create"}
    Builds = {"memory", "postgres", "mongo", "cached"}
    RedisFaults = TRUE
    StorageFaults = TRUE
    ServiceFaults = TRUE
SPECIFICATION FairSpec
INVARIANT NotFoundIsTrue
PROPERTIES StaleListEnds NoStaleListReturns
