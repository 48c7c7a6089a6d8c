CONSTANTS
    Tasks = {t1, t2}
    Services = {s1}
    Workload = {"list", "create"}
    Builds = {"cached"}
    RedisFaults = FALSE
    StorageFaults = FALSE
    ServiceFaults = FALSE
SPECIFICATION Spec
INVARIANT ReadsFollowWrites
