CONSTANTS
    Tasks = {t1, t2}
    Services = {s1, s2}
    Workload = {"list", "create"}
    Builds = {"memory", "postgres", "mongo", "cached"}
    RedisFaults = TRUE
    StorageFaults = TRUE
    ServiceFaults = TRUE
SPECIFICATION Spec
SYMMETRY Interchangeable
INVARIANTS
    TypeOK
    StaleOnlyWhenMissed
    AnswerExplained
    MissIsFresh
    DisagreementNeedsAScan
PROPERTY ImplementsCatalog
