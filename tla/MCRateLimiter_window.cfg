CONSTANTS
    Tasks = {t1, t2}
    Limit = 2
    Window = 1
    TicksPerSecond = 3
    RedisFaults = TRUE
    ServiceFaults = TRUE
SPECIFICATION FairSpec
INVARIANTS TypeOK CounterExpires TwiceTheLimitAtMost ResetCoversTtl
PROPERTIES WindowEnds WindowIsFixed
