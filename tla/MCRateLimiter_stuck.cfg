CONSTANTS
    Tasks = {t1, t2}
    Limit = 1
    Window = 1
    TicksPerSecond = 2
    RedisFaults = TRUE
    ServiceFaults = FALSE
SPECIFICATION Spec
INVARIANT
    ResetIsEnough
