CONSTANTS
    Queues = {"notifications", "cache_invalidation"}
    Events <- TwoEvents
    MaxIds = 2
    MaxFaults = 1
SPECIFICATION Spec
INVARIANT SentIsKept
