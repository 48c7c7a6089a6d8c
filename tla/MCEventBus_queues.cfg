CONSTANTS
    Queues = {"notifications", "cache_invalidation"}
    Events <- TwoEvents
    MaxIds = 3
    MaxFaults = 2
SPECIFICATION FairSpec
INVARIANTS
    TypeOK
    RoutedIsKept
    HandledInOrder
    RepeatsNeedFaults
    LossIsTheEnd
    LossNeedsAFault
    RepublishedByFaults
PROPERTIES QueuedIsHandled ImplementsDelivery
