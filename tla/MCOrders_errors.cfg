CONSTANTS
    s1 = s1
    s1x = s1x
    Tasks = {t1}
    Clients = {c1}
    OrderIds = {o1}
    Services = {s1}
    ServiceIds = {s1}
    None = None
    Elsewhere = Elsewhere
    Target <- OneService
    Number <- OneService
    Builds = {"mixed"}
    StorageFaults = FALSE
    CatalogFaults = FALSE
    CatalogErrors = TRUE
    ServiceFaults = FALSE
SPECIFICATION Spec
SYMMETRY Interchangeable
INVARIANT ServicesExist
