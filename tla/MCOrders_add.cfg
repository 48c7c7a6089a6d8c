CONSTANTS
    s1 = s1
    s1x = s1x
    Tasks = {t1, t2}
    Clients = {c1, c2}
    OrderIds = {o1}
    Services = {s1}
    ServiceIds = {s1, s1x}
    None = None
    Elsewhere = Elsewhere
    Target <- OneService
    Number <- OneService
    Builds = {"memory", "postgres", "mixed", "mongo"}
    StorageFaults = TRUE
    CatalogFaults = TRUE
    CatalogErrors = TRUE
    ServiceFaults = TRUE
SPECIFICATION Spec
SYMMETRY Interchangeable
INVARIANTS TypeOK ToldStays AnswersBetween OrderNotFoundIsTrue AddedIsShown
PROPERTY ImplementsOrderBook
