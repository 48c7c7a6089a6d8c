----------------------------- MODULE MCOrders -----------------------------
(* Small instances of Orders for TLC.                                      *)
EXTENDS Orders, TLC

CONSTANTS
    s1,     \* the id of a service
    s1x     \* the same followed by "?x"

OneService == [s \in ServiceIds |-> s1]

Interchangeable ==
    Permutations(Tasks) \cup Permutations(Clients) \cup Permutations(OrderIds)
=============================================================================
