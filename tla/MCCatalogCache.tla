-------------------------- MODULE MCCatalogCache --------------------------
(* CatalogCache for TLC: tasks and services are interchangeable.           *)
EXTENDS CatalogCache, TLC

Interchangeable == Permutations(Tasks) \cup Permutations(Services)
=============================================================================
