-------------------------- MODULE ServiceCatalog --------------------------
(***************************************************************************)
(* What the catalog-service promises those who read it: services are only  *)
(* ever added, one at a time, and each answer is true at a moment of the   *)
(* request it answers.  There are two exceptions.  A catalog that reads    *)
(* its services one after the other lists all there were when it began to  *)
(* read, and of those added since any; and one with a cache may give a     *)
(* list it has kept since it read it.  If the catalog does not last, all   *)
(* of it may be lost at once.  CatalogCache implements it in several steps *)
(* per request.                                                            *)
(***************************************************************************)
CONSTANTS Tasks, Services

VARIABLES
    lasting,    \* do the services outlive the process?
    caching,    \* may it answer with a list it has kept?
    scanning,   \* does it read them one after the other?
    services,   \* the services there are
    kept,       \* the lists that were read and are kept
    answer      \* what each task is going to be told, or NoAnswer

flags == <<lasting, caching, scanning>>
catalogVars == <<flags, services, kept, answer>>

NoAnswer == <<>>

Init ==
    /\ lasting \in BOOLEAN /\ caching \in BOOLEAN /\ scanning \in BOOLEAN
    /\ services = {}
    /\ kept = {}
    /\ answer = [t \in Tasks |-> NoAnswer]

Publish(s) ==
    /\ services' = services \cup {s}
    /\ UNCHANGED <<flags, kept, answer>>

(* The only way a list comes to be kept.                                   *)
List(t, list) ==
    /\ answer' = [answer EXCEPT ![t] = <<"list", list>>]
    /\ kept' = IF caching THEN kept \cup {list} ELSE kept
    /\ UNCHANGED <<flags, services>>

ListAtOnce(t) ==
    /\ ~scanning
    /\ answer[t] = NoAnswer
    /\ List(t, services)

Scan(t) ==
    /\ scanning
    /\ answer[t] = NoAnswer
    /\ answer' = [answer EXCEPT ![t] = <<"reading", services>>]
    /\ UNCHANGED <<flags, services, kept>>

EndScan(t) ==
    \E first \in SUBSET services :
        /\ answer[t] = <<"reading", first>>
        /\ \E more \in SUBSET services : List(t, first \cup more)

Truths ==
    {<<"found", s>> : s \in services} \cup {<<"not_found", s>> : s \in Services \ services}

Memories == {<<"cached", list>> : list \in kept}

Answer(t) ==
    /\ answer[t] = NoAnswer
    /\ \E a \in Truths \cup Memories : answer' = [answer EXCEPT ![t] = a]
    /\ UNCHANGED <<flags, services, kept>>

(* Answers are sent, or will never be, and kept lists may be dropped.      *)
Finish(T) ==
    /\ UNCHANGED <<flags, services>>
    /\ answer' = [t \in Tasks |-> IF t \in T THEN NoAnswer ELSE answer[t]]
    /\ kept' \subseteq kept

Forget ==
    /\ ~lasting
    /\ services' = {} /\ kept' = {}
    /\ answer' = [t \in Tasks |-> NoAnswer]
    /\ UNCHANGED flags

Next ==
    \/ \E T \in SUBSET Tasks : Finish(T)
    \/ \E s \in Services : Publish(s)
    \/ \E t \in Tasks : ListAtOnce(t) \/ Scan(t) \/ EndScan(t) \/ Answer(t)
    \/ Forget

Spec == Init /\ [][Next]_catalogVars
=============================================================================
