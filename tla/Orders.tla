------------------------------ MODULE Orders ------------------------------
(***************************************************************************)
(* The order-service (lab2 src/order-service, built again by lab3 to lab5  *)
(* over other storages): clients open orders, list and read them, and add  *)
(* services to them, which the handler first looks up in the               *)
(* catalog-service over HTTP.                                              *)
(*                                                                         *)
(* A task is one HTTP request in flight; tasks interleave between any two  *)
(* calls to the storage or the catalog.  build is the build that runs: in  *)
(* memory (lab2), over PostgreSQL with a foreign key to the services       *)
(* ("postgres", lab3) or, with the services in MongoDB, without one        *)
(* ("mixed", lab4 and lab5), or over MongoDB (-DUSE_MONGODB).  The storage *)
(* keeps the orders and, for each, its services; their status never        *)
(* changes and neither is ever deleted.                                    *)
(***************************************************************************)
EXTENDS Sequences, FiniteSets, Naturals

CONSTANTS
    Tasks,          \* requests that can be in flight together
    Clients,        \* the user_ids of the tokens
    OrderIds,
    Services,       \* the ids of the services the catalog may come to have
    ServiceIds,     \* the service_ids clients send: these, and other texts
    None,           \* no client, order or service
    Elsewhere,      \* a page of the catalog-service that is no service's
    Target,         \* what .../services/ followed by each text is the URL of
    Number,         \* the service whose number std::stoll reads in each text
    Builds,         \* which of the four builds may run
    StorageFaults,  \* may a statement of PostgreSQL or MongoDB throw?
    CatalogFaults,  \* may the catalog be unreachable, late, or without its MongoDB?
    CatalogErrors,  \* may the catalog answer with an error other than 404?
    ServiceFaults   \* may the order-service process die and be restarted?

ASSUME OrdersAssumption ==
    /\ None \notin Clients \cup OrderIds \cup ServiceIds
    /\ Services \subseteq ServiceIds /\ Elsewhere \notin Services
    /\ Target \in [ServiceIds -> Services \cup {Elsewhere, None}]
    /\ Number \in [ServiceIds -> Services \cup {None}]
    /\ \A s \in Services : Target[s] = s /\ Number[s] = s
    /\ Builds \subseteq {"memory", "postgres", "mixed", "mongo"}
    /\ {StorageFaults, CatalogFaults, CatalogErrors, ServiceFaults} \subseteq BOOLEAN

VARIABLES
    build,      \* which of the builds it is; never changes
    owner,      \* client_id of each order; None while there is no such order
    lines,      \* order_services: pairs <<order, service_id>>
    catalog,    \* the services the catalog-service has
    excused,    \* history: service_ids let in by an error of the catalog
    pc,         \* where each task is
    call,       \* the client, order and service of each task's request
    todo,       \* the orders a listing task has still to fetch
    seen,       \* what a task has fetched, and is going to answer
    told,       \* history: what some client was answered, in memory by this
                \* process
    known       \* history: what was told of the orders a task's request is
                \* about when it arrived

vars == <<build, owner, lines, catalog, excused, pc, call, todo, seen, told, known>>

(* What an answer says: that an order exists, <<order>>, or that it has a  *)
(* service, <<order, service_id>>.                                         *)
Facts == {<<o>> : o \in OrderIds} \cup (OrderIds \X ServiceIds)
About(facts, o) == {f \in facts : f[1] = o}

Calls == [client : Clients \cup {None}, order : OrderIds \cup {None},
          service : ServiceIds \cup {None}]
NoCall == [client |-> None, order |-> None, service |-> None]

Steps == {"list", "list_fetch", "open", "open_fetch", "show",
          "add_find", "check", "add", "add_fetch", "updated_null"}
(* "caught" is a 404, the one that FindById's catch leads to; "garbage" is *)
(* a 200, whose body is what *updated gives.                               *)
Answers == {"listed", "opened", "shown", "added", "unauthorized", "order_not_found",
            "forbidden", "bad_request", "service_not_found", "failed", "caught", "garbage"}

Init ==
    /\ build \in Builds
    /\ owner = [o \in OrderIds |-> None]
    /\ lines = {}
    /\ catalog \in SUBSET Services
    /\ excused = {}
    /\ pc = [t \in Tasks |-> "idle"]
    /\ call = [t \in Tasks |-> NoCall]
    /\ todo = [t \in Tasks |-> {}]
    /\ seen = [t \in Tasks |-> {}]
    /\ told = {}
    /\ known = [t \in Tasks |-> {}]

Exists(o) == o \in OrderIds /\ owner[o] # None
OrdersOf(c) == {o \in OrderIds : owner[o] = c}

(* The order as it is stored: FetchOrder.                                  *)
Rows(o) == {<<o>>} \cup About(lines, o)

Goto(t, step) == pc' = [pc EXCEPT ![t] = step]

(* The answer that ends a handler, with what it tells the client.          *)
Answer(t, step, facts) ==
    /\ Goto(t, step)
    /\ seen' = [seen EXCEPT ![t] = facts]
    /\ told' = told \cup facts

Refuse(t, step) == Goto(t, step) /\ UNCHANGED <<seen, told>>

-----------------------------------------------------------------------------
(* Requests arrive.                                                        *)

Arrive(t, step, c, o, s) ==
    /\ pc[t] = "idle"
    /\ Goto(t, step)
    /\ call' = [call EXCEPT ![t] = [client |-> c, order |-> o, service |-> s]]
    /\ LET asked == IF o = None THEN OrdersOf(c) ELSE {o}
       IN  known' = [known EXCEPT ![t] = {f \in told : f[1] \in asked}]
    /\ UNCHANGED <<build, owner, lines, catalog, excused, todo, seen, told>>

(* RequireAuth throws: no claims in the context.                           *)
RequestUnauthorized(t) == Arrive(t, "unauthorized", None, None, None)

RequestList(t, c) == Arrive(t, "list", c, None, None)

(* OrderIds bounds how many orders can be opened.                          *)
RequestOpen(t, c) ==
    /\ Cardinality({o \in OrderIds : ~Exists(o)}) > Cardinality({u \in Tasks : pc[u] = "open"})
    /\ Arrive(t, "open", c, None, None)

RequestShow(t, c, o) == Arrive(t, "show", c, o, None)

(* The service_id of the body may be missing (None).                       *)
RequestAdd(t, c, o, s) == Arrive(t, "add_find", c, o, s)

-----------------------------------------------------------------------------
(* GET /api/v1/orders: FindByClientId.                                     *)

(* Mutant: the orders come from a join with order_services.                *)
ListJoined(t) ==
    /\ pc[t] = "list"
    /\ LET mine == {o \in OrdersOf(call[t].client) : About(lines, o) # {}}
       IN  IF build = "memory"
           THEN /\ Answer(t, "listed", UNION {Rows(o) : o \in mine})
                /\ UNCHANGED todo
           ELSE /\ Goto(t, "list_fetch")
                /\ todo' = [todo EXCEPT ![t] = mine]
                /\ UNCHANGED <<seen, told>>
    /\ UNCHANGED <<build, owner, lines, catalog, excused, call, known>>

(* The ids of the client's orders; in memory all of them at once, under    *)
(* the shared lock; over MongoDB the orders a cursor will read by all      *)
(* means.                                                                  *)
List(t) ==
    /\ pc[t] = "list"
    /\ LET mine == OrdersOf(call[t].client)
       IN  IF build = "memory"
           THEN /\ Answer(t, "listed", UNION {Rows(o) : o \in mine})
                /\ UNCHANGED todo
           ELSE /\ Goto(t, "list_fetch")
                /\ todo' = [todo EXCEPT ![t] = mine]
                /\ UNCHANGED <<seen, told>>
    /\ UNCHANGED <<build, owner, lines, catalog, excused, call, known>>

(* The orders opened meanwhile, which a MongoDB cursor may read too.       *)
Later(t) ==
    IF build = "mongo" THEN {o \in OrdersOf(call[t].client) : <<o>> \notin seen[t]} ELSE {}

(* One turn of the loop; the order in which ids come plays no part.        *)
ListFetch(t) ==
    /\ pc[t] = "list_fetch"
    /\ \E o \in todo[t] \cup Later(t) :
        /\ todo' = [todo EXCEPT ![t] = @ \ {o}]
        /\ seen' = [seen EXCEPT ![t] = @ \cup Rows(o)]
    /\ UNCHANGED <<build, owner, lines, catalog, excused, pc, call, told, known>>

ListEnd(t) ==
    /\ pc[t] = "list_fetch"
    /\ todo[t] = {}
    /\ Answer(t, "listed", seen[t])
    /\ UNCHANGED <<build, owner, lines, catalog, excused, call, todo, known>>

-----------------------------------------------------------------------------
(* POST /api/v1/orders: Create.                                            *)

(* INSERT gives a new id (a sequence, NextId or an Oid); then FetchOrder   *)
(* reads the order, but in memory it is answered under the same lock.      *)
Open(t) ==
    /\ pc[t] = "open"
    /\ \E o \in {p \in OrderIds : ~Exists(p)} :
        /\ owner' = [owner EXCEPT ![o] = call[t].client]
        /\ call' = [call EXCEPT ![t].order = o]
        /\ IF build = "memory" THEN Answer(t, "opened", Rows(o))
           ELSE Goto(t, "open_fetch") /\ UNCHANGED <<seen, told>>
    /\ UNCHANGED <<build, lines, catalog, excused, todo, known>>

OpenFetch(t) ==
    /\ pc[t] = "open_fetch"
    /\ Answer(t, "opened", Rows(call[t].order))
    /\ UNCHANGED <<build, owner, lines, catalog, excused, call, todo, known>>

-----------------------------------------------------------------------------
(* GET /api/v1/orders/{id}: FindById, then the owner's check.              *)

Show(t) ==
    /\ pc[t] = "show"
    /\ LET o == call[t].order
       IN  CASE ~Exists(o) -> Refuse(t, "order_not_found")
             [] Exists(o) /\ owner[o] # call[t].client -> Refuse(t, "forbidden")
             [] OTHER -> Answer(t, "shown", Rows(o))
    /\ UNCHANGED <<build, owner, lines, catalog, excused, call, todo, known>>

-----------------------------------------------------------------------------
(* POST /api/v1/orders/{order_id}/services: FindById, the owner's check,   *)
(* the body, GET /services/{id} of the catalog, AddService.                *)

(* Mutant: the owner's check is left to the storage, which has none.       *)
AddFindAnyOwner(t) ==
    /\ pc[t] = "add_find"
    /\ Goto(t, CASE ~Exists(call[t].order) -> "order_not_found"
                 [] Exists(call[t].order) /\ call[t].service = None -> "bad_request"
                 [] OTHER -> "check")
    /\ UNCHANGED <<build, owner, lines, catalog, excused, call, todo, seen, told, known>>

(* Mutant: the body is not looked at, and the storage is left to refuse.   *)
AddFindAnyBody(t) ==
    /\ pc[t] = "add_find"
    /\ LET o == call[t].order
       IN  Goto(t, CASE ~Exists(o) -> "order_not_found"
                     [] Exists(o) /\ owner[o] # call[t].client -> "forbidden"
                     [] OTHER -> "add")
    /\ UNCHANGED <<build, owner, lines, catalog, excused, call, todo, seen, told, known>>

AddFind(t) ==
    /\ pc[t] = "add_find"
    /\ LET o == call[t].order
       IN  Goto(t, CASE ~Exists(o) -> "order_not_found"
                     [] Exists(o) /\ owner[o] # call[t].client -> "forbidden"
                     [] Exists(o) /\ owner[o] = call[t].client /\ call[t].service = None
                            -> "bad_request"
                     [] OTHER -> "check")
    /\ UNCHANGED <<build, owner, lines, catalog, excused, call, todo, seen, told, known>>

(* The service_ids for which the catalog answers 200: the text is put into *)
(* the URL as it is, and with a "?", a ".." or more digits it may be that   *)
(* of a service with another id, or of no service at all.                  *)
Offered == {s \in ServiceIds : Target[s] \in catalog \cup {Elsewhere}}

(* The catalog's answer: 200, or the only status that is refused.          *)
Check(t) ==
    /\ pc[t] = "check"
    /\ Goto(t, IF call[t].service \in Offered THEN "add" ELSE "service_not_found")
    /\ UNCHANGED <<build, owner, lines, catalog, excused, call, todo, seen, told, known>>

(* perform() throws when the catalog does not answer in 5 s or at all, or  *)
(* the text makes no URL; and the catalog answers 404 when its MongoDB     *)
(* fails.                                                                  *)
CheckFails(t) ==
    /\ pc[t] = "check"
    /\ CatalogFaults \/ Target[call[t].service] = None
    /\ \E step \in {"failed", "service_not_found"} : Goto(t, step)
    /\ UNCHANGED <<build, owner, lines, catalog, excused, call, todo, seen, told, known>>

(* A status that is neither 200 nor 404 is taken for a 200.                *)
CheckPassesOnError(t) ==
    /\ CatalogErrors
    /\ pc[t] = "check"
    /\ Goto(t, "add")
    /\ excused' = excused \cup {call[t].service}
    /\ UNCHANGED <<build, owner, lines, catalog, call, todo, seen, told, known>>

(* The service_id that is stored: over PostgreSQL with the foreign key the *)
(* number at the start of the text, else the text.                         *)
Stores(s) == IF build = "postgres" /\ s # None THEN Number[s] ELSE s

(* std::stoll throws, or the foreign key service_id REFERENCES services.   *)
Violates(s) == build = "postgres" /\ Stores(s) \notin catalog

(* Mutant: the order is saved as it was read when the request came in.     *)
AddOverwrites(t) ==
    /\ pc[t] = "add"
    /\ LET o == call[t].order
       IN  /\ lines' = (lines \ About(lines, o))
                          \cup {f \in About(known[t], o) : Len(f) = 2}
                          \cup {<<o, Stores(call[t].service)>>}
           /\ IF build = "memory" THEN Answer(t, "added", About(lines', o) \cup {<<o>>})
              ELSE Goto(t, "add_fetch") /\ UNCHANGED <<seen, told>>
    /\ UNCHANGED <<build, owner, catalog, excused, call, todo, known>>

(* AddService: the order is looked for again, then INSERT .. ON CONFLICT   *)
(* DO NOTHING, $addToSet or push_back.  A second push_back of a service is *)
(* not told apart from the first.  FetchOrder follows, but in memory the   *)
(* order is answered under the same lock.                                  *)
Add(t) ==
    /\ pc[t] = "add"
    /\ LET o == call[t].order
           s == call[t].service
       IN  CASE ~Exists(o) -> Refuse(t, "updated_null") /\ UNCHANGED lines
             [] Exists(o) /\ Violates(s) -> Refuse(t, "failed") /\ UNCHANGED lines
             [] OTHER ->
                    /\ lines' = lines \cup {<<o, Stores(s)>>}
                    /\ IF build = "memory"
                       THEN Answer(t, "added", Rows(o) \cup {<<o, Stores(s)>>})
                       ELSE Goto(t, "add_fetch") /\ UNCHANGED <<seen, told>>
    /\ UNCHANGED <<build, owner, catalog, excused, call, todo, known>>

AddFetch(t) ==
    /\ pc[t] = "add_fetch"
    /\ Answer(t, "added", Rows(call[t].order))
    /\ UNCHANGED <<build, owner, lines, catalog, excused, call, todo, known>>

(* The coroutine writes its response and ends.                             *)
Respond(t) ==
    /\ pc[t] \in Answers
    /\ Goto(t, "idle")
    /\ call' = [call EXCEPT ![t] = NoCall]
    /\ todo' = [todo EXCEPT ![t] = {}]
    /\ seen' = [seen EXCEPT ![t] = {}]
    /\ known' = [known EXCEPT ![t] = {}]
    /\ UNCHANGED <<build, owner, lines, catalog, excused, told>>

-----------------------------------------------------------------------------
(* Failures.                                                               *)

(* Mutant: FindById over PostgreSQL catches, as it does over MongoDB.      *)
FailureOfCaught(step) ==
    CASE step \in {"show", "add_find"} -> "order_not_found"
      [] build = "mongo" /\ step \in {"add", "add_fetch"} -> "updated_null"
      [] OTHER -> "failed"

(* Where a handler goes when a statement of the storage throws: a 500, but *)
(* over MongoDB FindById and AddService catch it and return nullopt.       *)
FailureOf(step) ==
    CASE build = "mongo" /\ step \in {"show", "add_find"} -> "caught"
      [] build = "mongo" /\ step \in {"add", "add_fetch"} -> "updated_null"
      [] OTHER -> "failed"

(* A statement throws; an insertion may have been carried out all the same. *)
StorageFails(t) ==
    /\ StorageFaults
    /\ build # "memory"
    /\ pc[t] \in Steps \ {"check", "updated_null"}
    /\ Goto(t, FailureOf(pc[t]))
    /\ \/ UNCHANGED <<owner, lines>>
       \/ /\ pc[t] = "open"
          /\ \E o \in {p \in OrderIds : ~Exists(p)} :
                owner' = [owner EXCEPT ![o] = call[t].client]
          /\ UNCHANGED lines
       \/ /\ pc[t] = "add"
          /\ ~Violates(call[t].service)
          /\ lines' = lines \cup {<<call[t].order, Stores(call[t].service)>>}
          /\ UNCHANGED owner
    /\ UNCHANGED <<build, catalog, excused, call, todo, seen, told, known>>

(* The process dies with its requests and docker-compose starts it again;  *)
(* only the build in memory loses its orders.                              *)
Restart ==
    /\ owner' = IF build = "memory" THEN [o \in OrderIds |-> None] ELSE owner
    /\ lines' = IF build = "memory" THEN {} ELSE lines
    /\ pc' = [t \in Tasks |-> "idle"]
    /\ call' = [t \in Tasks |-> NoCall]
    /\ todo' = [t \in Tasks |-> {}]
    /\ seen' = [t \in Tasks |-> {}]
    /\ known' = [t \in Tasks |-> {}]
    /\ told' = IF build = "memory" THEN {} ELSE told
    /\ UNCHANGED <<build, catalog, excused>>

ServiceRestart == ServiceFaults /\ Restart

(* *updated of an empty optional: the process may die, or answer with      *)
(* whatever its memory holds.                                              *)
DereferenceNull(t) ==
    /\ pc[t] = "updated_null"
    /\ \/ Restart
       \/ /\ Goto(t, "garbage")
          /\ \E garbage \in SUBSET Facts : seen' = [seen EXCEPT ![t] = garbage]
          /\ UNCHANGED <<build, owner, lines, catalog, excused, call, todo, told, known>>

(* The catalog-service stores another service; it is taken to keep them,   *)
(* as all but the catalog in memory do.                                    *)
CatalogCreates(s) ==
    /\ s \notin catalog
    /\ catalog' = catalog \cup {s}
    /\ UNCHANGED <<build, owner, lines, excused, pc, call, todo, seen, told, known>>

-----------------------------------------------------------------------------

Request(t) ==
    \/ RequestUnauthorized(t)
    \/ \E c \in Clients :
        \/ RequestList(t, c) \/ RequestOpen(t, c)
        \/ \E o \in OrderIds :
            \/ RequestShow(t, c, o)
            \/ \E s \in ServiceIds \cup {None} : RequestAdd(t, c, o, s)

Handle(t) ==
    \/ List(t) \/ ListFetch(t) \/ ListEnd(t)
    \/ Open(t) \/ OpenFetch(t) \/ Show(t)
    \/ AddFind(t) \/ Check(t) \/ CheckFails(t) \/ CheckPassesOnError(t)
    \/ Add(t) \/ AddFetch(t) \/ DereferenceNull(t)
    \/ StorageFails(t) \/ Respond(t)

Next ==
    \/ \E t \in Tasks : Request(t) \/ Handle(t)
    \/ \E s \in Services : CatalogCreates(s)
    \/ ServiceRestart

Spec == Init /\ [][Next]_vars

-----------------------------------------------------------------------------
(* Properties.                                                             *)

TypeOK ==
    /\ build \in Builds
    /\ owner \in [OrderIds -> Clients \cup {None}]
    /\ lines \subseteq OrderIds \X ServiceIds
    /\ catalog \subseteq Services
    /\ excused \subseteq ServiceIds
    /\ pc \in [Tasks -> {"idle"} \cup Steps \cup Answers]
    /\ call \in [Tasks -> Calls]
    /\ todo \in [Tasks -> SUBSET OrderIds]
    /\ seen \in [Tasks -> SUBSET Facts]
    /\ told \subseteq Facts
    /\ known \in [Tasks -> SUBSET Facts]

Stored == {<<o>> : o \in {p \in OrderIds : Exists(p)}} \cup lines

(* What any client was told of an order (orders_handler.cpp:54-59, 62-65,  *)
(* 91, 154) stays so (in memory, while the process lives): neither         *)
(* concurrent requests to add services to one order nor failures undo it.  *)
ToldStays == told \subseteq Stored

(* A listing or an order answered shows the client its own orders only,    *)
(* all that anyone was told of them before the request arrived, and        *)
(* nothing that is not stored (orders_handler.cpp:54-65, 85-91, 154).      *)
AnswersBetween ==
    \A t \in Tasks :
        pc[t] \in {"listed", "opened", "shown", "added"} =>
            LET mine == OrdersOf(call[t].client)
                asked == IF pc[t] = "listed" THEN mine ELSE {call[t].order}
            IN  /\ \A o \in asked : About(known[t], o) \subseteq seen[t]
                /\ seen[t] \subseteq UNION {Rows(o) : o \in asked \cap mine}

(* A 404 is given for an order that anyone was told exists before the      *)
(* request arrived (openapi.yaml:289) only when FindById over MongoDB      *)
(* caught a failure, whatever else fails.                                  *)
OrderNotFoundIsTrue ==
    \A t \in Tasks :
        pc[t] = "order_not_found" => <<call[t].order>> \notin known[t]

(* The 200 of POST /orders/{order_id}/services shows the order with the    *)
(* service added (openapi.yaml:358), unless AddService failed over MongoDB *)
(* and what the 200 shows is undefined.                                    *)
AddedIsShown ==
    \A t \in Tasks :
        pc[t] = "added" => <<call[t].order, Stores(call[t].service)>> \in seen[t]

(* Every service in an order exists: the application is to see to it       *)
(* (lab4/schema_design.md:54).                                             *)
ServicesExist == \A l \in lines : l[2] \in catalog

(* What it does see to: for every service_id in an order the catalog       *)
(* answers 200, unless it once answered with an error that is no 404.      *)
IdsAnswered == \A l \in lines : l[2] \in Offered \cup excused

(* The steps of a request amount to those of the order book: what AddFind  *)
(* and Check saw is still so when AddService inserts                       *)
(* (orders_handler.cpp:121-151).                                           *)
Asking(t) ==
    pc[t] \in {"add_find", "check", "add"} /\ Stores(call[t].service) # None

Book == INSTANCE OrderBook WITH
    lasting <- build # "memory",
    vouched <- Offered \cup excused,
    ask <- [t \in Tasks |->
              IF Asking(t) THEN <<call[t].client, call[t].order, Stores(call[t].service)>>
              ELSE <<>>]

ImplementsOrderBook == Book!Spec
=============================================================================
