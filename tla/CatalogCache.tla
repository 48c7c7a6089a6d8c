--------------------------- MODULE CatalogCache ---------------------------
(***************************************************************************)
(* The catalog-service.  build is the build that runs: in memory (lab2),   *)
(* over PostgreSQL (lab3), over MongoDB (lab4), or "cached" (lab5), over   *)
(* MongoDB with cache-aside reads through Redis and a POST that deletes    *)
(* the cached list.                                                        *)
(*                                                                         *)
(* A task is one HTTP request in flight, run by a coroutine of the service *)
(* (ServicesHandler and ServiceByIdHandler, services_handler.cpp); tasks   *)
(* interleave between any two calls to Redis or the storage.  A service    *)
(* record never changes and is never deleted, so a service stands for its  *)
(* whole record and a list of services for the set of them.                *)
(***************************************************************************)
EXTENDS RedisConnection

CONSTANTS
    Tasks,          \* requests that can be in flight together
    Services,       \* the services that can be created
    Workload,       \* which of the requests below clients send
    Builds,         \* which of the four builds may run
    StorageFaults,  \* may an operation of PostgreSQL or MongoDB throw?
    ServiceFaults   \* may the catalog-service process die and be restarted?

ASSUME CatalogAssumption ==
    /\ Workload \subseteq {"list", "doc", "create"}
    /\ Builds \subseteq {"memory", "postgres", "mongo", "cached"}
    /\ StorageFaults \in BOOLEAN
    /\ ServiceFaults \in BOOLEAN

VARIABLES
    build,      \* which of the builds it is; never changes
    db,         \* the services stored
    live,       \* the key services:all in Redis
    saved,      \* the same key in the last RDB file Redis wrote
    docs,       \* the ids i whose key service:{i} is in Redis
    savedDocs,  \* the same keys in the last RDB file
    pc,         \* where each task is
    req,        \* the service a task creates or asks for
    snap,       \* the list a task read and will cache or has answered
    scanned,    \* history: services stored while a list was being read
    acked,      \* history: services whose POST was answered 201
    known       \* history: acked at the time the task's request arrived

stored == <<db, scanned>>
catalogVars == <<build, stored, live, saved, docs, savedDocs, pc, req, snap, acked, known>>
vars == <<up, ctx, catalogVars>>

(* A copy of the list.  here: there is one.  missed (history): the         *)
(* services whose DEL went by without removing this copy.                  *)
Copy == [here: BOOLEAN, list: SUBSET Services, missed: SUBSET Services]
Absent == [here |-> FALSE, list |-> {}, missed |-> {}]
FreshCopy(list) == [here |-> TRUE, list |-> list, missed |-> {}]
PassBy(copy, s) ==
    IF copy.here THEN [copy EXCEPT !.missed = @ \cup {s}] ELSE copy

(* "caught" is a 404 as well: the one that FindById's catch leads to.      *)
Answers == {"hit", "miss", "created", "found", "not_found", "caught", "failed"}
Steps == {"list_get", "list_find", "list_fetch", "list_set", "insert", "list_del",
          "doc_get", "doc_find", "doc_set"}

Init ==
    /\ ConnectionInit
    /\ build \in Builds
    /\ db = {} /\ scanned = {}
    /\ live = Absent /\ saved = Absent
    /\ docs = {} /\ savedDocs = {}
    /\ pc = [t \in Tasks |-> "idle"]
    /\ req \in [Tasks -> Services]
    /\ snap = [t \in Tasks |-> Absent]
    /\ acked = {}
    /\ known = [t \in Tasks |-> {}]

Goto(t, step) == pc' = [pc EXCEPT ![t] = step]

(* Only the build of lab5 calls Redis; the others leave the call out.      *)
IfCached(step, otherwise) == IF build = "cached" THEN step ELSE otherwise

(* What the storage does: a new service, all of them, one of them.  Its    *)
(* ids are fresh, but the build in memory counts from 1 again when it is   *)
(* started again.                                                          *)
Fresh == {s \in Services \ db : \A t \in Tasks : pc[t] = "insert" => req[t] # s}
Create(s) ==
    /\ db' = db \cup {s}
    /\ scanned' = IF \E t \in Tasks : pc[t] = "list_fetch" THEN scanned \cup {s} ELSE scanned
GetAll == FreshCopy(db)
FindById(s) == s \in db

-----------------------------------------------------------------------------
(* Requests arrive.                                                        *)

Arrive(t, step) ==
    /\ pc[t] = "idle"
    /\ Goto(t, step)
    /\ known' = [known EXCEPT ![t] = acked]
    /\ UNCHANGED <<build, up, ctx, stored, live, saved, docs, savedDocs, snap, acked>>

(* GET /api/v1/services.                                                   *)
RequestList(t) ==
    /\ "list" \in Workload
    /\ Arrive(t, IfCached("list_get", "list_find"))
    /\ UNCHANGED req

(* GET /api/v1/services/{id}; the id may name no service.                  *)
RequestDoc(t, s) ==
    /\ "doc" \in Workload
    /\ Arrive(t, IfCached("doc_get", "doc_find"))
    /\ req' = [req EXCEPT ![t] = s]

(* POST /api/v1/services with a token and a title.                         *)
RequestCreate(t, s) ==
    /\ "create" \in Workload
    /\ s \in Fresh
    /\ Arrive(t, "insert")
    /\ req' = [req EXCEPT ![t] = s]

(* POST without a token (401) or without a title (400): nothing is done.   *)
RejectCreate(t) ==
    /\ "create" \in Workload
    /\ Arrive(t, "failed")
    /\ UNCHANGED req

-----------------------------------------------------------------------------
(* GET /api/v1/services: Get, GetAll, Set.                                 *)

(* Mutant: a hit Sets the list again, so that it stays while it is asked   *)
(* for.                                                                    *)
ListGetProlongs(t) ==
    /\ pc[t] = "list_get"
    /\ \E outcome \in CommandOutcomes(EnsureConnected) :
        /\ ctx' = FreedUnlessReply(outcome)
        /\ IF outcome = "ok" /\ live.here
           THEN /\ snap' = [snap EXCEPT ![t] = live]
                /\ Goto(t, "list_set")
           ELSE /\ UNCHANGED snap
                /\ Goto(t, "list_find")
    /\ UNCHANGED <<build, up, stored, live, saved, docs, savedDocs, req, acked, known>>

ListGet(t) ==
    /\ pc[t] = "list_get"
    /\ \E outcome \in CommandOutcomes(EnsureConnected) :
        /\ ctx' = FreedUnlessReply(outcome)
        /\ IF outcome = "ok" /\ live.here
           THEN /\ snap' = [snap EXCEPT ![t] = live]
                /\ Goto(t, "hit")
           ELSE /\ UNCHANGED snap
                /\ Goto(t, "list_find")
    /\ UNCHANGED <<build, up, stored, live, saved, docs, savedDocs, req, acked, known>>

(* Only over MongoDB is a list read from a cursor.                         *)
Scans == build \in {"mongo", "cached"}

(* What follows a read.                                                    *)
Read(t, copy) ==
    /\ snap' = [snap EXCEPT ![t] = copy]
    /\ Goto(t, IfCached("list_set", "miss"))

(* In memory the lock is held, and a SELECT sees one snapshot.  Over       *)
(* MongoDB the find is sent, and what is stored by then will be found.     *)
ListFind(t) ==
    /\ pc[t] = "list_find"
    /\ IF Scans
       THEN /\ snap' = [snap EXCEPT ![t] = GetAll]
            /\ Goto(t, "list_fetch")
       ELSE Read(t, GetAll)
    /\ UNCHANGED <<build, up, ctx, stored, live, saved, docs, savedDocs, req, acked, known>>

(* Mutant: a miss takes over the list another miss has just read.          *)
ListFetchCoalesced(t) ==
    /\ pc[t] = "list_fetch"
    /\ \E copy \in {snap[t]} \cup {snap[u] : u \in {v \in Tasks : pc[v] = "list_set"}} :
        Read(t, copy)
    /\ UNCHANGED <<build, up, ctx, stored, live, saved, docs, savedDocs, req, acked, known>>

(* Mutant: the list leaves out what a parameter of the request names, and  *)
(* is cached under services:all all the same.                              *)
ListFetchFiltered(t) ==
    /\ pc[t] = "list_fetch"
    /\ Read(t, [snap[t] EXCEPT !.list = @ \ {req[t]}])
    /\ UNCHANGED <<build, up, ctx, stored, live, saved, docs, savedDocs, req, acked, known>>

(* Mutant: a document that does not parse leaves a null in the list.       *)
ListFetchWithHole(t) ==
    /\ pc[t] = "list_fetch"
    /\ Read(t, [snap[t] EXCEPT !.list = @ \cup {"null"}])
    /\ UNCHANGED <<build, up, ctx, stored, live, saved, docs, savedDocs, req, acked, known>>

(* The cursor is read to its end.  There is no snapshot: a service stored  *)
(* meanwhile is found or not, for its _id, by which the cursor is sorted,  *)
(* was made before InsertOne and may lie on either side of it.             *)
ListFetch(t) ==
    /\ pc[t] = "list_fetch"
    /\ \E more \in SUBSET (db \ snap[t].list) :
        Read(t, [snap[t] EXCEPT !.list = @ \cup more])
    /\ UNCHANGED <<build, up, ctx, stored, live, saved, docs, savedDocs, req, acked, known>>

(* GetAll throws: the handler has no catch, the client gets a 500.         *)
ListFindFails(t) ==
    /\ StorageFaults /\ build # "memory"
    /\ pc[t] \in {"list_find", "list_fetch"}
    /\ Goto(t, "failed")
    /\ snap' = [snap EXCEPT ![t] = Absent]
    /\ UNCHANGED <<build, up, ctx, stored, live, saved, docs, savedDocs, req, acked, known>>

ListSet(t) ==
    /\ pc[t] = "list_set"
    /\ \E outcome \in CommandOutcomes(EnsureConnected) :
        /\ ctx' = FreedUnlessReply(outcome)
        /\ live' = IF Executed(outcome) THEN snap[t] ELSE live
    /\ Goto(t, "miss")
    /\ UNCHANGED <<build, up, stored, saved, docs, savedDocs, req, snap, acked, known>>

-----------------------------------------------------------------------------
(* POST /api/v1/services: Create, Del.                                     *)

(* Without a cache the 201 follows at once.                                *)
Insert(t) ==
    /\ pc[t] = "insert"
    /\ Create(req[t])
    /\ acked' = IfCached(acked, acked \cup {req[t]})
    /\ Goto(t, IfCached("list_del", "created"))
    /\ UNCHANGED <<build, up, ctx, live, saved, docs, savedDocs, req, snap, known>>

(* The INSERT or InsertOne throws, carried out or not: a 500, and no Del.  *)
InsertFails(t) ==
    /\ StorageFaults /\ build # "memory"
    /\ pc[t] = "insert"
    /\ Create(req[t]) \/ UNCHANGED stored
    /\ Goto(t, "failed")
    /\ UNCHANGED <<build, up, ctx, live, saved, docs, savedDocs, req, snap, acked, known>>

(* Mutant: Del names another key.                                          *)
ListDelOfAnotherKey(t) ==
    /\ pc[t] = "list_del"
    /\ \E outcome \in CommandOutcomes(EnsureConnected) : ctx' = FreedUnlessReply(outcome)
    /\ acked' = acked \cup {req[t]}
    /\ Goto(t, "created")
    /\ UNCHANGED <<build, up, stored, live, saved, docs, savedDocs, req, snap, known>>

(* Mutant: the service is put into the cached list, which is kept.         *)
ListDelUpdates(t) ==
    /\ pc[t] = "list_del"
    /\ \E outcome \in CommandOutcomes(EnsureConnected) :
        /\ ctx' = FreedUnlessReply(outcome)
        /\ live' = IF Executed(outcome) /\ live.here
                   THEN [live EXCEPT !.list = @ \cup {req[t]}] ELSE PassBy(live, req[t])
    /\ saved' = PassBy(saved, req[t])
    /\ snap' = [u \in Tasks |-> IF pc[u] \in {"list_fetch", "list_set"}
                                THEN PassBy(snap[u], req[t])
                                ELSE snap[u]]
    /\ acked' = acked \cup {req[t]}
    /\ Goto(t, "created")
    /\ UNCHANGED <<build, up, stored, docs, savedDocs, req, known>>

(* Del, whatever becomes of it, then the 201.  It goes by the copy in the  *)
(* RDB file, the lists that are being read or are yet to be cached and,    *)
(* when it is not executed, the key itself.                                *)
ListDel(t) ==
    /\ pc[t] = "list_del"
    /\ \E outcome \in CommandOutcomes(EnsureConnected) :
        /\ ctx' = FreedUnlessReply(outcome)
        /\ live' = IF Executed(outcome) THEN Absent ELSE PassBy(live, req[t])
    /\ saved' = PassBy(saved, req[t])
    /\ snap' = [u \in Tasks |-> IF pc[u] \in {"list_fetch", "list_set"}
                                THEN PassBy(snap[u], req[t])
                                ELSE snap[u]]
    /\ acked' = acked \cup {req[t]}
    /\ Goto(t, "created")
    /\ UNCHANGED <<build, up, stored, docs, savedDocs, req, known>>

-----------------------------------------------------------------------------
(* GET /api/v1/services/{id}: Get, FindById, Set.                          *)

(* Mutant: a Redis failure is taken for the absence of the service.        *)
DocGetOrNotFound(t) ==
    /\ pc[t] = "doc_get"
    /\ \E outcome \in CommandOutcomes(EnsureConnected) :
        /\ ctx' = FreedUnlessReply(outcome)
        /\ Goto(t, IF outcome # "ok" THEN "not_found"
                   ELSE IF req[t] \in docs THEN "found" ELSE "doc_find")
    /\ UNCHANGED <<build, up, stored, live, saved, docs, savedDocs, req, snap, acked, known>>

DocGet(t) ==
    /\ pc[t] = "doc_get"
    /\ \E outcome \in CommandOutcomes(EnsureConnected) :
        /\ ctx' = FreedUnlessReply(outcome)
        /\ Goto(t, IF outcome = "ok" /\ req[t] \in docs THEN "found" ELSE "doc_find")
    /\ UNCHANGED <<build, up, stored, live, saved, docs, savedDocs, req, snap, acked, known>>

DocFind(t) ==
    /\ pc[t] = "doc_find"
    /\ Goto(t, IF FindById(req[t]) THEN IfCached("doc_set", "found") ELSE "not_found")
    /\ UNCHANGED <<build, up, ctx, stored, live, saved, docs, savedDocs, req, snap, acked, known>>

(* Over MongoDB FindById catches every exception and returns nullopt: the  *)
(* client gets the 404 of a service that does not exist.  Over PostgreSQL  *)
(* it gets a 500.                                                          *)
DocFindFails(t) ==
    /\ StorageFaults /\ build # "memory"
    /\ pc[t] = "doc_find"
    /\ Goto(t, IF build = "postgres" THEN "failed" ELSE "caught")
    /\ UNCHANGED <<build, up, ctx, stored, live, saved, docs, savedDocs, req, snap, acked, known>>

DocSet(t) ==
    /\ pc[t] = "doc_set"
    /\ \E outcome \in CommandOutcomes(EnsureConnected) :
        /\ ctx' = FreedUnlessReply(outcome)
        /\ docs' = IF Executed(outcome) THEN docs \cup {req[t]} ELSE docs
    /\ Goto(t, "found")
    /\ UNCHANGED <<build, up, stored, live, saved, savedDocs, req, snap, acked, known>>

(* The response is sent and the coroutine ends.                            *)
Respond(t) ==
    /\ pc[t] \in Answers
    /\ Goto(t, "idle")
    /\ snap' = [snap EXCEPT ![t] = Absent]
    /\ known' = [known EXCEPT ![t] = {}]
    /\ UNCHANGED <<build, up, ctx, stored, live, saved, docs, savedDocs, req, acked>>

-----------------------------------------------------------------------------
(* Redis, which only the build of lab5 has, and the processes.             *)

(* TTLs run out.  Set always gives one, a key in the RDB file keeps its    *)
(* deadline, and the file's copy is never younger than the live one.       *)
ExpireList ==
    /\ live.here \/ saved.here
    /\ live' = Absent /\ saved' = Absent
    /\ UNCHANGED <<build, up, ctx, stored, docs, savedDocs, pc, req, snap, acked, known>>

ExpireSavedList ==
    /\ saved.here
    /\ saved' = Absent
    /\ UNCHANGED <<build, up, ctx, stored, live, docs, savedDocs, pc, req, snap, acked, known>>

ExpireDoc(s) ==
    /\ s \in docs \cup savedDocs
    /\ docs' = docs \ {s} /\ savedDocs' = savedDocs \ {s}
    /\ UNCHANGED <<build, up, ctx, stored, live, saved, pc, req, snap, acked, known>>

(* The image's default save points, or a clean stop, write the RDB file.   *)
RedisSave ==
    /\ build = "cached"
    /\ RedisFaults /\ up
    /\ saved' = live /\ savedDocs' = docs
    /\ UNCHANGED <<build, up, ctx, stored, live, docs, pc, req, snap, acked, known>>

RedisStop ==
    /\ build = "cached" /\ ServerDown
    /\ live' = Absent /\ docs' = {}
    /\ UNCHANGED <<build, stored, saved, savedDocs, pc, req, snap, acked, known>>

(* redis_data:/data is a volume: a restarted server loads the last file.   *)
RedisStart ==
    /\ build = "cached" /\ ServerUp
    /\ live' = saved /\ docs' = savedDocs
    /\ UNCHANGED <<build, stored, saved, savedDocs, pc, req, snap, acked, known>>

RedisLinkDrop == build = "cached" /\ LinkDrop /\ UNCHANGED catalogVars

(* The process dies with its requests; docker starts it again (restart:    *)
(* on-failure) and the constructor of RedisCache connects anew.  In memory *)
(* nothing outlives it, and nothing is promised to.                        *)
ServiceRestart ==
    /\ ServiceFaults
    /\ ctx' = IF up THEN "live" ELSE "null"
    /\ IF build = "memory"
       THEN db' = {} /\ acked' = {} /\ UNCHANGED scanned
       ELSE UNCHANGED <<stored, acked>>
    /\ pc' = [t \in Tasks |-> "idle"]
    /\ snap' = [t \in Tasks |-> Absent]
    /\ known' = [t \in Tasks |-> {}]
    /\ UNCHANGED <<build, up, live, saved, docs, savedDocs, req>>

-----------------------------------------------------------------------------

Request(t) ==
    \/ RequestList(t)
    \/ \E s \in Services : RequestDoc(t, s) \/ RequestCreate(t, s)
    \/ RejectCreate(t)

Handle(t) ==
    \/ ListGet(t) \/ ListFind(t) \/ ListFetch(t) \/ ListFindFails(t) \/ ListSet(t)
    \/ Insert(t) \/ InsertFails(t) \/ ListDel(t)
    \/ DocGet(t) \/ DocFind(t) \/ DocFindFails(t) \/ DocSet(t)
    \/ Respond(t)

Environment ==
    \/ ExpireList \/ ExpireSavedList \/ \E s \in Services : ExpireDoc(s)
    \/ RedisSave \/ RedisStop \/ RedisStart \/ RedisLinkDrop
    \/ ServiceRestart

Next == (\E t \in Tasks : Request(t) \/ Handle(t)) \/ Environment

Spec == Init /\ [][Next]_vars

(* Every call to Redis or the storage ends, so a handler goes on; and      *)
(* time passes, so a key with a TTL expires.  Requests and faults are      *)
(* never forced.                                                           *)
FairSpec ==
    /\ Spec
    /\ \A t \in Tasks : WF_vars(Handle(t))
    /\ WF_vars(ExpireList)

-----------------------------------------------------------------------------
(* Properties.                                                             *)

TypeOK ==
    /\ ConnectionTypeOK
    /\ build \in Builds
    /\ db \subseteq Services
    /\ live \in Copy /\ saved \in Copy
    /\ docs \subseteq Services /\ savedDocs \subseteq Services
    /\ pc \in [Tasks -> {"idle"} \cup Steps \cup Answers]
    /\ req \in [Tasks -> Services]
    /\ snap \in [Tasks -> Copy]
    /\ scanned \subseteq Services
    /\ acked \subseteq Services
    /\ known \in [Tasks -> SUBSET Services]

(* The cached list (lab5 services_handler.cpp:49-73 fills it, :91 drops    *)
(* it) lacks a service that a client was told is created only if the DEL   *)
(* of that service went by this very copy: the DEL was lost, the copy was  *)
(* in the hands of a GET that had already read MongoDB, or it lay in the   *)
(* RDB file Redis came back with.  Nothing else makes the list stale.      *)
StaleOnlyWhenMissed ==
    live.here => acked \ live.list \subseteq live.missed

(* The same of what a client is given: a listed answer leaves out a        *)
(* service acknowledged before the request arrived only if it came from    *)
(* the cache and the service's DEL had missed that copy.                   *)
AnswerExplained ==
    \A t \in Tasks :
        pc[t] \in {"hit", "miss"} => known[t] \ snap[t].list \subseteq snap[t].missed

(* An answer marked X-Cache: MISS, or of a build without a cache, has      *)
(* every service acknowledged before the request arrived, whatever Redis,  *)
(* the storage and other requests do meanwhile.                            *)
MissIsFresh ==
    \A t \in Tasks : pc[t] = "miss" => known[t] \subseteq snap[t].list

(* The lists the system holds or answers with, however old.                *)
Lists ==
    {live.list, saved.list} \cup {snap[t].list : t \in {u \in Tasks : pc[u] # "list_fetch"}}

(* Two lists that disagree on the order in which services came to be do so *)
(* only about services that were stored while a list was being read from   *)
(* a cursor (storage.cpp:124-131): neither the cache, its RDB file nor the *)
(* races of its fills with POSTs mix up anything else.  And no list has a  *)
(* service that is not stored.                                             *)
DisagreementNeedsAScan ==
    \A a, b \in Lists :
        /\ a \subseteq db
        /\ a \subseteq b \/ b \subseteq a \/ (a \ b) \cup (b \ a) \subseteq scanned

(* What performance_design.md:108 says of every change of the data: the    *)
(* key is deleted and the next GET sees fresh data.                        *)
ReadsFollowWrites ==
    \A t \in Tasks : pc[t] \in {"hit", "miss"} => known[t] \subseteq snap[t].list

(* GET /services/{id} answers a service acknowledged before the request    *)
(* arrived with 404 (openapi.yaml:218) only when FindById caught a failure *)
(* of MongoDB, never because Redis or the process failed.                  *)
NotFoundIsTrue ==
    \A t \in Tasks : pc[t] = "not_found" => req[t] \notin known[t]

(* Whatever the cache, the faults and other requests do, each answer is    *)
(* one that a catalog may give: true at a moment of the request, or of all *)
(* its moments if it is read from a cursor, or, from the cache, a list     *)
(* that was once so read and not dropped since, which holds because the    *)
(* key is deleted and never updated (performance_design.md:108).           *)
Told(t) ==
    CASE pc[t] = "list_fetch"           -> <<"reading", snap[t].list>>
      [] pc[t] \in {"list_set", "miss"} -> <<"list", snap[t].list>>
      [] pc[t] = "hit"                  -> <<"cached", snap[t].list>>
      [] pc[t] \in {"doc_set", "found"} -> <<"found", req[t]>>
      [] pc[t] = "not_found"            -> <<"not_found", req[t]>>
      [] OTHER                          -> <<>>

Cached == {live, saved} \cup {snap[t] : t \in {u \in Tasks : pc[u] = "list_set"}}
Kept == {copy.list : copy \in {c \in Cached : c.here}}

Catalog == INSTANCE ServiceCatalog WITH
    lasting <- build # "memory",
    caching <- build = "cached",
    scanning <- Scans,
    services <- db,
    kept <- Kept,
    answer <- [t \in Tasks |-> Told(t)]

ImplementsCatalog == Catalog!Spec

(* A list that leaves s out and may still be answered from Redis: the key, *)
(* its RDB file, or what a GET reads, or has read, and is about to Set.    *)
StaleList(s) ==
    \/ live.here /\ s \notin live.list
    \/ saved.here /\ s \notin saved.list
    \/ \E t \in Tasks : pc[t] \in {"list_fetch", "list_set"} /\ s \notin snap[t].list

(* Staleness comes from before the service was stored and never anew: once *)
(* no such list is left, there is none again, whatever reads, fills,       *)
(* restarts and failures follow (services_handler.cpp:60-67 of lab5).      *)
NoStaleListReturns ==
    [][\A s \in db : ~StaleList(s) => ~StaleList(s)']_vars

(* Every created service, the POST answered or not, ends up in every list  *)
(* Redis holds from some time on, whatever Redis, MongoDB and the process  *)
(* do: a fill in flight ends and a stale key expires.                      *)
StaleListEnds ==
    \A s \in Services : s \in db ~> [](live.here => s \in live.list)
=============================================================================
