------------------------------ MODULE Users ------------------------------
(***************************************************************************)
(* The user-service: registration, login and the query of users.  build is *)
(* the build that runs: in memory (lab2), over PostgreSQL (lab3, lab4),    *)
(* over MongoDB (the option USE_MONGODB), or "cached" (lab5), over         *)
(* PostgreSQL with Redis for rate limits and a cache of queries by login.  *)
(*                                                                         *)
(* A task is one HTTP request in flight; tasks interleave between any two  *)
(* calls to Redis or the storage.  Users are never changed or deleted, so  *)
(* a user stands for his document.  Passwords are compared by their        *)
(* SHA-256; names play no part but in the query by mask, so they go with   *)
(* the login here.                                                         *)
(***************************************************************************)
EXTENDS RedisConnection, NameMask, FiniteSets

CONSTANTS
    Tasks,          \* requests that can be in flight together
    UserIds,        \* the ids that can be given, each once
    Logins, Emails, Passwords,
    None,           \* no login, email, password or user
    NameOf,         \* the first and the last name that go with each login
    Masks,          \* the masks that are asked for, of both
    Workload,       \* which of the requests below clients send
    Builds,         \* which of the four builds may run
    StorageFaults,  \* may PostgreSQL or MongoDB throw?
    ServiceFaults   \* may the user-service process die and be restarted?

ASSUME UsersAssumption ==
    /\ None \notin UserIds \cup Logins \cup Emails \cup Passwords
    /\ NameOf \in [Logins -> [first : Seq(Chars), last : Seq(Chars)]]
    /\ Masks \subseteq [first : Seq(Chars), last : Seq(Chars)]
    /\ Workload \subseteq {"register", "login", "query", "all", "mask", "incomplete"}
    /\ Builds \subseteq {"memory", "postgres", "mongo", "cached"}
    /\ {StorageFaults, ServiceFaults} \subseteq BOOLEAN

VARIABLES
    build,      \* which of the builds it is; never changes
    users,      \* the user of each id, or Vacant
    byLogin,    \* in memory, login_to_id_: the id of each login, or None
    cached,     \* the key user:login:{login} in Redis
    saved,      \* the same keys in the last RDB file Redis wrote
    pc,         \* where each task is
    call,       \* login, email and password of its request
    seen,       \* the users a task found and answers with
    raced,      \* history: logins stored while another task was to store them
    told,       \* history: pairs <<login, user>> of the 201s and the tokens
    creds,      \* history: pairs <<login, password>> of the 201s
    known       \* history: creds at the time the task's request arrived

table == <<users, byLogin, raced>>
usersVars ==
    <<build, table, cached, saved, pc, call, seen, told, creds, known>>
vars == <<up, ctx, usersVars>>

(* An email left out of the request is the empty one, here None.           *)
Calls == [login : Logins \cup {None}, email : Emails \cup {None},
          password : Passwords \cup {None}]
Vacant == [login |-> None, email |-> None, password |-> None]
NoCall == Vacant

(* A cached answer: here, and the users of it (one or none).               *)
Copy == [here : BOOLEAN, list : SUBSET UserIds]
Absent == [here |-> FALSE, list |-> {}]

RegisterSteps == {"reg_limit", "reg_find", "reg_create"}
Steps == RegisterSteps \cup
         {"login_limit", "login_find", "query_get", "query_find", "query_set",
          "all_find", "all_fetch", "mask_find", "mask_fetch"}
Answers == {"registered", "conflict", "token", "unauthorized", "queried", "listed", "matched",
            "bad_request", "limited", "failed"}

Init ==
    /\ ConnectionInit
    /\ build \in Builds
    /\ users = [u \in UserIds |-> Vacant]
    /\ byLogin = [l \in Logins |-> None]
    /\ cached = [l \in Logins |-> Absent] /\ saved = [l \in Logins |-> Absent]
    /\ pc = [t \in Tasks |-> "idle"]
    /\ call = [t \in Tasks |-> NoCall]
    /\ seen = [t \in Tasks |-> {}]
    /\ raced = {} /\ told = {} /\ creds = {}
    /\ known = [t \in Tasks |-> {}]

Free == {u \in UserIds : users[u] = Vacant}

(* FindAll.                                                                *)
Stored == UserIds \ Free

(* SELECT ... WHERE login = $1.                                            *)
Owners(l) == {u \in Stored : users[u].login = l}

(* A Find with limit 1 and no order: any document will do.                 *)
OneOf(owners) == IF owners = {} THEN {None} ELSE owners

(* What FindByLogin may return.                                            *)
FindByLogin(l) == IF build = "memory" THEN {byLogin[l]} ELSE OneOf(Owners(l))

Uses(m, chars) == LET s == m.first \o m.last IN \E i \in DOMAIN s : s[i] \in chars

(* Mutant: one of the two masks is enough.                                 *)
NameMatchesEither(b, m, l) ==
    \E part \in {"first", "last"} :
        CASE b = "memory" -> MemoryMatches(m[part], NameOf[l][part])
          [] b = "mongo"  -> MongoMatches(m[part], NameOf[l][part])
          [] OTHER        -> SqlMatches(m[part], NameOf[l][part])

NameMatches(b, m, l) ==
    \A part \in {"first", "last"} :
        CASE b = "memory" -> MemoryMatches(m[part], NameOf[l][part])
          [] b = "mongo"  -> MongoMatches(m[part], NameOf[l][part])
          [] OTHER        -> SqlMatches(m[part], NameOf[l][part])

(* For each build the masks and the logins whose names match; any logins,  *)
(* when a regular expression has operators.                                *)
Matching(b, m) ==
    IF b = "mongo" /\ Uses(m, Operators)
    THEN SUBSET Logins
    ELSE {{l \in Logins : NameMatches(b, m, l)}}

Queries ==
    UNION {{[build |-> b, masks |-> m, logins |-> logins] : logins \in Matching(b, m)} :
               b \in Builds, m \in Masks}

(* MongoDB throws for what is no regular expression.                       *)
Accepted(q) ==
    q.build = "mongo" => Compiles(q.masks.first) /\ Compiles(q.masks.last)

Refused(q) ==
    q.build = "mongo" /\ (Uses(q.masks, Operators) \/ ~Accepted(q))

FindByNameMask(q) == {u \in Stored : users[u].login \in q.logins}

(* What a token says: its login and sub.                                   *)
Token(l, u) == <<l, u>>

(* Only the build of lab5 calls Redis; the others leave the call out.      *)
IfCached(step, otherwise) == IF build = "cached" THEN step ELSE otherwise

Goto(t, step) == pc' = [pc EXCEPT ![t] = step]

-----------------------------------------------------------------------------
(* Requests arrive.                                                        *)

Arrive(t, step, l, e, p) ==
    /\ pc[t] = "idle"
    /\ Goto(t, step)
    /\ call' = [call EXCEPT ![t] = [login |-> l, email |-> e, password |-> p]]
    /\ known' = [known EXCEPT ![t] = creds]
    /\ UNCHANGED <<build, up, ctx, table, cached, saved, seen, told, creds>>

(* POST /api/v1/auth/register; a login, name or password left out or too   *)
(* short is a password None.  UserIds bounds how often it can succeed.     *)
RequestRegister(t, l, e, p) ==
    /\ "register" \in Workload
    /\ Cardinality(Free) > Cardinality({u \in Tasks : pc[u] \in RegisterSteps})
    /\ Arrive(t, IfCached("reg_limit", "reg_find"), l, e, p)

(* POST /api/v1/auth/login.                                                *)
RequestLogin(t, l, p) ==
    /\ "login" \in Workload
    /\ Arrive(t, IfCached("login_limit", "login_find"), l, None, p)

(* GET /api/v1/users?login=l, with a token.                                *)
RequestQuery(t, l) ==
    /\ "query" \in Workload
    /\ Arrive(t, IfCached("query_get", "query_find"), l, None, None)

(* GET /api/v1/users with no filter, or with masks.                        *)
RequestAll(t) ==
    \/ "all" \in Workload /\ Arrive(t, "all_find", None, None, None)
    \/ "mask" \in Workload /\ Arrive(t, "mask_find", None, None, None)

(* GET without a token.                                                    *)
RequestUnauthorized(t) ==
    /\ Workload \cap {"query", "all", "mask"} # {}
    /\ Arrive(t, "unauthorized", None, None, None)

(* CheckRateLimit lets the request in or not (module RateLimiter tells     *)
(* which), and lets it in when Redis fails; INCR frees a failed context,   *)
(* EXPIRE and TTL keep theirs.                                             *)
RateLimit(t) ==
    /\ pc[t] \in {"reg_limit", "login_limit"}
    /\ \E outcome \in CommandOutcomes(EnsureConnected) :
        /\ ctx' \in {FreedUnlessReply(outcome)}
                     \cup (IF RedisFaults /\ outcome \in {"ok", "refused"} THEN {"err"} ELSE {})
        /\ \/ Goto(t, IF pc[t] = "reg_limit" THEN "reg_find" ELSE "login_find")
           \/ outcome = "ok" /\ Goto(t, "limited")
    /\ UNCHANGED <<build, up, table, cached, saved, call, seen, told, creds, known>>

-----------------------------------------------------------------------------
(* POST /api/v1/auth/register: FindByLogin, Create.                        *)

(* Mutant: the body is not looked at.                                      *)
RegFindAnyBody(t) ==
    /\ pc[t] = "reg_find"
    /\ \E u \in FindByLogin(call[t].login) :
          Goto(t, IF u # None THEN "conflict" ELSE "reg_create")
    /\ UNCHANGED <<build, up, ctx, table, cached, saved, call, seen, told, creds, known>>

RegFind(t) ==
    /\ pc[t] = "reg_find"
    /\ IF call[t].password = None
       THEN Goto(t, "bad_request")
       ELSE \E u \in FindByLogin(call[t].login) :
                Goto(t, IF u # None THEN "conflict" ELSE "reg_create")
    /\ UNCHANGED <<build, up, ctx, table, cached, saved, call, seen, told, creds, known>>

(* Mutant: the table has no UNIQUE constraint.                             *)
ViolatesNothing(c) == FALSE

(* UNIQUE (login) and UNIQUE (email) of the table users, which MongoDB's   *)
(* collection has not.                                                     *)
Violates(c) ==
    /\ build \in {"postgres", "cached"}
    /\ \E u \in Stored : users[u].login = c.login \/ users[u].email = c.email

(* Mutant: ids that may have been given before.                            *)
GivenIds == UserIds

(* NextId, BIGSERIAL or a new ObjectId: an id that no user has.            *)
NextIds == Free

(* In memory login_to_id_ then leads to the new user, whoever had the      *)
(* login before.                                                           *)
Store(t, u) ==
    LET l == call[t].login
        racing == \E o \in Tasks \ {t} : pc[o] = "reg_create" /\ call[o].login = l
    IN  /\ users' = [users EXCEPT ![u] = call[t]]
        /\ byLogin' = IF build = "memory" THEN [byLogin EXCEPT ![l] = u] ELSE byLogin
        /\ raced' = IF racing THEN raced \cup {l} ELSE raced

RegCreate(t) ==
    /\ pc[t] = "reg_create"
    /\ IF Violates(call[t])
       THEN Goto(t, "failed") /\ UNCHANGED <<table, seen, told, creds>>
       ELSE \E u \in NextIds :
                /\ Store(t, u)
                /\ seen' = [seen EXCEPT ![t] = {u}]
                /\ told' = told \cup {<<call[t].login, u>>}
                /\ creds' = creds \cup {<<call[t].login, call[t].password>>}
                /\ Goto(t, "registered")
    /\ UNCHANGED <<build, up, ctx, cached, saved, call, known>>

-----------------------------------------------------------------------------
(* POST /api/v1/auth/login: FindByLogin, the token.                        *)

LoginFind(t) ==
    /\ pc[t] = "login_find"
    /\ IF call[t].password = None
       THEN Goto(t, "bad_request") /\ UNCHANGED <<seen, told>>
       ELSE \E u \in FindByLogin(call[t].login) :
               IF u = None \/ users[u].password # call[t].password
               THEN Goto(t, "unauthorized") /\ UNCHANGED <<seen, told>>
               ELSE /\ Goto(t, "token")
                    /\ seen' = [seen EXCEPT ![t] = {u}]
                    /\ told' = told \cup {Token(call[t].login, u)}
    /\ UNCHANGED <<build, up, ctx, table, cached, saved, call, creds, known>>

-----------------------------------------------------------------------------
(* GET /api/v1/users?login=: Get, FindByLogin, Set; and without a login.   *)

(* Mutant: a hit Sets the answer again, so that it stays while it is asked *)
(* for.                                                                    *)
QueryGetProlongs(t) ==
    /\ pc[t] = "query_get"
    /\ LET copy == cached[call[t].login]
       IN  \E outcome \in CommandOutcomes(EnsureConnected) :
            /\ ctx' = FreedUnlessReply(outcome)
            /\ IF outcome = "ok" /\ copy.here
               THEN /\ seen' = [seen EXCEPT ![t] = copy.list]
                    /\ Goto(t, "query_set")
               ELSE /\ UNCHANGED seen
                    /\ Goto(t, "query_find")
    /\ UNCHANGED <<build, up, table, cached, saved, call, told, creds, known>>

QueryGet(t) ==
    /\ pc[t] = "query_get"
    /\ LET copy == cached[call[t].login]
       IN  \E outcome \in CommandOutcomes(EnsureConnected) :
            /\ ctx' = FreedUnlessReply(outcome)
            /\ IF outcome = "ok" /\ copy.here
               THEN /\ seen' = [seen EXCEPT ![t] = copy.list]
                    /\ Goto(t, "queried")
               ELSE /\ UNCHANGED seen
                    /\ Goto(t, "query_find")
    /\ UNCHANGED <<build, up, table, cached, saved, call, told, creds, known>>

QueryFind(t) ==
    /\ pc[t] = "query_find"
    /\ \E u \in FindByLogin(call[t].login) : seen' = [seen EXCEPT ![t] = {u} \ {None}]
    /\ Goto(t, IfCached("query_set", "queried"))
    /\ UNCHANGED <<build, up, ctx, table, cached, saved, call, told, creds, known>>

(* Mutant: one key for all logins.                                         *)
QuerySetOneKey(t) ==
    /\ pc[t] = "query_set"
    /\ \E outcome \in CommandOutcomes(EnsureConnected) :
        /\ ctx' = FreedUnlessReply(outcome)
        /\ cached' = IF Executed(outcome)
                     THEN [l \in Logins |-> [here |-> TRUE, list |-> seen[t]]] ELSE cached
    /\ Goto(t, "queried")
    /\ UNCHANGED <<build, up, table, saved, call, seen, told, creds, known>>

(* The answer is cached even when it is that there is no such user.        *)
QuerySet(t) ==
    /\ pc[t] = "query_set"
    /\ \E outcome \in CommandOutcomes(EnsureConnected) :
        /\ ctx' = FreedUnlessReply(outcome)
        /\ cached' = IF Executed(outcome)
                     THEN [cached EXCEPT ![call[t].login] = [here |-> TRUE, list |-> seen[t]]]
                     ELSE cached
    /\ Goto(t, "queried")
    /\ UNCHANGED <<build, up, table, saved, call, seen, told, creds, known>>

(* One statement, or one pass under the lock; over MongoDB the find is     *)
(* sent, and what is stored by then will be found.                         *)
AllFind(t) ==
    /\ pc[t] = "all_find"
    /\ seen' = [seen EXCEPT ![t] = Stored]
    /\ Goto(t, IF build = "mongo" THEN "all_fetch" ELSE "listed")
    /\ UNCHANGED <<build, up, ctx, table, cached, saved, call, told, creds, known>>

(* The cursor is read to its end.  There is no snapshot: a user stored     *)
(* meanwhile is found or not, for his _id, by which the cursor is sorted,  *)
(* was made before InsertOne and may lie on either side of it.             *)
AllFetch(t) ==
    /\ pc[t] = "all_fetch"
    /\ \E more \in SUBSET (Stored \ seen[t]) : seen' = [seen EXCEPT ![t] = @ \cup more]
    /\ Goto(t, "listed")
    /\ UNCHANGED <<build, up, ctx, table, cached, saved, call, told, creds, known>>

(* The same with masks.                                                    *)
MaskFind(t) ==
    /\ pc[t] = "mask_find"
    /\ IF build = "mongo"
       THEN seen' = [seen EXCEPT ![t] = Stored] /\ Goto(t, "mask_fetch")
       ELSE \E q \in Queries :
                /\ q.build = build
                /\ seen' = [seen EXCEPT ![t] = FindByNameMask(q)]
                /\ Goto(t, "matched")
    /\ UNCHANGED <<build, up, ctx, table, cached, saved, call, told, creds, known>>

MaskFetch(t) ==
    /\ pc[t] = "mask_fetch"
    /\ \E q \in Queries :
        /\ q.build = build
        /\ \/ /\ Accepted(q)
              /\ \E more \in SUBSET (FindByNameMask(q) \ seen[t]) :
                    seen' = [seen EXCEPT ![t] = (@ \cap FindByNameMask(q)) \cup more]
              /\ Goto(t, "matched")
           \/ /\ Refused(q)
              /\ seen' = [seen EXCEPT ![t] = {}]
              /\ Goto(t, "failed")
    /\ UNCHANGED <<build, up, ctx, table, cached, saved, call, told, creds, known>>

(* The response is sent and the coroutine ends.                            *)
Respond(t) ==
    /\ pc[t] \in Answers
    /\ Goto(t, "idle")
    /\ call' = [call EXCEPT ![t] = NoCall]
    /\ seen' = [seen EXCEPT ![t] = {}]
    /\ known' = [known EXCEPT ![t] = {}]
    /\ UNCHANGED <<build, up, ctx, table, cached, saved, told, creds>>

-----------------------------------------------------------------------------
(* Failures, Redis (only the build of lab5 has it) and the processes.      *)

(* What a task is at while it calls the storage.                           *)
StorageSteps ==
    {"reg_find", "reg_create", "login_find", "query_find",
     "all_find", "all_fetch", "mask_find", "mask_fetch"}

(* Mutant: a failed look-up is taken for a missing user.                   *)
StorageFailsCaught(t) ==
    /\ StorageFaults /\ build # "memory"
    /\ pc[t] \in StorageSteps
    /\ Goto(t, IF pc[t] = "login_find" THEN "unauthorized" ELSE "failed")
    /\ seen' = [seen EXCEPT ![t] = {}]
    /\ UNCHANGED <<build, up, ctx, table, cached, saved, call, told, creds, known>>

(* A statement throws and the client gets a 500; the INSERT, or InsertOne, *)
(* may have been carried out all the same.                                 *)
StorageFails(t) ==
    /\ StorageFaults /\ build # "memory"
    /\ pc[t] \in StorageSteps
    /\ Goto(t, "failed")
    /\ seen' = [seen EXCEPT ![t] = {}]
    /\ \/ UNCHANGED table
       \/ /\ pc[t] = "reg_create"
          /\ ~Violates(call[t])
          /\ \E u \in NextIds : Store(t, u)
    /\ UNCHANGED <<build, up, ctx, cached, saved, call, told, creds, known>>

(* TTLs run out.  Set always gives one, a key in the RDB file keeps its    *)
(* deadline, and the file's copy is never younger than the cached one.     *)
Expire(l) ==
    /\ cached[l].here \/ saved[l].here
    /\ cached' = [cached EXCEPT ![l] = Absent]
    /\ saved' = [saved EXCEPT ![l] = Absent]
    /\ UNCHANGED <<build, up, ctx, table, pc, call, seen, told, creds, known>>

ExpireSaved(l) ==
    /\ saved[l].here
    /\ saved' = [saved EXCEPT ![l] = Absent]
    /\ UNCHANGED <<build, up, ctx, table, cached, pc, call, seen, told, creds, known>>

RedisSave ==
    /\ build = "cached"
    /\ RedisFaults /\ up
    /\ saved' = cached
    /\ UNCHANGED <<build, up, ctx, table, cached, pc, call, seen, told, creds, known>>

RedisStop ==
    /\ build = "cached" /\ ServerDown
    /\ cached' = [l \in Logins |-> Absent]
    /\ UNCHANGED <<build, table, saved, pc, call, seen, told, creds, known>>

(* A restarted server loads the last RDB file from its volume.             *)
RedisStart ==
    /\ build = "cached" /\ ServerUp
    /\ cached' = saved
    /\ UNCHANGED <<build, table, saved, pc, call, seen, told, creds, known>>

RedisLinkDrop == build = "cached" /\ LinkDrop /\ UNCHANGED usersVars

(* The process dies with its requests and is started again (docker-compose *)
(* restart: on-failure); the build in memory loses its users, and the      *)
(* history of what it said of them (their tokens stay valid for 24 h and   *)
(* come to name whoever gets their ids: jwt.cpp:71).                       *)
ServiceRestart ==
    /\ ServiceFaults
    /\ ctx' = IF up THEN "live" ELSE "null"
    /\ IF build = "memory"
       THEN /\ users' = [u \in UserIds |-> Vacant]
            /\ byLogin' = [l \in Logins |-> None]
            /\ raced' = {} /\ told' = {} /\ creds' = {}
       ELSE UNCHANGED <<table, told, creds>>
    /\ pc' = [t \in Tasks |-> "idle"]
    /\ call' = [t \in Tasks |-> NoCall]
    /\ seen' = [t \in Tasks |-> {}]
    /\ known' = [t \in Tasks |-> {}]
    /\ UNCHANGED <<build, up, cached, saved>>

-----------------------------------------------------------------------------

Request(t) ==
    \/ \E l \in Logins :
        \/ \E p \in Passwords \cup (IF "incomplete" \in Workload THEN {None} ELSE {}) :
            \/ \E e \in Emails \cup {None} : RequestRegister(t, l, e, p)
            \/ RequestLogin(t, l, p)
        \/ RequestQuery(t, l)
    \/ RequestAll(t) \/ RequestUnauthorized(t)

(* What a coroutine does when it is scheduled.                             *)
Handle(t) ==
    \/ RateLimit(t)
    \/ RegFind(t) \/ RegCreate(t)
    \/ LoginFind(t)
    \/ QueryGet(t) \/ QueryFind(t) \/ QuerySet(t)
    \/ AllFind(t) \/ AllFetch(t) \/ MaskFind(t) \/ MaskFetch(t)
    \/ StorageFails(t) \/ Respond(t)

Next ==
    \/ \E t \in Tasks : Request(t) \/ Handle(t)
    \/ \E l \in Logins : Expire(l) \/ ExpireSaved(l)
    \/ RedisSave \/ RedisStop \/ RedisStart \/ RedisLinkDrop \/ ServiceRestart

Spec == Init /\ [][Next]_vars

(* A handler's next step is taken (coroutines are scheduled, statements    *)
(* return or throw), and time passes, so a key with a TTL expires.         *)
FairSpec ==
    /\ Spec
    /\ \A t \in Tasks : WF_vars(Handle(t))
    /\ \A l \in Logins : WF_vars(Expire(l))

-----------------------------------------------------------------------------
(* Properties.                                                             *)

TypeOK ==
    /\ ConnectionTypeOK
    /\ build \in Builds
    /\ users \in [UserIds -> Calls]
    /\ byLogin \in [Logins -> UserIds \cup {None}]
    /\ cached \in [Logins -> Copy] /\ saved \in [Logins -> Copy]
    /\ pc \in [Tasks -> {"idle"} \cup Steps \cup Answers]
    /\ call \in [Tasks -> Calls]
    /\ seen \in [Tasks -> SUBSET UserIds]
    /\ raced \subseteq Logins
    /\ told \subseteq Logins \X UserIds
    /\ creds \subseteq Logins \X Passwords
    /\ known \in [Tasks -> SUBSET (Logins \X Passwords)]

(* A login names one user for ever, in every 201 of register and in every  *)
(* token, though FindByLogin and Create are two steps                      *)
(* (auth_handler.cpp:96-102, openapi.yaml:84).                             *)
OneUserPerLogin ==
    \A a, b \in told : a[1] = b[1] => a[2] = b[2]

(* Only where nothing makes logins UNIQUE can one come to name two users,  *)
(* and only by two registrations that both found it free; what was stored  *)
(* by a request that got a 500 is found when it is tried again             *)
(* (auth_handler.cpp:74-80 of lab2).                                       *)
TwoUsersNeedARace ==
    \A a, b \in told :
        a[1] = b[1] /\ a[2] # b[2] => build \in {"memory", "mongo"} /\ a[1] \in raced

(* The sub of a token and the id of a 201 are for ever those of the user   *)
(* with that login, whom the order-service then takes for the client; in   *)
(* memory until the process ends (auth_handler.cpp:114 of lab2).           *)
TokenNamesOwner ==
    \A c \in told : users[c[2]].login = c[1]

(* A client that was told it is registered with a login and a password is  *)
(* never refused with 401 for them, unless the registration raced another  *)
(* (auth_handler.cpp:150-155), nor left out of GET /users                  *)
(* (users_handler.cpp:82-86), and a token is given only for a stored login *)
(* and its password.                                                       *)
RegistrationsCount ==
    \A t \in Tasks :
        LET asked == <<call[t].login, call[t].password>>
        IN  /\ pc[t] = "unauthorized" /\ asked \in known[t] => call[t].login \in raced
            /\ pc[t] = "token" =>
                    \E u \in seen[t] : <<users[u].login, users[u].password>> = asked
            /\ pc[t] = "listed" =>
                    \A c \in known[t] : \E u \in seen[t] : users[u].login = c[1]

(* The logins a query by mask should find, and those it may: the mask      *)
(* stands in the name, whatever the case.  Masks of Cyrillic letters in    *)
(* memory, of backslashes over PostgreSQL and of operators of a regular    *)
(* expression over MongoDB may find less, and those with a wildcard of     *)
(* their storage more.                                                     *)
Bears(m, l) == \A part \in {"first", "last"} : Contains(NameOf[l][part], m[part])

Hiding(b) ==
    CASE b = "memory" -> {"ya", "YA"} [] b = "mongo" -> Operators [] OTHER -> {"\\"}

Wildcards(b) ==
    CASE b = "memory" -> {} [] b = "mongo" -> {"."} \cup Operators [] OTHER -> {"%", "_", "\\"}

Promises ==
    {[query |-> q,
      must  |-> {l \in Logins : Bears(q.masks, l) /\ ~Uses(q.masks, Hiding(q.build))},
      may   |-> {l \in Logins : Bears(q.masks, l) \/ Uses(q.masks, Wildcards(q.build))}] :
        q \in Queries}

(* A mask with no character by which its storage hides names finds         *)
(* everybody who was told he is registered with a name it stands in        *)
(* (storage.cpp:76-91, 161-173, 234-247).                                  *)
MaskFindsAll ==
    \A p \in Promises :
        p.query.build = build /\ Accepted(p.query) =>
            \A c \in creds : c[1] \in p.must =>
                \E u \in FindByNameMask(p.query) : users[u].login = c[1]

(* And without a wildcard of its storage a mask finds nobody else          *)
(* (users_handler.cpp:78-81).                                              *)
MaskFindsOnly ==
    \A p \in Promises :
        p.query.build = build /\ Accepted(p.query) =>
            \A u \in FindByNameMask(p.query) : users[u].login \in p.may

(* GET /users?login= answers, from the cache or not, nobody but the user   *)
(* with that login (users_handler.cpp:54-79).                              *)
QueryAnswersTrue ==
    \A t \in Tasks :
        pc[t] = "queried" => \A u \in seen[t] : users[u].login = call[t].login

(* Each answer is one that a registry of accounts may give: true at a      *)
(* moment of the request, or of all its moments if it is read from a       *)
(* cursor (storage.cpp:152-173), but for what the cache denies.  A         *)
(* registration finds its login free in one step and opens the account in  *)
(* a later one, which where logins are UNIQUE checks again                 *)
(* (auth_handler.cpp:96-102).                                              *)
Said(t) ==
    LET l == call[t].login
        p == call[t].password
    IN  CASE pc[t] = "reg_create"               -> <<"free", l>>
          [] pc[t] = "registered"               -> <<"registered", l, p, seen[t]>>
          [] pc[t] = "conflict"                 -> <<"conflict", l>>
          [] pc[t] = "token"                    -> <<"token", l, p, seen[t]>>
          [] pc[t] = "unauthorized" /\ l # None -> <<"refused", l, p>>
          [] pc[t] \in {"query_set", "queried"} -> <<"user", l, seen[t]>>
          [] pc[t] \in {"all_fetch", "mask_fetch"} -> <<"reading", seen[t]>>
          [] pc[t] = "matched"                  -> <<"some", seen[t]>>
          [] pc[t] = "listed"                   -> <<"all", seen[t]>>
          [] OTHER                              -> <<>>

Registry == INSTANCE UserRegistry WITH
    lasting <- build # "memory",
    unique <- build \in {"postgres", "cached"},
    caching <- build = "cached",
    scanning <- build = "mongo",
    login <- [u \in UserIds |-> users[u].login],
    password <- [u \in UserIds |-> users[u].password],
    answer <- [t \in Tasks |-> Said(t)]

ImplementsRegistry == Registry!Spec

(* What may still let Redis answer that nobody has the login: the key, its *)
(* RDB file, or what a query has found and is about to Set.                *)
Denied(l) ==
    \/ cached[l].here /\ cached[l].list = {}
    \/ saved[l].here /\ saved[l].list = {}
    \/ \E t \in Tasks : pc[t] = "query_set" /\ call[t].login = l /\ seen[t] = {}

(* Such an answer comes from before the user was stored and never anew:    *)
(* once it is gone it does not return, whatever queries, restarts and      *)
(* failures follow (users_handler.cpp:58-72).                              *)
NoDenialReturns ==
    [][\A l \in Logins : Owners(l) # {} /\ ~Denied(l) => ~Denied(l)']_vars

(* Once a user is stored, GET /users?login= finds him from some time on,   *)
(* although the answer that there is none was cached and nothing deletes   *)
(* it (users_handler.cpp:72).                                              *)
RegisteredIsFound ==
    \A l \in Logins :
        Owners(l) # {} ~> [](cached[l].here => cached[l].list # {})
=============================================================================
