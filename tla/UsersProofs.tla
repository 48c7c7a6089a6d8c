--------------------------- MODULE UsersProofs ---------------------------
(***************************************************************************)
(* Proofs about Users, for any tasks, logins, passwords, names, masks,     *)
(* builds and faults.                                                      *)
(***************************************************************************)
EXTENDS Users, WellFoundedInduction, TLAPS

(***************************************************************************)
(* What redisCommand leaves of the context.                                *)
(***************************************************************************)
LEMMA ContextAfterCommand ==
    ASSUME ctx \in CtxStates, NEW outcome \in CommandOutcomes(EnsureConnected)
    PROVE  FreedUnlessReply(outcome) \in CtxStates
BY DEF CtxStates, FreedUnlessReply

LEMMA EmptyFacts ==
    /\ Vacant \in Calls /\ NoCall \in Calls
    /\ Absent \in Copy
    /\ \A list \in SUBSET UserIds : [here |-> TRUE, list |-> list] \in Copy
BY DEF Vacant, NoCall, Calls, Absent, Copy

(***************************************************************************)
(* Type correctness, with what the place of a task says of its request.    *)
(***************************************************************************)
LoginSteps ==
    RegisterSteps \cup {"login_limit", "login_find", "query_get", "query_find", "query_set", "queried"}

CallOK(t) ==
    /\ pc[t] \in LoginSteps => call[t].login \in Logins
    /\ pc[t] = "reg_create" => call[t].password \in Passwords
    /\ pc[t] \in {"query_get", "query_set"} => build = "cached"

TypeInv == TypeOK /\ \A t \in Tasks : CallOK(t)

LEMMA FindFacts ==
    ASSUME TypeOK, NEW l \in Logins, NEW u \in FindByLogin(l)
    PROVE  u \in UserIds \cup {None}
BY DEF TypeOK, FindByLogin, OneOf, Owners, Stored, Free

LEMMA ArriveTypes ==
    ASSUME TypeInv, NEW t \in Tasks, NEW step \in Steps \cup Answers,
           NEW l \in Logins \cup {None}, NEW e \in Emails \cup {None},
           NEW p \in Passwords \cup {None}, Arrive(t, step, l, e, p),
           step # "reg_create", step # "query_set",
           step \in LoginSteps => l \in Logins,
           step = "query_get" => build = "cached"
    PROVE  TypeInv'
<1>1. TypeOK'
  BY DEF TypeInv, TypeOK, ConnectionTypeOK, Arrive, Goto, table, Calls
<1>2. ASSUME NEW o \in Tasks PROVE CallOK(o)'
  BY <1>2 DEF TypeInv, TypeOK, CallOK, Arrive, Goto, table
<1>3. QED
  BY <1>1, <1>2 DEF TypeInv

LEMMA RequestTypes ==
    ASSUME TypeInv, NEW t \in Tasks, Request(t)
    PROVE  TypeInv'
<1> USE DEF IfCached, LoginSteps, Steps, RegisterSteps, Answers
<1>1. ASSUME NEW l \in Logins, NEW e \in Emails \cup {None}, NEW p \in Passwords \cup {None},
             RequestRegister(t, l, e, p)
      PROVE  TypeInv'
  BY <1>1, ArriveTypes DEF RequestRegister
<1>2. ASSUME NEW l \in Logins, NEW p \in Passwords \cup {None}, RequestLogin(t, l, p)
      PROVE  TypeInv'
  BY <1>2, ArriveTypes DEF RequestLogin
<1>3. ASSUME NEW l \in Logins, RequestQuery(t, l)
      PROVE  TypeInv'
  BY <1>3, ArriveTypes DEF RequestQuery
<1>4. ASSUME RequestAll(t) \/ RequestUnauthorized(t)
      PROVE  TypeInv'
  BY <1>4, ArriveTypes DEF RequestAll, RequestUnauthorized
<1>5. QED
  BY <1>1, <1>2, <1>3, <1>4 DEF Request

LEMMA StoreTypes ==
    ASSUME TypeInv, NEW t \in Tasks, NEW u \in NextIds, Store(t, u), pc[t] = "reg_create"
    PROVE  /\ users' \in [UserIds -> Calls]
           /\ byLogin' \in [Logins -> UserIds \cup {None}]
           /\ raced' \subseteq Logins
<1>1. call[t] \in Calls /\ call[t].login \in Logins /\ u \in UserIds
  BY DEF TypeInv, TypeOK, CallOK, LoginSteps, RegisterSteps, NextIds, Free
<1>2. QED
  BY <1>1 DEF TypeInv, TypeOK, Store

LEMMA RegisterTypes ==
    ASSUME TypeInv, NEW t \in Tasks,
           RateLimit(t) \/ RegFind(t) \/ RegCreate(t) \/ StorageFails(t)
    PROVE  TypeInv'
<1> USE DEF TypeInv, TypeOK, ConnectionTypeOK, Goto, table, Steps, Answers, RegisterSteps,
            CallOK, LoginSteps
<1>1. CASE RateLimit(t)
  <2>1. ctx' \in CtxStates
    BY <1>1, ContextAfterCommand DEF RateLimit, CtxStates
  <2>2. QED
    BY <1>1, <2>1 DEF RateLimit
<1>2. CASE RegFind(t)
  <2>1. call[t].password # None => call[t].password \in Passwords
    BY DEF Calls
  <2>2. QED
    BY <1>2, <2>1 DEF RegFind
<1>3. CASE RegCreate(t) /\ Violates(call[t])
  BY <1>3 DEF RegCreate
<1>4. CASE RegCreate(t) /\ ~Violates(call[t])
  <2>1. PICK u \in NextIds :
           /\ Store(t, u)
           /\ seen' = [seen EXCEPT ![t] = {u}]
           /\ told' = told \cup {<<call[t].login, u>>}
           /\ creds' = creds \cup {<<call[t].login, call[t].password>>}
           /\ Goto(t, "registered")
    BY <1>4 DEF RegCreate
  <2>2. u \in UserIds /\ pc[t] = "reg_create" /\ call[t].login \in Logins /\ call[t].password \in Passwords
    BY <1>4 DEF RegCreate, NextIds, Free
  <2>3. UNCHANGED <<build, up, ctx, cached, saved, call, known>>
    BY <1>4 DEF RegCreate
  <2>4. TypeOK'
    BY <2>1, <2>2, <2>3, StoreTypes
  <2>5. \A o \in Tasks : CallOK(o)'
    BY <2>1, <2>2, <2>3
  <2>6. QED
    BY <2>4, <2>5
<1>5. CASE StorageFails(t)
  <2>1. /\ users' \in [UserIds -> Calls]
        /\ byLogin' \in [Logins -> UserIds \cup {None}]
        /\ raced' \subseteq Logins
    BY <1>5, StoreTypes DEF StorageFails
  <2>2. TypeOK'
    BY <1>5, <2>1 DEF StorageFails
  <2>3. \A o \in Tasks : CallOK(o)'
    BY <1>5 DEF StorageFails
  <2>4. QED
    BY <2>2, <2>3
<1>6. QED
  BY <1>1, <1>2, <1>3, <1>4, <1>5

LEMMA QueryTypes ==
    ASSUME TypeInv, NEW t \in Tasks,
           LoginFind(t) \/ QueryGet(t) \/ QueryFind(t) \/ QuerySet(t) \/ AllFind(t)
               \/ AllFetch(t) \/ MaskFind(t) \/ MaskFetch(t) \/ Respond(t)
    PROVE  TypeInv'
<1> USE DEF TypeInv, TypeOK, ConnectionTypeOK, Goto, table, Steps, Answers, RegisterSteps,
            CallOK, LoginSteps
<1>1. CASE LoginFind(t)
  <2>1. CASE call[t].password = None
    BY <1>1, <2>1 DEF LoginFind
  <2>2. CASE call[t].password # None
    <3>1. PICK u \in FindByLogin(call[t].login) :
             IF u = None \/ users[u].password # call[t].password
             THEN Goto(t, "unauthorized") /\ UNCHANGED <<seen, told>>
             ELSE /\ Goto(t, "token")
                  /\ seen' = [seen EXCEPT ![t] = {u}]
                  /\ told' = told \cup {Token(call[t].login, u)}
      BY <1>1, <2>2 DEF LoginFind
    <3>2. u \in UserIds \cup {None} /\ call[t].login \in Logins
      BY <1>1, FindFacts DEF LoginFind
    <3>3. QED
      BY <1>1, <3>1, <3>2 DEF LoginFind, Token
  <2>3. QED
    BY <2>1, <2>2
<1>2. CASE QueryGet(t)
  <2>1. call[t].login \in Logins /\ cached[call[t].login].list \in SUBSET UserIds
    BY <1>2 DEF QueryGet, Copy
  <2>2. ctx' \in CtxStates
    BY <1>2, ContextAfterCommand DEF QueryGet
  <2>3. QED
    BY <1>2, <2>1, <2>2 DEF QueryGet
<1>3. CASE QueryFind(t)
  <2>1. PICK u \in FindByLogin(call[t].login) : seen' = [seen EXCEPT ![t] = {u} \ {None}]
    BY <1>3 DEF QueryFind
  <2>2. u \in UserIds \cup {None}
    BY <1>3, <2>1, FindFacts DEF QueryFind
  <2>3. QED
    BY <1>3, <2>1, <2>2 DEF QueryFind, IfCached
<1>4. CASE QuerySet(t)
  <2>1. ctx' \in CtxStates
    BY <1>4, ContextAfterCommand DEF QuerySet
  <2>2. [here |-> TRUE, list |-> seen[t]] \in Copy
    BY EmptyFacts
  <2>3. QED
    BY <1>4, <2>1, <2>2 DEF QuerySet
<1>5. CASE AllFind(t) \/ AllFetch(t)
  BY <1>5 DEF AllFind, AllFetch, Stored
<1>6. CASE MaskFind(t) \/ MaskFetch(t)
  <2>1. \A q \in Queries : FindByNameMask(q) \subseteq UserIds
    BY DEF FindByNameMask, Stored
  <2>2. Stored \subseteq UserIds
    BY DEF Stored
  <2>3. CASE MaskFind(t)
    BY <2>1, <2>2, <2>3 DEF MaskFind
  <2>4. CASE MaskFetch(t)
    BY <2>1, <2>4 DEF MaskFetch
  <2>5. QED
    BY <1>6, <2>3, <2>4
<1>7. CASE Respond(t)
  BY <1>7, EmptyFacts DEF Respond
<1>8. QED
  BY <1>1, <1>2, <1>3, <1>4, <1>5, <1>6, <1>7

RedisStep ==
    \/ \E l \in Logins : Expire(l) \/ ExpireSaved(l)
    \/ RedisSave \/ RedisStop \/ RedisStart \/ RedisLinkDrop

LEMMA EnvironmentTypes ==
    ASSUME TypeInv, RedisStep \/ ServiceRestart
    PROVE  TypeInv'
<1> USE EmptyFacts DEF TypeInv, TypeOK, ConnectionTypeOK, CallOK, table
<1>1. CASE \E l \in Logins : Expire(l) \/ ExpireSaved(l)
  BY <1>1 DEF Expire, ExpireSaved
<1>2. CASE RedisSave \/ RedisStart
  BY <1>2 DEF RedisSave, RedisStart, ServerUp
<1>3. CASE RedisStop \/ RedisLinkDrop
  BY <1>3 DEF RedisStop, RedisLinkDrop, ServerDown, LinkDrop, usersVars, CtxStates
<1>4. CASE ServiceRestart
  BY <1>4 DEF ServiceRestart, CtxStates, LoginSteps, RegisterSteps
<1>5. QED
  BY <1>1, <1>2, <1>3, <1>4 DEF RedisStep

LEMMA TypesInit == Init => TypeInv
<1> SUFFICES ASSUME Init PROVE TypeInv
  OBVIOUS
<1>1. ConnectionTypeOK
  BY RedisFaultsAssumption DEF Init, ConnectionInit, ConnectionTypeOK, CtxStates
<1>2. /\ users \in [UserIds -> Calls] /\ byLogin \in [Logins -> UserIds \cup {None}]
      /\ cached \in [Logins -> Copy] /\ saved \in [Logins -> Copy]
      /\ call \in [Tasks -> Calls]
  BY EmptyFacts DEF Init
<1>3. \A t \in Tasks : CallOK(t)
  BY DEF Init, CallOK, LoginSteps, RegisterSteps
<1>4. QED
  BY <1>1, <1>2, <1>3 DEF Init, TypeInv, TypeOK

LEMMA TypesNext == TypeInv /\ [Next]_vars => TypeInv'
<1>1. ASSUME TypeInv, UNCHANGED vars PROVE TypeInv'
  BY <1>1 DEF TypeInv, TypeOK, ConnectionTypeOK, CallOK, vars, usersVars, table
<1>2. QED
  BY <1>1, RequestTypes, RegisterTypes, QueryTypes, EnvironmentTypes
     DEF Next, Handle, RedisStep

THEOREM Typing == Spec => []TypeInv
BY TypesInit, TypesNext, PTL DEF Spec

THEOREM TypeCorrect == Spec => []TypeOK
<1>1. TypeInv => TypeOK
  BY DEF TypeInv
<1>2. QED
  BY <1>1, Typing, PTL

(***************************************************************************)
(* The inductive invariant.  Two users share a login only after a race;    *)
(* the map in memory leads to a user with the login; what is cached or     *)
(* saved in Redis, and what was told, is about users that have the login.  *)
(***************************************************************************)
RowsOK == \A u \in Stored : users[u].login \in Logins /\ users[u].password \in Passwords

SharedOK ==
    \A u, v \in Stored :
        users[u].login = users[v].login /\ u # v =>
            build \in {"memory", "mongo"} /\ users[u].login \in raced

IndexOK ==
    build = "memory" =>
        \A l \in Logins :
            IF byLogin[l] = None THEN Owners(l) = {} ELSE byLogin[l] \in Owners(l)

CacheOK ==
    \A l \in Logins :
        /\ cached[l].list \cup saved[l].list \subseteq Owners(l)
        /\ build # "cached" => cached[l].list \cup saved[l].list = {}

ToldOK == \A c \in told : users[c[2]].login = c[1]

CredsOK == \A c \in creds : \E u \in Stored : users[u].login = c[1] /\ users[u].password = c[2]

(* A task about to store a user found the login free: if it is not free    *)
(* any more, another task raced it.                                        *)
TaskOK(t) ==
    LET l == call[t].login
        asked == <<l, call[t].password>>
    IN  /\ known[t] \subseteq creds
        /\ pc[t] = "reg_create" /\ Owners(l) # {} => l \in raced
        /\ pc[t] \in {"query_set", "queried"} => seen[t] \subseteq Owners(l)
        /\ pc[t] = "unauthorized" /\ asked \in known[t] => l \in raced
        /\ pc[t] = "token" =>
              \E u \in seen[t] :
                  u \in Stored /\ users[u].login = l /\ users[u].password = call[t].password
        /\ pc[t] \in {"all_fetch", "listed"} =>
              \A c \in known[t] : \E u \in seen[t] : u \in Stored /\ users[u].login = c[1]
        /\ pc[t] \in {"all_fetch", "mask_fetch"} => seen[t] \subseteq Stored

TableInv == RowsOK /\ SharedOK /\ IndexOK /\ CacheOK /\ ToldOK /\ CredsOK

UsersInv == TypeInv /\ TableInv /\ \A t \in Tasks : TaskOK(t)

(***************************************************************************)
(* A user with a login is stored; what a look-up finds has that login, and *)
(* it finds nobody only when there is nobody.                              *)
(***************************************************************************)
LEMMA OwnersFacts ==
    ASSUME TypeOK, NEW l \in Logins
    PROVE  Owners(l) = {u \in UserIds : users[u].login = l}
BY UsersAssumption DEF Owners, Stored, Free, Vacant, TypeOK, Calls

LEMMA FindByLoginFacts ==
    ASSUME TypeOK, IndexOK, NEW l \in Logins, NEW u \in FindByLogin(l)
    PROVE  /\ u = None => Owners(l) = {}
           /\ u # None => u \in Owners(l)
BY UsersAssumption DEF IndexOK, FindByLogin, OneOf, TypeOK, Owners, Stored, Free

(***************************************************************************)
(* What is true of a task stays true while others store users.             *)
(***************************************************************************)
Grows == \A u \in Stored : u \in Stored' /\ users'[u] = users[u]

Quiet(o) == pc'[o] = pc[o] /\ call'[o] = call[o] /\ seen'[o] = seen[o] /\ known'[o] = known[o]

LEMMA OthersKeep ==
    ASSUME TypeInv, NEW o \in Tasks, TaskOK(o), Quiet(o), Grows,
           raced \subseteq raced', creds \subseteq creds',
           pc[o] = "reg_create" /\ Owners(call[o].login)' # Owners(call[o].login)
               => call[o].login \in raced'
    PROVE  TaskOK(o)'
<1>1. Owners(call[o].login) \subseteq Owners(call[o].login)'
  BY DEF Owners, Grows, Quiet
<1>2. known[o] \subseteq creds' /\ (pc[o] = "reg_create" /\ Owners(call[o].login)' # {} => call[o].login \in raced')
  BY DEF TaskOK
<1>3. pc[o] \in {"query_set", "queried"} => seen[o] \subseteq Owners(call[o].login)'
  BY <1>1 DEF TaskOK
<1>4. pc[o] = "unauthorized" /\ <<call[o].login, call[o].password>> \in known[o] => call[o].login \in raced'
  BY DEF TaskOK
<1>5. pc[o] = "token" =>
         \E u \in seen[o] : u \in Stored' /\ users'[u].login = call[o].login
                              /\ users'[u].password = call[o].password
  BY DEF TaskOK, Grows
<1>6. /\ pc[o] \in {"all_fetch", "listed"} =>
            \A c \in known[o] : \E u \in seen[o] : u \in Stored' /\ users'[u].login = c[1]
      /\ pc[o] \in {"all_fetch", "mask_fetch"} => seen[o] \subseteq Stored'
  BY DEF TaskOK, Grows
<1>7. QED
  BY <1>2, <1>3, <1>4, <1>5, <1>6 DEF TaskOK, Quiet, Owners, Stored, Free

(***************************************************************************)
(* Steps that store nobody.                                                *)
(***************************************************************************)
LEMMA TableKeeps ==
    ASSUME TableInv, UNCHANGED <<build, table, cached, saved, told, creds>>
    PROVE  TableInv'
BY DEF TableInv, RowsOK, SharedOK, IndexOK, CacheOK, ToldOK, CredsOK, table, Owners, Stored, Free

LEMMA OthersQuiet ==
    ASSUME TypeInv, NEW o \in Tasks, TaskOK(o), Quiet(o), UNCHANGED <<table, creds>>
    PROVE  TaskOK(o)'
<1>1. Grows /\ Owners(call[o].login)' = Owners(call[o].login)
  BY DEF Grows, table, Stored, Free, Owners, Quiet
<1>2. QED
  BY <1>1, OthersKeep DEF table

(***************************************************************************)
(* Storing a user: the row of a free id becomes what was asked for.        *)
(***************************************************************************)
LEMMA StoredRows ==
    ASSUME UsersInv, NEW t \in Tasks, NEW u \in NextIds, Store(t, u), pc[t] = "reg_create"
    PROVE  /\ u \in UserIds \ Stored
           /\ call[t].login \in Logins /\ call[t].password \in Passwords
           /\ users'[u] = call[t]
           /\ Stored' = Stored \cup {u}
           /\ Grows
           /\ \A v \in Stored : v # u /\ users'[v] = users[v]
           /\ raced \subseteq raced'
<1>1. call[t].login \in Logins /\ call[t].password \in Passwords /\ call[t] # Vacant
  BY UsersAssumption
     DEF UsersInv, TypeInv, CallOK, LoginSteps, RegisterSteps, Vacant
<1>2. u \in UserIds \ Stored /\ users' = [users EXCEPT ![u] = call[t]]
  BY DEF NextIds, Free, Stored, Store
<1>3. users'[u] = call[t] /\ \A v \in UserIds \ {u} : users'[v] = users[v]
  BY <1>2 DEF UsersInv, TypeInv, TypeOK
<1>4. Stored' = Stored \cup {u}
  BY <1>1, <1>2, <1>3 DEF Stored, Free
<1>5. \A v \in Stored : v # u /\ users'[v] = users[v]
  BY <1>2, <1>3 DEF Stored
<1>6. QED
  BY <1>1, <1>2, <1>3, <1>4, <1>5 DEF Grows, Store

LEMMA StoreOwners ==
    ASSUME UsersInv, NEW t \in Tasks, NEW u \in NextIds, Store(t, u), pc[t] = "reg_create",
           NEW l
    PROVE  {v \in Stored' : users'[v].login = l}
             = Owners(l) \cup (IF l = call[t].login THEN {u} ELSE {})
BY StoredRows DEF Owners

LEMMA StoreKeeps ==
    ASSUME UsersInv, NEW t \in Tasks, NEW u \in NextIds, Store(t, u), pc[t] = "reg_create",
           ~Violates(call[t]), UNCHANGED <<build, cached, saved>>
    PROVE  RowsOK' /\ SharedOK' /\ IndexOK' /\ CacheOK'
<1> DEFINE l == call[t].login
<1>1. RowsOK'
  BY StoredRows DEF RowsOK, UsersInv, TableInv
<1>2. Owners(l) # {} => build \in {"memory", "mongo"} /\ l \in raced
  <2>1. build \in {"memory", "postgres", "mongo", "cached"}
    BY UsersAssumption DEF UsersInv, TypeInv, TypeOK
  <2>2. Owners(l) # {} => build \notin {"postgres", "cached"}
    BY DEF Violates, Owners
  <2>3. Owners(l) # {} => l \in raced
    BY DEF UsersInv, TaskOK
  <2>4. QED
    BY <2>1, <2>2, <2>3
<1>3. SharedOK'
  <2>1. ASSUME NEW v \in Stored, NEW w \in Stored, users'[v].login = users'[w].login, v # w
        PROVE  build \in {"memory", "mongo"} /\ users'[v].login \in raced'
    BY <2>1, StoredRows DEF UsersInv, TableInv, SharedOK
  <2>2. ASSUME NEW v \in Stored, users'[v].login = l
        PROVE  build \in {"memory", "mongo"} /\ l \in raced'
    BY <2>2, <1>2, StoredRows DEF Owners
  <2>3. QED
    BY <2>1, <2>2, StoredRows DEF SharedOK
<1>4. IndexOK'
  <2>1. ASSUME build = "memory", NEW k \in Logins
        PROVE  IF byLogin'[k] = None THEN Owners(k)' = {} ELSE byLogin'[k] \in Owners(k)'
    <3>1. Owners(k)' = Owners(k) \cup (IF k = l THEN {u} ELSE {})
      BY StoreOwners DEF Owners
    <3>2. byLogin'[k] = IF k = l THEN u ELSE byLogin[k]
      BY <2>1, StoredRows DEF Store, UsersInv, TypeInv, TypeOK
    <3>3. u # None
      BY StoredRows, UsersAssumption
    <3>4. QED
      BY <2>1, <3>1, <3>2, <3>3 DEF UsersInv, TableInv, IndexOK
  <2>2. QED
    BY <2>1 DEF IndexOK
<1>5. CacheOK'
  <2>1. ASSUME NEW k \in Logins PROVE Owners(k) \subseteq Owners(k)'
    BY StoreOwners DEF Owners
  <2>2. QED
    BY <2>1 DEF UsersInv, TableInv, CacheOK
<1>6. QED
  BY <1>1, <1>3, <1>4, <1>5

LEMMA ToldGrows ==
    ASSUME UsersInv, Grows, NEW c \in told
    PROVE  users'[c[2]].login = c[1]
<1>1. c[1] \in Logins /\ c[2] \in UserIds /\ users[c[2]].login = c[1]
  BY DEF UsersInv, TypeInv, TypeOK, TableInv, ToldOK
<1>2. c[2] \in Stored
  BY <1>1, OwnersFacts DEF Owners, UsersInv, TypeInv
<1>3. QED
  BY <1>1, <1>2 DEF Grows

LEMMA StoreOthers ==
    ASSUME UsersInv, NEW t \in Tasks, NEW u \in NextIds, Store(t, u), pc[t] = "reg_create",
           creds \subseteq creds', NEW o \in Tasks \ {t}, Quiet(o)
    PROVE  TaskOK(o)'
<1>1. Owners(call[o].login)' = Owners(call[o].login) \cup (IF call[o].login = call[t].login THEN {u} ELSE {})
  BY StoreOwners DEF Owners, Quiet
<1>2. pc[o] = "reg_create" /\ call[o].login = call[t].login => call[o].login \in raced'
  BY DEF Store
<1>3. QED
  BY <1>1, <1>2, StoredRows, OthersKeep DEF UsersInv

(***************************************************************************)
(* The steps of a task.                                                    *)
(***************************************************************************)
LEMMA ArriveKeeps ==
    ASSUME UsersInv, NEW t \in Tasks, Request(t)
    PROVE  TableInv' /\ \A o \in Tasks : TaskOK(o)'
<1>1. PICK step \in {"reg_limit", "reg_find", "login_limit", "login_find", "query_get",
                     "query_find", "all_find", "mask_find", "unauthorized"},
           l \in Logins \cup {None}, e \in Emails \cup {None}, p \in Passwords \cup {None} :
           Arrive(t, step, l, e, p) /\ (step = "unauthorized" => l = None)
  BY DEF Request, RequestRegister, RequestLogin, RequestQuery, RequestAll, RequestUnauthorized,
         IfCached
<1>2. TableInv'
  BY <1>1, TableKeeps DEF Arrive, UsersInv
<1>3. ASSUME NEW o \in Tasks \ {t} PROVE TaskOK(o)'
  <2>1. Quiet(o)
    BY <1>1 DEF Arrive, Goto, Quiet, UsersInv, TypeInv, TypeOK
  <2>2. QED
    BY <2>1, <1>1, OthersQuiet DEF Arrive, UsersInv
<1>4. TaskOK(t)'
  <2>1. /\ pc'[t] = step /\ call'[t] = [login |-> l, email |-> e, password |-> p]
        /\ known'[t] = creds /\ creds' = creds
    BY <1>1 DEF Arrive, Goto, UsersInv, TypeInv, TypeOK
  <2>2. <<None, p>> \notin creds
    BY UsersAssumption DEF UsersInv, TypeInv, TypeOK
  <2>3. QED
    BY <1>1, <2>1, <2>2 DEF TaskOK
<1>5. QED
  BY <1>2, <1>3, <1>4

LEMMA OthersWait ==
    ASSUME UsersInv, NEW t \in Tasks, Handle(t), NEW o \in Tasks \ {t}
    PROVE  Quiet(o)
BY DEF Handle, RateLimit, RegFind, RegCreate, LoginFind, QueryGet, QueryFind, QuerySet, AllFind,
       AllFetch, MaskFind, MaskFetch, StorageFails, Respond, Goto, Quiet, UsersInv, TypeInv, TypeOK

LEMMA RegisterKeeps ==
    ASSUME UsersInv, NEW t \in Tasks, RateLimit(t) \/ RegFind(t)
    PROVE  TableInv' /\ \A o \in Tasks : TaskOK(o)'
<1>1. UNCHANGED <<build, table, cached, saved, told, creds, call, seen, known>>
  BY DEF RateLimit, RegFind
<1>2. TableInv'
  BY <1>1, TableKeeps DEF UsersInv
<1>3. ASSUME NEW o \in Tasks \ {t} PROVE TaskOK(o)'
  BY <1>1, <1>3, OthersWait, OthersQuiet DEF Handle, UsersInv
<1>4. TaskOK(t)'
  <2>1. known'[t] \subseteq creds'
    BY <1>1 DEF UsersInv, TaskOK
  <2>2. CASE RateLimit(t)
    <3>1. pc'[t] \in {"reg_find", "login_find", "limited"}
      BY <2>2 DEF RateLimit, Goto, UsersInv, TypeInv, TypeOK
    <3>2. QED
      BY <2>1, <3>1 DEF TaskOK
  <2>3. CASE RegFind(t) /\ pc'[t] # "reg_create"
    <3>1. pc'[t] \in {"bad_request", "conflict"}
      BY <2>3 DEF RegFind, Goto, UsersInv, TypeInv, TypeOK
    <3>2. QED
      BY <2>1, <3>1 DEF TaskOK
  <2>4. CASE RegFind(t) /\ pc'[t] = "reg_create"
    <3>1. call[t].login \in Logins
      BY <2>4 DEF RegFind, UsersInv, TypeInv, CallOK, LoginSteps, RegisterSteps
    <3>2. None \in FindByLogin(call[t].login)
      BY <2>4 DEF RegFind, Goto, UsersInv, TypeInv, TypeOK
    <3>3. Owners(call[t].login) = {}
      BY <3>1, <3>2, FindByLoginFacts DEF UsersInv, TableInv, TypeInv
    <3>4. Owners(call[t].login)' = {}
      BY <1>1, <3>3 DEF Owners, Stored, Free, table
    <3>5. QED
      BY <2>1, <2>4, <3>4 DEF TaskOK
  <2>5. QED
    BY <2>2, <2>3, <2>4
<1>5. QED
  BY <1>2, <1>3, <1>4

LEMMA CreateKeeps ==
    ASSUME UsersInv, NEW t \in Tasks, RegCreate(t)
    PROVE  TableInv' /\ \A o \in Tasks : TaskOK(o)'
<1>1. CASE Violates(call[t])
  <2>1. /\ UNCHANGED <<build, table, cached, saved, told, creds, call, seen, known>>
        /\ pc'[t] = "failed"
    BY <1>1 DEF RegCreate, Goto, UsersInv, TypeInv, TypeOK
  <2>2. TableInv'
    BY <2>1, TableKeeps DEF UsersInv
  <2>3. ASSUME NEW o \in Tasks \ {t} PROVE TaskOK(o)'
    BY <2>1, <2>3, OthersWait, OthersQuiet DEF Handle, UsersInv
  <2>4. TaskOK(t)'
    BY <2>1 DEF UsersInv, TaskOK
  <2>5. QED
    BY <2>2, <2>3, <2>4
<1>2. CASE ~Violates(call[t])
  <2>1. PICK u \in NextIds :
           /\ Store(t, u)
           /\ told' = told \cup {<<call[t].login, u>>}
           /\ creds' = creds \cup {<<call[t].login, call[t].password>>}
           /\ pc'[t] = "registered"
    BY <1>2 DEF RegCreate, Goto, UsersInv, TypeInv, TypeOK
  <2>2. pc[t] = "reg_create" /\ UNCHANGED <<build, cached, saved, known, call>>
    BY DEF RegCreate
  <2>3. RowsOK' /\ SharedOK' /\ IndexOK' /\ CacheOK'
    BY <1>2, <2>1, <2>2, StoreKeeps
  <2>4. ToldOK'
    BY <2>1, <2>2, ToldGrows, StoredRows DEF ToldOK
  <2>5. CredsOK'
    BY <2>1, <2>2, StoredRows DEF CredsOK, UsersInv, TableInv
  <2>6. ASSUME NEW o \in Tasks \ {t} PROVE TaskOK(o)'
    BY <2>1, <2>2, <2>6, StoreOthers, OthersWait DEF Handle
  <2>7. TaskOK(t)'
    BY <2>1, <2>2 DEF TaskOK, UsersInv
  <2>8. QED
    BY <2>3, <2>4, <2>5, <2>6, <2>7 DEF TableInv
<1>3. QED
  BY <1>1, <1>2

LEMMA FailKeeps ==
    ASSUME UsersInv, NEW t \in Tasks, StorageFails(t)
    PROVE  TableInv' /\ \A o \in Tasks : TaskOK(o)'
<1>1. /\ UNCHANGED <<build, cached, saved, told, creds, call, known>>
      /\ pc'[t] = "failed"
  BY DEF StorageFails, Goto, UsersInv, TypeInv, TypeOK
<1>2. TaskOK(t)'
  BY <1>1 DEF UsersInv, TaskOK
<1>3. CASE UNCHANGED table
  <2>1. TableInv'
    BY <1>1, <1>3, TableKeeps DEF UsersInv
  <2>2. ASSUME NEW o \in Tasks \ {t} PROVE TaskOK(o)'
    BY <1>1, <1>3, <2>2, OthersWait, OthersQuiet DEF Handle, UsersInv
  <2>3. QED
    BY <1>2, <2>1, <2>2
<1>4. CASE ~UNCHANGED table
  <2>1. PICK u \in NextIds : Store(t, u) /\ pc[t] = "reg_create" /\ ~Violates(call[t])
    BY <1>4 DEF StorageFails
  <2>2. RowsOK' /\ SharedOK' /\ IndexOK' /\ CacheOK'
    BY <1>1, <2>1, StoreKeeps
  <2>3. ToldOK'
    BY <1>1, <2>1, ToldGrows, StoredRows DEF ToldOK
  <2>4. CredsOK'
    BY <1>1, <2>1, StoredRows DEF CredsOK, UsersInv, TableInv
  <2>5. ASSUME NEW o \in Tasks \ {t} PROVE TaskOK(o)'
    BY <1>1, <2>1, <2>5, StoreOthers, OthersWait DEF Handle
  <2>6. QED
    BY <1>2, <2>2, <2>3, <2>4, <2>5 DEF TableInv
<1>5. QED
  BY <1>3, <1>4

LEMMA LoginKeeps ==
    ASSUME UsersInv, NEW t \in Tasks, LoginFind(t)
    PROVE  TableInv' /\ \A o \in Tasks : TaskOK(o)'
<1> DEFINE l == call[t].login
           asked == <<l, call[t].password>>
<1>1. /\ UNCHANGED <<build, table, cached, saved, creds, call, known>>
      /\ l \in Logins /\ pc[t] = "login_find"
  BY DEF LoginFind, UsersInv, TypeInv, CallOK, LoginSteps
<1>2. ASSUME NEW o \in Tasks \ {t} PROVE TaskOK(o)'
  BY <1>1, <1>2, OthersWait, OthersQuiet DEF Handle, UsersInv
<1>3. known'[t] = known[t] /\ known[t] \subseteq creds /\ creds' = creds
  BY <1>1 DEF UsersInv, TaskOK
<1>4. CASE call[t].password = None
  <2>1. UNCHANGED told /\ pc'[t] = "bad_request"
    BY <1>4 DEF LoginFind, Goto, UsersInv, TypeInv, TypeOK
  <2>2. TableInv'
    BY <1>1, <2>1, TableKeeps DEF UsersInv
  <2>3. TaskOK(t)'
    BY <1>3, <2>1 DEF TaskOK
  <2>4. QED
    BY <1>2, <2>2, <2>3
<1>5. CASE call[t].password # None
  <2>1. PICK u \in FindByLogin(l) :
           IF u = None \/ users[u].password # call[t].password
           THEN pc'[t] = "unauthorized" /\ UNCHANGED <<seen, told>>
           ELSE pc'[t] = "token" /\ seen'[t] = {u} /\ told' = told \cup {<<l, u>>}
    BY <1>5 DEF LoginFind, Goto, Token, UsersInv, TypeInv, TypeOK
  <2>2. (u = None => Owners(l) = {}) /\ (u # None => u \in Owners(l))
    BY <1>1, FindByLoginFacts DEF UsersInv, TypeInv, TableInv
  <2>3. CASE u = None \/ users[u].password # call[t].password
    <3>1. ASSUME asked \in creds PROVE l \in raced
      <4>1. PICK v \in Stored : users[v].login = l /\ users[v].password = call[t].password
        BY <3>1 DEF UsersInv, TableInv, CredsOK
      <4>2. u \in Stored /\ users[u].login = l /\ u # v
        BY <2>2, <2>3, <4>1 DEF Owners
      <4>3. QED
        BY <4>1, <4>2 DEF UsersInv, TableInv, SharedOK
    <3>2. TableInv'
      BY <1>1, <2>1, <2>3, TableKeeps DEF UsersInv
    <3>3. TaskOK(t)'
      BY <1>1, <1>3, <2>1, <2>3, <3>1 DEF TaskOK, table
    <3>4. QED
      BY <1>2, <3>2, <3>3
  <2>4. CASE ~(u = None \/ users[u].password # call[t].password)
    <3>1. u \in Stored /\ users[u].login = l /\ users[u].password = call[t].password
      BY <2>2, <2>4 DEF Owners
    <3>2. ToldOK'
      BY <1>1, <2>1, <2>4, <3>1 DEF ToldOK, UsersInv, TableInv, table
    <3>3. RowsOK' /\ SharedOK' /\ IndexOK' /\ CacheOK' /\ CredsOK'
      BY <1>1 DEF UsersInv, TableInv, RowsOK, SharedOK, IndexOK, CacheOK, CredsOK, table, Owners,
                  Stored, Free
    <3>4. TaskOK(t)'
      BY <1>1, <1>3, <2>1, <2>4, <3>1 DEF TaskOK, table, Stored, Free
    <3>5. QED
      BY <1>2, <3>2, <3>3, <3>4 DEF TableInv
  <2>5. QED
    BY <2>3, <2>4
<1>6. QED
  BY <1>4, <1>5

LEMMA QueryKeeps ==
    ASSUME UsersInv, NEW t \in Tasks,
           QueryGet(t) \/ QueryFind(t) \/ AllFind(t) \/ AllFetch(t) \/ MaskFind(t)
               \/ MaskFetch(t) \/ Respond(t)
    PROVE  TableInv' /\ \A o \in Tasks : TaskOK(o)'
<1>1. UNCHANGED <<build, table, cached, saved, told, creds>>
  BY DEF QueryGet, QueryFind, AllFind, AllFetch, MaskFind, MaskFetch, Respond
<1>2. TableInv'
  BY <1>1, TableKeeps DEF UsersInv
<1>3. ASSUME NEW o \in Tasks \ {t} PROVE TaskOK(o)'
  BY <1>1, <1>3, OthersWait, OthersQuiet DEF Handle, UsersInv
<1>4. known[t] \subseteq creds /\ creds' = creds /\ \A l : Owners(l) = {u \in Stored : users[u].login = l}
  BY <1>1 DEF UsersInv, TaskOK, Owners
<1>5. Stored' = Stored /\ users' = users
  BY <1>1 DEF table, Stored, Free
<1>6. CASE QueryGet(t)
  <2>1. known' = known /\ call' = call /\ call[t].login \in Logins
    BY <1>6 DEF QueryGet, UsersInv, TypeInv, CallOK, LoginSteps
  <2>2. /\ pc'[t] \in {"queried", "query_find"}
        /\ pc'[t] = "queried" => seen'[t] = cached[call[t].login].list
    BY <1>6 DEF QueryGet, Goto, UsersInv, TypeInv, TypeOK
  <2>3. cached[call[t].login].list \subseteq Owners(call[t].login)
    BY <2>1 DEF UsersInv, TableInv, CacheOK
  <2>4. QED
    BY <1>2, <1>3, <1>4, <1>5, <2>1, <2>2, <2>3 DEF TaskOK, Owners
<1>7. CASE QueryFind(t)
  <2>1. known' = known /\ call' = call /\ call[t].login \in Logins
    BY <1>7 DEF QueryFind, UsersInv, TypeInv, CallOK, LoginSteps
  <2>2. PICK u \in FindByLogin(call[t].login) :
           pc'[t] \in {"query_set", "queried"} /\ seen'[t] = {u} \ {None}
    BY <1>7 DEF QueryFind, IfCached, Goto, UsersInv, TypeInv, TypeOK
  <2>3. seen'[t] \subseteq Owners(call[t].login)
    BY <2>1, <2>2, FindByLoginFacts DEF UsersInv, TableInv, TypeInv
  <2>4. QED
    BY <1>2, <1>3, <1>4, <1>5, <2>1, <2>2, <2>3 DEF TaskOK, Owners
<1>8. CASE AllFind(t)
  <2>1. known' = known /\ pc'[t] \in {"all_fetch", "listed"} /\ seen'[t] = Stored
    BY <1>8 DEF AllFind, Goto, UsersInv, TypeInv, TypeOK
  <2>2. \A c \in known[t] : \E u \in Stored : users[u].login = c[1]
    BY <1>4 DEF UsersInv, TableInv, CredsOK
  <2>3. TaskOK(t)'
    BY <1>4, <1>5, <2>1, <2>2 DEF TaskOK
  <2>4. QED
    BY <1>2, <1>3, <2>3
<1>9. CASE AllFetch(t)
  <2>1. known' = known /\ pc'[t] = "listed" /\ seen[t] \subseteq seen'[t]
    BY <1>9 DEF AllFetch, Goto, UsersInv, TypeInv, TypeOK
  <2>2. \A c \in known[t] : \E u \in seen[t] : u \in Stored /\ users[u].login = c[1]
    BY <1>9 DEF AllFetch, UsersInv, TaskOK
  <2>3. TaskOK(t)'
    BY <1>4, <1>5, <2>1, <2>2 DEF TaskOK
  <2>4. QED
    BY <1>2, <1>3, <2>3
<1>10. CASE MaskFind(t)
  <2>1. /\ known' = known /\ pc'[t] \in {"mask_fetch", "matched"}
        /\ pc'[t] = "mask_fetch" => seen'[t] = Stored
    BY <1>10 DEF MaskFind, Goto, UsersInv, TypeInv, TypeOK
  <2>2. QED
    BY <1>2, <1>3, <1>4, <1>5, <2>1 DEF TaskOK
<1>11. CASE MaskFetch(t) \/ Respond(t)
  <2>1. known'[t] \subseteq known[t] /\ pc'[t] \in {"matched", "failed", "idle"}
    BY <1>11 DEF MaskFetch, Respond, Goto, UsersInv, TypeInv, TypeOK
  <2>2. QED
    BY <1>2, <1>3, <1>4, <2>1 DEF TaskOK
<1>12. QED
  BY <1>6, <1>7, <1>8, <1>9, <1>10, <1>11

LEMMA SetKeeps ==
    ASSUME UsersInv, NEW t \in Tasks, QuerySet(t)
    PROVE  TableInv' /\ \A o \in Tasks : TaskOK(o)'
<1>1. UNCHANGED <<build, table, saved, told, creds, call, seen, known>>
  BY DEF QuerySet
<1>2. ASSUME NEW o \in Tasks \ {t} PROVE TaskOK(o)'
  BY <1>1, <1>2, OthersWait, OthersQuiet DEF Handle, UsersInv
<1>3. pc[t] = "query_set" /\ pc'[t] = "queried" /\ build = "cached"
  BY DEF QuerySet, Goto, UsersInv, TypeInv, TypeOK, CallOK
<1>4. seen[t] \subseteq Owners(call[t].login)
  BY <1>3 DEF UsersInv, TaskOK
<1>5. TaskOK(t)'
  BY <1>1, <1>3, <1>4 DEF TaskOK, UsersInv, table, Owners, Stored, Free
<1>6. CacheOK'
  <2>1. \A l \in Logins : cached'[l].list \subseteq Owners(l)
    BY <1>4 DEF QuerySet, UsersInv, TypeInv, TypeOK, TableInv, CacheOK
  <2>2. QED
    BY <1>1, <1>3, <2>1 DEF CacheOK, UsersInv, TableInv, table, Owners, Stored, Free
<1>7. RowsOK' /\ SharedOK' /\ IndexOK' /\ ToldOK' /\ CredsOK'
  BY <1>1 DEF UsersInv, TableInv, RowsOK, SharedOK, IndexOK, ToldOK, CredsOK, table, Owners,
              Stored, Free
<1>8. QED
  BY <1>2, <1>5, <1>6, <1>7 DEF TableInv

(***************************************************************************)
(* The steps of Redis, and a restart, after which no task runs.            *)
(***************************************************************************)
LEMMA RedisKeeps ==
    ASSUME UsersInv, RedisStep
    PROVE  TableInv' /\ \A o \in Tasks : TaskOK(o)'
<1>1. UNCHANGED <<build, table, pc, call, seen, told, creds, known>>
  BY DEF RedisStep, Expire, ExpireSaved, RedisSave, RedisStop, RedisStart, RedisLinkDrop, usersVars
<1>2. \A l \in Logins :
         cached'[l].list \cup saved'[l].list \subseteq cached[l].list \cup saved[l].list
  BY DEF RedisStep, Expire, ExpireSaved, RedisSave, RedisStop, RedisStart, RedisLinkDrop, usersVars,
         Absent, UsersInv, TypeInv, TypeOK
<1>3. CacheOK'
  BY <1>1, <1>2 DEF CacheOK, UsersInv, TableInv, table, Owners, Stored, Free
<1>4. RowsOK' /\ SharedOK' /\ IndexOK' /\ ToldOK' /\ CredsOK'
  BY <1>1 DEF UsersInv, TableInv, RowsOK, SharedOK, IndexOK, ToldOK, CredsOK, table, Owners,
              Stored, Free
<1>5. \A o \in Tasks : TaskOK(o)'
  BY <1>1, OthersQuiet DEF Quiet, UsersInv
<1>6. QED
  BY <1>3, <1>4, <1>5 DEF TableInv

LEMMA RestartKeeps ==
    ASSUME UsersInv, ServiceRestart
    PROVE  TableInv' /\ \A o \in Tasks : TaskOK(o)'
<1>1. \A o \in Tasks : TaskOK(o)'
  BY DEF ServiceRestart, TaskOK
<1>2. CASE build # "memory"
  BY <1>1, <1>2, TableKeeps DEF ServiceRestart, UsersInv
<1>3. CASE build = "memory"
  <2>1. build' = build /\ Stored' = {} /\ told' = {} /\ creds' = {}
    BY <1>3 DEF ServiceRestart, Stored, Free
  <2>2. RowsOK' /\ SharedOK' /\ ToldOK' /\ CredsOK'
    BY <2>1 DEF RowsOK, SharedOK, ToldOK, CredsOK
  <2>3. IndexOK'
    BY <1>3, <2>1 DEF ServiceRestart, IndexOK, Owners
  <2>4. CacheOK'
    BY <1>3, <2>1 DEF ServiceRestart, CacheOK, UsersInv, TableInv
  <2>5. QED
    BY <1>1, <2>2, <2>3, <2>4 DEF TableInv
<1>4. QED
  BY <1>2, <1>3

LEMMA UsersInit == Init => UsersInv
<1> SUFFICES ASSUME Init PROVE UsersInv
  OBVIOUS
<1>1. Stored = {} /\ \A l : Owners(l) = {}
  BY DEF Init, Stored, Free, Owners
<1>2. TableInv
  BY <1>1 DEF Init, TableInv, RowsOK, SharedOK, IndexOK, CacheOK, ToldOK, CredsOK, Absent
<1>3. \A t \in Tasks : TaskOK(t)
  BY DEF Init, TaskOK
<1>4. QED
  BY <1>2, <1>3, TypesInit DEF UsersInv

LEMMA UsersNext == UsersInv /\ [Next]_vars => UsersInv'
<1> SUFFICES ASSUME UsersInv, [Next]_vars PROVE UsersInv'
  OBVIOUS
<1>1. TypeInv'
  BY TypesNext DEF UsersInv
<1>2. TableInv' /\ \A o \in Tasks : TaskOK(o)'
  <2>1. ASSUME NEW t \in Tasks, Request(t) \/ Handle(t)
        PROVE  TableInv' /\ \A o \in Tasks : TaskOK(o)'
    BY <2>1, ArriveKeeps, RegisterKeeps, CreateKeeps, FailKeeps, LoginKeeps, QueryKeeps, SetKeeps
       DEF Handle
  <2>2. CASE UNCHANGED vars
    <3>1. \A o \in Tasks : TaskOK(o)'
      BY <2>2, OthersQuiet DEF vars, usersVars, Quiet, UsersInv
    <3>2. QED
      BY <2>2, <3>1, TableKeeps DEF vars, usersVars, UsersInv
  <2>3. QED
    BY <2>1, <2>2, RedisKeeps, RestartKeeps DEF Next, RedisStep
<1>3. QED
  BY <1>1, <1>2 DEF UsersInv

THEOREM Invariance == Spec => []UsersInv
BY UsersInit, UsersNext, PTL DEF Spec

(***************************************************************************)
(* Two pairs told of one login name two stored users that share it.        *)
(***************************************************************************)
LEMMA ToldTwice ==
    ASSUME UsersInv, NEW a \in told, NEW b \in told, a[1] = b[1], a[2] # b[2]
    PROVE  build \in {"memory", "mongo"} /\ a[1] \in raced
<1>1. /\ a[1] \in Logins /\ a[2] \in UserIds /\ users[a[2]].login = a[1]
      /\ b[2] \in UserIds /\ users[b[2]].login = a[1]
  BY DEF UsersInv, TypeInv, TypeOK, TableInv, ToldOK
<1>2. a[2] \in Stored /\ b[2] \in Stored
  BY <1>1, OwnersFacts DEF Owners, UsersInv, TypeInv
<1>3. QED
  BY <1>1, <1>2 DEF UsersInv, TableInv, SharedOK

(***************************************************************************)
(* A login names one user for ever in the builds whose table makes logins  *)
(* UNIQUE, whatever fails and however registrations interleave.            *)
(***************************************************************************)
THEOREM UniqueLogins ==
    ASSUME Builds \subseteq {"postgres", "cached"}
    PROVE  Spec => []OneUserPerLogin
<1>1. UsersInv => OneUserPerLogin
  BY ToldTwice DEF OneUserPerLogin, UsersInv, TypeInv, TypeOK
<1>2. QED
  BY <1>1, Invariance, PTL

(***************************************************************************)
(* In the other builds two users share a login only after a race.          *)
(***************************************************************************)
THEOREM RaceNeeded == Spec => []TwoUsersNeedARace
<1>1. UsersInv => TwoUsersNeedARace
  BY ToldTwice DEF TwoUsersNeedARace
<1>2. QED
  BY <1>1, Invariance, PTL

(***************************************************************************)
(* Every token and every 201 names a user who has the login, for ever.     *)
(***************************************************************************)
THEOREM TokensNameOwners == Spec => []TokenNamesOwner
<1>1. UsersInv => TokenNamesOwner
  BY DEF TokenNamesOwner, UsersInv, TableInv, ToldOK
<1>2. QED
  BY <1>1, Invariance, PTL

(***************************************************************************)
(* A registration that was told is honoured by login and by GET /users.    *)
(***************************************************************************)
THEOREM RegistrationsHonoured == Spec => []RegistrationsCount
<1>1. UsersInv => RegistrationsCount
  BY DEF RegistrationsCount, UsersInv, TaskOK
<1>2. QED
  BY <1>1, Invariance, PTL

(***************************************************************************)
(* GET /users?login= answers nobody but users with that login.             *)
(***************************************************************************)
THEOREM QueriesTrue == Spec => []QueryAnswersTrue
<1>1. UsersInv => QueryAnswersTrue
  BY DEF QueryAnswersTrue, UsersInv, TaskOK, Owners
<1>2. QED
  BY <1>1, Invariance, PTL

(* What a request brings: its task at the first step of a handler, with    *)
(* what was asked, and nothing else.                                       *)
LEMMA Arrivals ==
    ASSUME TypeOK, NEW t \in Tasks, Request(t)
    PROVE  /\ pc[t] = "idle"
           /\ pc'[t] \in {"reg_limit", "reg_find", "login_limit", "login_find", "query_get",
                          "query_find", "all_find", "mask_find", "unauthorized"}
           /\ pc'[t] = "unauthorized" => call'[t].login = None
           /\ \A o \in Tasks \ {t} : pc'[o] = pc[o] /\ call'[o] = call[o]
           /\ UNCHANGED <<build, table, cached, saved, seen>>
<1> DEFINE Entries == {"reg_limit", "reg_find", "login_limit", "login_find", "query_get",
                       "query_find", "all_find", "mask_find"}
<1>1. PICK step, l, e, p :
         Arrive(t, step, l, e, p) /\ (step \in Entries \/ (step = "unauthorized" /\ l = None))
  <2>1. CASE \E l \in Logins, e \in Emails \cup {None}, p \in Passwords \cup {None} :
                RequestRegister(t, l, e, p)
    BY <2>1 DEF RequestRegister, IfCached
  <2>2. CASE \E l \in Logins, p \in Passwords \cup {None} : RequestLogin(t, l, p)
    BY <2>2 DEF RequestLogin, IfCached
  <2>3. CASE \E l \in Logins : RequestQuery(t, l)
    BY <2>3 DEF RequestQuery, IfCached
  <2>4. CASE RequestAll(t) \/ RequestUnauthorized(t)
    BY <2>4 DEF RequestAll, RequestUnauthorized
  <2>5. QED
    BY <2>1, <2>2, <2>3, <2>4 DEF Request
<1>2. /\ pc[t] = "idle" /\ pc'[t] = step /\ call'[t].login = l
      /\ \A o \in Tasks \ {t} : pc'[o] = pc[o] /\ call'[o] = call[o]
  BY <1>1 DEF Arrive, Goto, TypeOK
<1>3. UNCHANGED <<build, table, cached, saved, seen>>
  BY <1>1 DEF Arrive, table
<1>4. QED
  BY <1>1, <1>2, <1>3

(***************************************************************************)
(* That nobody has a login is not found out anew when somebody has it; all *)
(* other copies of an answer are copies of copies.                         *)
(***************************************************************************)
LEMMA StepBringsNoDenial ==
    ASSUME UsersInv, [Next]_vars, NEW l \in Logins, Owners(l) # {}, ~Denied(l)
    PROVE  ~Denied(l)'
<1> USE DEF Denied, Goto, Absent
<1>1. TypeOK /\ \A t \in Tasks : CallOK(t)
  BY DEF UsersInv, TypeInv
<1>2. CASE UNCHANGED vars
  BY <1>2 DEF vars, usersVars
<1>3. CASE ServiceRestart
  BY <1>3 DEF ServiceRestart
<1>4. ASSUME NEW k \in Logins, Expire(k) \/ ExpireSaved(k)
      PROVE  ~Denied(l)'
  BY <1>1, <1>4 DEF Expire, ExpireSaved, TypeOK
<1>5. CASE RedisSave \/ RedisStop \/ RedisStart \/ RedisLinkDrop
  BY <1>5 DEF RedisSave, RedisStop, RedisStart, RedisLinkDrop, usersVars
<1>6. ASSUME NEW t \in Tasks, Request(t) \/ Handle(t)
      PROVE  ~Denied(l)'
  <2>1. CASE QuerySet(t)
    <3>1. /\ pc[t] = "query_set" /\ pc'[t] = "queried"
          /\ \A u \in Tasks \ {t} : pc'[u] = pc[u]
          /\ saved' = saved /\ call' = call /\ seen' = seen
      BY <1>1, <2>1 DEF QuerySet, TypeOK
    <3>2. call[t].login = l => seen[t] # {}
      BY <3>1
    <3>3. cached'[l].here /\ cached'[l].list = {} => cached[l].here /\ cached[l].list = {}
      BY <1>1, <2>1, <3>2 DEF QuerySet, TypeOK
    <3>4. QED
      BY <3>1, <3>3
  <2>2. CASE ~QuerySet(t)
    <3>1. cached' = cached /\ saved' = saved
      BY <1>1, <1>6, <2>2, Arrivals
         DEF Handle, RateLimit, RegFind, RegCreate, LoginFind,
             QueryGet, QueryFind, AllFind, AllFetch, MaskFind, MaskFetch, StorageFails, Respond
    <3>2. \A u \in Tasks \ {t} : pc'[u] = pc[u] /\ call'[u] = call[u] /\ seen'[u] = seen[u]
      <4>1. CASE Request(t)
        BY <1>1, <4>1, Arrivals
      <4>2. CASE Handle(t)
        BY <4>2, OthersWait DEF Quiet
      <4>3. QED
        BY <1>6, <4>1, <4>2
    <3>3. CASE QueryFind(t)
      <4>1. PICK u \in FindByLogin(call[t].login) : seen'[t] = {u} \ {None}
        BY <1>1, <3>3 DEF QueryFind, TypeOK
      <4>2. pc[t] = "query_find" /\ call' = call
        BY <3>3 DEF QueryFind
      <4>3. call[t].login \in Logins
        BY <1>1, <4>2 DEF CallOK, LoginSteps
      <4>4. call[t].login = l => seen'[t] # {}
        BY <1>1, <4>1, <4>3, FindByLoginFacts DEF UsersInv, TableInv
      <4>5. QED
        BY <3>1, <3>2, <4>2, <4>4
    <3>4. CASE ~QueryFind(t)
      <4>1. CASE Request(t)
        BY <1>1, <3>1, <3>2, <4>1, Arrivals
      <4>2. CASE Handle(t)
        <5>1. pc'[t] # "query_set"
          BY <1>1, <2>2, <3>4, <4>2
             DEF Handle, RateLimit, RegFind, RegCreate, LoginFind, QueryGet, AllFind, AllFetch,
                 MaskFind, MaskFetch, StorageFails, Respond, TypeOK
        <5>2. QED
          BY <3>1, <3>2, <5>1
      <4>3. QED
        BY <1>6, <4>1, <4>2
    <3>5. QED
      BY <3>3, <3>4
  <2>3. QED
    BY <2>1, <2>2
<1>7. QED
  BY <1>2, <1>3, <1>4, <1>5, <1>6 DEF Next

(***************************************************************************)
(* Once nothing is left that denies a login somebody has, nothing denies   *)
(* it again: with the expiry of the key, which only a run can show, who is *)
(* registered is found.                                                    *)
(***************************************************************************)
THEOREM DenialIsOver == Spec => NoDenialReturns
<1>1. UsersInv /\ [Next]_vars =>
        [\A l \in Logins : Owners(l) # {} /\ ~Denied(l) => ~Denied(l)']_vars
  BY StepBringsNoDenial
<1>2. QED
  BY <1>1, Invariance, PTL DEF Spec, NoDenialReturns

-----------------------------------------------------------------------------
(***************************************************************************)
(* The refinement.  What the abstract registry says in terms of logins, in *)
(* terms of rows.                                                          *)
(***************************************************************************)
LEMMA RegistryFacts ==
    ASSUME UsersInv
    PROVE  /\ \A l \in Logins : l \in Registry!Taken <=> Owners(l) # {}
           /\ Registry!Having(Logins) = Stored
           /\ \A logins \in SUBSET Logins :
                 Registry!Having(logins) = {u \in Stored : users[u].login \in logins}
<1>1. TypeOK /\ RowsOK
  BY DEF UsersInv, TypeInv, TableInv
<1>2. \A u \in UserIds : u \in Stored <=> users[u].login \in Logins
  BY <1>1, UsersAssumption DEF RowsOK, Stored, Free, Vacant, TypeOK
<1>3. \A logins \in SUBSET Logins :
         Registry!Having(logins) = {u \in Stored : users[u].login \in logins}
  BY <1>2 DEF Registry!Having, Stored
<1>4. Registry!Having(Logins) = Stored
  <2>1. Registry!Having(Logins) = {u \in Stored : users[u].login \in Logins}
    BY <1>3
  <2>2. QED
    BY <1>2, <2>1 DEF Stored
<1>5. \A l \in Logins : l \in Registry!Taken <=> Owners(l) # {}
  BY <1>4 DEF Registry!Taken, Owners, Stored
<1>6. QED
  BY <1>3, <1>4, <1>5

SameRegistry == build' = build /\ users' = users

LEMMA QuietStep ==
    ASSUME SameRegistry, \A o \in Tasks : Said(o)' = Said(o)
    PROVE  UNCHANGED Registry!registryVars
<1>1. [o \in Tasks |-> Said(o)]' = [o \in Tasks |-> Said(o)]
  OBVIOUS
<1>2. QED
  BY <1>1 DEF SameRegistry, Registry!registryVars, Registry!flags

LEMMA AnswerStep ==
    ASSUME SameRegistry, NEW t \in Tasks,
           Said(t) = <<>>, Said(t)' \in Registry!Truths \cup Registry!Memories,
           \A o \in Tasks \ {t} : Said(o)' = Said(o)
    PROVE  Registry!Next
<1>1. [o \in Tasks |-> Said(o)]' = [[o \in Tasks |-> Said(o)] EXCEPT ![t] = Said(t)']
  OBVIOUS
<1>2. Registry!Answer(t)
  BY <1>1 DEF SameRegistry, Registry!Answer, Registry!NoAnswer, Registry!flags
<1>3. QED
  BY <1>2 DEF Registry!Next

LEMMA ScanStep ==
    ASSUME SameRegistry, NEW t \in Tasks, NEW first \in SUBSET Registry!Having(Logins),
           NEW more \in SUBSET Registry!Having(Logins), Said(t) = <<"reading", first>>,
           \/ Said(t)' = <<"all", first \cup more>>
           \/ \E logins \in SUBSET Logins :
                 Said(t)' = <<"some", (first \cup more) \cap Registry!Having(logins)>>,
           \A o \in Tasks \ {t} : Said(o)' = Said(o)
    PROVE  Registry!Next
<1> DEFINE said == [o \in Tasks |-> Said(o)]
<1>1. said' = [said EXCEPT ![t] = Said(t)']
  OBVIOUS
<1>2. said[t] = <<"reading", first>>
  OBVIOUS
<1> HIDE DEF said
<1>3. UNCHANGED <<Registry!flags, [u \in UserIds |-> users[u].login],
                  [u \in UserIds |-> users[u].password]>>
  BY DEF SameRegistry, Registry!flags
<1>4. \/ said' = [said EXCEPT ![t] = <<"all", first \cup more>>]
      \/ \E logins \in SUBSET Logins :
            said' = [said EXCEPT ![t] = <<"some", (first \cup more) \cap Registry!Having(logins)>>]
  BY <1>1
<1>5. Registry!EndScan(t)
  BY <1>2, <1>3, <1>4, Zenon DEF Registry!EndScan, said
<1>6. QED
  BY <1>5 DEF Registry!Next

LEMMA FinishStep ==
    ASSUME SameRegistry, NEW T \in SUBSET Tasks,
           \A o \in T : Said(o)' = <<>>,
           \A o \in Tasks \ T : Said(o)' = Said(o)
    PROVE  Registry!Next
<1>1. [o \in Tasks |-> Said(o)]'
          = [o \in Tasks |-> IF o \in T THEN <<>> ELSE [v \in Tasks |-> Said(v)][o]]
  OBVIOUS
<1>2. Registry!Finish(T)
  BY <1>1 DEF SameRegistry, Registry!Finish, Registry!NoAnswer, Registry!flags
<1>3. QED
  BY <1>2 DEF Registry!Next

LEMMA FinishOne ==
    ASSUME SameRegistry, NEW t \in Tasks, Said(t)' = <<>>,
           \A o \in Tasks \ {t} : Said(o)' = Said(o)
    PROVE  Registry!Next
<1>1. {t} \in SUBSET Tasks
  OBVIOUS
<1>2. /\ \A o \in {t} : Said(o)' = <<>>
      /\ \A o \in Tasks \ {t} : Said(o)' = Said(o)
  OBVIOUS
<1>3. QED
  BY <1>1, <1>2, FinishStep

(* What is true, one kind of answer at a time.                             *)
LEMMA TruthsHave ==
    /\ \A l \in Logins \ Registry!Taken :
          /\ <<"free", l>> \in Registry!Truths
          /\ <<"user", l, {}>> \in Registry!Truths
          /\ \A p \in Passwords : <<"refused", l, p>> \in Registry!Truths
    /\ \A l \in Registry!Taken : <<"conflict", l>> \in Registry!Truths
    /\ \A u \in Registry!Having(Logins) :
          /\ <<"token", users[u].login, users[u].password, {u}>> \in Registry!Truths
          /\ <<"user", users[u].login, {u}>> \in Registry!Truths
          /\ \A p \in Passwords \ {users[u].password} :
                <<"refused", users[u].login, p>> \in Registry!Truths
    /\ build = "mongo" => <<"reading", Registry!Having(Logins)>> \in Registry!Truths
    /\ build # "mongo" =>
          /\ \A logins \in SUBSET Logins : <<"some", Registry!Having(logins)>> \in Registry!Truths
          /\ <<"all", Registry!Having(Logins)>> \in Registry!Truths
<1> DEFINE login == [u \in UserIds |-> users[u].login]
           password == [u \in UserIds |-> users[u].password]
<1>1. ASSUME NEW u \in Registry!Having(Logins)
      PROVE  u \in UserIds /\ login[u] = users[u].login /\ password[u] = users[u].password
  BY DEF Registry!Having
<1>2. /\ Registry!LoginTruths \subseteq Registry!Truths
      /\ Registry!PasswordTruths \subseteq Registry!Truths
      /\ Registry!UserTruths \subseteq Registry!Truths
      /\ Registry!ListTruths \subseteq Registry!Truths
  BY DEF Registry!Truths
<1>3. ASSUME NEW l \in Logins \ Registry!Taken
      PROVE  /\ <<"free", l>> \in Registry!LoginTruths
             /\ <<"user", l, {}>> \in Registry!UserTruths
             /\ \A p \in Passwords : <<"refused", l, p>> \in Registry!PasswordTruths
  <2>1. <<"free", l>> \in Registry!LoginTruths
    BY DEF Registry!LoginTruths
  <2>2. <<"user", l, {}>> \in Registry!UserTruths
    BY DEF Registry!UserTruths
  <2>3. \A p \in Passwords : <<"refused", l, p>> \in Registry!PasswordTruths
    BY DEF Registry!PasswordTruths
  <2>4. QED
    BY <2>1, <2>2, <2>3
<1>4. \A l \in Registry!Taken : <<"conflict", l>> \in Registry!LoginTruths
  BY DEF Registry!LoginTruths
<1>5. ASSUME NEW u \in Registry!Having(Logins)
      PROVE  /\ <<"token", users[u].login, users[u].password, {u}>> \in Registry!PasswordTruths
             /\ <<"user", users[u].login, {u}>> \in Registry!UserTruths
             /\ \A p \in Passwords \ {users[u].password} :
                   <<"refused", users[u].login, p>> \in Registry!PasswordTruths
  <2>1. <<"token", users[u].login, users[u].password, {u}>> \in Registry!PasswordTruths
    <3>1. <<"token", login[u], password[u], {u}>> \in Registry!PasswordTruths
      BY DEF Registry!PasswordTruths
    <3>2. QED
      BY <1>1, <3>1
  <2>2. <<"user", users[u].login, {u}>> \in Registry!UserTruths
    <3>1. <<"user", login[u], {u}>> \in Registry!UserTruths
      BY DEF Registry!UserTruths
    <3>2. QED
      BY <1>1, <3>1
  <2>3. ASSUME NEW p \in Passwords \ {users[u].password}
        PROVE  <<"refused", users[u].login, p>> \in Registry!PasswordTruths
    <3>1. <<"refused", login[u], p>> \in {<<"refused", login[u], q>> : q \in Passwords \ {password[u]}}
      BY <1>1
    <3>2. <<"refused", login[u], p>> \in Registry!PasswordTruths
      BY <3>1 DEF Registry!PasswordTruths
    <3>3. QED
      BY <1>1, <3>2
  <2>4. QED
    BY <2>1, <2>2, <2>3
<1>6. /\ build = "mongo" => <<"reading", Registry!Having(Logins)>> \in Registry!ListTruths
      /\ build # "mongo" =>
            /\ \A logins \in SUBSET Logins :
                  <<"some", Registry!Having(logins)>> \in Registry!ListTruths
            /\ <<"all", Registry!Having(Logins)>> \in Registry!ListTruths
  BY DEF Registry!ListTruths
<1>7. QED
  BY <1>2, <1>3, <1>4, <1>5, <1>6

(* What other tasks are going to be told does not change.                  *)
LEMMA OthersSaid ==
    ASSUME UsersInv, NEW t \in Tasks, Handle(t), NEW o \in Tasks \ {t}
    PROVE  Said(o)' = Said(o)
BY OthersWait DEF Quiet, Said

(* A request arrives, or is turned away for want of a token.               *)
LEMMA ArrivalIsQuiet ==
    ASSUME UsersInv, NEW t \in Tasks, Request(t)
    PROVE  UNCHANGED Registry!registryVars
<1>1. TypeOK
  BY DEF UsersInv, TypeInv
<1>2. SameRegistry
  BY <1>1, Arrivals DEF SameRegistry, table
<1>3. \A o \in Tasks \ {t} : Said(o)' = Said(o)
  <2>1. TAKE o \in Tasks \ {t}
  <2>2. pc'[o] = pc[o] /\ call'[o] = call[o] /\ seen'[o] = seen[o]
    BY <1>1, Arrivals
  <2>3. QED
    BY <2>2, SMTT(30) DEF Said
<1>4. Said(t) = <<>>
  BY <1>1, Arrivals DEF Said
<1>5. Said(t)' = <<>>
  <2>1. /\ pc'[t] \in {"reg_limit", "reg_find", "login_limit", "login_find", "query_get",
                       "query_find", "all_find", "mask_find", "unauthorized"}
        /\ pc'[t] = "unauthorized" => call'[t].login = None
    BY <1>1, Arrivals
  <2>2. QED
    BY <2>1 DEF Said
<1>6. QED
  BY <1>2, <1>3, <1>4, <1>5, QuietStep

(* The login is looked up.                                                 *)
LEMMA RegFindAnswers ==
    ASSUME UsersInv, NEW t \in Tasks, RegFind(t)
    PROVE  Registry!Next \/ UNCHANGED Registry!registryVars
<1>1. TypeOK /\ IndexOK
  BY DEF UsersInv, TypeInv, TableInv
<1>2. SameRegistry /\ call' = call /\ seen' = seen /\ pc[t] = "reg_find"
  BY DEF RegFind, SameRegistry, table
<1>3. call[t].login \in Logins
  BY <1>2 DEF UsersInv, TypeInv, CallOK, LoginSteps, RegisterSteps
<1>4. \A o \in Tasks \ {t} : Said(o)' = Said(o)
  BY OthersSaid DEF Handle
<1>5. Said(t) = <<>>
  BY <1>2 DEF Said
<1>6. CASE pc'[t] = "reg_create"
  <2>1. None \in FindByLogin(call[t].login)
    BY <1>1, <1>6 DEF RegFind, Goto, TypeOK
  <2>2. call[t].login \in Logins \ Registry!Taken
    BY <1>1, <1>3, <2>1, FindByLoginFacts, RegistryFacts
  <2>3. Said(t)' = <<"free", call[t].login>>
    BY <1>2, <1>6 DEF Said
  <2>4. Said(t)' \in Registry!Truths
    BY <2>2, <2>3, TruthsHave
  <2>5. QED
    BY <1>2, <1>4, <1>5, <2>4, AnswerStep
<1>7. CASE pc'[t] = "conflict"
  <2>1. PICK u \in FindByLogin(call[t].login) : u # None
    BY <1>1, <1>7 DEF RegFind, Goto, TypeOK
  <2>2. call[t].login \in Registry!Taken
    BY <1>1, <1>3, <2>1, FindByLoginFacts, RegistryFacts
  <2>3. Said(t)' = <<"conflict", call[t].login>>
    BY <1>2, <1>7 DEF Said
  <2>4. Said(t)' \in Registry!Truths
    BY <2>2, <2>3, TruthsHave
  <2>5. QED
    BY <1>2, <1>4, <1>5, <2>4, AnswerStep
<1>8. CASE pc'[t] = "bad_request"
  <2>1. Said(t)' = Said(t)
    BY <1>5, <1>8 DEF Said
  <2>2. QED
    BY <1>2, <1>4, <2>1, QuietStep
<1>9. QED
  BY <1>1, <1>6, <1>7, <1>8 DEF RegFind, Goto, TypeOK

(* A row is stored, answered with 201 or not; where logins are UNIQUE, the *)
(* login is still free.                                                    *)
LEMMA StoreOpens ==
    ASSUME UsersInv, NEW t \in Tasks, Handle(t), pc[t] = "reg_create",
           ~Violates(call[t]), NEW u \in NextIds, Store(t, u), build' = build,
           Said(t)' \in {<<"registered", call[t].login, call[t].password, {u}>>, <<>>}
    PROVE  Registry!Next
<1>1. TypeOK /\ call[t].login \in Logins /\ call[t].password \in Passwords
  BY DEF UsersInv, TypeInv, CallOK, LoginSteps, RegisterSteps
<1> PICK l \in Logins, p \in Passwords : l = call[t].login /\ p = call[t].password
  BY <1>1
<1>2. u \in UserIds /\ users[u] = Vacant /\ users' = [users EXCEPT ![u] = call[t]]
  BY DEF NextIds, Free, Store
<1>3. Said(t) = <<"free", l>>
  BY DEF Said
<1>4. users[u].login = None
  BY <1>2 DEF Vacant
<1>5. build \in {"postgres", "cached"} => l \notin Registry!Taken
  BY <1>1, RegistryFacts DEF Violates, Owners
<1>6. /\ [v \in UserIds |-> users[v].login]'
             = [[v \in UserIds |-> users[v].login] EXCEPT ![u] = l]
      /\ [v \in UserIds |-> users[v].password]'
             = [[v \in UserIds |-> users[v].password] EXCEPT ![u] = p]
  BY <1>1, <1>2 DEF TypeOK
<1>7. \A o \in Tasks \ {t} : Said(o)' = Said(o)
  BY OthersSaid
<1>8. [o \in Tasks |-> Said(o)]' = [[o \in Tasks |-> Said(o)] EXCEPT ![t] = Said(t)']
  BY <1>7
<1>9. Registry!Open(t, u, l, p)
  BY <1>2, <1>3, <1>4, <1>5, <1>6, <1>8
     DEF Registry!Open, Registry!NoAnswer, Registry!flags
<1>10. QED
  BY <1>2, <1>9 DEF Registry!Next

LEMMA RegCreateOpens ==
    ASSUME UsersInv, NEW t \in Tasks, RegCreate(t)
    PROVE  Registry!Next
<1>1. TypeOK
  BY DEF UsersInv, TypeInv
<1>2. pc[t] = "reg_create" /\ build' = build /\ call' = call
  BY DEF RegCreate
<1>3. CASE Violates(call[t])
  <2>1. pc'[t] = "failed" /\ SameRegistry
    BY <1>1, <1>2, <1>3 DEF RegCreate, Goto, SameRegistry, table, TypeOK
  <2>2. Said(t)' = <<>>
    BY <2>1 DEF Said
  <2>3. QED
    BY <2>1, <2>2, FinishOne, OthersSaid DEF Handle
<1>4. CASE ~Violates(call[t])
  <2>1. PICK u \in NextIds : Store(t, u) /\ seen'[t] = {u} /\ pc'[t] = "registered"
    BY <1>1, <1>4 DEF RegCreate, Goto, TypeOK
  <2>2. Said(t)' = <<"registered", call[t].login, call[t].password, {u}>>
    BY <1>2, <2>1 DEF Said
  <2>3. QED
    BY <1>2, <1>4, <2>1, <2>2, StoreOpens DEF Handle
<1>5. QED
  BY <1>3, <1>4

LEMMA FailureFinishesOrOpens ==
    ASSUME UsersInv, NEW t \in Tasks, StorageFails(t)
    PROVE  Registry!Next
<1>1. pc'[t] = "failed" /\ build' = build
  BY DEF StorageFails, Goto, UsersInv, TypeInv, TypeOK
<1>2. Said(t)' = <<>>
  BY <1>1 DEF Said
<1>3. CASE UNCHANGED table
  <2>1. SameRegistry
    BY <1>1, <1>3 DEF SameRegistry, table
  <2>2. QED
    BY <1>2, <2>1, FinishOne, OthersSaid DEF Handle
<1>4. CASE /\ pc[t] = "reg_create" /\ ~Violates(call[t])
           /\ \E u \in NextIds : Store(t, u)
  BY <1>1, <1>2, <1>4, StoreOpens DEF Handle
<1>5. QED
  BY <1>3, <1>4 DEF StorageFails

(* A login is granted with its password, and refused only when nobody, or  *)
(* somebody with another password, has it.                                 *)
LEMMA LoginFindAnswers ==
    ASSUME UsersInv, NEW t \in Tasks, LoginFind(t)
    PROVE  Registry!Next \/ UNCHANGED Registry!registryVars
<1> DEFINE l == call[t].login
           p == call[t].password
<1>1. TypeOK /\ IndexOK
  BY DEF UsersInv, TypeInv, TableInv
<1>2. SameRegistry /\ call' = call /\ pc[t] = "login_find"
  BY DEF LoginFind, SameRegistry, table
<1>3. l \in Logins
  BY <1>2 DEF UsersInv, TypeInv, CallOK, LoginSteps
<1>4. \A o \in Tasks \ {t} : Said(o)' = Said(o)
  BY OthersSaid DEF Handle
<1>5. Said(t) = <<>>
  BY <1>2 DEF Said
<1>6. CASE p = None
  <2>1. pc'[t] = "bad_request"
    BY <1>1, <1>6 DEF LoginFind, Goto, TypeOK
  <2>2. Said(t)' = Said(t)
    BY <1>5, <2>1 DEF Said
  <2>3. QED
    BY <1>2, <1>4, <2>2, QuietStep
<1>7. ASSUME p # None, NEW u \in FindByLogin(l), u = None \/ users[u].password # p,
             pc'[t] = "unauthorized"
      PROVE  Registry!Next
  <2>1. p \in Passwords
    BY <1>1, <1>7 DEF TypeOK, Calls
  <2>2. Said(t)' = <<"refused", l, p>>
    BY <1>2, <1>3, <1>7, UsersAssumption DEF Said
  <2>3. CASE u = None
    <3>1. l \in Logins \ Registry!Taken
      BY <1>1, <1>3, <1>7, <2>3, FindByLoginFacts, RegistryFacts
    <3>2. Said(t)' \in Registry!Truths
      BY <2>1, <2>2, <3>1, TruthsHave
    <3>3. QED
      BY <1>2, <1>4, <1>5, <3>2, AnswerStep
  <2>4. CASE u # None
    <3>1. u \in UserIds /\ users[u].login = l /\ users[u].password # p
          /\ u \in Registry!Having(Logins)
      BY <1>1, <1>3, <1>7, <2>4, FindByLoginFacts, RegistryFacts DEF Owners, Stored
    <3>2. Said(t)' \in Registry!Truths
      BY <2>1, <2>2, <3>1, TruthsHave
    <3>3. QED
      BY <1>2, <1>4, <1>5, <3>2, AnswerStep
  <2>5. QED
    BY <2>3, <2>4
<1>8. ASSUME p # None, NEW u \in FindByLogin(l), u # None, users[u].password = p,
             pc'[t] = "token", seen'[t] = {u}
      PROVE  Registry!Next
  <2>1. u \in UserIds /\ users[u].login = l /\ u \in Registry!Having(Logins)
    BY <1>1, <1>3, <1>8, FindByLoginFacts, RegistryFacts DEF Owners, Stored
  <2>2. Said(t)' = <<"token", users[u].login, users[u].password, {u}>>
    BY <1>2, <1>8, <2>1 DEF Said
  <2>3. Said(t)' \in Registry!Truths
    BY <2>1, <2>2, TruthsHave
  <2>4. QED
    BY <1>2, <1>4, <1>5, <2>3, AnswerStep
<1>9. p # None =>
         \E u \in FindByLogin(l) :
            \/ (u = None \/ users[u].password # p) /\ pc'[t] = "unauthorized"
            \/ u # None /\ users[u].password = p /\ pc'[t] = "token" /\ seen'[t] = {u}
  BY <1>1 DEF LoginFind, Goto, TypeOK
<1>10. QED
  BY <1>6, <1>7, <1>8, <1>9

LEMMA QueryLogins ==
    ASSUME NEW q \in Queries
    PROVE  q.logins \in SUBSET Logins
<1>1. \A b \in Builds, m \in Masks : \A logins \in Matching(b, m) : logins \in SUBSET Logins
  BY DEF Matching
<1>2. PICK b \in Builds, m \in Masks :
         \E logins \in Matching(b, m) : q = [build |-> b, masks |-> m, logins |-> logins]
  BY DEF Queries
<1>3. QED
  BY <1>1, <1>2

(* Users are queried, in the storage or in the cache, which over           *)
(* PostgreSQL has at most the one owner of the login.                      *)
LEMMA QueryAnswers ==
    ASSUME UsersInv, NEW t \in Tasks,
           QueryGet(t) \/ QueryFind(t) \/ AllFind(t) \/ MaskFind(t)
    PROVE  Registry!Next \/ UNCHANGED Registry!registryVars
<1> DEFINE l == call[t].login
<1>1. TypeOK /\ IndexOK /\ CacheOK /\ SharedOK
  BY DEF UsersInv, TypeInv, TableInv
<1>2. SameRegistry /\ call' = call
  BY DEF QueryGet, QueryFind, AllFind, MaskFind, SameRegistry, table
<1>3. \A o \in Tasks \ {t} : Said(o)' = Said(o)
  BY OthersSaid DEF Handle
<1>4. Said(t) = <<>>
  BY DEF QueryGet, QueryFind, AllFind, MaskFind, Said
<1>5. ASSUME pc'[t] \in {"query_set", "queried"}, l \in Logins,
             NEW u \in Owners(l), seen'[t] = {u}
      PROVE  Registry!Next
  <2>1. u \in UserIds /\ users[u].login = l /\ u \in Registry!Having(Logins)
    BY <1>5, RegistryFacts DEF Owners, Stored
  <2>2. Said(t)' = <<"user", users[u].login, {u}>>
    BY <1>2, <1>5, <2>1 DEF Said
  <2>3. Said(t)' \in Registry!Truths
    BY <2>1, <2>2, TruthsHave
  <2>4. QED
    BY <1>2, <1>3, <1>4, <2>3, AnswerStep
<1>6. ASSUME pc'[t] \in {"query_set", "queried"}, l \in Logins,
             build = "cached" \/ Owners(l) = {}, seen'[t] = {}
      PROVE  Registry!Next
  <2>1. Said(t)' = <<"user", l, {}>>
    BY <1>2, <1>6 DEF Said
  <2>2. CASE build = "cached"
    <3>1. Said(t)' \in Registry!Memories
      BY <1>6, <2>1, <2>2 DEF Registry!Memories
    <3>2. QED
      BY <1>2, <1>3, <1>4, <3>1, AnswerStep
  <2>3. CASE Owners(l) = {}
    <3>1. l \in Logins \ Registry!Taken
      BY <1>6, <2>3, RegistryFacts
    <3>2. Said(t)' \in Registry!Truths
      BY <2>1, <3>1, TruthsHave
    <3>3. QED
      BY <1>2, <1>3, <1>4, <3>2, AnswerStep
  <2>4. QED
    BY <1>6, <2>2, <2>3
<1>7. CASE QueryGet(t)
  <2>1. l \in Logins /\ build = "cached"
    BY <1>7 DEF QueryGet, UsersInv, TypeInv, CallOK, LoginSteps
  <2>2. CASE pc'[t] = "queried"
    <3>1. seen'[t] = cached[l].list
      BY <1>1, <1>7, <2>2 DEF QueryGet, Goto, TypeOK
    <3>2. \A u, v \in Owners(l) : u = v
      BY <1>1, <2>1 DEF SharedOK, Owners
    <3>3. seen'[t] = {} \/ \E u \in Owners(l) : seen'[t] = {u}
      <4>1. seen'[t] \subseteq Owners(l)
        BY <1>1, <2>1, <3>1 DEF CacheOK
      <4>2. QED
        BY <3>2, <4>1
    <3>4. QED
      BY <1>5, <1>6, <2>1, <2>2, <3>3
  <2>3. CASE pc'[t] # "queried"
    <3>1. pc'[t] = "query_find"
      BY <1>1, <1>7, <2>3 DEF QueryGet, Goto, TypeOK
    <3>2. Said(t)' = Said(t)
      BY <1>4, <3>1 DEF Said
    <3>3. QED
      BY <1>2, <1>3, <3>2, QuietStep
  <2>4. QED
    BY <2>2, <2>3
<1>8. CASE QueryFind(t)
  <2>1. l \in Logins
    BY <1>8 DEF QueryFind, UsersInv, TypeInv, CallOK, LoginSteps
  <2>2. PICK u \in FindByLogin(l) : seen'[t] = {u} \ {None}
    BY <1>1, <1>8 DEF QueryFind, TypeOK
  <2>3. pc'[t] \in {"query_set", "queried"}
    BY <1>1, <1>8 DEF QueryFind, Goto, IfCached, TypeOK
  <2>4. CASE u = None
    <3>1. Owners(l) = {} /\ seen'[t] = {}
      BY <1>1, <2>1, <2>2, <2>4, FindByLoginFacts
    <3>2. QED
      BY <1>6, <2>1, <2>3, <3>1
  <2>5. CASE u # None
    <3>1. u \in Owners(l) /\ seen'[t] = {u}
      BY <1>1, <2>1, <2>2, <2>5, FindByLoginFacts
    <3>2. QED
      BY <1>5, <2>1, <2>3, <3>1
  <2>6. QED
    BY <2>4, <2>5
<1>9. CASE AllFind(t)
  <2>1. seen'[t] = Registry!Having(Logins)
    BY <1>1, <1>9, RegistryFacts DEF AllFind, TypeOK
  <2>2. pc'[t] = IF build = "mongo" THEN "all_fetch" ELSE "listed"
    BY <1>1, <1>9 DEF AllFind, Goto, TypeOK
  <2>3. Said(t)' = IF build = "mongo" THEN <<"reading", Registry!Having(Logins)>>
                                      ELSE <<"all", Registry!Having(Logins)>>
    BY <2>1, <2>2 DEF Said
  <2>4. Said(t)' \in Registry!Truths
    BY <2>3, TruthsHave
  <2>5. QED
    BY <1>2, <1>3, <1>4, <2>4, AnswerStep
<1>10. CASE MaskFind(t) /\ build = "mongo"
  <2>1. pc'[t] = "mask_fetch" /\ seen'[t] = Registry!Having(Logins)
    BY <1>1, <1>10, RegistryFacts DEF MaskFind, Goto, TypeOK
  <2>2. Said(t)' = <<"reading", Registry!Having(Logins)>>
    BY <2>1 DEF Said
  <2>3. Said(t)' \in Registry!Truths
    BY <1>10, <2>2, TruthsHave
  <2>4. QED
    BY <1>2, <1>3, <1>4, <2>3, AnswerStep
<1>11. CASE MaskFind(t) /\ build # "mongo"
  <2>1. PICK q \in Queries : pc'[t] = "matched" /\ seen'[t] = FindByNameMask(q)
    BY <1>1, <1>11 DEF MaskFind, Goto, TypeOK
  <2>2. q.logins \in SUBSET Logins
    BY QueryLogins
  <2>3. Said(t)' = <<"some", Registry!Having(q.logins)>>
    BY <2>1, <2>2, RegistryFacts DEF Said, FindByNameMask
  <2>4. Said(t)' \in Registry!Truths
    BY <1>11, <2>2, <2>3, TruthsHave
  <2>5. QED
    BY <1>2, <1>3, <1>4, <2>4, AnswerStep
<1>12. QED
  BY <1>7, <1>8, <1>9, <1>10, <1>11

(* The cursor over MongoDB comes to its end, with all the users there were *)
(* when it was opened.                                                     *)
LEMMA FetchAnswers ==
    ASSUME UsersInv, NEW t \in Tasks, AllFetch(t) \/ MaskFetch(t)
    PROVE  Registry!Next
<1>1. TypeOK
  BY DEF UsersInv, TypeInv
<1>2. SameRegistry
  BY DEF AllFetch, MaskFetch, SameRegistry, table
<1>3. \A o \in Tasks \ {t} : Said(o)' = Said(o)
  BY OthersSaid DEF Handle
<1>4. pc[t] \in {"all_fetch", "mask_fetch"} /\ Said(t) = <<"reading", seen[t]>>
  BY DEF AllFetch, MaskFetch, Said
<1>5. seen[t] \in SUBSET Registry!Having(Logins)
  BY <1>4, RegistryFacts DEF UsersInv, TaskOK
<1>6. CASE AllFetch(t)
  <2>1. PICK more \in SUBSET (Stored \ seen[t]) : seen'[t] = seen[t] \cup more
    BY <1>1, <1>6 DEF AllFetch, TypeOK
  <2>2. more \in SUBSET Registry!Having(Logins)
    BY <2>1, RegistryFacts
  <2>3. pc'[t] = "listed"
    BY <1>1, <1>6 DEF AllFetch, Goto, TypeOK
  <2>4. Said(t)' = <<"all", seen[t] \cup more>>
    BY <2>1, <2>3 DEF Said
  <2>5. QED
    BY <1>2, <1>3, <1>4, <1>5, <2>2, <2>4, ScanStep
<1>7. CASE MaskFetch(t)
  <2>1. PICK q \in Queries :
           \/ /\ \E more \in SUBSET (FindByNameMask(q) \ seen[t]) :
                    seen'[t] = (seen[t] \cap FindByNameMask(q)) \cup more
              /\ pc'[t] = "matched"
           \/ pc'[t] = "failed"
    BY <1>1, <1>7 DEF MaskFetch, Goto, TypeOK
  <2>2. q.logins \in SUBSET Logins
    BY QueryLogins
  <2>3. FindByNameMask(q) = Registry!Having(q.logins) /\ FindByNameMask(q) \subseteq Registry!Having(Logins)
    BY <2>2, RegistryFacts DEF FindByNameMask
  <2>4. CASE pc'[t] = "failed"
    <3>1. Said(t)' = <<>>
      BY <2>4 DEF Said
    <3>2. QED
      BY <1>2, <1>3, <3>1, FinishOne
  <2>5. CASE pc'[t] # "failed"
    <3>1. PICK more \in SUBSET (FindByNameMask(q) \ seen[t]) :
             seen'[t] = (seen[t] \cap FindByNameMask(q)) \cup more
      BY <2>1, <2>5
    <3>2. pc'[t] = "matched"
      BY <2>1, <2>5
    <3>3. seen'[t] = (seen[t] \cup more) \cap Registry!Having(q.logins)
      BY <2>3, <3>1
    <3>4. Said(t)' = <<"some", (seen[t] \cup more) \cap Registry!Having(q.logins)>>
      BY <3>2, <3>3 DEF Said
    <3>5. more \in SUBSET Registry!Having(Logins)
      BY <2>3
    <3>6. QED
      BY <1>2, <1>3, <1>4, <1>5, <2>2, <3>4, <3>5, ScanStep
  <2>6. QED
    BY <2>4, <2>5
<1>8. QED
  BY <1>6, <1>7

LEMMA OtherHandlersFinish ==
    ASSUME UsersInv, NEW t \in Tasks, RateLimit(t) \/ QuerySet(t) \/ Respond(t)
    PROVE  Registry!Next \/ UNCHANGED Registry!registryVars
<1>1. TypeOK /\ SameRegistry
  BY DEF RateLimit, QuerySet, Respond, SameRegistry, table, UsersInv, TypeInv
<1>2. \A o \in Tasks \ {t} : Said(o)' = Said(o)
  BY OthersSaid DEF Handle
<1>3. CASE RateLimit(t)
  <2>1. /\ pc[t] \in {"reg_limit", "login_limit"}
        /\ pc'[t] \in {"reg_find", "login_find", "limited"}
    BY <1>1, <1>3 DEF RateLimit, Goto, TypeOK
  <2>2. Said(t)' = Said(t)
    BY <2>1 DEF Said
  <2>3. QED
    BY <1>1, <1>2, <2>2, QuietStep
<1>4. CASE QuerySet(t)
  <2>1. pc[t] = "query_set" /\ pc'[t] = "queried" /\ call' = call /\ seen' = seen
    BY <1>1, <1>4 DEF QuerySet, Goto, TypeOK
  <2>2. Said(t)' = Said(t)
    BY <2>1 DEF Said
  <2>3. QED
    BY <1>1, <1>2, <2>2, QuietStep
<1>5. CASE Respond(t)
  <2>1. pc'[t] = "idle"
    BY <1>1, <1>5 DEF Respond, Goto, TypeOK
  <2>2. Said(t)' = <<>>
    BY <2>1 DEF Said
  <2>3. QED
    BY <1>1, <1>2, <2>2, FinishOne
<1>6. QED
  BY <1>3, <1>4, <1>5

LEMMA RestartForgetsOrFinishes ==
    ASSUME UsersInv, ServiceRestart
    PROVE  Registry!Next
<1>1. build' = build /\ \A o \in Tasks : pc'[o] = "idle"
  BY DEF ServiceRestart
<1>2. \A o \in Tasks : Said(o)' = <<>>
  BY <1>1 DEF Said
<1>3. CASE build = "memory"
  <2>1. users' = [u \in UserIds |-> Vacant]
    BY <1>3 DEF ServiceRestart
  <2>2. /\ [u \in UserIds |-> users[u].login]' = [u \in UserIds |-> None]
        /\ [u \in UserIds |-> users[u].password]' = [u \in UserIds |-> None]
        /\ [o \in Tasks |-> Said(o)]' = [o \in Tasks |-> <<>>]
    BY <1>2, <2>1 DEF Vacant
  <2>3. Registry!Forget
    BY <1>1, <1>3, <2>2 DEF Registry!Forget, Registry!NoAnswer, Registry!flags
  <2>4. QED
    BY <2>3 DEF Registry!Next
<1>4. CASE build # "memory"
  <2>1. SameRegistry
    BY <1>1, <1>4 DEF ServiceRestart, SameRegistry, table
  <2>2. QED
    BY <1>2, <2>1, FinishStep
<1>5. QED
  BY <1>3, <1>4

(***************************************************************************)
(* Each build of the service is a registry of accounts: an account is      *)
(* opened under a login found free, which if logins are UNIQUE is free,    *)
(* and answers are true at a moment of the request, or list all users      *)
(* there were at a moment of it with some of those who came later, if      *)
(* MongoDB's cursor reads them; but for what the cache denies.             *)
(***************************************************************************)
THEOREM ImplementsUserRegistry == Spec => ImplementsRegistry
<1>1. Init => Registry!Init
  <2> SUFFICES ASSUME Init PROVE Registry!Init
    OBVIOUS
  <2>1. \A o \in Tasks : Said(o) = <<>>
    BY DEF Init, Said
  <2>2. \A u \in UserIds : users[u].login = None /\ users[u].password = None
    BY DEF Init, Vacant
  <2>3. QED
    BY <2>1, <2>2 DEF Registry!Init, Registry!NoAnswer
<1>2. UsersInv /\ [Next]_vars => [Registry!Next]_(Registry!registryVars)
  <2> SUFFICES ASSUME UsersInv, [Next]_vars
               PROVE  Registry!Next \/ UNCHANGED Registry!registryVars
    OBVIOUS
  <2>1. CASE RedisStep \/ UNCHANGED vars
    <3>1. SameRegistry /\ pc' = pc /\ call' = call /\ seen' = seen
      BY <2>1 DEF RedisStep, Expire, ExpireSaved, RedisSave, RedisStop, RedisStart,
                  RedisLinkDrop, SameRegistry, table, vars, usersVars
    <3>2. \A o \in Tasks : Said(o)' = Said(o)
      BY <3>1 DEF Said
    <3>3. QED
      BY <3>1, <3>2, QuietStep
  <2>2. CASE ServiceRestart
    BY <2>2, RestartForgetsOrFinishes
  <2>3. ASSUME NEW t \in Tasks, Request(t) \/ Handle(t)
        PROVE  Registry!Next \/ UNCHANGED Registry!registryVars
    BY <2>3, ArrivalIsQuiet, RegFindAnswers, RegCreateOpens, FailureFinishesOrOpens,
       LoginFindAnswers, QueryAnswers, FetchAnswers, OtherHandlersFinish
       DEF Handle
  <2>4. QED
    BY <2>1, <2>2, <2>3 DEF Next, RedisStep
<1>3. QED
  BY <1>1, <1>2, Invariance, PTL DEF Spec, ImplementsRegistry, Registry!Spec

-----------------------------------------------------------------------------
(***************************************************************************)
(* A mask that stands in a name is found there, in every storage that does *)
(* not hide it: over PostgreSQL the first % takes what is before it and    *)
(* the last % what is after, whatever else the mask's characters stand     *)
(* for.                                                                    *)
(***************************************************************************)
LEMMA MemoryFinds ==
    ASSUME NEW mask \in Seq(Chars), NEW name \in Seq(Chars), Contains(name, mask),
           \A i \in DOMAIN mask : mask[i] \notin {"ya", "YA"}
    PROVE  MemoryMatches(mask, name)
BY DEF Contains, MemoryMatches, Occurs, Fold, ToLower, Chars

LEMMA MongoFinds ==
    ASSUME NEW mask \in Seq(Chars), NEW name \in Seq(Chars), Contains(name, mask)
    PROVE  MongoMatches(mask, name)
BY DEF Contains, MongoMatches, Occurs

LEMMA SeqHas ==
    ASSUME NEW s \in Seq(Chars)
    PROVE  Len(s) \in Nat /\ DOMAIN s = 1 .. Len(s)
OBVIOUS

Pattern(mask) == Lower(<<"%">> \o mask \o <<"%">>)

LEMMA PatternHas ==
    ASSUME NEW mask \in Seq(Chars)
    PROVE  /\ Len(Pattern(mask)) = Len(mask) + 2
           /\ Pattern(mask)[1] = "%" /\ Pattern(mask)[Len(mask) + 2] = "%"
           /\ \A i \in 1 .. Len(mask) : Pattern(mask)[i + 1] = Fold(mask[i])
<1> DEFINE n == Len(mask)
           whole == <<"%">> \o mask \o <<"%">>
<1>1. n \in Nat /\ DOMAIN mask = 1 .. n /\ "%" \in Chars
  <2>1. "%" \in Chars
    BY DEF Chars
  <2>2. QED
    BY <2>1, SeqHas
<1>2. whole \in Seq(Chars) /\ Len(whole) = n + 2 /\ DOMAIN whole = 1 .. n + 2
  BY <1>1
<1>3. whole[1] = "%" /\ whole[n + 2] = "%"
  BY <1>1
<1>4. \A i \in 1 .. n : whole[i + 1] = mask[i]
  BY <1>1
<1> HIDE DEF whole
<1>5. Lower(whole) = [i \in 1 .. n + 2 |-> Fold(whole[i])] /\ Len(Lower(whole)) = n + 2
  BY <1>1, <1>2 DEF Lower
<1>6. Fold("%") = "%"
  BY DEF Fold
<1>7. /\ Len(Lower(whole)) = n + 2 /\ Lower(whole)[1] = "%" /\ Lower(whole)[n + 2] = "%"
      /\ \A i \in 1 .. n : Lower(whole)[i + 1] = Fold(mask[i])
  BY <1>1, <1>3, <1>4, <1>5, <1>6
<1>8. QED
  BY <1>7 DEF whole, Pattern

LEMMA LowerHas ==
    ASSUME NEW name \in Seq(Chars)
    PROVE  /\ Len(Lower(name)) = Len(name) /\ Len(name) \in Nat
           /\ \A i \in 1 .. Len(name) : Lower(name)[i] = Fold(name[i])
BY DEF Lower

(* LIKE where nothing is escaped.                                          *)
PlainLike(text, pattern) ==
    \E cut \in [0 .. Len(pattern) -> 0 .. Len(text)] :
        /\ cut[0] = 0 /\ cut[Len(pattern)] = Len(text)
        /\ \A i \in 1 .. Len(pattern) :
              CASE pattern[i] = "%" -> cut[i] >= cut[i - 1]
                [] pattern[i] = "_" -> cut[i] = cut[i - 1] + 1
                [] OTHER -> cut[i] = cut[i - 1] + 1 /\ pattern[i] = text[cut[i]]

LEMMA LikePlain ==
    ASSUME NEW text, NEW pattern, Len(pattern) \in Nat,
           \A i \in 1 .. Len(pattern) : pattern[i] # "\\"
    PROVE  Like(text, pattern) <=> PlainLike(text, pattern)
<1>1. ASSUME NEW i \in 1 .. Len(pattern) PROVE ~Escaped(pattern, i)
  <2>1. ASSUME NEW k \in 1 .. i - 1 PROVE i - 1 \in i - k .. i - 1 /\ i - 1 \in 1 .. Len(pattern)
    OBVIOUS
  <2>2. QED
    BY <2>1 DEF Escaped
<1> DEFINE Plain(cut, i) ==
               CASE pattern[i] = "%" -> cut[i] >= cut[i - 1]
                 [] pattern[i] = "_" -> cut[i] = cut[i - 1] + 1
                 [] OTHER -> cut[i] = cut[i - 1] + 1 /\ pattern[i] = text[cut[i]]
           Cut(cut, i) ==
               CASE pattern[i] = "%" /\ ~Escaped(pattern, i) -> cut[i] >= cut[i - 1]
                 [] pattern[i] = "_" /\ ~Escaped(pattern, i) -> cut[i] = cut[i - 1] + 1
                 [] pattern[i] = "\\" /\ ~Escaped(pattern, i) -> cut[i] = cut[i - 1]
                 [] OTHER -> cut[i] = cut[i - 1] + 1 /\ pattern[i] = text[cut[i]]
<1>2. ASSUME NEW cut, NEW i \in 1 .. Len(pattern) PROVE Cut(cut, i) <=> Plain(cut, i)
  <2>1. ~Escaped(pattern, i) /\ pattern[i] # "\\"
    BY <1>1
  <2>2. CASE pattern[i] = "%"
    BY <2>1, <2>2
  <2>3. CASE pattern[i] = "_"
    BY <2>1, <2>3
  <2>4. CASE pattern[i] # "%" /\ pattern[i] # "_"
    BY <2>1, <2>4
  <2>5. QED
    BY <2>2, <2>3, <2>4
<1>3. Like(text, pattern) <=>
         \E cut \in [0 .. Len(pattern) -> 0 .. Len(text)] :
            /\ cut[0] = 0 /\ cut[Len(pattern)] = Len(text)
            /\ \A i \in 1 .. Len(pattern) : Cut(cut, i)
  BY Zenon DEF Like
<1> HIDE DEF Cut, Plain
<1>4. Like(text, pattern) <=>
         \E cut \in [0 .. Len(pattern) -> 0 .. Len(text)] :
            /\ cut[0] = 0 /\ cut[Len(pattern)] = Len(text)
            /\ \A i \in 1 .. Len(pattern) : Plain(cut, i)
  BY <1>2, <1>3
<1>5. QED
  BY <1>4, Zenon DEF Plain, PlainLike

LEMMA PatternPlain ==
    ASSUME NEW mask \in Seq(Chars), \A i \in DOMAIN mask : mask[i] # "\\"
    PROVE  \A i \in 1 .. Len(Pattern(mask)) : Pattern(mask)[i] # "\\"
<1>1. Len(mask) \in Nat /\ DOMAIN mask = 1 .. Len(mask) /\ Len(Pattern(mask)) = Len(mask) + 2
  BY PatternHas
<1>2. ASSUME NEW i \in 1 .. Len(mask) PROVE Pattern(mask)[i + 1] # "\\"
  BY <1>1, PatternHas DEF Fold
<1>3. ASSUME NEW i \in 1 .. Len(mask) + 2 PROVE Pattern(mask)[i] # "\\"
  <2>1. CASE i = 1 \/ i = Len(mask) + 2
    BY <2>1, PatternHas
  <2>2. CASE i # 1 /\ i # Len(mask) + 2
    <3>1. i - 1 \in 1 .. Len(mask) /\ (i - 1) + 1 = i
      BY <1>1, <2>2
    <3>2. QED
      BY <1>2, <3>1
  <2>3. QED
    BY <2>1, <2>2
<1>4. QED
  BY <1>1, <1>3

LEMMA SqlFinds ==
    ASSUME NEW mask \in Seq(Chars), NEW name \in Seq(Chars), Contains(name, mask),
           \A i \in DOMAIN mask : mask[i] # "\\"
    PROVE  SqlMatches(mask, name)
<1> DEFINE pattern == Pattern(mask)
           text == Lower(name)
           n == Len(mask)
<1>0. n \in Nat /\ DOMAIN mask = 1 .. n /\ Len(name) \in Nat
  OBVIOUS
<1>1. PICK k \in 0 .. Len(name) - n : \A i \in 1 .. n : Fold(mask[i]) = Fold(name[k + i])
  BY <1>0 DEF Contains, Occurs
<1>2. Len(text) = Len(name) /\ \A i \in 1 .. Len(name) : text[i] = Fold(name[i])
  BY LowerHas
<1>3. /\ Len(pattern) = n + 2
      /\ pattern[1] = "%" /\ pattern[n + 2] = "%"
      /\ \A i \in 1 .. n : pattern[i + 1] = Fold(mask[i])
      /\ \A i \in 1 .. n + 2 : pattern[i] # "\\"
  BY PatternHas, PatternPlain
<1> HIDE DEF pattern, text, n
<1>4. Like(text, pattern)
  <2> DEFINE cut == [j \in 0 .. n + 2 |->
                        IF j = 0 THEN 0 ELSE IF j = n + 2 THEN Len(name) ELSE k + j - 1]
  <2>1. cut \in [0 .. n + 2 -> 0 .. Len(name)]
    BY <1>0, <1>1
  <2>2. cut[0] = 0 /\ cut[n + 2] = Len(name) /\ cut[1] = k /\ cut[n + 1] = k + n
    <3>1. {0, 1, n + 1, n + 2} \subseteq 0 .. n + 2 /\ n + 2 # 0 /\ n + 2 # 1 /\ n + 2 # n + 1 /\ n + 1 # 0
      BY <1>0
    <3>2. k + 1 - 1 = k /\ k + (n + 1) - 1 = k + n
      BY <1>0, <1>1
    <3>3. QED
      BY <3>1, <3>2
  <2>3. \A i \in 1 .. n : cut[i + 1] = k + i /\ cut[i] = k + i - 1
    BY <1>0, <1>1
  <2> HIDE DEF cut
  <2>4. ASSUME NEW i \in 1 .. n
        PROVE  /\ cut[i + 1] \in 1 .. Len(name) /\ cut[i] \in Nat /\ cut[i + 1] = cut[i] + 1
               /\ pattern[i + 1] = text[cut[i + 1]]
    <3>1. cut[i + 1] = k + i /\ cut[i] = k + i - 1
      BY <2>3
    <3>2. k + i \in 1 .. Len(name) /\ k + i - 1 \in Nat /\ k + i = (k + i - 1) + 1
      BY <1>0, <1>1
    <3>3. pattern[i + 1] = Fold(name[k + i]) /\ text[k + i] = Fold(name[k + i])
      BY <3>2, <1>1, <1>2, <1>3
    <3>4. QED
      BY <3>1, <3>2, <3>3
  <2>5. ASSUME NEW i \in 1 .. n + 2
        PROVE  CASE pattern[i] = "%" -> cut[i] >= cut[i - 1]
                 [] pattern[i] = "_" -> cut[i] = cut[i - 1] + 1
                 [] OTHER -> cut[i] = cut[i - 1] + 1 /\ pattern[i] = text[cut[i]]
    <3>1. CASE i = 1
      BY <3>1, <1>0, <1>1, <1>3, <2>2
    <3>2. CASE i = n + 2
      <4>1. i - 1 = n + 1 /\ Len(name) >= k + n
        BY <3>2, <1>0, <1>1
      <4>2. cut[i] >= cut[i - 1] /\ pattern[i] = "%"
        BY <3>2, <4>1, <1>3, <2>2
      <4>3. QED
        BY <4>2
    <3>3. CASE i \in 2 .. n + 1
      <4>1. PICK m \in 1 .. n : i = m + 1 /\ i - 1 = m
        BY <3>3, <1>0
      <4>2. cut[i] = cut[i - 1] + 1 /\ cut[i - 1] \in Nat /\ pattern[i] = text[cut[i]]
        BY <4>1, <2>4
      <4>3. cut[i] >= cut[i - 1]
        BY <4>2
      <4>4. QED
        BY <4>2, <4>3
    <3>4. i = 1 \/ i = n + 2 \/ i \in 2 .. n + 1
      BY <1>0
    <3>5. QED
      BY <3>1, <3>2, <3>3, <3>4
  <2>6. QED
    <3>1. Len(pattern) \in Nat /\ \A i \in 1 .. Len(pattern) : pattern[i] # "\\"
      BY <1>0, <1>3
    <3>2. Len(pattern) = n + 2 /\ Len(text) = Len(name)
      BY <1>2, <1>3
    <3>3. PlainLike(text, pattern)
      BY <2>1, <2>2, <2>5, <3>2, Zenon DEF PlainLike
    <3>4. QED
      BY <3>1, <3>3, LikePlain
<1>5. QED
  BY <1>4 DEF SqlMatches, Pattern, pattern, text

(***************************************************************************)
(* And it is found nowhere else, unless it holds a wildcard of its         *)
(* storage.                                                                *)
(***************************************************************************)
LEMMA Least ==
    ASSUME NEW T, T \subseteq Nat, T # {}
    PROVE  \E x \in T : \A y \in T : x <= y
<1> DEFINE R == OpToRel(<, Nat)
<1>1. IsWellFoundedOn(R, Nat)
  BY NatLessThanWellFounded
<1>2. \A x, y \in Nat : y < x => <<y, x>> \in R
  BY DEF OpToRel
<1> HIDE DEF R
<1>3. PICK x \in T : \A y \in T : ~ (<<y, x>> \in R)
  BY <1>1, WFMin
<1>4. ASSUME NEW y \in T PROVE x <= y
  <2>1. x \in Nat /\ y \in Nat /\ ~ (y < x)
    BY <1>2, <1>3
  <2>2. QED
    BY <2>1
<1>5. QED
  BY <1>4

LEMMA MemoryFindsOnly ==
    ASSUME NEW mask \in Seq(Chars), NEW name \in Seq(Chars), MemoryMatches(mask, name)
    PROVE  Contains(name, mask)
BY DEF Contains, MemoryMatches, Occurs, Fold, ToLower

LEMMA MongoFindsOnly ==
    ASSUME NEW mask \in Seq(Chars), NEW name \in Seq(Chars), MongoMatches(mask, name),
           \A i \in DOMAIN mask : mask[i] # "."
    PROVE  Contains(name, mask)
BY DEF Contains, MongoMatches, Occurs

SqlWild == {"%", "_", "\\"}

LEMMA SqlFindsOnly ==
    ASSUME NEW mask \in Seq(Chars), NEW name \in Seq(Chars), SqlMatches(mask, name),
           \A i \in DOMAIN mask : mask[i] \notin SqlWild
    PROVE  Contains(name, mask)
<1> DEFINE pattern == Pattern(mask)
           text == Lower(name)
           n == Len(mask)
<1>1. n \in Nat /\ DOMAIN mask = 1 .. n /\ Len(name) \in Nat
  BY SeqHas
<1>2. Len(text) = Len(name) /\ \A i \in 1 .. Len(name) : text[i] = Fold(name[i])
  BY LowerHas
<1>3. Len(pattern) = n + 2 /\ \A i \in 1 .. n : pattern[i + 1] = Fold(mask[i])
  BY PatternHas
<1>4. \A i \in 1 .. n : Fold(mask[i]) \notin SqlWild
  BY <1>1, ZenonT(30) DEF Fold, SqlWild
<1>5. Len(pattern) \in Nat /\ \A i \in 1 .. Len(pattern) : pattern[i] # "\\"
  <2>1. \A i \in DOMAIN mask : mask[i] # "\\"
    BY DEF SqlWild
  <2>2. Len(pattern) \in Nat
    BY <1>1, <1>3
  <2>3. QED
    BY <2>1, <2>2, PatternPlain, Zenon DEF pattern
<1>6. CASE mask = <<>>
  BY <1>1, <1>6 DEF Contains, Occurs
<1> HIDE DEF pattern, text, n
<1>7. CASE mask # <<>>
  <2>1. PICK cut \in [0 .. n + 2 -> 0 .. Len(name)] :
           \A i \in 1 .. n + 2 :
              pattern[i] \notin SqlWild => cut[i] = cut[i - 1] + 1 /\ pattern[i] = text[cut[i]]
    <3>1. Like(text, pattern)
      BY <1>7 DEF SqlMatches, Pattern, pattern, text
    <3>2. \E cut \in [0 .. n + 2 -> 0 .. Len(name)] :
             \A i \in 1 .. n + 2 :
                CASE pattern[i] = "%" -> cut[i] >= cut[i - 1]
                  [] pattern[i] = "_" -> cut[i] = cut[i - 1] + 1
                  [] OTHER -> cut[i] = cut[i - 1] + 1 /\ pattern[i] = text[cut[i]]
      <4>1. PlainLike(text, pattern)
        BY <1>5, <3>1, LikePlain
      <4>2. QED
        BY <1>2, <1>3, <4>1, Zenon DEF PlainLike
    <3>3. QED
      BY <3>2, Zenon DEF SqlWild
  <2>2. ASSUME NEW i \in 1 .. n
        PROVE  cut[i + 1] = cut[i] + 1 /\ text[cut[i + 1]] = Fold(mask[i])
    <3>1. i + 1 \in 1 .. n + 2 /\ i + 1 - 1 = i
      BY <1>1, <2>2
    <3>2. pattern[i + 1] = Fold(mask[i]) /\ pattern[i + 1] \notin SqlWild
      BY <1>3, <1>4
    <3>3. cut[i + 1] = cut[i + 1 - 1] + 1 /\ pattern[i + 1] = text[cut[i + 1]]
      BY <2>1, <3>1, <3>2
    <3>4. QED
      BY <3>1, <3>2, <3>3
  <2> DEFINE k == cut[1]
             Off == {i \in 0 .. n : cut[i + 1] # k + i}
  <2>3. k \in Nat /\ \A i \in 0 .. n : cut[i + 1] \in 0 .. Len(name)
    BY <1>1
  <2>4. Off = {}
    <3>1. SUFFICES ASSUME Off # {} PROVE FALSE
      OBVIOUS
    <3>2. PICK x \in Off : \A y \in Off : x <= y
      <4>1. Off \subseteq Nat
        BY <1>1
      <4> HIDE DEF Off
      <4>2. QED
        BY <3>1, <4>1, Least
    <3>3. x \in 1 .. n /\ x - 1 \in 0 .. n /\ x - 1 \notin Off
      BY <1>1, <2>3, <3>2
    <3>4. cut[x] = k + x - 1
      BY <1>1, <2>3, <3>3
    <3>5. cut[x + 1] = k + x
      BY <1>1, <2>2, <2>3, <3>3, <3>4
    <3>6. QED
      BY <3>2, <3>5
  <2>5. /\ \A i \in 0 .. n : cut[i + 1] = k + i
        /\ k \in 0 .. Len(name) - n
    <3>1. \A i \in 0 .. n : cut[i + 1] = k + i
      BY <2>4
    <3>2. k + n \in 0 .. Len(name)
      BY <1>1, <2>3, <3>1
    <3>3. QED
      BY <1>1, <2>3, <3>1, <3>2
  <2>6. ASSUME NEW i \in 1 .. n PROVE Fold(mask[i]) = Fold(name[k + i])
    <3>1. cut[i + 1] = k + i /\ k + i \in 1 .. Len(name)
      BY <1>1, <2>5, SMTT(20)
    <3>2. QED
      BY <1>2, <2>2, <3>1
  <2>7. QED
    BY <1>1, <2>5, <2>6 DEF Contains, Occurs, n
<1>8. QED
  BY <1>6, <1>7

LEMMA ConcatHas ==
    ASSUME NEW a \in Seq(Chars), NEW b \in Seq(Chars)
    PROVE  /\ \A i \in DOMAIN a : i \in DOMAIN (a \o b) /\ (a \o b)[i] = a[i]
           /\ \A i \in DOMAIN b : Len(a) + i \in DOMAIN (a \o b) /\ (a \o b)[Len(a) + i] = b[i]
<1>1. DOMAIN a = 1 .. Len(a) /\ DOMAIN b = 1 .. Len(b) /\ Len(a) \in Nat /\ Len(b) \in Nat
  OBVIOUS
<1>2. DOMAIN (a \o b) = 1 .. Len(a) + Len(b)
  OBVIOUS
<1>3. ASSUME NEW i \in DOMAIN a PROVE i \in DOMAIN (a \o b) /\ (a \o b)[i] = a[i]
  BY <1>1, <1>2
<1>4. ASSUME NEW i \in DOMAIN b
      PROVE  Len(a) + i \in DOMAIN (a \o b) /\ (a \o b)[Len(a) + i] = b[i]
  <2>1. Len(a) + i \in 1 .. Len(a) + Len(b) /\ Len(a) + i > Len(a) /\ Len(a) + i - Len(a) = i
    BY <1>1
  <2>2. QED
    BY <1>1, <1>2, <2>1
<1>5. QED
  BY <1>3, <1>4

LEMMA UsesNone ==
    ASSUME NEW m \in Masks, NEW chars, ~Uses(m, chars)
    PROVE  /\ \A i \in DOMAIN m.first : m.first[i] \notin chars
           /\ \A i \in DOMAIN m.last : m.last[i] \notin chars
<1>1. m.first \in Seq(Chars) /\ m.last \in Seq(Chars)
  BY UsersAssumption
<1>2. \A i \in DOMAIN (m.first \o m.last) : (m.first \o m.last)[i] \notin chars
  BY DEF Uses
<1>3. ASSUME NEW i \in DOMAIN m.first PROVE m.first[i] \notin chars
  <2>1. i \in DOMAIN (m.first \o m.last) /\ (m.first \o m.last)[i] = m.first[i]
    BY <1>1, ConcatHas
  <2>2. QED
    BY <1>2, <2>1
<1>4. ASSUME NEW i \in DOMAIN m.last PROVE m.last[i] \notin chars
  <2>1. /\ Len(m.first) + i \in DOMAIN (m.first \o m.last)
        /\ (m.first \o m.last)[Len(m.first) + i] = m.last[i]
    BY <1>1, ConcatHas
  <2>2. QED
    BY <1>2, <2>1
<1>5. QED
  BY <1>3, <1>4

LEMMA NameFinds ==
    ASSUME NEW b \in Builds, NEW m \in Masks, NEW l \in Logins, Bears(m, l),
           ~Uses(m, Hiding(b))
    PROVE  NameMatches(b, m, l)
<1>1. /\ m.first \in Seq(Chars) /\ m.last \in Seq(Chars)
      /\ NameOf[l].first \in Seq(Chars) /\ NameOf[l].last \in Seq(Chars)
  BY UsersAssumption
<1>2. Contains(NameOf[l].first, m.first) /\ Contains(NameOf[l].last, m.last)
  BY DEF Bears
<1>3. CASE b = "memory"
  <2>1. /\ \A i \in DOMAIN m.first : m.first[i] \notin {"ya", "YA"}
        /\ \A i \in DOMAIN m.last : m.last[i] \notin {"ya", "YA"}
    <3>1. Hiding(b) = {"ya", "YA"}
      BY <1>3, Zenon DEF Hiding
    <3>2. QED
      BY <3>1, UsesNone
  <2>2. MemoryMatches(m.first, NameOf[l].first) /\ MemoryMatches(m.last, NameOf[l].last)
    BY <1>1, <1>2, <2>1, MemoryFinds
  <2>3. QED
    BY <1>3, <2>2 DEF NameMatches
<1>4. CASE b = "mongo"
  BY <1>1, <1>2, <1>4, MongoFinds DEF NameMatches
<1>5. CASE b \notin {"memory", "mongo"}
  <2>1. /\ \A i \in DOMAIN m.first : m.first[i] # "\\"
        /\ \A i \in DOMAIN m.last : m.last[i] # "\\"
    <3>1. Hiding(b) = {"\\"}
      BY <1>5, Zenon DEF Hiding
    <3>2. QED
      BY <3>1, UsesNone
  <2>2. SqlMatches(m.first, NameOf[l].first) /\ SqlMatches(m.last, NameOf[l].last)
    BY <1>1, <1>2, <2>1, SqlFinds
  <2>3. QED
    BY <1>5, <2>2 DEF NameMatches
<1>6. QED
  BY <1>3, <1>4, <1>5

LEMMA NameFindsOnly ==
    ASSUME NEW b \in Builds, NEW m \in Masks, NEW l \in Logins, NameMatches(b, m, l),
           ~Uses(m, Wildcards(b))
    PROVE  Bears(m, l)
<1>1. /\ m.first \in Seq(Chars) /\ m.last \in Seq(Chars)
      /\ NameOf[l].first \in Seq(Chars) /\ NameOf[l].last \in Seq(Chars)
  BY UsersAssumption
<1>2. CASE b = "memory"
  <2>1. MemoryMatches(m.first, NameOf[l].first) /\ MemoryMatches(m.last, NameOf[l].last)
    BY <1>2 DEF NameMatches
  <2>2. QED
    BY <1>1, <2>1, MemoryFindsOnly DEF Bears
<1>3. CASE b = "mongo"
  <2>1. MongoMatches(m.first, NameOf[l].first) /\ MongoMatches(m.last, NameOf[l].last)
    BY <1>3 DEF NameMatches
  <2>2. /\ \A i \in DOMAIN m.first : m.first[i] # "."
        /\ \A i \in DOMAIN m.last : m.last[i] # "."
    <3>1. Wildcards(b) = {"."} \cup Operators
      BY <1>3, Zenon DEF Wildcards
    <3>2. QED
      BY <3>1, UsesNone
  <2>3. QED
    BY <1>1, <2>1, <2>2, MongoFindsOnly DEF Bears
<1>4. CASE b \notin {"memory", "mongo"}
  <2>1. SqlMatches(m.first, NameOf[l].first) /\ SqlMatches(m.last, NameOf[l].last)
    BY <1>4 DEF NameMatches
  <2>2. /\ \A i \in DOMAIN m.first : m.first[i] \notin SqlWild
        /\ \A i \in DOMAIN m.last : m.last[i] \notin SqlWild
    <3>1. Wildcards(b) = SqlWild
      BY <1>4, Zenon DEF Wildcards, SqlWild
    <3>2. QED
      BY <3>1, UsesNone
  <2>3. QED
    BY <1>1, <2>1, <2>2, SqlFindsOnly DEF Bears
<1>5. QED
  BY <1>2, <1>3, <1>4

LEMMA PromisesHave ==
    ASSUME NEW p \in Promises
    PROVE  \E b \in Builds, m \in Masks :
              /\ p.query.build = b
              /\ \/ b = "mongo" /\ Uses(m, Operators)
                 \/ p.query.logins = {l \in Logins : NameMatches(b, m, l)}
              /\ p.must = {l \in Logins : Bears(m, l) /\ ~Uses(m, Hiding(b))}
              /\ p.may = {l \in Logins : Bears(m, l) \/ Uses(m, Wildcards(b))}
<1>1. /\ p.query \in Queries
      /\ p.must = {l \in Logins : Bears(p.query.masks, l)
                       /\ ~Uses(p.query.masks, Hiding(p.query.build))}
      /\ p.may = {l \in Logins : Bears(p.query.masks, l)
                       \/ Uses(p.query.masks, Wildcards(p.query.build))}
  BY DEF Promises
<1>2. PICK b \in Builds, m \in Masks :
         \E logins \in Matching(b, m) : p.query = [build |-> b, masks |-> m, logins |-> logins]
  BY <1>1 DEF Queries
<1>3. p.query.build = b /\ p.query.masks = m /\ p.query.logins \in Matching(b, m)
  BY <1>2
<1>4. \/ b = "mongo" /\ Uses(m, Operators)
      \/ p.query.logins = {l \in Logins : NameMatches(b, m, l)}
  BY <1>3 DEF Matching
<1>5. /\ p.must = {l \in Logins : Bears(m, l) /\ ~Uses(m, Hiding(b))}
      /\ p.may = {l \in Logins : Bears(m, l) \/ Uses(m, Wildcards(b))}
  BY <1>1, <1>3
<1>6. QED
  BY <1>3, <1>4, <1>5, Zenon

LEMMA UsesMore ==
    ASSUME NEW m, NEW some, NEW all, some \subseteq all, Uses(m, some)
    PROVE  Uses(m, all)
BY DEF Uses

(***************************************************************************)
(* A mask with no character by which its storage hides names finds         *)
(* everybody who was told he is registered with a name it stands in, for   *)
(* any names and masks: in memory with no Cyrillic letter, over PostgreSQL *)
(* with no backslash, over MongoDB with no operator of regular expressions.*)
(***************************************************************************)
THEOREM MasksFindAll == Spec => []MaskFindsAll
<1>1. UsersInv => MaskFindsAll
  <2> SUFFICES ASSUME UsersInv, NEW p \in Promises, p.query.build = build, NEW c \in creds,
                      c[1] \in p.must
               PROVE  \E u \in FindByNameMask(p.query) : users[u].login = c[1]
    BY DEF MaskFindsAll
  <2>1. PICK b \in Builds, m \in Masks :
           /\ \/ b = "mongo" /\ Uses(m, Operators)
              \/ p.query.logins = {l \in Logins : NameMatches(b, m, l)}
           /\ p.must = {l \in Logins : Bears(m, l) /\ ~Uses(m, Hiding(b))}
    BY PromisesHave
  <2>2. c[1] \in Logins /\ Bears(m, c[1]) /\ ~Uses(m, Hiding(b))
    BY <2>1
  <2>3. b = "mongo" => ~Uses(m, Operators)
    <3>1. b = "mongo" => Hiding(b) = Operators
      BY Zenon DEF Hiding
    <3>2. QED
      BY <2>2, <3>1
  <2>4. c[1] \in p.query.logins
    BY <2>1, <2>2, <2>3, NameFinds
  <2>5. PICK u \in Stored : users[u].login = c[1]
    BY DEF UsersInv, TableInv, CredsOK
  <2>6. QED
    BY <2>4, <2>5 DEF FindByNameMask
<1>2. QED
  BY <1>1, Invariance, PTL

(***************************************************************************)
(* And it finds nobody else, unless it holds a wildcard of its storage.    *)
(***************************************************************************)
THEOREM MasksFindOnly == Spec => []MaskFindsOnly
<1>1. UsersInv => MaskFindsOnly
  <2> SUFFICES ASSUME UsersInv, NEW p \in Promises, NEW u \in FindByNameMask(p.query)
               PROVE  users[u].login \in p.may
    BY DEF MaskFindsOnly
  <2>1. PICK b \in Builds, m \in Masks :
           /\ \/ b = "mongo" /\ Uses(m, Operators)
              \/ p.query.logins = {l \in Logins : NameMatches(b, m, l)}
           /\ p.may = {l \in Logins : Bears(m, l) \/ Uses(m, Wildcards(b))}
    BY PromisesHave
  <2>2. users[u].login \in Logins /\ users[u].login \in p.query.logins
    BY DEF FindByNameMask, UsersInv, TableInv, RowsOK
  <2>3. CASE b = "mongo" /\ Uses(m, Operators)
    <3>1. Wildcards(b) = {"."} \cup Operators
      BY <2>3, Zenon DEF Wildcards
    <3>2. Uses(m, Wildcards(b))
      BY <2>3, <3>1, UsesMore
    <3>3. QED
      BY <2>1, <2>2, <3>2
  <2>4. CASE p.query.logins = {l \in Logins : NameMatches(b, m, l)}
    BY <2>1, <2>2, <2>4, NameFindsOnly
  <2>5. QED
    BY <2>1, <2>3, <2>4
<1>2. QED
  BY <1>1, Invariance, PTL
=============================================================================
