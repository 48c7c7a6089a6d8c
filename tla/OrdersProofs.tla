--------------------------- MODULE OrdersProofs ---------------------------
(***************************************************************************)
(* Proofs about Orders, for any tasks, clients, orders, services, builds   *)
(* and faults: but for ForeignKeyHolds, which is of one build, and         *)
(* ServicesChecked, which assumes that clients and the catalog behave.     *)
(***************************************************************************)
EXTENDS Orders, TLAPS

(***************************************************************************)
(* What an order's rows are, and the facts about it.                       *)
(***************************************************************************)
LEMMA RowFacts ==
    ASSUME TypeOK
    PROVE  \A o \in OrderIds :
             /\ Rows(o) \in SUBSET Facts
             /\ \A f \in Rows(o) : f[1] = o
             /\ <<o>> \in Rows(o)
             /\ \A f \in lines : f[1] = o => f \in Rows(o)
             /\ \A f \in Rows(o) : f = <<o>> \/ f \in lines
BY DEF Rows, About, Facts, TypeOK

(***************************************************************************)
(* What the steps that requests are built from do, to the task that takes  *)
(* them and to the others.                                                 *)
(***************************************************************************)
Places == {"idle"} \cup Steps \cup Answers

LEMMA PlacesAre ==
    \A p : p \in Places <=>
        p \in {"idle", "list", "list_fetch", "open", "open_fetch", "show", "add_find",
               "check", "add", "add_fetch", "updated_null", "listed", "opened", "shown",
               "added", "unauthorized", "order_not_found", "forbidden", "bad_request",
               "service_not_found", "failed", "caught", "garbage"}
BY DEF Places, Steps, Answers

LEMMA GotoEffect ==
    ASSUME pc \in [Tasks -> Places], NEW t \in Tasks, NEW step \in Places, Goto(t, step)
    PROVE  /\ pc' \in [Tasks -> Places]
           /\ pc'[t] = step
           /\ \A u \in Tasks : u # t => pc'[u] = pc[u]
BY DEF Goto

LEMMA AnswerEffect ==
    ASSUME pc \in [Tasks -> Places], seen \in [Tasks -> SUBSET Facts], told \subseteq Facts,
           NEW t \in Tasks, NEW step \in Places, NEW facts \in SUBSET Facts,
           Answer(t, step, facts)
    PROVE  /\ pc' \in [Tasks -> Places]
           /\ pc'[t] = step
           /\ seen' \in [Tasks -> SUBSET Facts]
           /\ seen'[t] = facts
           /\ told' \subseteq Facts
           /\ told' = told \cup facts
           /\ \A u \in Tasks : u # t => pc'[u] = pc[u] /\ seen'[u] = seen[u]
BY GotoEffect DEF Answer

LEMMA RefuseEffect ==
    ASSUME pc \in [Tasks -> Places], NEW t \in Tasks, NEW step \in Places, Refuse(t, step)
    PROVE  /\ pc' \in [Tasks -> Places]
           /\ pc'[t] = step
           /\ UNCHANGED <<seen, told>>
           /\ \A u \in Tasks : u # t => pc'[u] = pc[u]
BY GotoEffect DEF Refuse

LEMMA ArriveEffect ==
    ASSUME TypeOK, NEW t \in Tasks, NEW step \in Places, NEW c \in Clients \cup {None},
           NEW o \in OrderIds \cup {None}, NEW s \in ServiceIds \cup {None},
           Arrive(t, step, c, o, s)
    PROVE  /\ TypeOK'
           /\ pc[t] = "idle"
           /\ pc'[t] = step
           /\ call'[t] = [client |-> c, order |-> o, service |-> s]
           /\ known'[t] \subseteq told
           /\ UNCHANGED <<build, owner, lines, catalog, excused, todo, seen, told>>
           /\ \A u \in Tasks : u # t => /\ pc'[u] = pc[u]
                                        /\ call'[u] = call[u]
                                        /\ known'[u] = known[u]
<1>1. [client |-> c, order |-> o, service |-> s] \in Calls
  BY DEF Calls
<1>2. pc[t] = "idle" /\ Goto(t, step)
  BY DEF Arrive
<1>3. QED
  BY <1>1, <1>2, GotoEffect DEF Arrive, TypeOK, Places

(***************************************************************************)
(* What the handlers have found out and checked of their request, by where *)
(* they are.                                                               *)
(***************************************************************************)
CallOK(t) ==
    /\ pc[t] \in Steps => call[t].client \in Clients
    /\ pc[t] \in {"show", "add_find"} => call[t].order \in OrderIds
    /\ pc[t] \in {"open_fetch", "check", "add", "add_fetch", "updated_null", "opened",
                  "shown", "added"} =>
         call[t].order \in OrderIds /\ owner[call[t].order] = call[t].client
    /\ pc[t] \in {"check", "add", "add_fetch", "updated_null"} => call[t].service \in ServiceIds

CallsOK == \A t \in Tasks : CallOK(t)

(* What may be stored is an id, and over PostgreSQL with the foreign key   *)
(* that of a service.                                                      *)
LEMMA StoresAnId ==
    ASSUME catalog \subseteq Services, NEW s \in ServiceIds, ~Violates(s)
    PROVE  /\ Stores(s) \in ServiceIds
           /\ build = "postgres" => Stores(s) \in catalog
           /\ build # "postgres" => Stores(s) = s
BY OrdersAssumption DEF Stores, Violates

(***************************************************************************)
(* Type correctness, one step at a time.                                   *)
(***************************************************************************)
LEMMA TypeInit == Init => TypeOK
BY OrdersAssumption DEF Init, TypeOK, NoCall, Calls

LEMMA TypeNext == TypeOK /\ CallsOK /\ [Next]_vars => TypeOK'
<1> SUFFICES ASSUME TypeOK, CallsOK, [Next]_vars
             PROVE  TypeOK'
  OBVIOUS
<1> USE DEF TypeOK, Places
<1>1. ASSUME NEW t \in Tasks, Request(t)
      PROVE  TypeOK'
  BY <1>1, ArriveEffect, PlacesAre
     DEF Request, RequestUnauthorized, RequestList, RequestOpen, RequestShow, RequestAdd
<1>2. ASSUME NEW t \in Tasks, List(t)
      PROVE  TypeOK'
  <2>1. OrdersOf(call[t].client) \in SUBSET OrderIds
    BY DEF OrdersOf
  <2>2. \A o \in OrdersOf(call[t].client) : Rows(o) \in SUBSET Facts
    BY <2>1, RowFacts
  <2> DEFINE rows == UNION {Rows(o) : o \in OrdersOf(call[t].client)}
  <2>9. rows \in SUBSET Facts
    BY <2>2
  <2>3. CASE build = "memory"
    BY <1>2, <2>9, <2>3, AnswerEffect, PlacesAre DEF List
  <2>4. CASE build # "memory"
    BY <1>2, <2>1, <2>4, GotoEffect, PlacesAre DEF List
  <2>5. QED
    BY <2>3, <2>4
<1>3. ASSUME NEW t \in Tasks, ListFetch(t) \/ ListEnd(t)
      PROVE  TypeOK'
  <2>1. CASE ListFetch(t)
    <3>1. \A o \in todo[t] \cup Later(t) : Rows(o) \in SUBSET Facts
      BY RowFacts DEF Later, OrdersOf
    <3>2. QED
      BY <2>1, <3>1 DEF ListFetch
  <2>2. CASE ListEnd(t)
    BY <2>2, AnswerEffect, PlacesAre DEF ListEnd
  <2>3. QED
    BY <1>3, <2>1, <2>2
<1>4. ASSUME NEW t \in Tasks, Open(t)
      PROVE  TypeOK'
  <2>1. \A o \in OrderIds : [call EXCEPT ![t].order = o] \in [Tasks -> Calls]
    BY DEF Calls
  <2>2. \A o \in OrderIds : Rows(o) \in SUBSET Facts
    BY RowFacts
  <2>3. PICK o \in OrderIds :
            /\ owner' = [owner EXCEPT ![o] = call[t].client]
            /\ call' = [call EXCEPT ![t].order = o]
            /\ \/ Answer(t, "opened", Rows(o))
               \/ Goto(t, "open_fetch") /\ UNCHANGED <<seen, told>>
    BY <1>4 DEF Open
  <2>4. call[t].client \in Clients \cup {None}
    BY DEF Calls
  <2>5. QED
    BY <1>4, <2>1, <2>2, <2>3, <2>4, AnswerEffect, GotoEffect, PlacesAre DEF Open
<1>5. ASSUME NEW t \in Tasks, OpenFetch(t) \/ AddFetch(t)
      PROVE  TypeOK'
  <2>1. call[t].order \in OrderIds
    BY <1>5 DEF CallsOK, CallOK, OpenFetch, AddFetch
  <2>2. Rows(call[t].order) \in SUBSET Facts
    BY <2>1, RowFacts
  <2>3. QED
    BY <1>5, <2>2, AnswerEffect, PlacesAre DEF OpenFetch, AddFetch
<1>6. ASSUME NEW t \in Tasks, Show(t)
      PROVE  TypeOK'
  <2> DEFINE o == call[t].order
  <2>1. CASE Exists(o) /\ owner[o] = call[t].client
    <3>1. Rows(o) \in SUBSET Facts
      BY <2>1, RowFacts DEF Exists
    <3>2. Answer(t, "shown", Rows(o))
      BY <1>6, <2>1 DEF Show
    <3>3. QED
      BY <1>6, <3>1, <3>2, AnswerEffect, PlacesAre DEF Show
  <2>2. CASE ~(Exists(o) /\ owner[o] = call[t].client)
    <3>1. Refuse(t, "order_not_found") \/ Refuse(t, "forbidden")
      BY <1>6, <2>2 DEF Show
    <3>2. QED
      BY <1>6, <3>1, RefuseEffect, PlacesAre DEF Show
  <2>3. QED
    BY <2>1, <2>2
<1>7. ASSUME NEW t \in Tasks, AddFind(t) \/ Check(t) \/ CheckFails(t) \/ CheckPassesOnError(t)
      PROVE  TypeOK'
  <2>1. CheckPassesOnError(t) => call[t].service \in ServiceIds
    BY DEF CheckPassesOnError, CallsOK, CallOK
  <2>2. CASE CheckPassesOnError(t)
    BY <2>1, <2>2, GotoEffect, PlacesAre DEF CheckPassesOnError
  <2>3. QED
    BY <1>7, <2>2, GotoEffect, PlacesAre DEF AddFind, Check, CheckFails
<1>8. ASSUME NEW t \in Tasks, Add(t)
      PROVE  TypeOK'
  <2> DEFINE o == call[t].order
             line == <<o, Stores(call[t].service)>>
  <2>1. o \in OrderIds /\ call[t].service \in ServiceIds
    BY <1>8 DEF CallsOK, CallOK, Add
  <2>2. CASE Refuse(t, "updated_null") \/ Refuse(t, "failed")
    <3>1. UNCHANGED <<build, owner, catalog, excused, call, todo, known>>
      BY <1>8 DEF Add
    <3>2. UNCHANGED lines
      BY <1>8, <2>2, PlacesAre DEF Add, Refuse, Answer, Goto
    <3>3. QED
      BY <2>2, <3>1, <3>2, RefuseEffect, PlacesAre
  <2>3. CASE /\ ~Violates(call[t].service)
             /\ lines' = lines \cup {line}
             /\ \/ Answer(t, "added", Rows(o) \cup {line})
                \/ Goto(t, "add_fetch") /\ UNCHANGED <<seen, told>>
    <3>1. line \in OrderIds \X ServiceIds /\ line \in Facts
      BY <2>1, <2>3, StoresAnId DEF Facts
    <3>2. Rows(o) \cup {line} \in SUBSET Facts
      BY <2>1, <3>1, RowFacts
    <3> HIDE DEF line, o
    <3>3. QED
      BY <1>8, <2>3, <3>1, <3>2, AnswerEffect, GotoEffect, PlacesAre DEF Add
  <2>4. QED
    BY <1>8, <2>2, <2>3 DEF Add
<1>9. ASSUME NEW t \in Tasks, StorageFails(t)
      PROVE  TypeOK'
  <2>1. FailureOf(pc[t]) \in Places
    BY PlacesAre DEF FailureOf
  <2>2. call[t].client \in Clients \cup {None}
    BY DEF Calls
  <2>3. lines' \subseteq OrderIds \X ServiceIds
    BY <1>9, StoresAnId DEF StorageFails, CallsOK, CallOK
  <2>4. QED
    BY <1>9, <2>1, <2>2, <2>3, GotoEffect DEF StorageFails
<1>10. CASE ServiceRestart \/ \E t \in Tasks : DereferenceNull(t)
  <2>1. ASSUME Restart
        PROVE  TypeOK'
    BY <2>1, PlacesAre DEF Restart, NoCall, Calls
  <2>2. QED
    BY <1>10, <2>1, GotoEffect, PlacesAre DEF ServiceRestart, DereferenceNull
<1>11. ASSUME NEW t \in Tasks, Respond(t)
       PROVE  TypeOK'
  <2>1. NoCall \in Calls
    BY DEF NoCall, Calls
  <2>2. QED
    BY <1>11, <2>1, GotoEffect, PlacesAre DEF Respond
<1>12. CASE (\E s \in Services : CatalogCreates(s)) \/ UNCHANGED vars
  BY <1>12 DEF CatalogCreates, vars
<1>13. QED
  BY <1>1, <1>2, <1>3, <1>4, <1>5, <1>6, <1>7, <1>8, <1>9, <1>10, <1>11, <1>12
     DEF Next, Handle

-----------------------------------------------------------------------------
(***************************************************************************)
(* The invariant.  What clients were told is stored, and what is stored    *)
(* only grows.  A listing under way holds, or has still to fetch, all that *)
(* was known of the client's orders when its request arrived; an order     *)
(* opened since cannot have been known.                                    *)
(***************************************************************************)
LinesOwned == \A l \in lines : owner[l[1]] # None

Mine(t, f) == owner[f[1]] = call[t].client

(* What an answer has to show, or may.                                     *)
Asked(t, f) == pc[t] = "listed" \/ f[1] = call[t].order

FetchingOK(t) ==
    pc[t] = "list_fetch" =>
        /\ \A o \in todo[t] : owner[o] = call[t].client
        /\ \A f \in known[t] : Mine(t, f) => f[1] \in todo[t] \/ f \in seen[t]
        /\ \A f \in seen[t] : Mine(t, f) /\ f \in Stored

AnswerOK(t) ==
    pc[t] \in {"listed", "opened", "shown", "added"} =>
        /\ call[t].client \in Clients
        /\ \A f \in known[t] : Mine(t, f) /\ Asked(t, f) => f \in seen[t]
        /\ \A f \in seen[t] : Mine(t, f) /\ Asked(t, f) /\ f \in Stored

AdditionOK(t) ==
    /\ pc[t] = "add_fetch" => <<call[t].order, Stores(call[t].service)>> \in lines
    /\ pc[t] = "added" => <<call[t].order, Stores(call[t].service)>> \in seen[t]

NotFoundOK(t) == pc[t] = "order_not_found" => <<call[t].order>> \notin known[t]

TaskOK(t) ==
    /\ known[t] \subseteq Stored
    /\ pc[t] \in {"idle", "list"} => seen[t] = {}
    /\ FetchingOK(t) /\ AnswerOK(t) /\ AdditionOK(t) /\ NotFoundOK(t)

OrdersInv ==
    /\ TypeOK /\ CallsOK /\ LinesOwned /\ ToldStays
    /\ \A t \in Tasks : TaskOK(t)

(* What is stored is about orders that exist.                              *)
LEMMA StoredFacts ==
    ASSUME TypeOK, LinesOwned
    PROVE  /\ \A f \in Stored : f[1] \in OrderIds /\ owner[f[1]] # None
           /\ \A o \in OrderIds : owner[o] # None <=> <<o>> \in Stored
           /\ lines \subseteq Stored
           /\ \A o \in OrderIds : owner[o] # None => Rows(o) \subseteq Stored
           /\ \A f \in Stored : f \in Rows(f[1])
<1>1. \A l \in lines : l[1] \in OrderIds /\ owner[l[1]] # None
  BY DEF TypeOK, LinesOwned
<1>2. \A o \in OrderIds : <<o>>[1] = o
  OBVIOUS
<1>3. \A f \in Stored : f[1] \in OrderIds /\ owner[f[1]] # None
  BY <1>1, <1>2 DEF Stored, Exists
<1>4. \A o \in OrderIds : owner[o] # None <=> <<o>> \in Stored
  BY <1>2, <1>3 DEF Stored, Exists
<1>5. \A f \in Stored : f \in Rows(f[1])
  <2>1. TAKE f \in Stored
  <2>2. CASE f \in lines
    BY <1>1, <2>2, RowFacts
  <2>3. CASE f \notin lines
    <3>1. PICK o \in OrderIds : f = <<o>>
      BY <2>3 DEF Stored
    <3>2. f[1] = o
      BY <3>1
    <3>3. QED
      BY <3>1, <3>2, RowFacts
  <2>4. QED
    BY <2>2, <2>3
<1>6. QED
  BY <1>3, <1>4, <1>5 DEF Stored, Rows, About

(* What a step may do to the orders and to the other tasks.                *)
Grows ==
    /\ \A o \in OrderIds : owner[o] # None => owner'[o] = owner[o]
    /\ lines \subseteq lines'
    /\ UNCHANGED build

SameTask(u) ==
    /\ pc'[u] = pc[u] /\ call'[u] = call[u] /\ todo'[u] = todo[u]
    /\ seen'[u] = seen[u] /\ known'[u] = known[u]

LEMMA StoredGrows ==
    ASSUME TypeOK, Grows
    PROVE  Stored \subseteq Stored'
<1>1. \A o \in OrderIds : Exists(o) => Exists(o)'
  BY DEF Exists, Grows
<1>2. QED
  BY <1>1 DEF Stored, Grows

(* A task that a step passes by keeps its part of the invariant.           *)
LEMMA OthersKeep ==
    ASSUME OrdersInv, Grows, NEW u \in Tasks, SameTask(u)
    PROVE  CallOK(u)' /\ TaskOK(u)'
<1> USE DEF OrdersInv, CallsOK, SameTask
<1>1. Stored \subseteq Stored'
  BY StoredGrows
<1>2. \A f \in Stored : f[1] \in OrderIds /\ owner[f[1]] # None /\ owner'[f[1]] = owner[f[1]]
  BY StoredFacts DEF Grows
<1>3. known[u] \subseteq Stored /\ known'[u] \subseteq Stored'
  BY <1>1 DEF TaskOK
<1>4. CallOK(u)'
  <2>1. pc[u] \in {"open_fetch", "check", "add", "add_fetch", "updated_null", "opened",
                   "shown", "added"} =>
            call[u].client \in Clients
    BY DEF CallOK, Steps, TaskOK, AnswerOK
  <2>2. \A o \in OrderIds : owner[o] = call[u].client /\ call[u].client \in Clients
                                => owner'[o] = call[u].client
    BY OrdersAssumption DEF Grows
  <2>3. CallOK(u)
    OBVIOUS
  <2>4. QED
    BY <2>1, <2>2, <2>3 DEF CallOK
<1>5. call[u].client \in Clients => \A f \in Stored : Mine(u, f)' <=> Mine(u, f)
  BY <1>2 DEF Mine
<1>6. \A f : Asked(u, f)' <=> Asked(u, f)
  BY DEF Asked
<1>7. FetchingOK(u)'
  <2>1. SUFFICES ASSUME pc[u] = "list_fetch"
                 PROVE  FetchingOK(u)'
    BY DEF FetchingOK
  <2>2. FetchingOK(u) /\ call[u].client \in Clients
    BY <2>1 DEF TaskOK, CallOK, Steps
  <2>3. \A o \in todo[u] : o \in OrderIds /\ owner[o] = call[u].client
    BY <2>1, <2>2 DEF FetchingOK, TypeOK
  <2>4. \A o \in todo[u] : owner'[o] = call[u].client
    BY <2>2, <2>3, OrdersAssumption DEF Grows
  <2>5. QED
    BY <1>1, <1>3, <1>5, <2>1, <2>2, <2>4 DEF FetchingOK
<1>8. AnswerOK(u)'
  <2>1. AnswerOK(u)
    BY DEF TaskOK
  <2>2. QED
    BY <1>1, <1>3, <1>5, <1>6, <2>1 DEF AnswerOK
<1>9. AdditionOK(u)' /\ NotFoundOK(u)'
  BY DEF TaskOK, AdditionOK, NotFoundOK, Grows, Stores
<1>10. QED
  BY <1>3, <1>4, <1>7, <1>8, <1>9 DEF TaskOK, SameTask

(* The invariant after a step of one task.                                 *)
LEMMA StepOf ==
    ASSUME OrdersInv, TypeOK', Grows, NEW t \in Tasks,
           \A u \in Tasks : u # t => SameTask(u),
           LinesOwned', ToldStays', CallOK(t)', TaskOK(t)'
    PROVE  OrdersInv'
BY OthersKeep DEF OrdersInv, CallsOK

(* Steps that leave the orders as they are.                                *)
LEMMA StoredUnchanged ==
    ASSUME OrdersInv, UNCHANGED <<build, owner, lines>>
    PROVE  Grows /\ LinesOwned' /\ Stored' = Stored /\ (told' \subseteq Stored => ToldStays')
BY DEF OrdersInv, Grows, LinesOwned, Stored, Exists, ToldStays

(* A task that merely goes on to a place of which the invariant says       *)
(* nothing, the request being refused or over.                             *)
Quiet == {"idle", "unauthorized", "forbidden", "bad_request", "service_not_found",
          "failed", "caught", "garbage"}

LEMMA QuietIsOK ==
    ASSUME NEW t \in Tasks, pc'[t] \in Quiet, known'[t] \subseteq Stored',
           pc'[t] = "idle" => seen'[t] = {}
    PROVE  CallOK(t)' /\ TaskOK(t)'
BY DEF Quiet, CallOK, TaskOK, FetchingOK, AnswerOK, AdditionOK, NotFoundOK, Steps

(***************************************************************************)
(* Every step keeps the invariant.                                         *)
(***************************************************************************)
LEMMA RequestKeeps ==
    ASSUME OrdersInv, NEW t \in Tasks, Request(t)
    PROVE  OrdersInv'
<1> USE DEF OrdersInv
<1>1. PICK step \in {"unauthorized", "list", "open", "show", "add_find"},
           c \in Clients \cup {None}, o \in OrderIds \cup {None},
           s \in ServiceIds \cup {None} :
        /\ Arrive(t, step, c, o, s)
        /\ step # "unauthorized" => c \in Clients
        /\ step \in {"show", "add_find"} => o \in OrderIds
  BY DEF Request, RequestUnauthorized, RequestList, RequestOpen, RequestShow, RequestAdd
<1>2. step \in Places
  BY PlacesAre
<1>3. /\ TypeOK'
      /\ pc[t] = "idle" /\ pc'[t] = step
      /\ call'[t] = [client |-> c, order |-> o, service |-> s]
      /\ known'[t] \subseteq told
      /\ UNCHANGED <<build, owner, lines, todo, seen, told>>
      /\ \A u \in Tasks : u # t => SameTask(u)
  BY <1>1, <1>2, ArriveEffect DEF SameTask
<1>4. Grows /\ LinesOwned' /\ ToldStays' /\ Stored' = Stored
  BY <1>3, StoredUnchanged DEF ToldStays
<1>5. CallOK(t)'
  BY <1>1, <1>3 DEF CallOK, Steps
<1>6. TaskOK(t)'
  BY <1>1, <1>3, <1>4 DEF TaskOK, FetchingOK, AnswerOK, AdditionOK, NotFoundOK, ToldStays
<1>7. QED
  BY <1>3, <1>4, <1>5, <1>6, StepOf

(* The steps that only look, and find or do not find a reason to go on.    *)
LEMMA LookKeeps ==
    ASSUME OrdersInv, TypeOK', NEW t \in Tasks,
           AddFind(t) \/ Check(t) \/ CheckFails(t) \/ CheckPassesOnError(t)
    PROVE  OrdersInv'
<1> USE DEF OrdersInv
<1> DEFINE o == call[t].order
<1>1. /\ UNCHANGED <<build, owner, lines, call, todo, seen, told, known>>
      /\ \A u \in Tasks : u # t => pc'[u] = pc[u]
  BY DEF AddFind, Check, CheckFails, CheckPassesOnError, Goto, TypeOK
<1>2. \A u \in Tasks : u # t => SameTask(u)
  BY <1>1 DEF SameTask
<1>3. Grows /\ LinesOwned' /\ ToldStays' /\ Stored' = Stored
  BY <1>1, StoredUnchanged DEF ToldStays
<1>4. CallOK(t) /\ TaskOK(t) /\ call[t].client # None /\ o \in OrderIds
  BY OrdersAssumption
     DEF CallsOK, CallOK, Steps, AddFind, Check, CheckFails, CheckPassesOnError
<1>5. \/ pc'[t] \in {"forbidden", "bad_request", "service_not_found", "failed"}
      \/ pc'[t] = "order_not_found" /\ ~Exists(o)
      \/ pc'[t] = "check" /\ pc[t] = "add_find" /\ owner[o] = call[t].client
                          /\ call[t].service # None
      \/ pc'[t] = "add" /\ pc[t] = "check"
  BY <1>4 DEF AddFind, Check, CheckFails, CheckPassesOnError, Goto, TypeOK, Exists
<1>6. CASE pc'[t] \in {"forbidden", "bad_request", "service_not_found", "failed"}
  BY <1>1, <1>2, <1>3, <1>4, <1>6, QuietIsOK, StepOf DEF Quiet, TaskOK
<1>7. CASE pc'[t] = "order_not_found" /\ ~Exists(o)
  <2>1. <<o>> \notin Stored
    BY <1>4, <1>7, StoredFacts DEF Exists
  <2>2. CallOK(t)' /\ TaskOK(t)'
    BY <1>1, <1>3, <1>4, <1>7, <2>1
       DEF CallOK, Steps, TaskOK, FetchingOK, AnswerOK, AdditionOK, NotFoundOK
  <2>3. QED
    BY <1>2, <1>3, <2>2, StepOf
<1>8. CASE pc'[t] \in {"check", "add"}
  <2>1. call[t].service \in ServiceIds /\ owner[o] = call[t].client /\ call[t].client \in Clients
    BY <1>4, <1>5, <1>8 DEF TypeOK, Calls, CallOK, Steps
  <2>2. CallOK(t)' /\ TaskOK(t)'
    BY <1>1, <1>3, <1>4, <1>8, <2>1
       DEF CallOK, Steps, TaskOK, FetchingOK, AnswerOK, AdditionOK, NotFoundOK
  <2>3. QED
    BY <1>2, <1>3, <2>2, StepOf
<1>9. QED
  BY <1>5, <1>6, <1>7, <1>8

LEMMA ListKeeps ==
    ASSUME OrdersInv, TypeOK', NEW t \in Tasks, List(t)
    PROVE  OrdersInv'
<1> USE DEF OrdersInv
<1> DEFINE mine == OrdersOf(call[t].client)
           rows == UNION {Rows(o) : o \in mine}
<1>1. /\ pc[t] = "list" /\ seen[t] = {} /\ known[t] \subseteq Stored
      /\ call[t].client \in Clients /\ call[t].client # None
      /\ UNCHANGED <<build, owner, lines, catalog, call, known>>
  BY OrdersAssumption DEF List, CallsOK, CallOK, Steps, TaskOK
<1>2. \A f \in rows : f[1] \in mine /\ f \in Stored /\ f \in Facts
  <2>1. \A o \in mine : o \in OrderIds /\ owner[o] # None
    BY <1>1 DEF OrdersOf
  <2>2. \A o \in mine : \A f \in Rows(o) : f[1] = o /\ f \in Stored /\ f \in Facts
    BY <2>1, RowFacts, StoredFacts
  <2>3. QED
    BY <2>2
<1>3. \A f \in Stored : Mine(t, f) => f[1] \in mine /\ f \in rows
  BY StoredFacts DEF Mine, OrdersOf
<1>4. \/ /\ Answer(t, "listed", rows)
         /\ UNCHANGED todo
      \/ /\ Goto(t, "list_fetch")
         /\ todo' = [todo EXCEPT ![t] = mine]
         /\ UNCHANGED <<seen, told>>
  BY DEF List
<1>5. rows \in SUBSET Facts /\ mine \in SUBSET OrderIds
  BY <1>2 DEF OrdersOf
<1> HIDE DEF rows
<1>6. CASE Answer(t, "listed", rows) /\ UNCHANGED todo
  <2>1. /\ pc'[t] = "listed" /\ seen'[t] = rows /\ told' = told \cup rows
        /\ \A u \in Tasks : u # t => SameTask(u)
    BY <1>1, <1>5, <1>6, AnswerEffect, PlacesAre DEF TypeOK, Places, SameTask
  <2>2. Grows /\ LinesOwned' /\ ToldStays' /\ Stored' = Stored
    BY <1>1, <1>2, <2>1, StoredUnchanged DEF ToldStays
  <2>3. CallOK(t)'
    BY <2>1 DEF CallOK, Steps
  <2>4. AnswerOK(t)'
    BY <1>1, <1>2, <1>3, <2>1, <2>2 DEF AnswerOK, Asked, Mine, OrdersOf
  <2>5. TaskOK(t)'
    BY <1>1, <2>1, <2>2, <2>4 DEF TaskOK, FetchingOK, AdditionOK, NotFoundOK
  <2>6. QED
    BY <2>1, <2>2, <2>3, <2>5, StepOf
<1>7. CASE /\ Goto(t, "list_fetch")
           /\ todo' = [todo EXCEPT ![t] = mine]
           /\ UNCHANGED <<seen, told>>
  <2>1. /\ pc'[t] = "list_fetch" /\ todo'[t] = mine
        /\ \A u \in Tasks : u # t => SameTask(u)
    BY <1>1, <1>7, GotoEffect, PlacesAre DEF TypeOK, Places, SameTask
  <2>2. Grows /\ LinesOwned' /\ ToldStays' /\ Stored' = Stored
    BY <1>1, <1>7, StoredUnchanged DEF ToldStays
  <2>3. CallOK(t)'
    BY <1>1, <2>1 DEF CallOK
  <2>4. FetchingOK(t)'
    BY <1>1, <1>3, <1>7, <2>1 DEF FetchingOK, Mine, OrdersOf
  <2>5. TaskOK(t)'
    BY <1>1, <2>1, <2>2, <2>4 DEF TaskOK, AnswerOK, AdditionOK, NotFoundOK
  <2>6. QED
    BY <2>1, <2>2, <2>3, <2>5, StepOf
<1>8. QED
  BY <1>4, <1>6, <1>7

LEMMA ListFetchKeeps ==
    ASSUME OrdersInv, TypeOK', NEW t \in Tasks, ListFetch(t)
    PROVE  OrdersInv'
<1> USE DEF OrdersInv
<1>1. PICK o \in todo[t] \cup Later(t) :
                           /\ todo' = [todo EXCEPT ![t] = @ \ {o}]
                           /\ seen' = [seen EXCEPT ![t] = @ \cup Rows(o)]
  BY DEF ListFetch
<1>2. /\ pc[t] = "list_fetch" /\ pc'[t] = pc[t]
      /\ UNCHANGED <<build, owner, lines, catalog, pc, call, told, known>>
      /\ CallOK(t) /\ TaskOK(t)
      /\ todo'[t] = todo[t] \ {o} /\ seen'[t] = seen[t] \cup Rows(o)
      /\ \A u \in Tasks : u # t => SameTask(u)
  BY <1>1 DEF ListFetch, CallsOK, SameTask, TypeOK
<1>3. o \in OrderIds /\ owner[o] = call[t].client /\ call[t].client # None
  BY <1>1, <1>2, OrdersAssumption
     DEF TaskOK, FetchingOK, CallOK, Steps, TypeOK, Later, OrdersOf
<1>4. \A f \in Rows(o) : Mine(t, f) /\ f \in Stored
  BY <1>3, RowFacts, StoredFacts DEF Mine
<1>5. \A f \in Stored : f[1] = o => f \in Rows(o)
  BY StoredFacts
<1>6. Grows /\ LinesOwned' /\ ToldStays' /\ Stored' = Stored
  BY <1>2, StoredUnchanged DEF ToldStays
<1>7. FetchingOK(t)'
  <2>1. FetchingOK(t) /\ known[t] \subseteq Stored
    BY <1>2 DEF TaskOK
  <2>2. QED
    BY <1>2, <1>4, <1>5, <1>6, <2>1 DEF FetchingOK, Mine
<1>8. CallOK(t)' /\ TaskOK(t)'
  BY <1>2, <1>6, <1>7 DEF CallOK, TaskOK, AnswerOK, AdditionOK, NotFoundOK
<1>9. QED
  BY <1>2, <1>6, <1>8, StepOf

LEMMA ListEndKeeps ==
    ASSUME OrdersInv, TypeOK', NEW t \in Tasks, ListEnd(t)
    PROVE  OrdersInv'
<1> USE DEF OrdersInv
<1>1. /\ pc[t] = "list_fetch" /\ todo[t] = {} /\ Answer(t, "listed", seen[t])
      /\ UNCHANGED <<build, owner, lines, catalog, call, todo, known>>
      /\ CallOK(t) /\ FetchingOK(t) /\ known[t] \subseteq Stored
  BY DEF ListEnd, CallsOK, TaskOK
<1>2. /\ pc'[t] = "listed" /\ seen'[t] = seen[t] /\ told' = told \cup seen[t]
      /\ \A u \in Tasks : u # t => SameTask(u)
  BY <1>1, AnswerEffect, PlacesAre DEF TypeOK, Places, SameTask
<1>3. seen[t] \subseteq Stored
  BY <1>1 DEF FetchingOK
<1>4. Grows /\ LinesOwned' /\ ToldStays' /\ Stored' = Stored
  BY <1>1, <1>2, <1>3, StoredUnchanged DEF ToldStays
<1>5. AnswerOK(t)'
  BY <1>1, <1>2, <1>4 DEF AnswerOK, FetchingOK, Asked, Mine, CallOK, Steps
<1>6. CallOK(t)' /\ TaskOK(t)'
  BY <1>1, <1>2, <1>4, <1>5 DEF CallOK, Steps, TaskOK, FetchingOK, AdditionOK, NotFoundOK
<1>7. QED
  BY <1>2, <1>4, <1>6, StepOf

(* A new order: owner' gives an unused id to the client of the request.    *)
LEMMA OpeningGrows ==
    ASSUME OrdersInv, NEW o \in OrderIds, owner[o] = None, NEW c \in Clients,
           owner' = [owner EXCEPT ![o] = c], UNCHANGED <<build, lines>>
    PROVE  /\ Grows /\ LinesOwned' /\ Stored \subseteq Stored'
           /\ owner'[o] = c /\ Rows(o) = {<<o>>}
           /\ \A f \in Stored : f[1] # o
<1> USE DEF OrdersInv
<1>1. Grows /\ owner'[o] = c
  BY DEF Grows, TypeOK
<1>2. Stored \subseteq Stored'
  BY <1>1, StoredGrows
<1>3. \A f \in Stored : f[1] # o /\ owner[f[1]] # None /\ f[1] \in OrderIds
  BY StoredFacts
<1>4. \A l \in lines : l \in Stored
  BY DEF Stored
<1>5. LinesOwned'
  BY <1>1, <1>3, <1>4 DEF LinesOwned, Grows
<1>6. Rows(o) = {<<o>>}
  BY <1>3, <1>4 DEF Rows, About
<1>7. QED
  BY <1>1, <1>2, <1>3, <1>5, <1>6

LEMMA OpenKeeps ==
    ASSUME OrdersInv, TypeOK', NEW t \in Tasks, Open(t)
    PROVE  OrdersInv'
<1> USE DEF OrdersInv
<1> DEFINE c == call[t].client
<1>1. PICK o \in OrderIds :
        /\ owner[o] = None
        /\ owner' = [owner EXCEPT ![o] = c]
        /\ call' = [call EXCEPT ![t].order = o]
        /\ \/ Answer(t, "opened", Rows(o))
           \/ Goto(t, "open_fetch") /\ UNCHANGED <<seen, told>>
  BY DEF Open, Exists
<1>2. /\ pc[t] = "open" /\ c \in Clients /\ c # None /\ known[t] \subseteq Stored
      /\ UNCHANGED <<build, lines, catalog, todo, known>>
  BY OrdersAssumption DEF Open, CallsOK, CallOK, Steps, TaskOK
<1>3. /\ Grows /\ LinesOwned' /\ Stored \subseteq Stored'
      /\ owner'[o] = c /\ Rows(o) = {<<o>>}
      /\ \A f \in Stored : f[1] # o
  BY <1>1, <1>2, OpeningGrows
<1>4. /\ call'[t].client = c /\ call'[t].order = o
      /\ \A u \in Tasks : u # t => call'[u] = call[u]
  BY <1>1 DEF TypeOK, Calls
<1>5. <<o>> \in Stored' /\ <<o>> \in Facts /\ <<o>>[1] = o
  BY <1>2, <1>3 DEF Stored, Exists, Facts
<1>6. CASE Answer(t, "opened", Rows(o))
  <2>1. /\ pc'[t] = "opened" /\ seen'[t] = {<<o>>} /\ told' = told \cup {<<o>>}
        /\ \A u \in Tasks : u # t => SameTask(u)
    BY <1>2, <1>3, <1>4, <1>5, <1>6, AnswerEffect, PlacesAre DEF TypeOK, Places, SameTask
  <2>2. ToldStays'
    BY <1>3, <1>5, <2>1 DEF ToldStays
  <2>3. CallOK(t)'
    BY <1>2, <1>3, <1>4, <2>1 DEF CallOK, Steps
  <2>4. AnswerOK(t)'
    BY <1>2, <1>3, <1>4, <1>5, <2>1 DEF AnswerOK, Asked, Mine
  <2>5. TaskOK(t)'
    BY <1>2, <1>3, <2>1, <2>4 DEF TaskOK, FetchingOK, AdditionOK, NotFoundOK
  <2>6. QED
    BY <1>3, <2>1, <2>2, <2>3, <2>5, StepOf
<1>7. CASE Goto(t, "open_fetch") /\ UNCHANGED <<seen, told>>
  <2>1. /\ pc'[t] = "open_fetch"
        /\ \A u \in Tasks : u # t => SameTask(u)
    BY <1>2, <1>4, <1>7, GotoEffect, PlacesAre DEF TypeOK, Places, SameTask
  <2>2. ToldStays'
    BY <1>3, <1>7 DEF ToldStays
  <2>3. CallOK(t)'
    BY <1>2, <1>3, <1>4, <2>1 DEF CallOK, Steps
  <2>4. TaskOK(t)'
    BY <1>2, <1>3, <2>1 DEF TaskOK, FetchingOK, AnswerOK, AdditionOK, NotFoundOK
  <2>5. QED
    BY <1>3, <2>1, <2>2, <2>3, <2>4, StepOf
<1>8. QED
  BY <1>1, <1>6, <1>7

(* Steps that answer with the rows of an order of the client.              *)
LEMMA RowsAnswered ==
    ASSUME OrdersInv, TypeOK', NEW t \in Tasks, NEW step \in {"opened", "shown", "added"},
           Answer(t, step, Rows(call[t].order)),
           UNCHANGED <<build, owner, lines, catalog, call, todo, known>>,
           call[t].order \in OrderIds, call[t].client \in Clients,
           owner[call[t].order] = call[t].client,
           step = "added" => <<call[t].order, Stores(call[t].service)>> \in lines
    PROVE  OrdersInv'
<1> USE DEF OrdersInv
<1> DEFINE o == call[t].order
<1>1. owner[o] # None
  BY OrdersAssumption
<1>2. /\ Rows(o) \in SUBSET Facts
      /\ \A f \in Rows(o) : f[1] = o /\ f \in Stored
      /\ \A f \in Stored : f[1] = o => f \in Rows(o)
  BY <1>1, RowFacts, StoredFacts
<1>3. /\ pc'[t] = step /\ seen'[t] = Rows(o) /\ told' = told \cup Rows(o)
      /\ \A u \in Tasks : u # t => SameTask(u)
  <2>1. step \in Places /\ Answer(t, step, Rows(o))
    BY PlacesAre
  <2>2. /\ pc'[t] = step /\ seen'[t] = Rows(o) /\ told' = told \cup Rows(o)
        /\ \A u \in Tasks : u # t => pc'[u] = pc[u] /\ seen'[u] = seen[u]
    BY <1>2, <2>1, AnswerEffect DEF TypeOK, Places
  <2>3. QED
    BY <2>2 DEF SameTask
<1>4. Grows /\ LinesOwned' /\ ToldStays' /\ Stored' = Stored
  BY <1>2, <1>3, StoredUnchanged DEF ToldStays
<1>5. known[t] \subseteq Stored
  BY DEF TaskOK
<1>6. CallOK(t)'
  BY <1>3 DEF CallOK, Steps
<1>7. AnswerOK(t)'
  BY <1>2, <1>3, <1>4, <1>5 DEF AnswerOK, Asked, Mine
<1>8. AdditionOK(t)'
  <2>1. step = "added" => /\ <<o, Stores(call[t].service)>> \in Stored
                          /\ <<o, Stores(call[t].service)>>[1] = o
    BY StoredFacts
  <2>2. UNCHANGED Stores(call[t].service)
    BY DEF Stores
  <2>3. QED
    BY <1>2, <1>3, <2>1, <2>2 DEF AdditionOK
<1>9. TaskOK(t)'
  BY <1>3, <1>4, <1>5, <1>7, <1>8 DEF TaskOK, FetchingOK, NotFoundOK
<1>10. QED
  BY <1>3, <1>4, <1>6, <1>9, StepOf

LEMMA FetchKeeps ==
    ASSUME OrdersInv, TypeOK', NEW t \in Tasks, OpenFetch(t) \/ AddFetch(t)
    PROVE  OrdersInv'
<1>1. CallOK(t) /\ TaskOK(t)
  BY DEF OrdersInv, CallsOK
<1>2. /\ call[t].order \in OrderIds /\ call[t].client \in Clients
      /\ owner[call[t].order] = call[t].client
      /\ AddFetch(t) => <<call[t].order, Stores(call[t].service)>> \in lines
  BY <1>1 DEF CallOK, Steps, TaskOK, AdditionOK, OpenFetch, AddFetch
<1>3. CASE OpenFetch(t)
  BY <1>2, <1>3, RowsAnswered DEF OpenFetch
<1>4. CASE AddFetch(t)
  BY <1>2, <1>4, RowsAnswered DEF AddFetch
<1>5. QED
  BY <1>3, <1>4

LEMMA ShowKeeps ==
    ASSUME OrdersInv, TypeOK', NEW t \in Tasks, Show(t)
    PROVE  OrdersInv'
<1> USE DEF OrdersInv
<1> DEFINE o == call[t].order
<1>1. /\ o \in OrderIds /\ call[t].client \in Clients /\ known[t] \subseteq Stored
      /\ UNCHANGED <<build, owner, lines, catalog, call, todo, known>>
  BY DEF Show, CallsOK, CallOK, Steps, TaskOK
<1>2. CASE owner[o] = call[t].client
  <2>1. Exists(o)
    BY <1>1, <1>2, OrdersAssumption DEF Exists
  <2>2. Answer(t, "shown", Rows(o))
    BY <1>2, <2>1 DEF Show
  <2>3. QED
    BY <1>1, <1>2, <2>2, RowsAnswered
<1>3. CASE owner[o] # call[t].client
  <2>1. \/ Refuse(t, "forbidden")
        \/ Refuse(t, "order_not_found") /\ ~Exists(o)
    BY <1>3 DEF Show
  <2>2. /\ UNCHANGED <<seen, told>>
        /\ \/ pc'[t] = "forbidden"
           \/ pc'[t] = "order_not_found" /\ <<o>> \notin known[t]
        /\ \A u \in Tasks : u # t => SameTask(u)
    <3>1. ~Exists(o) => <<o>> \notin known[t]
      BY <1>1, StoredFacts DEF Exists
    <3>2. QED
      BY <1>1, <2>1, <3>1, RefuseEffect, PlacesAre DEF TypeOK, Places, SameTask
  <2>3. Grows /\ LinesOwned' /\ ToldStays' /\ Stored' = Stored
    BY <1>1, <2>2, StoredUnchanged DEF ToldStays
  <2>4. CallOK(t)' /\ TaskOK(t)'
    BY <1>1, <2>2, <2>3
       DEF CallOK, Steps, TaskOK, FetchingOK, AnswerOK, AdditionOK, NotFoundOK
  <2>5. QED
    BY <2>2, <2>3, <2>4, StepOf
<1>4. QED
  BY <1>2, <1>3

(* Another service in an order of the client.                              *)
LEMMA AddingGrows ==
    ASSUME OrdersInv, NEW o \in OrderIds, owner[o] # None, NEW s \in ServiceIds,
           lines' = lines \cup {<<o, s>>}, UNCHANGED <<build, owner>>
    PROVE  /\ Grows /\ LinesOwned' /\ Stored \subseteq Stored'
           /\ <<o, s>> \in Stored' /\ <<o, s>>[1] = o /\ <<o, s>> \in Facts
<1>1. Grows
  BY DEF Grows
<1>2. <<o, s>>[1] = o
  OBVIOUS
<1>3. QED
  BY <1>1, <1>2, StoredGrows DEF OrdersInv, LinesOwned, Stored, Facts

LEMMA AddKeeps ==
    ASSUME OrdersInv, TypeOK', NEW t \in Tasks, Add(t)
    PROVE  OrdersInv'
<1> USE DEF OrdersInv
<1> DEFINE o == call[t].order
           s == Stores(call[t].service)
<1>1. /\ pc[t] = "add" /\ o \in OrderIds /\ call[t].client \in Clients
      /\ call[t].service \in ServiceIds
      /\ owner[o] = call[t].client /\ owner[o] # None /\ known[t] \subseteq Stored
      /\ UNCHANGED <<build, owner, catalog, call, todo, known>>
  BY OrdersAssumption DEF Add, CallsOK, CallOK, Steps, TaskOK
<1>a. UNCHANGED s
  BY <1>1 DEF Stores
<1> HIDE DEF s
<1>b. CASE Refuse(t, "failed") /\ UNCHANGED lines
  <2>1. pc'[t] = "failed" /\ UNCHANGED <<seen, told>> /\ \A u \in Tasks : u # t => SameTask(u)
    BY <1>1, <1>b, RefuseEffect, PlacesAre DEF TypeOK, Places, SameTask
  <2>2. Grows /\ LinesOwned' /\ ToldStays' /\ Stored' = Stored
    BY <1>1, <1>b, <2>1, StoredUnchanged DEF ToldStays
  <2>3. QED
    BY <1>1, <2>1, <2>2, QuietIsOK, StepOf DEF Quiet
<1>c. \/ Refuse(t, "failed") /\ UNCHANGED lines
      \/ /\ s \in ServiceIds
         /\ lines' = lines \cup {<<o, s>>}
         /\ \/ Answer(t, "added", Rows(o) \cup {<<o, s>>})
            \/ Goto(t, "add_fetch") /\ UNCHANGED <<seen, told>>
  BY <1>1, StoresAnId DEF Add, Exists, TypeOK, s
<1> SUFFICES ASSUME ~(Refuse(t, "failed") /\ UNCHANGED lines)
             PROVE  OrdersInv'
  BY <1>b
<1>2. /\ s \in ServiceIds
      /\ lines' = lines \cup {<<o, s>>}
      /\ \/ Answer(t, "added", Rows(o) \cup {<<o, s>>})
         \/ Goto(t, "add_fetch") /\ UNCHANGED <<seen, told>>
  BY <1>c
<1>3. /\ Grows /\ LinesOwned' /\ Stored \subseteq Stored'
      /\ <<o, s>> \in Stored' /\ <<o, s>>[1] = o /\ <<o, s>> \in Facts
  BY <1>1, <1>2, AddingGrows
<1>4. CASE Answer(t, "added", Rows(o) \cup {<<o, s>>})
  <2> DEFINE rows == Rows(o) \cup {<<o, s>>}
  <2>1. /\ rows \in SUBSET Facts
        /\ \A f \in rows : f[1] = o /\ f \in Stored'
        /\ \A f \in Stored : f[1] = o => f \in rows
        /\ <<o, s>> \in rows
    BY <1>1, <1>3, RowFacts, StoredFacts
  <2> HIDE DEF rows
  <2>2. /\ pc'[t] = "added" /\ seen'[t] = rows /\ told' = told \cup rows
        /\ \A u \in Tasks : u # t => SameTask(u)
    BY <1>1, <1>4, <2>1, AnswerEffect, PlacesAre DEF TypeOK, Places, SameTask, rows
  <2>3. ToldStays'
    BY <1>3, <2>1, <2>2 DEF ToldStays
  <2>4. CallOK(t)'
    BY <1>1, <2>2 DEF CallOK, Steps
  <2>5. AnswerOK(t)' /\ AdditionOK(t)'
    BY <1>1, <1>a, <1>3, <2>1, <2>2 DEF AnswerOK, AdditionOK, Asked, Mine, s
  <2>6. TaskOK(t)'
    BY <1>1, <1>3, <2>2, <2>5 DEF TaskOK, FetchingOK, NotFoundOK
  <2>7. QED
    BY <1>3, <2>2, <2>3, <2>4, <2>6, StepOf
<1>5. CASE Goto(t, "add_fetch") /\ UNCHANGED <<seen, told>>
  <2>1. pc'[t] = "add_fetch" /\ \A u \in Tasks : u # t => SameTask(u)
    BY <1>1, <1>5, GotoEffect, PlacesAre DEF TypeOK, Places, SameTask
  <2>2. ToldStays'
    BY <1>3, <1>5 DEF ToldStays
  <2>3. CallOK(t)'
    BY <1>1, <2>1 DEF CallOK, Steps
  <2>4. TaskOK(t)'
    BY <1>1, <1>a, <1>2, <1>3, <2>1
       DEF TaskOK, FetchingOK, AnswerOK, AdditionOK, NotFoundOK, s
  <2>5. QED
    BY <1>3, <2>1, <2>2, <2>3, <2>4, StepOf
<1>6. QED
  BY <1>2, <1>4, <1>5

(* Failures of the storage.                                                *)
LEMMA StorageFailsKeeps ==
    ASSUME OrdersInv, TypeOK', NEW t \in Tasks, StorageFails(t)
    PROVE  OrdersInv'
<1> USE DEF OrdersInv
<1>1. /\ pc[t] \in Steps /\ CallOK(t) /\ known[t] \subseteq Stored
      /\ UNCHANGED <<build, catalog, call, todo, seen, told, known>>
      /\ Goto(t, FailureOf(pc[t])) /\ FailureOf(pc[t]) \in {"failed", "caught", "updated_null"}
      /\ FailureOf(pc[t]) = "updated_null" => pc[t] \in {"add", "add_fetch"}
  BY DEF StorageFails, CallsOK, TaskOK, FailureOf
<1>2. /\ pc'[t] = FailureOf(pc[t])
      /\ \A u \in Tasks : u # t => SameTask(u)
  BY <1>1, GotoEffect, PlacesAre DEF TypeOK, Places, SameTask
<1>3. Grows /\ LinesOwned' /\ Stored \subseteq Stored'
  <2>1. CASE UNCHANGED <<owner, lines>>
    BY <1>1, <2>1, StoredUnchanged
  <2>2. CASE pc[t] = "open" /\ UNCHANGED lines
             /\ \E o \in {p \in OrderIds : ~Exists(p)} :
                    owner' = [owner EXCEPT ![o] = call[t].client]
    BY <1>1, <2>2, OpeningGrows DEF CallOK, Steps, Exists
  <2>3. CASE pc[t] = "add" /\ UNCHANGED owner /\ ~Violates(call[t].service)
             /\ lines' = lines \cup {<<call[t].order, Stores(call[t].service)>>}
    <3>1. Stores(call[t].service) \in ServiceIds
      BY <1>1, <2>3, StoresAnId DEF CallOK, TypeOK
    <3>2. call[t].order \in OrderIds /\ owner[call[t].order] # None
      BY <1>1, <2>3, OrdersAssumption DEF CallOK, Steps
    <3>3. QED
      BY <1>1, <2>3, <3>1, <3>2, AddingGrows
  <2>4. QED
    BY <2>1, <2>2, <2>3 DEF StorageFails
<1>4. ToldStays'
  BY <1>1, <1>3 DEF ToldStays
<1>5. CASE pc'[t] \in {"failed", "caught"}
  BY <1>1, <1>2, <1>3, <1>4, <1>5, QuietIsOK, StepOf DEF Quiet
<1>6. CASE pc'[t] = "updated_null"
  <2>1. call[t].order \in OrderIds /\ owner'[call[t].order] = call[t].client
    BY <1>1, <1>2, <1>3, <1>6, OrdersAssumption DEF CallOK, Steps, Grows
  <2>2. CallOK(t)' /\ TaskOK(t)'
    BY <1>1, <1>2, <1>3, <1>6, <2>1
       DEF CallOK, Steps, TaskOK, FetchingOK, AnswerOK, AdditionOK, NotFoundOK
  <2>3. QED
    BY <1>2, <1>3, <1>4, <2>2, StepOf
<1>7. QED
  BY <1>1, <1>2, <1>5, <1>6

(* After a restart no request is under way; nothing is told of orders that *)
(* were in memory.                                                         *)
LEMMA RestartKeeps ==
    ASSUME OrdersInv, TypeOK', Restart
    PROVE  OrdersInv'
<1>1. \A t \in Tasks : pc'[t] = "idle" /\ seen'[t] = {} /\ known'[t] = {}
  BY DEF Restart
<1>2. \A t \in Tasks : CallOK(t)' /\ TaskOK(t)'
  BY <1>1, QuietIsOK DEF Quiet
<1>3. LinesOwned' /\ ToldStays'
  <2>1. CASE build = "memory"
    BY <2>1 DEF Restart, LinesOwned, ToldStays
  <2>2. CASE build # "memory"
    BY <2>2 DEF Restart, OrdersInv, LinesOwned, ToldStays, Stored, Exists
  <2>3. QED
    BY <2>1, <2>2
<1>4. QED
  BY <1>2, <1>3 DEF OrdersInv, CallsOK

LEMMA NullAndEndKeep ==
    ASSUME OrdersInv, TypeOK', NEW t \in Tasks, DereferenceNull(t) \/ Respond(t)
    PROVE  OrdersInv'
<1> USE DEF OrdersInv
<1>1. CASE Restart
  BY <1>1, RestartKeeps
<1>2. CASE ~Restart
  <2>1. /\ UNCHANGED <<build, owner, lines, catalog, told>>
        /\ pc'[t] \in {"garbage", "idle"}
        /\ pc'[t] = "idle" => seen'[t] = {}
        /\ known'[t] \subseteq known[t]
        /\ \A u \in Tasks : u # t => SameTask(u)
    BY <1>2 DEF DereferenceNull, Respond, Goto, SameTask, TypeOK
  <2>2. Grows /\ LinesOwned' /\ ToldStays' /\ Stored' = Stored
    BY <2>1, StoredUnchanged DEF ToldStays
  <2>3. known'[t] \subseteq Stored'
    BY <2>1, <2>2 DEF TaskOK
  <2>4. QED
    BY <2>1, <2>2, <2>3, QuietIsOK, StepOf DEF Quiet
<1>3. QED
  BY <1>1, <1>2

-----------------------------------------------------------------------------
LEMMA OrdersInvInit == Init => OrdersInv
<1> SUFFICES ASSUME Init
             PROVE  OrdersInv
  OBVIOUS
<1>1. TypeOK
  BY TypeInit
<1>2. LinesOwned /\ ToldStays
  BY DEF Init, LinesOwned, ToldStays
<1>3. \A t \in Tasks : CallOK(t) /\ TaskOK(t)
  BY DEF Init, CallOK, Steps, TaskOK, FetchingOK, AnswerOK, AdditionOK, NotFoundOK
<1>4. QED
  BY <1>1, <1>2, <1>3 DEF OrdersInv, CallsOK

LEMMA OrdersInvNext == OrdersInv /\ [Next]_vars => OrdersInv'
<1> SUFFICES ASSUME OrdersInv, [Next]_vars
             PROVE  OrdersInv'
  OBVIOUS
<1>1. TypeOK'
  BY TypeNext DEF OrdersInv
<1>2. ASSUME NEW t \in Tasks, Handle(t)
      PROVE  OrdersInv'
  BY <1>1, <1>2, ListKeeps, ListFetchKeeps, ListEndKeeps, OpenKeeps, FetchKeeps, ShowKeeps,
     LookKeeps, AddKeeps, StorageFailsKeeps, NullAndEndKeep DEF Handle
<1>3. CASE (\E s \in Services : CatalogCreates(s)) \/ UNCHANGED vars
  <2>1. UNCHANGED <<build, owner, lines, pc, call, todo, seen, told, known>>
    BY <1>3 DEF CatalogCreates, vars
  <2>2. QED
    BY <1>1, <2>1
       DEF OrdersInv, CallsOK, CallOK, LinesOwned, ToldStays, Stored, Exists, TaskOK,
           FetchingOK, AnswerOK, AdditionOK, NotFoundOK, Mine, Asked, Stores
<1>4. QED
  BY <1>1, <1>2, <1>3, RequestKeeps, RestartKeeps DEF Next, ServiceRestart

(* Every order, every service in it, whatever a client was told and what   *)
(* each request under way knows satisfy the invariant.                     *)
THEOREM InvariantHolds == Spec => []OrdersInv
BY OrdersInvInit, OrdersInvNext, PTL DEF Spec

(* The orders, the catalog, the requests and the histories keep their      *)
(* types.                                                                  *)
THEOREM TypeCorrect == Spec => []TypeOK
<1>1. OrdersInv => TypeOK
  BY DEF OrdersInv
<1>2. QED
  BY <1>1, InvariantHolds, PTL

(* What a client was told of an order stays so, whatever requests run      *)
(* beside his and whatever fails (in memory, while the process lives).     *)
THEOREM WhatIsToldStays == Spec => []ToldStays
<1>1. OrdersInv => ToldStays
  BY DEF OrdersInv
<1>2. QED
  BY <1>1, InvariantHolds, PTL

(* An order that anyone was told of before is never "not found", but for a *)
(* failure that FindById over MongoDB caught.                              *)
THEOREM NotFoundHolds == Spec => []OrderNotFoundIsTrue
<1>1. OrdersInv => OrderNotFoundIsTrue
  BY DEF OrdersInv, TaskOK, NotFoundOK, OrderNotFoundIsTrue
<1>2. QED
  BY <1>1, InvariantHolds, PTL

(* The answer to an addition has the service that was added.               *)
THEOREM AdditionsAreShown == Spec => []AddedIsShown
<1>1. OrdersInv => AddedIsShown
  BY DEF OrdersInv, TaskOK, AdditionOK, AddedIsShown
<1>2. QED
  BY <1>1, InvariantHolds, PTL

(* A listing, though it reads order after order, shows the client's own    *)
(* orders, at least what was told of them before and at most what is       *)
(* stored; and so does an order answered alone.                            *)
THEOREM AnswersHold == Spec => []AnswersBetween
<1>1. ASSUME OrdersInv, NEW t \in Tasks,
             pc[t] \in {"listed", "opened", "shown", "added"}
      PROVE  LET mine == OrdersOf(call[t].client)
                 asked == IF pc[t] = "listed" THEN mine ELSE {call[t].order}
             IN  /\ \A o \in asked : About(known[t], o) \subseteq seen[t]
                 /\ seen[t] \subseteq UNION {Rows(o) : o \in asked \cap mine}
  <2> DEFINE mine == OrdersOf(call[t].client)
             asked == IF pc[t] = "listed" THEN mine ELSE {call[t].order}
  <2>1. AnswerOK(t) /\ CallOK(t)
    BY <1>1 DEF OrdersInv, CallsOK, TaskOK
  <2>2. \A f \in seen[t] : f[1] \in asked \cap mine /\ f \in Rows(f[1])
    BY <1>1, <2>1, StoredFacts DEF OrdersInv, AnswerOK, Mine, Asked, OrdersOf
  <2>3. \A o \in asked : owner[o] = call[t].client
    BY <1>1, <2>1 DEF CallOK, OrdersOf
  <2>4. \A o \in asked : \A f \in About(known[t], o) : f \in known[t] /\ Mine(t, f) /\ Asked(t, f)
    BY <2>3 DEF About, Mine, Asked
  <2>5. QED
    BY <1>1, <2>1, <2>2, <2>4 DEF AnswerOK
<1>2. OrdersInv => AnswersBetween
  BY <1>1 DEF AnswersBetween
<1>3. QED
  BY <1>2, InvariantHolds, PTL

-----------------------------------------------------------------------------
(***************************************************************************)
(* The order book.  A request that is about to add a service was answered  *)
(* 200 for its text, or an error let it through; and what the catalog      *)
(* offers, which only grows, it goes on offering.  Over PostgreSQL with    *)
(* the foreign key, an id that is stored is moreover that of a service.    *)
(***************************************************************************)
Vouched == Offered \cup excused

BookInv ==
    /\ OrdersInv /\ IdsAnswered
    /\ build = "postgres" => ServicesExist
    /\ \A t \in Tasks : pc[t] = "add" => call[t].service \in Vouched
    /\ ~CatalogErrors => excused = {}

(* Only the catalog's answer, or its error, leads to an addition.          *)
LEMMA WayToAdd ==
    ASSUME OrdersInv, [Next]_vars, NEW t \in Tasks, pc'[t] = "add"
    PROVE  /\ call'[t] = call[t]
           /\ pc[t] = "add" \/ call[t].service \in Vouched'
<1> USE DEF OrdersInv, TypeOK
<1>1. ASSUME NEW u \in Tasks, Request(u)
      PROVE  pc[t] = "add" /\ call'[t] = call[t]
  <2>1. ASSUME NEW step \in {"unauthorized", "list", "open", "show", "add_find"},
               NEW c, NEW o, NEW s, Arrive(u, step, c, o, s)
        PROVE  pc[t] = "add" /\ call'[t] = call[t]
    BY <2>1 DEF Arrive, Goto
  <2>2. QED
    BY <1>1, <2>1
       DEF Request, RequestUnauthorized, RequestList, RequestOpen, RequestShow, RequestAdd
<1>2. ASSUME NEW u \in Tasks, Check(u)
      PROVE  call'[t] = call[t] /\ (pc[t] = "add" \/ call[t].service \in Vouched')
  <2>1. pc[t] = "add" \/ call[t].service \in Offered
    BY <1>2 DEF Check, Goto
  <2>2. Offered' = Offered
    BY <1>2 DEF Check, Offered
  <2>3. QED
    BY <1>2, <2>1, <2>2 DEF Check, Vouched
<1>3. ASSUME NEW u \in Tasks, CheckPassesOnError(u)
      PROVE  call'[t] = call[t] /\ (pc[t] = "add" \/ call[t].service \in Vouched')
  <2>1. pc[t] = "add" \/ u = t
    BY <1>3 DEF CheckPassesOnError, Goto
  <2>2. QED
    BY <1>3, <2>1 DEF CheckPassesOnError, Vouched
<1>4. ASSUME NEW u \in Tasks,
             \/ List(u) \/ ListFetch(u) \/ ListEnd(u) \/ OpenFetch(u) \/ Show(u)
             \/ AddFind(u) \/ CheckFails(u) \/ Add(u) \/ AddFetch(u)
      PROVE  pc[t] = "add" /\ call'[t] = call[t]
  BY <1>4 DEF List, ListFetch, ListEnd, OpenFetch, Show, AddFind, CheckFails,
              Add, AddFetch, Goto, Answer, Refuse
<1>5. ASSUME NEW u \in Tasks, Open(u)
      PROVE  pc[t] = "add" /\ call'[t] = call[t]
  BY <1>5 DEF Open, Goto, Answer
<1>6. ASSUME NEW u \in Tasks, StorageFails(u)
      PROVE  pc[t] = "add" /\ call'[t] = call[t]
  BY <1>6 DEF StorageFails, FailureOf, Goto
<1>7. ASSUME NEW u \in Tasks, DereferenceNull(u) \/ Respond(u)
      PROVE  pc[t] = "add" /\ call'[t] = call[t]
  BY <1>7 DEF DereferenceNull, Restart, Respond, Goto
<1>8. CASE ServiceRestart \/ (\E s \in Services : CatalogCreates(s)) \/ UNCHANGED vars
  BY <1>8 DEF ServiceRestart, Restart, CatalogCreates, vars
<1>9. QED
  BY <1>1, <1>2, <1>3, <1>4, <1>5, <1>6, <1>7, <1>8 DEF Next, Handle

(* Only additions change the orders' services; the catalog only grows.     *)
LEMMA LinesAndCatalog ==
    ASSUME [Next]_vars
    PROVE  /\ catalog \subseteq catalog' /\ excused \subseteq excused' /\ build' = build
           /\ ~CatalogErrors => excused' = excused
           /\ \/ lines' \subseteq lines
              \/ \E t \in Tasks :
                    /\ pc[t] = "add" /\ ~Violates(call[t].service)
                    /\ lines' = lines \cup {<<call[t].order, Stores(call[t].service)>>}
<1>1. ASSUME NEW t \in Tasks, Add(t) \/ StorageFails(t)
      PROVE  /\ UNCHANGED <<catalog, excused, build>>
             /\ \/ lines' = lines
                \/ /\ pc[t] = "add" /\ ~Violates(call[t].service)
                   /\ lines' = lines \cup {<<call[t].order, Stores(call[t].service)>>}
  BY <1>1 DEF Add, StorageFails
<1>2. ASSUME NEW t \in Tasks, Request(t)
      PROVE  UNCHANGED <<catalog, excused, build, lines>>
  BY <1>2 DEF Request, RequestUnauthorized, RequestList, RequestOpen, RequestShow, RequestAdd,
              Arrive
<1>3. ASSUME NEW t \in Tasks,
             \/ List(t) \/ ListFetch(t) \/ ListEnd(t) \/ Open(t) \/ OpenFetch(t) \/ Show(t)
             \/ AddFind(t) \/ Check(t) \/ CheckFails(t) \/ AddFetch(t) \/ Respond(t)
      PROVE  UNCHANGED <<catalog, excused, build, lines>>
  BY <1>3 DEF List, ListFetch, ListEnd, Open, OpenFetch, Show, AddFind, Check, CheckFails,
              AddFetch, Respond
<1>4. ASSUME NEW t \in Tasks, CheckPassesOnError(t)
      PROVE  UNCHANGED <<catalog, build, lines>> /\ excused \subseteq excused' /\ CatalogErrors
  BY <1>4 DEF CheckPassesOnError
<1>5. ASSUME Restart
      PROVE  UNCHANGED <<catalog, excused, build>> /\ lines' \subseteq lines
  BY <1>5 DEF Restart
<1>6. ASSUME NEW t \in Tasks, DereferenceNull(t), ~Restart
      PROVE  UNCHANGED <<catalog, excused, build, lines>>
  BY <1>6 DEF DereferenceNull
<1>7. CASE (\E s \in Services : CatalogCreates(s)) \/ UNCHANGED vars
  BY <1>7 DEF CatalogCreates, vars
<1>8. QED
  BY <1>1, <1>2, <1>3, <1>4, <1>5, <1>6, <1>7 DEF Next, Handle, ServiceRestart

(* What is offered goes on being offered; the ids of services are.         *)
LEMMA OfferedGrows ==
    ASSUME catalog \subseteq catalog', excused \subseteq excused'
    PROVE  Vouched \subseteq Vouched'
BY DEF Offered, Vouched

LEMMA ServicesAreOffered ==
    ASSUME catalog \subseteq Services
    PROVE  catalog \subseteq Vouched
<1>1. \A s \in catalog : s \in ServiceIds /\ Target[s] = s
  BY OrdersAssumption
<1>2. QED
  BY <1>1 DEF Offered, Vouched

(* What an addition stores is vouched for.                                 *)
LEMMA StoredIsVouched ==
    ASSUME BookInv, NEW t \in Tasks, pc[t] = "add", ~Violates(call[t].service)
    PROVE  /\ Stores(call[t].service) \in Vouched
           /\ Stores(call[t].service) \in ServiceIds
           /\ build = "postgres" => Stores(call[t].service) \in catalog
<1>1. call[t].service \in ServiceIds /\ call[t].service \in Vouched
  BY DEF BookInv, OrdersInv, CallsOK, CallOK
<1>2. catalog \subseteq Vouched /\ catalog \subseteq Services
  BY ServicesAreOffered DEF BookInv, OrdersInv, TypeOK
<1>3. QED
  BY <1>1, <1>2, StoresAnId

LEMMA BookInvNext == BookInv /\ [Next]_vars => BookInv'
<1> SUFFICES ASSUME BookInv, [Next]_vars
             PROVE  BookInv'
  OBVIOUS
<1>1. OrdersInv'
  BY OrdersInvNext DEF BookInv
<1>2. Vouched \subseteq Vouched' /\ catalog \subseteq catalog' /\ build' = build
  BY LinesAndCatalog, OfferedGrows
<1>3. \A o, s : <<o, s>>[2] = s
  OBVIOUS
<1>4. \/ lines' \subseteq lines
      \/ \E o, s : /\ lines' = lines \cup {<<o, s>>}
                   /\ s \in Vouched /\ (build = "postgres" => s \in catalog)
  BY LinesAndCatalog, StoredIsVouched
<1>5. IdsAnswered'
  BY <1>2, <1>3, <1>4 DEF BookInv, IdsAnswered, Vouched
<1>6. build' = "postgres" => ServicesExist'
  BY <1>2, <1>3, <1>4 DEF BookInv, ServicesExist
<1>7. \A t \in Tasks : pc'[t] = "add" => call'[t].service \in Vouched'
  BY <1>2, WayToAdd DEF BookInv
<1>8. ~CatalogErrors => excused' = {}
  BY LinesAndCatalog DEF BookInv
<1>9. QED
  BY <1>1, <1>5, <1>6, <1>7, <1>8 DEF BookInv

(* What the tasks ask the book to add.                                     *)
Asks ==
    [t \in Tasks |->
        IF Asking(t) THEN <<call[t].client, call[t].order, Stores(call[t].service)>>
        ELSE <<>>]

(* The other tasks go on asking what they asked.                           *)
Same(t) == build' = build /\ \A u \in Tasks : u # t => pc'[u] = pc[u] /\ call'[u] = call[u]

LEMMA OthersAsk ==
    ASSUME NEW t \in Tasks, Same(t)
    PROVE  Asks' = [Asks EXCEPT ![t] = Asks'[t]]
BY DEF Asks, Asking, Same, Stores

(* A step after which a task asks the same, or again nothing.              *)
AsksOn(t) ==
    /\ Same(t)
    /\ \/ ~Asking(t) /\ ~Asking(t)'
       \/ /\ pc[t] \in {"add_find", "check", "add"} /\ pc'[t] \in {"check", "add"}
          /\ call'[t] = call[t]

LEMMA AsksTheSame ==
    ASSUME NEW t \in Tasks, AsksOn(t)
    PROVE  Asks' = Asks
<1>1. Asks'[t] = Asks[t]
  BY DEF Asks, Asking, AsksOn, Same, Stores
<1>2. QED
  BY <1>1, OthersAsk DEF Asks, AsksOn

LEMMA Stutters ==
    ASSUME NEW t \in Tasks, AsksOn(t), UNCHANGED <<owner, lines, catalog, excused>>
    PROVE  UNCHANGED Book!bookVars
BY AsksTheSame DEF Book!bookVars, Asks, Offered, AsksOn, Same

LEMMA Withdraws ==
    ASSUME NEW t \in Tasks, Same(t), UNCHANGED <<owner, lines, catalog, excused>>, ~Asking(t)'
    PROVE  Book!Next
<1>1. Asks' = [u \in Tasks |-> IF u \in {t} THEN <<>> ELSE Asks[u]]
  BY DEF Asks, Asking, Same, Stores
<1>2. Book!Withdraw({t})
  BY <1>1 DEF Book!Withdraw, Book!NoAsk, Asks, Offered, Same
<1>3. QED
  BY <1>2 DEF Book!Next

LEMMA Opens ==
    ASSUME NEW t \in Tasks, Same(t), NEW o \in OrderIds, owner[o] = None,
           NEW c \in Clients, owner' = [owner EXCEPT ![o] = c],
           UNCHANGED <<lines, catalog, excused>>, ~Asking(t), ~Asking(t)'
    PROVE  Book!Next
<1>1. Asks' = Asks
  BY AsksTheSame DEF AsksOn
<1>2. Book!Open(o, c)
  BY <1>1 DEF Book!Open, Asks, Offered, Same
<1>3. QED
  BY <1>2 DEF Book!Next

LEMMA Adds ==
    ASSUME BookInv, NEW t \in Tasks, Same(t), pc[t] = "add", ~Asking(t)',
           ~Violates(call[t].service),
           lines' = lines \cup {<<call[t].order, Stores(call[t].service)>>},
           UNCHANGED <<owner, catalog, excused>>
    PROVE  Book!Next
<1> DEFINE o == call[t].order
           s == Stores(call[t].service)
<1>1. o \in OrderIds /\ owner[o] = call[t].client /\ s \in Vouched /\ s # None
  BY StoredIsVouched, OrdersAssumption DEF BookInv, OrdersInv, CallsOK, CallOK
<1>2. Asks[t] = <<owner[o], o, s>>
  BY <1>1 DEF Asks, Asking
<1>3. Asks' = [Asks EXCEPT ![t] = <<>>]
  BY OthersAsk DEF Asks
<1>4. Book!Add(t)
  BY <1>1, <1>2, <1>3 DEF Book!Add, Book!NoAsk, Asks, Vouched, Offered, Same
<1>5. QED
  BY <1>4 DEF Book!Next

LEMMA Vouches ==
    ASSUME NEW ids \in SUBSET ServiceIds, Vouched' = Vouched \cup ids, Asks' = Asks,
           UNCHANGED <<build, owner, lines>>
    PROVE  Book!Next
<1>1. Book!Vouch(ids)
  BY DEF Book!Vouch, Asks, Vouched
<1>2. QED
  BY <1>1 DEF Book!Next

LEMMA BookStep ==
    ASSUME BookInv, [Next]_vars
    PROVE  [Book!Next]_(Book!bookVars)
<1> USE DEF BookInv, OrdersInv, TypeOK
<1>1. ASSUME NEW t \in Tasks, Request(t)
      PROVE  Book!Next \/ UNCHANGED Book!bookVars
  <2>1. ASSUME NEW step \in {"unauthorized", "list", "open", "show", "add_find"},
               NEW c \in Clients \cup {None}, NEW o \in OrderIds \cup {None},
               NEW s \in ServiceIds \cup {None}, Arrive(t, step, c, o, s)
        PROVE  /\ Same(t) /\ ~Asking(t) /\ pc'[t] = step
               /\ call'[t] = [client |-> c, order |-> o, service |-> s]
               /\ UNCHANGED <<build, owner, lines, catalog, excused>>
    BY <2>1 DEF Arrive, Goto, Same, Asking
  <2>2. CASE \/ RequestUnauthorized(t)
             \/ \E c \in Clients : RequestList(t, c) \/ RequestOpen(t, c)
             \/ \E c \in Clients, o \in OrderIds : RequestShow(t, c, o)
    <3>1. /\ Same(t) /\ ~Asking(t) /\ UNCHANGED <<owner, lines, catalog, excused>>
          /\ pc'[t] \in {"unauthorized", "list", "open", "show"}
      BY <2>1, <2>2 DEF RequestUnauthorized, RequestList, RequestOpen, RequestShow
    <3>2. ~Asking(t)'
      BY <3>1 DEF Asking
    <3>3. QED
      BY <3>1, <3>2, Stutters DEF AsksOn
  <2>3. ASSUME NEW c \in Clients, NEW o \in OrderIds, NEW s \in ServiceIds \cup {None},
               RequestAdd(t, c, o, s)
        PROVE  Book!Next \/ UNCHANGED Book!bookVars
    <3>1. /\ Same(t) /\ ~Asking(t) /\ UNCHANGED <<build, owner, lines, catalog, excused>>
          /\ pc'[t] = "add_find"
          /\ call'[t] = [client |-> c, order |-> o, service |-> s]
      BY <2>1, <2>3 DEF RequestAdd
    <3>2. UNCHANGED Stores(s)
      BY <3>1 DEF Stores
    <3>3. CASE Stores(s) = None
      <4>1. ~Asking(t)'
        BY <3>1, <3>2, <3>3 DEF Asking
      <4>2. QED
        BY <3>1, <4>1, Stutters DEF AsksOn
    <3>4. CASE Stores(s) # None
      <4>1. Asks[t] = <<>> /\ Asks' = [Asks EXCEPT ![t] = <<c, o, Stores(s)>>]
        <5>1. call'[t].client = c /\ call'[t].order = o /\ call'[t].service = s
          BY <3>1
        <5>2. Asking(t)'
          BY <3>1, <3>2, <3>4, <5>1 DEF Asking
        <5>3. Asks'[t] = <<c, o, Stores(s)>>
          BY <3>2, <5>1, <5>2 DEF Asks
        <5>4. QED
          BY <3>1, <5>3, OthersAsk DEF Asks
      <4>2. Stores(s) \in ServiceIds
        BY <3>4, OrdersAssumption DEF Stores
      <4>3. Book!Ask(t)
        BY <3>1, <4>1, <4>2 DEF Book!Ask, Book!NoAsk, Asks, Offered
      <4>4. QED
        BY <4>3 DEF Book!Next
    <3>5. QED
      BY <3>3, <3>4
  <2>4. QED
    BY <1>1, <2>2, <2>3 DEF Request
<1>2. ASSUME NEW t \in Tasks,
             \/ List(t) \/ ListFetch(t) \/ ListEnd(t) \/ OpenFetch(t) \/ Show(t)
             \/ AddFetch(t) \/ Respond(t)
      PROVE  UNCHANGED Book!bookVars
  <2>1. /\ UNCHANGED <<build, owner, lines, catalog, excused>>
        /\ pc[t] \notin {"add_find", "check", "add"}
        /\ pc'[t] \notin {"add_find", "check", "add"}
        /\ Same(t)
    BY <1>2 DEF List, ListFetch, ListEnd, OpenFetch, Show, AddFetch, Respond, Same, Goto,
                Answer, Refuse, Answers
  <2>2. QED
    BY <2>1, Stutters DEF Asking, AsksOn
<1>3. ASSUME NEW t \in Tasks, AddFind(t) \/ Check(t) \/ CheckFails(t)
      PROVE  Book!Next \/ UNCHANGED Book!bookVars
  <2>1. /\ UNCHANGED <<build, owner, lines, catalog, excused, call>> /\ Same(t)
        /\ pc[t] \in {"add_find", "check"}
        /\ pc'[t] \in {"check", "add", "order_not_found", "forbidden", "bad_request",
                       "service_not_found", "failed"}
    BY <1>3 DEF AddFind, Check, CheckFails, Goto, Same
  <2>2. CASE pc'[t] \in {"check", "add"}
    BY <2>1, <2>2, Stutters DEF AsksOn
  <2>3. CASE pc'[t] \notin {"check", "add"}
    <3>1. ~Asking(t)'
      BY <2>1, <2>3 DEF Asking
    <3>2. QED
      BY <2>1, <3>1, Withdraws
  <2>4. QED
    BY <2>2, <2>3
<1>4. ASSUME NEW t \in Tasks, CheckPassesOnError(t)
      PROVE  Book!Next
  <2>1. /\ UNCHANGED <<build, owner, lines, catalog, call>>
        /\ excused' = excused \cup {call[t].service}
        /\ AsksOn(t)
    BY <1>4 DEF CheckPassesOnError, Goto, Same, AsksOn
  <2>2. {call[t].service} \in SUBSET ServiceIds
    BY <1>4 DEF CheckPassesOnError, CallsOK, CallOK
  <2>3. Vouched' = Vouched \cup {call[t].service}
    BY <2>1 DEF Vouched, Offered
  <2>4. Asks' = Asks
    BY <2>1, AsksTheSame
  <2>5. QED
    BY <2>1, <2>2, <2>3, <2>4, Vouches
<1>5. ASSUME NEW t \in Tasks, Open(t)
      PROVE  Book!Next
  <2>1. PICK o \in OrderIds : owner[o] = None /\ owner' = [owner EXCEPT ![o] = call[t].client]
    BY <1>5 DEF Open, Exists
  <2>2. /\ UNCHANGED <<build, lines, catalog, excused>> /\ Same(t)
        /\ pc[t] = "open" /\ pc'[t] \in {"opened", "open_fetch"}
    BY <1>5 DEF Open, Same, Goto, Answer
  <2>3. call[t].client \in Clients
    BY <2>2 DEF CallsOK, CallOK, Steps
  <2>4. ~Asking(t) /\ ~Asking(t)'
    BY <2>2 DEF Asking
  <2>5. QED
    BY <2>1, <2>2, <2>3, <2>4, Opens
<1>6. ASSUME NEW t \in Tasks, Add(t)
      PROVE  Book!Next
  <2>1. Exists(call[t].order)
    BY <1>6, OrdersAssumption DEF Add, CallsOK, CallOK, Steps, Exists
  <2>2. /\ pc[t] = "add" /\ pc'[t] \in {"failed", "added", "add_fetch"} /\ Same(t)
        /\ UNCHANGED <<build, owner, catalog, excused>>
        /\ \/ lines' = lines
           \/ /\ ~Violates(call[t].service)
              /\ lines' = lines \cup {<<call[t].order, Stores(call[t].service)>>}
    BY <1>6, <2>1 DEF Add, Goto, Answer, Refuse, Same
  <2>3. ~Asking(t)'
    BY <2>2 DEF Asking
  <2>4. QED
    BY <2>2, <2>3, Adds, Withdraws
<1>7. ASSUME NEW t \in Tasks, StorageFails(t)
      PROVE  Book!Next
  <2>1. /\ UNCHANGED <<build, catalog, excused>> /\ Same(t)
        /\ pc'[t] \in {"failed", "caught", "updated_null"}
        /\ pc[t] \in Steps
    BY <1>7 DEF StorageFails, FailureOf, Goto, Same
  <2>2. ~Asking(t)'
    BY <2>1 DEF Asking
  <2>3. CASE UNCHANGED <<owner, lines>>
    BY <2>1, <2>2, <2>3, Withdraws
  <2>4. CASE pc[t] = "open" /\ UNCHANGED lines
             /\ \E o \in {p \in OrderIds : ~Exists(p)} :
                    owner' = [owner EXCEPT ![o] = call[t].client]
    <3>1. call[t].client \in Clients /\ ~Asking(t)
      BY <2>1, <2>4 DEF CallsOK, CallOK, Asking
    <3>2. QED
      BY <2>1, <2>2, <2>4, <3>1, Opens DEF Exists
  <2>5. CASE pc[t] = "add" /\ UNCHANGED owner /\ ~Violates(call[t].service)
             /\ lines' = lines \cup {<<call[t].order, Stores(call[t].service)>>}
    BY <2>1, <2>2, <2>5, Adds
  <2>6. QED
    BY <1>7, <2>3, <2>4, <2>5 DEF StorageFails
<1>8. ASSUME Restart
      PROVE  Book!Next
  <2>1. Asks' = [t \in Tasks |-> <<>>]
    BY <1>8 DEF Restart, Asks, Asking
  <2>2. CASE build = "memory"
    <3>1. Book!Forget
      BY <1>8, <2>1, <2>2 DEF Restart, Book!Forget, Book!NoAsk, Asks, Offered
    <3>2. QED
      BY <3>1 DEF Book!Next
  <2>3. CASE build # "memory"
    <3>1. Book!Withdraw(Tasks)
      BY <1>8, <2>1, <2>3 DEF Restart, Book!Withdraw, Book!NoAsk, Asks, Offered
    <3>2. QED
      BY <3>1 DEF Book!Next
  <2>4. QED
    BY <2>2, <2>3
<1>9. ASSUME NEW t \in Tasks, DereferenceNull(t)
      PROVE  Book!Next \/ UNCHANGED Book!bookVars
  <2>1. CASE ~Restart
    <3>1. /\ UNCHANGED <<build, owner, lines, catalog, excused>> /\ Same(t)
          /\ pc[t] = "updated_null" /\ pc'[t] = "garbage"
      BY <1>9, <2>1 DEF DereferenceNull, Goto, Same
    <3>2. QED
      BY <3>1, Stutters DEF Asking, AsksOn
  <2>2. QED
    BY <1>8, <2>1
<1>10. ASSUME NEW s \in Services, CatalogCreates(s)
       PROVE  Book!Next
  <2>1. Asks' = Asks
    BY <1>10 DEF CatalogCreates, Asks, Asking, Stores
  <2>2. Offered \subseteq Offered' /\ Offered' \in SUBSET ServiceIds
    BY <1>10 DEF CatalogCreates, Offered
  <2>3. Vouched' = Vouched \cup Offered'
    BY <1>10, <2>2 DEF CatalogCreates, Vouched
  <2>4. QED
    BY <1>10, <2>1, <2>2, <2>3, Vouches DEF CatalogCreates
<1>11. CASE UNCHANGED vars
  <2>1. Asks' = Asks
    BY <1>11 DEF vars, Asks, Asking, Stores
  <2>2. UNCHANGED Book!bookVars
    BY <1>11, <2>1 DEF vars, Book!bookVars, Asks, Offered
  <2>3. QED
    BY <2>2
<1>12. QED
  BY <1>1, <1>2, <1>3, <1>4, <1>5, <1>6, <1>7, <1>8, <1>9, <1>10, <1>11
     DEF Next, Handle, ServiceRestart

LEMMA BookInit == Init => BookInv /\ Book!Init
<1> SUFFICES ASSUME Init
             PROVE  BookInv /\ Book!Init
  OBVIOUS
<1>1. BookInv
  BY OrdersInvInit DEF BookInv, IdsAnswered, ServicesExist, Init
<1>2. Book!Init
  BY DEF Init, Book!Init, Book!NoAsk, Asking, Offered
<1>3. QED
  BY <1>1, <1>2

THEOREM BookInvHolds == Spec => []BookInv
BY BookInit, BookInvNext, PTL DEF Spec

(* For every service_id in an order the catalog answers 200, unless it     *)
(* once answered with an error that is no 404; it need not be the id of a  *)
(* service, for the text goes into the URL as it is                        *)
(* (orders_handler.cpp:141-149).                                           *)
THEOREM IdsChecked == Spec => []IdsAnswered
<1>1. BookInv => IdsAnswered
  BY DEF BookInv
<1>2. QED
  BY <1>1, BookInvHolds, PTL

(* Over PostgreSQL with the foreign key every service in an order exists,  *)
(* whatever the clients send and however the look-up ends.                 *)
THEOREM ForeignKeyHolds ==
    ASSUME Builds \subseteq {"postgres"}
    PROVE  Spec => []ServicesExist
<1>1. BookInv => ServicesExist
  BY DEF BookInv, OrdersInv, TypeOK
<1>2. QED
  BY <1>1, BookInvHolds, PTL

(* In the other builds it does (lab4/schema_design.md:54) if every text    *)
(* that clients send makes the URL of the service it is the id of, or      *)
(* none, and the catalog answers the look-up with no error but 404.        *)
THEOREM ServicesChecked ==
    ASSUME ~CatalogErrors,
           \A s \in ServiceIds : Target[s] \in {s, None} \ {Elsewhere}
    PROVE  Spec => []ServicesExist
<1>1. ASSUME BookInv
      PROVE  ServicesExist
  <2>1. excused = {} /\ None \notin catalog /\ catalog \subseteq Services
    BY <1>1, OrdersAssumption DEF BookInv, OrdersInv, TypeOK
  <2>2. Offered \subseteq catalog
    BY <2>1 DEF Offered
  <2>3. QED
    BY <1>1, <2>1, <2>2 DEF BookInv, IdsAnswered, ServicesExist
<1>2. QED
  BY <1>1, BookInvHolds, PTL

(* The order-service implements the order book: each addition, in up to    *)
(* five steps between which anything may happen, amounts to one that is    *)
(* made by the owner with an id that is vouched for, or to none.           *)
THEOREM ImplementsBook == Spec => ImplementsOrderBook
<1>1. Init => BookInv /\ Book!Init
  BY BookInit
<1>2. BookInv /\ [Next]_vars => BookInv' /\ [Book!Next]_(Book!bookVars)
  BY BookInvNext, BookStep
<1>3. QED
  BY <1>1, <1>2, PTL DEF Spec, ImplementsOrderBook, Book!Spec
=============================================================================
