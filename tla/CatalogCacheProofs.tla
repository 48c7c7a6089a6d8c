------------------------ MODULE CatalogCacheProofs ------------------------
(***************************************************************************)
(* Proofs about CatalogCache, for any tasks, services, workload, builds    *)
(* and faults.                                                             *)
(***************************************************************************)
EXTENDS CatalogCache, TLAPS

USE DEF stored

(***************************************************************************)
(* What redisCommand leaves of the context.                                *)
(***************************************************************************)
LEMMA ContextAfterCommand ==
    ASSUME ctx \in CtxStates, NEW outcome \in CommandOutcomes(EnsureConnected)
    PROVE  FreedUnlessReply(outcome) \in CtxStates
BY DEF CtxStates, FreedUnlessReply

(***************************************************************************)
(* Copies of the list stay copies.                                         *)
(***************************************************************************)
LEMMA CopyFacts ==
    /\ Absent \in Copy
    /\ \A list \in SUBSET Services : FreshCopy(list) \in Copy
    /\ \A c \in Copy, s \in Services :
        /\ PassBy(c, s) \in Copy
        /\ PassBy(c, s).here = c.here
        /\ PassBy(c, s).list = c.list
        /\ c.here => PassBy(c, s).missed = c.missed \cup {s}
BY DEF Copy, Absent, FreshCopy, PassBy

(* The first state has the types.                                          *)
LEMMA TypeInit == Init => TypeOK
<1> SUFFICES ASSUME Init PROVE TypeOK
  OBVIOUS
<1>1. ConnectionTypeOK
  BY RedisFaultsAssumption DEF Init, ConnectionInit, ConnectionTypeOK, CtxStates
<1>2. live \in Copy /\ saved \in Copy /\ snap \in [Tasks -> Copy]
  BY CopyFacts DEF Init
<1>3. QED
  BY <1>1, <1>2 DEF Init, TypeOK

(***************************************************************************)
(* Type correctness.                                                       *)
(***************************************************************************)
THEOREM TypeCorrect == Spec => []TypeOK
<1>1. Init => TypeOK
  BY TypeInit
<1>2. TypeOK /\ [Next]_vars => TypeOK'
  <2> SUFFICES ASSUME TypeOK, [Next]_vars
               PROVE  TypeOK'
    OBVIOUS
  <2> USE DEF TypeOK, ConnectionTypeOK, Goto, IfCached, Steps, Answers
  <2>1. ASSUME NEW t \in Tasks, RequestList(t)
        PROVE  TypeOK'
    BY <2>1 DEF RequestList, Arrive
  <2>2. ASSUME NEW t \in Tasks, NEW s \in Services, RequestDoc(t, s) \/ RequestCreate(t, s)
        PROVE  TypeOK'
    BY <2>2 DEF RequestDoc, RequestCreate, Fresh, Arrive
  <2>3. ASSUME NEW t \in Tasks, RejectCreate(t)
        PROVE  TypeOK'
    BY <2>3 DEF RejectCreate, Arrive
  <2>4. ASSUME NEW t \in Tasks, ListGet(t)
        PROVE  TypeOK'
    BY <2>4, ContextAfterCommand DEF ListGet
  <2>5. ASSUME NEW t \in Tasks, ListFind(t) \/ ListFetch(t)
        PROVE  TypeOK'
    <3>1. \A list \in SUBSET db : [snap[t] EXCEPT !.list = @ \cup list] \in Copy
      BY DEF Copy
    <3>2. ASSUME NEW copy \in Copy, Read(t, copy)
          PROVE  snap' \in [Tasks -> Copy] /\ pc' \in [Tasks -> {"idle"} \cup Steps \cup Answers]
      BY <3>2 DEF Read
    <3>3. CASE ListFind(t)
      <4>1. GetAll \in Copy
        BY CopyFacts DEF GetAll
      <4>2. snap' \in [Tasks -> Copy] /\ pc' \in [Tasks -> {"idle"} \cup Steps \cup Answers]
        BY <3>2, <3>3, <4>1 DEF ListFind
      <4>3. QED
        BY <3>3, <4>2 DEF ListFind
    <3>4. CASE ListFetch(t)
      <4>1. PICK more \in SUBSET (db \ snap[t].list) :
                Read(t, [snap[t] EXCEPT !.list = @ \cup more])
        BY <3>4 DEF ListFetch
      <4>2. snap' \in [Tasks -> Copy] /\ pc' \in [Tasks -> {"idle"} \cup Steps \cup Answers]
        BY <3>1, <3>2, <4>1
      <4>3. QED
        BY <3>4, <4>2 DEF ListFetch
    <3>5. QED
      BY <2>5, <3>3, <3>4
  <2>6. ASSUME NEW t \in Tasks, ListFindFails(t)
        PROVE  TypeOK'
    BY <2>6, CopyFacts DEF ListFindFails
  <2>7. ASSUME NEW t \in Tasks, ListSet(t)
        PROVE  TypeOK'
    BY <2>7, ContextAfterCommand DEF ListSet
  <2>8. ASSUME NEW t \in Tasks, Insert(t) \/ InsertFails(t)
        PROVE  TypeOK'
    BY <2>8 DEF Insert, InsertFails, Create
  <2>9. ASSUME NEW t \in Tasks, ListDel(t)
        PROVE  TypeOK'
    BY <2>9, CopyFacts, ContextAfterCommand DEF ListDel
  <2>10. ASSUME NEW t \in Tasks, DocGet(t)
         PROVE  TypeOK'
    BY <2>10, ContextAfterCommand DEF DocGet
  <2>11. ASSUME NEW t \in Tasks, DocFind(t) \/ DocFindFails(t)
         PROVE  TypeOK'
    BY <2>11 DEF DocFind, DocFindFails, FindById
  <2>12. ASSUME NEW t \in Tasks, DocSet(t)
         PROVE  TypeOK'
    BY <2>12, ContextAfterCommand DEF DocSet
  <2>13. ASSUME NEW t \in Tasks, Respond(t)
         PROVE  TypeOK'
    BY <2>13, CopyFacts DEF Respond
  <2>14. CASE ExpireList \/ ExpireSavedList \/ \E s \in Services : ExpireDoc(s)
    BY <2>14, CopyFacts DEF ExpireList, ExpireSavedList, ExpireDoc
  <2>15. CASE RedisSave
    BY <2>15 DEF RedisSave
  <2>16. CASE RedisStop \/ RedisStart \/ RedisLinkDrop
    BY <2>16, CopyFacts
       DEF RedisStop, RedisStart, RedisLinkDrop, ServerDown, ServerUp, LinkDrop,
           CtxStates, catalogVars
  <2>17. CASE ServiceRestart
    BY <2>17, CopyFacts DEF ServiceRestart, CtxStates
  <2>18. CASE UNCHANGED vars
    BY <2>18 DEF vars, catalogVars
  <2>19. QED
    BY <2>1, <2>2, <2>3, <2>4, <2>5, <2>6, <2>7, <2>8, <2>9, <2>10, <2>11, <2>12,
       <2>13, <2>14, <2>15, <2>16, <2>17, <2>18
       DEF Next, Request, Handle, Environment
<1>3. QED
  BY <1>1, <1>2, PTL DEF Spec

-----------------------------------------------------------------------------
(***************************************************************************)
(* Staleness.  A copy accounts for the services it leaves out when the     *)
(* DEL of each acknowledged one among them has missed it.  Every copy that *)
(* is, or can become, the cached list accounts for what it leaves out: the *)
(* key, the RDB file, and the lists tasks read or are about to Set.  The   *)
(* builds without a cache have no such copy.                               *)
(***************************************************************************)
Accounts(copy) == copy.here => acked \ copy.list \subseteq copy.missed

NoCache ==
    build # "cached" =>
        /\ live = Absent /\ saved = Absent
        /\ \A t \in Tasks : pc[t] # "list_set"

InHand == {"list_fetch", "list_set"}

StaleInv ==
    /\ TypeOK
    /\ NoCache
    /\ acked \subseteq db
    /\ \A t \in Tasks : pc[t] = "list_del" => req[t] \in db
    /\ Accounts(live) /\ Accounts(saved)
    /\ \A t \in Tasks : pc[t] \in InHand =>
           snap[t].here /\ (build = "cached" => Accounts(snap[t]))
    /\ \A t \in Tasks : known[t] \subseteq acked
    /\ \A t \in Tasks :
           pc[t] \in InHand \cup {"miss"} => known[t] \subseteq snap[t].list
    /\ AnswerExplained
    /\ NotFoundIsTrue

(* A copy that a DEL passes by accounts for the service of the DEL, too.   *)
LEMMA PassedByAccounts ==
    ASSUME NEW copy \in Copy, NEW s \in Services, Accounts(copy)
    PROVE  PassBy(copy, s).here =>
               (acked \cup {s}) \ PassBy(copy, s).list \subseteq PassBy(copy, s).missed
BY CopyFacts DEF Accounts

LEMMA StaleInvInit == Init => StaleInv
<1>1. SUFFICES ASSUME Init PROVE StaleInv
  OBVIOUS
<1>2. TypeOK
  BY <1>1, TypeInit
<1>3. \A t \in Tasks : pc[t] = "idle" /\ snap[t] = Absent /\ known[t] = {}
  BY <1>1 DEF Init
<1>4. acked = {} /\ live = Absent /\ saved = Absent
  BY <1>1 DEF Init
<1>5. QED
  BY <1>2, <1>3, <1>4 DEF StaleInv, InHand, NoCache, Accounts, AnswerExplained, NotFoundIsTrue, Absent

(* The requests arriving and the steps that touch no copy of the list.     *)
LEMMA StaleInvOtherSteps ==
    ASSUME StaleInv, TypeOK', NEW t \in Tasks,
           \/ RequestList(t) \/ RejectCreate(t)
           \/ \E s \in Services : RequestDoc(t, s) \/ RequestCreate(t, s)
           \/ ListFindFails(t) \/ Insert(t) \/ InsertFails(t)
           \/ DocGet(t) \/ DocFind(t) \/ DocFindFails(t) \/ DocSet(t)
    PROVE  StaleInv'
<1> USE DEF StaleInv, InHand, NoCache, Accounts, AnswerExplained, NotFoundIsTrue, Goto, IfCached
<1>1. CASE RequestList(t) \/ RejectCreate(t)
  BY <1>1 DEF RequestList, RejectCreate, Arrive, TypeOK
<1>2. CASE \E s \in Services : RequestDoc(t, s) \/ RequestCreate(t, s)
  BY <1>2 DEF RequestDoc, RequestCreate, Fresh, Arrive, TypeOK
<1>3. CASE ListFindFails(t)
  <2>1. /\ \A u \in Tasks \ {t} : pc'[u] = pc[u] /\ snap'[u] = snap[u]
        /\ pc'[t] = "failed"
    BY <1>3 DEF ListFindFails, TypeOK
  <2>2. /\ UNCHANGED <<build, db, live, saved, req, acked, known>>
        /\ build # "cached" => pc[t] # "list_set"
    BY <1>3 DEF ListFindFails
  <2>3. NoCache'
    BY <2>1, <2>2
  <2>4. /\ \A u \in Tasks : pc'[u] = "list_del" => req'[u] \in db'
        /\ \A u \in Tasks : pc'[u] \in InHand =>
            snap'[u].here /\ (build' = "cached" => Accounts(snap[u])')
        /\ \A u \in Tasks : pc'[u] \in InHand \cup {"miss"} => known'[u] \subseteq snap'[u].list
    BY <2>1, <2>2
  <2>5. AnswerExplained' /\ NotFoundIsTrue'
    BY <2>1, <2>2
  <2>6. /\ acked' \subseteq db' /\ Accounts(live)' /\ Accounts(saved)'
        /\ \A u \in Tasks : known'[u] \subseteq acked'
    BY <2>2
  <2>7. QED
    BY <2>3, <2>4, <2>5, <2>6
<1>4. CASE Insert(t) \/ InsertFails(t)
  <2>1. /\ \A u \in Tasks \ {t} : pc'[u] = pc[u]
        /\ UNCHANGED <<build, live, saved, req, snap, known>>
        /\ acked \subseteq acked' /\ db \subseteq db'
    BY <1>4 DEF Insert, InsertFails, Create, TypeOK
  <2>2. \/ /\ pc'[t] \in {"failed", "list_del"} /\ acked' = acked
           /\ pc'[t] = "list_del" => req[t] \in db'
        \/ /\ pc'[t] = "created" /\ build # "cached"
           /\ acked' = acked \cup {req[t]} /\ req[t] \in db'
    BY <1>4 DEF Insert, InsertFails, Create, TypeOK
  <2>3. acked' \subseteq db'
    BY <2>1, <2>2
  <2>4. Accounts(live)' /\ Accounts(saved)'
    BY <2>1, <2>2 DEF Absent
  <2>5. NoCache' /\ AnswerExplained' /\ NotFoundIsTrue'
    BY <2>1, <2>2
  <2>6. \A u \in Tasks : pc'[u] \in InHand =>
            snap'[u].here /\ (build' = "cached" => Accounts(snap[u])')
    BY <2>1, <2>2
  <2>7. /\ \A u \in Tasks : known'[u] \subseteq acked'
        /\ \A u \in Tasks : pc'[u] = "list_del" => req'[u] \in db'
        /\ \A u \in Tasks : pc'[u] \in InHand \cup {"miss"} => known'[u] \subseteq snap'[u].list
    BY <2>1, <2>2
  <2>8. QED
    BY <2>3, <2>4, <2>5, <2>6, <2>7
<1>5. CASE DocGet(t) \/ DocFind(t) \/ DocFindFails(t) \/ DocSet(t)
  BY <1>5 DEF DocGet, DocFind, DocFindFails, FindById, DocSet, TypeOK
<1>6. QED
  BY <1>1, <1>2, <1>3, <1>4, <1>5

(* The steps that read, cache, drop or answer a list.                      *)
LEMMA StaleInvListSteps ==
    ASSUME StaleInv, TypeOK', NEW t \in Tasks,
           \/ ListGet(t) \/ ListFind(t) \/ ListFetch(t) \/ ListSet(t)
           \/ ListDel(t) \/ Respond(t)
    PROVE  StaleInv'
<1> USE DEF StaleInv, InHand, NoCache, Accounts, AnswerExplained, NotFoundIsTrue, Goto, IfCached, TypeOK
<1>1. CASE ListGet(t)
  BY <1>1 DEF ListGet
<1>2. CASE ListFind(t) \/ ListFetch(t)
  <2>1. CASE ListFind(t)
    BY <2>1 DEF ListFind, Read, GetAll, FreshCopy
  <2>2. CASE ListFetch(t)
    <3>1. PICK more \in SUBSET (db \ snap[t].list) :
              Read(t, [snap[t] EXCEPT !.list = @ \cup more])
      BY <2>2 DEF ListFetch
    <3>2. /\ snap'[t].here = snap[t].here /\ snap'[t].missed = snap[t].missed
          /\ snap[t].list \subseteq snap'[t].list
      BY <3>1 DEF Read, Copy
    <3>3. pc[t] = "list_fetch" /\ \A u \in Tasks \ {t} : snap'[u] = snap[u]
      BY <2>2, <3>1 DEF ListFetch, Read
    <3>4. QED
      BY <2>2, <3>1, <3>2, <3>3 DEF ListFetch, Read
  <2>3. QED
    BY <1>2, <2>1, <2>2
<1>3. CASE ListSet(t)
  BY <1>3 DEF ListSet
<1>4. CASE ListDel(t)
  <2>1. req[t] \in Services /\ acked' = acked \cup {req[t]} /\ acked' \subseteq db'
    BY <1>4 DEF ListDel
  <2>2. Accounts(live)' /\ Accounts(saved)'
    <3>1. saved' = PassBy(saved, req[t]) /\ live' \in {Absent, PassBy(live, req[t])}
      BY <1>4 DEF ListDel
    <3>2. QED
      BY <2>1, <3>1, PassedByAccounts DEF Absent
  <2>3. \A u \in Tasks : pc'[u] \in InHand =>
            snap'[u].here /\ (build' = "cached" => Accounts(snap[u])')
    <3>1. \A u \in Tasks : pc'[u] \in InHand =>
              pc[u] \in InHand /\ snap'[u] = PassBy(snap[u], req[t])
      BY <1>4 DEF ListDel
    <3>2. ASSUME NEW u \in Tasks, pc'[u] \in InHand
          PROVE  snap'[u].here /\ (build' = "cached" => Accounts(snap[u])')
      <4>1. /\ snap[u] \in Copy /\ snap[u].here
            /\ build' = "cached" => Accounts(snap[u])
            /\ snap'[u] = PassBy(snap[u], req[t])
        BY <1>4, <3>1, <3>2 DEF ListDel
      <4>2. snap'[u].here
        <5>1. PassBy(snap[u], req[t]).here = snap[u].here
          BY <2>1, <4>1, CopyFacts
        <5>2. QED
          BY <4>1, <5>1
      <4>3. build' = "cached" =>
                (acked \cup {req[t]}) \ snap'[u].list \subseteq snap'[u].missed
        BY <2>1, <4>1, <4>2, PassedByAccounts
      <4>4. QED
        BY <2>1, <4>2, <4>3
    <3>3. QED
      BY <3>2
  <2>4. \A u \in Tasks : /\ snap'[u].list = snap[u].list
                         /\ pc[u] \notin InHand => snap'[u] = snap[u]
    BY <1>4, CopyFacts DEF ListDel
  <2>5. /\ \A u \in Tasks : pc'[u] = pc[u] \/ pc'[u] = "created"
        /\ known' = known /\ req' = req /\ db' = db
    BY <1>4 DEF ListDel
  <2>6. /\ \A u \in Tasks : pc'[u] = "list_del" => req'[u] \in db'
        /\ \A u \in Tasks : known'[u] \subseteq acked'
    BY <2>1, <2>5
  <2>7. \A u \in Tasks : pc'[u] \in InHand \cup {"miss"} => known'[u] \subseteq snap'[u].list
    BY <2>4, <2>5
  <2>8. AnswerExplained'
    BY <2>4, <2>5
  <2>9. NotFoundIsTrue'
    BY <2>5
  <2>10. NoCache'
    <3>1. PassBy(Absent, req[t]) = Absent
      BY DEF PassBy, Absent
    <3>2. build' = build /\ saved' = PassBy(saved, req[t])
          /\ live' \in {Absent, PassBy(live, req[t])}
      BY <1>4 DEF ListDel
    <3>3. QED
      BY <2>5, <3>1, <3>2
  <2>11. QED
    BY <2>1, <2>2, <2>3, <2>6, <2>7, <2>8, <2>9, <2>10
<1>5. CASE Respond(t)
  BY <1>5 DEF Respond, Absent, Answers
<1>6. QED
  BY <1>1, <1>2, <1>3, <1>4, <1>5

LEMMA StaleInvEnvironment ==
    ASSUME StaleInv, TypeOK', Environment
    PROVE  StaleInv'
BY DEF StaleInv, NoCache, Accounts, AnswerExplained, NotFoundIsTrue, InHand, Environment, ExpireList, ExpireSavedList,
       ExpireDoc, RedisSave, RedisStop, RedisStart, RedisLinkDrop, ServiceRestart,
       catalogVars, Absent, TypeOK

LEMMA StaleInvHolds == Spec => []StaleInv
<1>1. Init => StaleInv
  BY StaleInvInit
<1>2. StaleInv /\ TypeOK' /\ [Next]_vars => StaleInv'
  <2>1. ASSUME StaleInv, TypeOK', UNCHANGED vars
        PROVE  StaleInv'
    BY <2>1 DEF StaleInv, InHand, NoCache, Accounts, AnswerExplained, NotFoundIsTrue, vars,
                catalogVars
  <2>2. QED
    BY <2>1, StaleInvOtherSteps, StaleInvListSteps, StaleInvEnvironment
       DEF Next, Request, Handle
<1>3. QED
  BY <1>1, <1>2, TypeCorrect, PTL DEF Spec

(***************************************************************************)
(* The cached list leaves out an acknowledged service only if its DEL      *)
(* missed this copy.                                                       *)
(***************************************************************************)
THEOREM StalenessHasACause == Spec => []StaleOnlyWhenMissed
<1>1. StaleInv => StaleOnlyWhenMissed
  BY DEF StaleInv, Accounts, StaleOnlyWhenMissed
<1>2. QED
  BY <1>1, StaleInvHolds, PTL

(***************************************************************************)
(* So does every list a client is given, of what was acknowledged before   *)
(* it asked.                                                               *)
(***************************************************************************)
THEOREM AnswersAreExplained == Spec => []AnswerExplained
<1>1. StaleInv => AnswerExplained
  BY DEF StaleInv
<1>2. QED
  BY <1>1, StaleInvHolds, PTL

(***************************************************************************)
(* A list answered from MongoDB has all that was acknowledged before.      *)
(***************************************************************************)
THEOREM MissesAreFresh == Spec => []MissIsFresh
<1>1. StaleInv => MissIsFresh
  BY DEF StaleInv, MissIsFresh
<1>2. QED
  BY <1>1, StaleInvHolds, PTL

(***************************************************************************)
(* A 404 for a service acknowledged before comes only from a failure of    *)
(* MongoDB that FindById caught.                                           *)
(***************************************************************************)
THEOREM NotFoundHolds == Spec => []NotFoundIsTrue
<1>1. StaleInv => NotFoundIsTrue
  BY DEF StaleInv
<1>2. QED
  BY <1>1, StaleInvHolds, PTL

-----------------------------------------------------------------------------
(***************************************************************************)
(* Lists that disagree.  A list read from a cursor has all that was stored *)
(* when the reading began; what it may leave out was stored since, hence   *)
(* while it was being read.  So a reading either has an older list b whole *)
(* or holds, beyond b, only what was stored during a reading: whatever it  *)
(* finds in the end, b and the new list agree but for such services.       *)
(***************************************************************************)
Agree(a, b) == a \subseteq b \/ b \subseteq a \/ (a \ b) \cup (b \ a) \subseteq scanned

ScanInv ==
    /\ \A a \in Lists : a \subseteq db
    /\ \A a, b \in Lists : Agree(a, b)
    /\ \A t \in Tasks : pc[t] = "list_fetch" =>
           /\ snap[t].list \subseteq db
           /\ db \ snap[t].list \subseteq scanned
           /\ \A b \in Lists : b \subseteq snap[t].list \/ snap[t].list \ b \subseteq scanned

(* What every step does but the end of a reading and the loss of memory:   *)
(* no list is new but the empty one and all that is stored, and a reading  *)
(* is as it was or begins.                                                 *)
NoNewLists ==
    /\ db \subseteq db' /\ scanned \subseteq scanned'
    /\ Lists' \subseteq Lists \cup {{}, db}
    /\ \A t \in Tasks : pc'[t] = "list_fetch" =>
           \/ snap'[t].list = db /\ db' = db
           \/ /\ pc[t] = "list_fetch" /\ snap'[t].list = snap[t].list
              /\ db' \ db \subseteq scanned'

LEMMA OldListsAgree ==
    ASSUME ScanInv, NoNewLists
    PROVE  ScanInv'
<1>1. \A a \in Lists' : a \in Lists \/ a = {} \/ a = db
  BY DEF NoNewLists
<1>2. \A a \in Lists' : a \subseteq db'
  BY <1>1 DEF ScanInv, NoNewLists
<1>3. \A a, b \in Lists' : Agree(a, b)'
  BY <1>1 DEF ScanInv, NoNewLists, Agree
<1>4. ASSUME NEW t \in Tasks, pc'[t] = "list_fetch"
      PROVE  /\ snap'[t].list \subseteq db'
             /\ db' \ snap'[t].list \subseteq scanned'
             /\ \A b \in Lists' : b \subseteq snap'[t].list \/ snap'[t].list \ b \subseteq scanned'
  <2>1. CASE snap'[t].list = db /\ db' = db
    BY <1>2, <2>1
  <2>2. CASE /\ pc[t] = "list_fetch" /\ snap'[t].list = snap[t].list
             /\ db' \ db \subseteq scanned'
    BY <1>1, <2>2 DEF ScanInv, NoNewLists
  <2>3. QED
    BY <1>4, <2>1, <2>2 DEF NoNewLists
<1>5. QED
  BY <1>2, <1>3, <1>4 DEF ScanInv

(* A reading ends.                                                         *)
LEMMA NewListAgrees ==
    ASSUME TypeOK, ScanInv, NEW t \in Tasks, ListFetch(t)
    PROVE  ScanInv'
<1>1. PICK more \in SUBSET (db \ snap[t].list) :
          Read(t, [snap[t] EXCEPT !.list = @ \cup more])
  BY DEF ListFetch
<1> DEFINE list == snap[t].list \cup more
<1>2. /\ pc[t] = "list_fetch" /\ snap'[t].list = list /\ pc'[t] # "list_fetch"
      /\ \A u \in Tasks \ {t} : pc'[u] = pc[u] /\ snap'[u] = snap[u]
      /\ db' = db /\ scanned' = scanned /\ live' = live /\ saved' = saved
  BY <1>1 DEF ListFetch, Read, Goto, IfCached, TypeOK, Copy, stored
<1>3. \A a \in Lists' : a \in Lists \/ a = list
  BY <1>2 DEF Lists
<1>4. /\ snap[t].list \subseteq db /\ list \subseteq db
      /\ db \ snap[t].list \subseteq scanned
      /\ \A b \in Lists : b \subseteq snap[t].list \/ snap[t].list \ b \subseteq scanned
  BY <1>2 DEF ScanInv
<1>5. \A b \in Lists : Agree(list, b) /\ Agree(b, list)
  <2>1. ASSUME NEW b \in Lists
        PROVE  Agree(list, b) /\ Agree(b, list)
    <3>1. b \ list \subseteq scanned
      BY <1>4 DEF ScanInv
    <3>2. b \subseteq list \/ list \ b \subseteq scanned
      BY <1>4
    <3>3. QED
      BY <3>1, <3>2 DEF Agree
  <2>2. QED
    BY <2>1
<1>6. \A a, b \in Lists' : Agree(a, b)'
  BY <1>2, <1>3, <1>5 DEF ScanInv, Agree
<1>7. ASSUME NEW u \in Tasks, pc'[u] = "list_fetch"
      PROVE  /\ snap'[u].list \subseteq db'
             /\ db' \ snap'[u].list \subseteq scanned'
             /\ \A b \in Lists' : b \subseteq snap'[u].list \/ snap'[u].list \ b \subseteq scanned'
  <2>1. u # t /\ pc[u] = "list_fetch" /\ snap'[u] = snap[u]
    BY <1>2, <1>7
  <2>2. /\ snap[u].list \subseteq db /\ db \ snap[u].list \subseteq scanned
        /\ \A b \in Lists : b \subseteq snap[u].list \/ snap[u].list \ b \subseteq scanned
    BY <2>1 DEF ScanInv
  <2>3. list \subseteq snap[u].list \/ snap[u].list \ list \subseteq scanned
    BY <1>4, <2>2
  <2>4. QED
    BY <1>2, <1>3, <2>1, <2>2, <2>3
<1>8. \A a \in Lists' : a \subseteq db'
  BY <1>2, <1>3, <1>4 DEF ScanInv
<1>9. QED
  BY <1>6, <1>7, <1>8 DEF ScanInv

(* The lists of a copy that was or is Absent, or passed by, are old ones.  *)
LEMMA ListsFromCopies ==
    ASSUME live'.list \in {live.list, saved.list, {}} \cup
                          {snap[u].list : u \in {v \in Tasks : pc[v] # "list_fetch"}},
           saved'.list \in {live.list, saved.list, {}},
           \A u \in Tasks : pc'[u] # "list_fetch" =>
               \/ snap'[u].list \in {live.list, {}, db}
               \/ pc[u] # "list_fetch" /\ snap'[u].list = snap[u].list
    PROVE  Lists' \subseteq Lists \cup {{}, db}
BY DEF Lists

LEMMA TaskStepsBringNoNewLists ==
    ASSUME TypeOK, NEW t \in Tasks, Request(t) \/ Handle(t), ~ListFetch(t)
    PROVE  NoNewLists
<1> USE DEF NoNewLists, TypeOK, Goto, IfCached
<1>1. CASE Request(t)
  BY <1>1, ListsFromCopies
     DEF Request, RequestList, RequestDoc, Fresh, RequestCreate, RejectCreate, Arrive
<1>2. CASE ListGet(t)
  BY <1>2, ListsFromCopies DEF ListGet
<1>3. CASE ListFind(t)
  BY <1>3, ListsFromCopies DEF ListFind, Read, GetAll, FreshCopy
<1>4. CASE ListSet(t)
  BY <1>4, ListsFromCopies DEF ListSet
<1>5. CASE ListDel(t)
  <2>1. req[t] \in Services
    OBVIOUS
  <2>2. live'.list \in {live.list, {}}
    <3>1. live' \in {Absent, PassBy(live, req[t])}
      BY <1>5 DEF ListDel
    <3>2. QED
      BY <2>1, <3>1, CopyFacts DEF Absent
  <2>3. /\ saved'.list = saved.list
        /\ \A u \in Tasks : snap'[u].list = snap[u].list
    BY <1>5, <2>1, CopyFacts DEF ListDel
  <2>4. /\ db' = db /\ scanned' = scanned
        /\ \A u \in Tasks : pc'[u] = "list_fetch" <=> pc[u] = "list_fetch"
    BY <1>5 DEF ListDel
  <2>5. QED
    BY <2>2, <2>3, <2>4, ListsFromCopies
<1>6. CASE Respond(t)
  BY <1>6, ListsFromCopies DEF Respond, Answers, Absent
<1>7. CASE ListFindFails(t)
  BY <1>7, ListsFromCopies DEF ListFindFails, Absent
<1>8. CASE Insert(t) \/ InsertFails(t)
  BY <1>8, ListsFromCopies DEF Insert, InsertFails, Create
<1>9. CASE DocGet(t) \/ DocFind(t) \/ DocFindFails(t) \/ DocSet(t)
  BY <1>9, ListsFromCopies DEF DocGet, DocFind, DocFindFails, DocSet
<1>10. QED
  BY <1>1, <1>2, <1>3, <1>4, <1>5, <1>6, <1>7, <1>8, <1>9 DEF Handle

LEMMA EnvironmentBringsNoNewLists ==
    ASSUME TypeOK, Environment, ~(build = "memory" /\ ServiceRestart)
    PROVE  NoNewLists
<1> USE DEF NoNewLists, TypeOK, Absent
<1>1. CASE ExpireList \/ ExpireSavedList \/ \E s \in Services : ExpireDoc(s)
  BY <1>1, ListsFromCopies DEF ExpireList, ExpireSavedList, ExpireDoc
<1>2. CASE RedisSave
  BY <1>2, ListsFromCopies DEF RedisSave
<1>3. CASE RedisStop \/ RedisStart \/ RedisLinkDrop
  BY <1>3, ListsFromCopies DEF RedisStop, RedisStart, RedisLinkDrop, catalogVars
<1>4. CASE ServiceRestart
  BY <1>4, ListsFromCopies DEF ServiceRestart
<1>5. QED
  BY <1>1, <1>2, <1>3, <1>4 DEF Environment

(* The restart of the build in memory leaves no list but empty ones.       *)
LEMMA MemoryRestartEmptiesLists ==
    ASSUME StaleInv, build = "memory", ServiceRestart
    PROVE  ScanInv'
<1>1. /\ live' = Absent /\ saved' = Absent
      /\ \A t \in Tasks : snap'[t] = Absent /\ pc'[t] = "idle"
  BY DEF StaleInv, NoCache, ServiceRestart
<1>2. \A a \in Lists' : a = {}
  BY <1>1 DEF Lists, Absent
<1>3. QED
  BY <1>1, <1>2 DEF ScanInv, Agree

LEMMA ScanInvHolds == Spec => []ScanInv
<1>1. Init => ScanInv
  BY DEF Init, ScanInv, Agree, Lists, Absent
<1>2. StaleInv /\ ScanInv /\ [Next]_vars => ScanInv'
  <2> SUFFICES ASSUME StaleInv, ScanInv, [Next]_vars
               PROVE  ScanInv'
    OBVIOUS
  <2>1. TypeOK
    BY DEF StaleInv
  <2>2. CASE UNCHANGED vars
    <3>1. Lists' = Lists
      BY <2>2 DEF Lists, vars, catalogVars
    <3>2. QED
      BY <2>2, <3>1, OldListsAgree DEF NoNewLists, vars, catalogVars, stored
  <2>3. CASE Environment
    BY <2>1, <2>3, MemoryRestartEmptiesLists, EnvironmentBringsNoNewLists, OldListsAgree
  <2>4. ASSUME NEW t \in Tasks, Request(t) \/ Handle(t)
        PROVE  ScanInv'
    BY <2>1, <2>4, NewListAgrees, TaskStepsBringNoNewLists, OldListsAgree
  <2>5. QED
    BY <2>2, <2>3, <2>4 DEF Next
<1>3. QED
  BY <1>1, <1>2, StaleInvHolds, PTL DEF Spec

(***************************************************************************)
(* Any two lists, cached, saved, in hand or answered, hold only services   *)
(* that are stored, and one is within the other but for services that were *)
(* stored while a list was being read from a cursor.                       *)
(***************************************************************************)
THEOREM ListsDisagreeByScans == Spec => []DisagreementNeedsAScan
<1>1. ScanInv => DisagreementNeedsAScan
  BY DEF ScanInv, Agree, DisagreementNeedsAScan
<1>2. QED
  BY <1>1, ScanInvHolds, PTL

-----------------------------------------------------------------------------
(***************************************************************************)
(* The refinement.  Every document in Redis, or about to be put there, is  *)
(* stored; and without a cache no list is kept.                            *)
(***************************************************************************)
DocsInv ==
    /\ docs \subseteq db /\ savedDocs \subseteq db
    /\ \A t \in Tasks : pc[t] = "doc_set" => req[t] \in db
    /\ build # "cached" =>
           /\ docs = {} /\ savedDocs = {}
           /\ \A t \in Tasks : pc[t] # "doc_set"

LEMMA DocsInvTaskSteps ==
    ASSUME TypeOK, DocsInv, NEW t \in Tasks, Request(t) \/ Handle(t)
    PROVE  DocsInv'
<1> USE DEF DocsInv, TypeOK, Goto, IfCached
<1>1. CASE Request(t)
  BY <1>1 DEF Request, RequestList, RequestDoc, RequestCreate, Fresh, RejectCreate, Arrive
<1>2. CASE \/ ListGet(t) \/ ListFind(t) \/ ListFetch(t) \/ ListFindFails(t)
           \/ ListSet(t) \/ ListDel(t)
  BY <1>2 DEF ListGet, ListFind, ListFetch, Read, ListFindFails, ListSet, ListDel
<1>3. CASE Insert(t) \/ InsertFails(t)
  BY <1>3 DEF Insert, InsertFails, Create
<1>4. CASE DocGet(t) \/ DocFind(t) \/ DocFindFails(t)
  BY <1>4 DEF DocGet, DocFind, DocFindFails, FindById
<1>5. CASE DocSet(t)
  BY <1>5 DEF DocSet
<1>6. CASE Respond(t)
  BY <1>6 DEF Respond
<1>7. QED
  BY <1>1, <1>2, <1>3, <1>4, <1>5, <1>6 DEF Handle

LEMMA DocsInvEnvironment ==
    ASSUME TypeOK, DocsInv, Environment
    PROVE  DocsInv'
BY DEF DocsInv, TypeOK, Environment, ExpireList, ExpireSavedList, ExpireDoc,
       RedisSave, RedisStop, RedisStart, RedisLinkDrop, ServiceRestart, catalogVars

CatalogInv == StaleInv /\ ScanInv /\ DocsInv

LEMMA CatalogInvHolds == Spec => []CatalogInv
<1>1. Init => DocsInv
  BY DEF Init, DocsInv
<1>2. TypeOK /\ DocsInv /\ [Next]_vars => DocsInv'
  <2>1. UNCHANGED vars /\ DocsInv => DocsInv'
    BY DEF DocsInv, vars, catalogVars
  <2>2. QED
    BY <2>1, DocsInvTaskSteps, DocsInvEnvironment DEF Next
<1>3. QED
  BY <1>1, <1>2, TypeCorrect, StaleInvHolds, ScanInvHolds, PTL DEF Spec, CatalogInv

(* The lists that are kept.                                                *)
LEMMA KeptLists ==
    \A list : list \in Kept <=>
        \/ live.here /\ list = live.list
        \/ saved.here /\ list = saved.list
        \/ \E u \in Tasks : pc[u] = "list_set" /\ snap[u].here /\ list = snap[u].list
BY DEF Kept, Cached

LEMMA KeptShrinks ==
    ASSUME live'.here => live'.list \in Kept,
           saved'.here => saved'.list \in Kept,
           \A u \in Tasks : pc'[u] = "list_set" /\ snap'[u].here => snap'[u].list \in Kept
    PROVE  Kept' \subseteq Kept
BY DEF Kept, Cached

(* How a step of the service shows in the abstract catalog: not at all, or *)
(* as an answer of one task.                                               *)
SameCatalog == build' = build /\ db' = db

LEMMA QuietStep ==
    ASSUME SameCatalog, Kept' \subseteq Kept, \A u \in Tasks : Told(u)' = Told(u)
    PROVE  Catalog!Next
<1>1. [u \in Tasks |-> Told(u)]'
          = [u \in Tasks |-> IF u \in {} THEN <<>> ELSE [v \in Tasks |-> Told(v)][u]]
  OBVIOUS
<1>2. Catalog!Finish({})
  BY <1>1 DEF SameCatalog, Scans, Catalog!Finish, Catalog!NoAnswer, Catalog!flags
<1>3. QED
  BY <1>2 DEF Catalog!Next

LEMMA AnswerStep ==
    ASSUME SameCatalog, Kept' = Kept, NEW t \in Tasks,
           Told(t) = <<>>, Told(t)' \in Catalog!Truths \cup Catalog!Memories,
           \A u \in Tasks \ {t} : Told(u)' = Told(u)
    PROVE  Catalog!Next
<1>1. [u \in Tasks |-> Told(u)]' = [[u \in Tasks |-> Told(u)] EXCEPT ![t] = Told(t)']
  OBVIOUS
<1>2. Catalog!Answer(t)
  BY <1>1 DEF SameCatalog, Scans, Catalog!Answer, Catalog!NoAnswer, Catalog!flags
<1>3. QED
  BY <1>2 DEF Catalog!Next

(* A request arrives, or is turned away; nothing is told yet.              *)
LEMMA ArrivalIsQuiet ==
    ASSUME TypeOK, NEW t \in Tasks, Request(t)
    PROVE  Catalog!Next
<1>1. /\ pc[t] = "idle"
      /\ pc' = [pc EXCEPT ![t] = pc'[t]]
      /\ pc'[t] \in {"list_get", "list_find", "doc_get", "doc_find", "insert", "failed"}
      /\ snap' = snap /\ live' = live /\ saved' = saved
      /\ \A u \in Tasks \ {t} : req'[u] = req[u]
      /\ SameCatalog
  BY DEF TypeOK, Request, RequestList, RequestDoc, RequestCreate, RejectCreate, Arrive,
         Goto, IfCached, SameCatalog
<1>2. \A u \in Tasks : Told(u)' = Told(u)
  BY <1>1 DEF Told, TypeOK
<1>3. Kept' \subseteq Kept
  <2>1. \A u \in Tasks : pc'[u] = "list_set" => pc[u] = "list_set"
    BY <1>1 DEF TypeOK
  <2>2. QED
    BY <1>1, <2>1, KeptLists, KeptShrinks
<1>4. QED
  BY <1>1, <1>2, <1>3, QuietStep

(* A list that was read is told, and kept when there is a cache.           *)
LEMMA ReadIsList ==
    ASSUME TypeOK, NoCache, NEW t \in Tasks, NEW copy \in Copy, copy.here, Read(t, copy),
           pc[t] # "list_set", SameCatalog, live' = live, saved' = saved, req' = req
    PROVE  Catalog!List(t, copy.list)
<1>1. /\ snap'[t] = copy /\ pc'[t] = IfCached("list_set", "miss")
      /\ \A u \in Tasks \ {t} : pc'[u] = pc[u] /\ snap'[u] = snap[u]
  BY DEF Read, Goto, TypeOK
<1>2. Told(t)' = <<"list", copy.list>> /\ \A u \in Tasks \ {t} : Told(u)' = Told(u)
  BY <1>1 DEF Told, IfCached
<1>3. [u \in Tasks |-> Told(u)]'
          = [[u \in Tasks |-> Told(u)] EXCEPT ![t] = <<"list", copy.list>>]
  BY <1>2
<1>4. CASE build = "cached"
  <2>1. \A list : list \in Kept' <=> list \in Kept \/ list = copy.list
    <3>1. \A list : list \in Kept' <=>
              \/ live.here /\ list = live.list
              \/ saved.here /\ list = saved.list
              \/ \E u \in Tasks : pc'[u] = "list_set" /\ snap'[u].here /\ list = snap'[u].list
      BY DEF Kept, Cached
    <3>2. pc'[t] = "list_set"
      BY <1>1, <1>4 DEF IfCached
    <3>3. QED
      BY <1>1, <3>1, <3>2, KeptLists
  <2>2. Kept' = Kept \cup {copy.list}
    BY <2>1
  <2>3. QED
    BY <1>3, <1>4, <2>2 DEF SameCatalog, Scans, Catalog!List, Catalog!flags
<1>5. CASE build # "cached"
  <2>1. /\ ~live.here /\ ~saved.here /\ \A u \in Tasks : pc[u] # "list_set"
        /\ \A u \in Tasks : pc'[u] # "list_set"
    BY <1>1, <1>5 DEF NoCache, Absent, IfCached
  <2>2. Kept = {} /\ Kept' = {}
    BY <2>1 DEF Kept, Cached
  <2>3. QED
    BY <1>3, <1>5, <2>2 DEF SameCatalog, Scans, Catalog!List, Catalog!flags
<1>6. QED
  BY <1>4, <1>5

(* A list is answered: from the storage, or from a cache that once got it  *)
(* from there.                                                             *)
LEMMA ListStepsAnswer ==
    ASSUME CatalogInv, NEW t \in Tasks,
           ListGet(t) \/ ListFind(t) \/ ListFetch(t) \/ ListFindFails(t) \/ ListSet(t)
    PROVE  Catalog!Next
<1>1. TypeOK /\ NoCache /\ ScanInv
  BY DEF CatalogInv, StaleInv
<1>2. SameCatalog /\ req' = req /\ saved' = saved
  BY DEF ListGet, ListFind, ListFetch, ListFindFails, ListSet, stored, SameCatalog
<1>3. \A u \in Tasks \ {t} : pc'[u] = pc[u] /\ snap'[u] = snap[u]
  BY <1>1 DEF ListGet, ListFind, ListFetch, Read, ListFindFails, ListSet, Goto, TypeOK
<1>4. \A u \in Tasks \ {t} : Told(u)' = Told(u)
  BY <1>2, <1>3 DEF Told
<1>5. CASE ListGet(t) /\ pc'[t] = "hit"
  <2>1. pc[t] = "list_get" /\ live.here /\ snap'[t] = live /\ live' = live
    BY <1>1, <1>5 DEF ListGet, Goto, TypeOK
  <2>2. live.list \in Kept
    BY <2>1, KeptLists
  <2>3. Kept' = Kept
    <3>1. \A u \in Tasks : pc'[u] = "list_set" <=> pc[u] = "list_set"
      BY <1>3, <1>5, <2>1
    <3>2. \A u \in Tasks : pc[u] = "list_set" => snap'[u] = snap[u]
      BY <1>3, <2>1
    <3>3. \A list : list \in Kept' <=>
              \/ live.here /\ list = live.list
              \/ saved.here /\ list = saved.list
              \/ \E u \in Tasks : pc'[u] = "list_set" /\ snap'[u].here /\ list = snap'[u].list
      BY <1>2, <2>1 DEF Kept, Cached
    <3>4. \A list : list \in Kept' <=> list \in Kept
      BY <3>1, <3>2, <3>3, KeptLists
    <3>5. QED
      BY <3>4
  <2>4. Told(t) = <<>> /\ Told(t)' = <<"cached", live.list>>
    BY <1>5, <2>1 DEF Told
  <2>5. Told(t)' \in Catalog!Memories
    BY <2>2, <2>4 DEF Catalog!Memories
  <2>6. QED
    BY <1>2, <1>4, <2>3, <2>4, <2>5, AnswerStep
<1>6. CASE ListGet(t) /\ pc'[t] # "hit"
  <2>1. pc[t] = "list_get" /\ pc'[t] = "list_find" /\ snap' = snap /\ live' = live
    BY <1>1, <1>6 DEF ListGet, Goto, TypeOK
  <2>2. Told(t)' = Told(t)
    BY <2>1 DEF Told
  <2>3. Kept' \subseteq Kept
    BY <1>2, <1>3, <2>1, KeptLists, KeptShrinks
  <2>4. QED
    BY <1>2, <1>4, <2>2, <2>3, QuietStep
<1>7. CASE ListFind(t) /\ Scans
  <2>1. /\ pc[t] = "list_find" /\ pc'[t] = "list_fetch"
        /\ snap'[t] = FreshCopy(db) /\ live' = live
    BY <1>1, <1>7 DEF ListFind, Goto, TypeOK, GetAll
  <2>2. Told(t) = <<>> /\ Told(t)' = <<"reading", db>>
    BY <2>1 DEF Told, FreshCopy
  <2>3. Kept' = Kept
    BY <1>2, <1>3, <2>1 DEF Kept, Cached
  <2>4. [u \in Tasks |-> Told(u)]' = [[u \in Tasks |-> Told(u)] EXCEPT ![t] = <<"reading", db>>]
    BY <1>4, <2>2
  <2>5. Catalog!Scan(t)
    BY <1>2, <1>7, <2>2, <2>3, <2>4
       DEF SameCatalog, Scans, Catalog!Scan, Catalog!NoAnswer, Catalog!flags
  <2>6. QED
    BY <2>5 DEF Catalog!Next
<1>8. CASE ListFind(t) /\ ~Scans
  <2>1. /\ pc[t] = "list_find" /\ Read(t, FreshCopy(db)) /\ live' = live
    BY <1>8 DEF ListFind, GetAll
  <2>2. FreshCopy(db) \in Copy /\ FreshCopy(db).here /\ FreshCopy(db).list = db
    BY <1>1, CopyFacts DEF TypeOK, FreshCopy
  <2>3. Catalog!List(t, db)
    BY <1>1, <1>2, <2>1, <2>2, ReadIsList
  <2>4. Told(t) = <<>>
    BY <2>1 DEF Told
  <2>5. Catalog!ListAtOnce(t)
    BY <1>8, <2>3, <2>4 DEF Catalog!ListAtOnce, Catalog!NoAnswer
  <2>6. QED
    BY <2>5 DEF Catalog!Next
<1>9. CASE ListFetch(t)
  <2>1. PICK more \in SUBSET (db \ snap[t].list) :
            Read(t, [snap[t] EXCEPT !.list = @ \cup more])
    BY <1>9 DEF ListFetch
  <2> DEFINE copy == [snap[t] EXCEPT !.list = @ \cup more]
  <2>2. pc[t] = "list_fetch" /\ live' = live
    BY <1>9 DEF ListFetch
  <2>3. snap[t].here /\ snap[t].list \subseteq db
    BY <2>2 DEF CatalogInv, StaleInv, InHand, ScanInv
  <2>4. copy \in Copy /\ copy.here /\ copy.list = snap[t].list \cup more
    BY <1>1, <2>3 DEF TypeOK, Copy
  <2>5. Catalog!List(t, snap[t].list \cup more)
    <3>1. Catalog!List(t, copy.list)
      BY <1>1, <1>2, <2>1, <2>2, <2>4, ReadIsList
    <3>2. QED
      BY <2>4, <3>1
  <2>6. Told(t) = <<"reading", snap[t].list>>
    BY <2>2 DEF Told
  <2>7. Catalog!EndScan(t)
    BY <2>3, <2>5, <2>6 DEF Catalog!EndScan
  <2>8. QED
    BY <2>7 DEF Catalog!Next
<1>10. CASE ListFindFails(t) /\ pc[t] = "list_fetch"
  <2>1. pc'[t] = "failed" /\ live' = live
    BY <1>1, <1>10 DEF ListFindFails, Goto, TypeOK
  <2>2. Told(t)' = <<>>
    BY <2>1 DEF Told
  <2>3. Kept' \subseteq Kept
    BY <1>2, <1>3, <2>1, KeptLists, KeptShrinks
  <2>4. [u \in Tasks |-> Told(u)]'
            = [u \in Tasks |-> IF u \in {t} THEN <<>> ELSE [v \in Tasks |-> Told(v)][u]]
    BY <1>4, <2>2
  <2>5. Catalog!Finish({t})
    BY <1>2, <2>3, <2>4 DEF SameCatalog, Scans, Catalog!Finish, Catalog!NoAnswer, Catalog!flags
  <2>6. QED
    BY <2>5 DEF Catalog!Next
<1>11. CASE (ListFindFails(t) /\ pc[t] # "list_fetch") \/ ListSet(t)
  <2>1. \/ pc[t] = "list_find" /\ pc'[t] = "failed" /\ live' = live
        \/ /\ pc[t] = "list_set" /\ pc'[t] = "miss"
           /\ snap' = snap /\ live' \in {live, snap[t]}
    BY <1>1, <1>11 DEF ListFindFails, ListSet, Goto, TypeOK
  <2>2. Told(t)' = Told(t)
    BY <2>1 DEF Told
  <2>3. Kept' \subseteq Kept
    <3>1. live'.here => live'.list \in Kept
      BY <2>1, KeptLists
    <3>2. saved'.here => saved'.list \in Kept
      BY <1>2, KeptLists
    <3>3. \A u \in Tasks : pc'[u] = "list_set" => pc[u] = "list_set" /\ snap'[u] = snap[u]
      BY <1>3, <2>1
    <3>4. QED
      BY <3>1, <3>2, <3>3, KeptLists, KeptShrinks
  <2>4. QED
    BY <1>2, <1>4, <2>2, <2>3, QuietStep
<1>12. QED
  BY <1>5, <1>6, <1>7, <1>8, <1>9, <1>10, <1>11

(* A service is looked up: the document Redis has, or FindById's result.   *)
LEMMA DocStepsAnswer ==
    ASSUME CatalogInv, NEW t \in Tasks,
           DocGet(t) \/ DocFind(t) \/ DocFindFails(t) \/ DocSet(t)
    PROVE  Catalog!Next
<1>1. TypeOK /\ DocsInv
  BY DEF CatalogInv, StaleInv
<1>2. SameCatalog /\ req' = req /\ snap' = snap
  BY DEF DocGet, DocFind, DocFindFails, DocSet, SameCatalog
<1>3. \A u \in Tasks \ {t} : pc'[u] = pc[u]
  BY <1>1 DEF DocGet, DocFind, DocFindFails, DocSet, Goto, TypeOK
<1>4. \A u \in Tasks \ {t} : Told(u)' = Told(u)
  BY <1>2, <1>3 DEF Told
<1>kept. Kept' = Kept
  <2>1. \A u \in Tasks : pc'[u] = "list_set" <=> pc[u] = "list_set"
    BY <1>1 DEF DocGet, DocFind, DocFindFails, DocSet, Goto, IfCached, TypeOK
  <2>2. live' = live /\ saved' = saved
    BY DEF DocGet, DocFind, DocFindFails, DocSet
  <2>3. QED
    BY <1>2, <2>1, <2>2 DEF Kept, Cached
<1>5. CASE \/ DocGet(t) /\ pc'[t] = "found"
           \/ DocFind(t) /\ pc'[t] \in {"found", "doc_set"}
  <2>1. pc[t] \in {"doc_get", "doc_find"} /\ req[t] \in db
    BY <1>1, <1>5 DEF DocGet, DocFind, FindById, Goto, IfCached, TypeOK, DocsInv
  <2>2. Told(t) = <<>> /\ Told(t)' = <<"found", req[t]>>
    BY <1>2, <1>5, <2>1 DEF Told
  <2>3. Told(t)' \in Catalog!Truths
    BY <2>1, <2>2 DEF Catalog!Truths
  <2>4. QED
    BY <1>kept, <1>2, <1>4, <2>2, <2>3, AnswerStep
<1>6. CASE DocFind(t) /\ pc'[t] \notin {"found", "doc_set"}
  <2>1. pc[t] = "doc_find" /\ pc'[t] = "not_found" /\ req[t] \in Services \ db
    BY <1>1, <1>6 DEF DocFind, FindById, Goto, IfCached, TypeOK
  <2>2. Told(t) = <<>> /\ Told(t)' = <<"not_found", req[t]>>
    BY <1>2, <2>1 DEF Told
  <2>3. Told(t)' \in Catalog!Truths
    BY <2>1, <2>2 DEF Catalog!Truths
  <2>4. QED
    BY <1>kept, <1>2, <1>4, <2>2, <2>3, AnswerStep
<1>7. CASE (DocGet(t) /\ pc'[t] # "found") \/ DocFindFails(t) \/ DocSet(t)
  <2>1. \/ /\ pc[t] \in {"doc_get", "doc_find"}
           /\ pc'[t] \in {"doc_find", "failed", "caught"}
        \/ pc[t] = "doc_set" /\ pc'[t] = "found"
    BY <1>1, <1>7 DEF DocGet, DocFindFails, DocSet, Goto, TypeOK
  <2>2. Told(t)' = Told(t)
    BY <1>2, <2>1 DEF Told
  <2>3. QED
    BY <1>kept, <1>2, <1>4, <2>2, QuietStep
<1>8. QED
  BY <1>5, <1>6, <1>7

(* A service is stored, by an operation that says so or by one that fails. *)
LEMMA InsertPublishes ==
    ASSUME TypeOK, NEW t \in Tasks, Insert(t) \/ InsertFails(t)
    PROVE  Catalog!Next
<1>1. /\ pc[t] = "insert" /\ pc'[t] \in {"list_del", "created", "failed"}
      /\ \A u \in Tasks \ {t} : pc'[u] = pc[u]
      /\ snap' = snap /\ req' = req /\ build' = build /\ live' = live /\ saved' = saved
  BY DEF Insert, InsertFails, Goto, IfCached, TypeOK
<1>2. \A u \in Tasks : Told(u)' = Told(u)
  BY <1>1 DEF Told
<1>kept. Kept' = Kept
  <2>1. \A u \in Tasks : pc'[u] = "list_set" <=> pc[u] = "list_set"
    BY <1>1
  <2>2. QED
    BY <1>1, <2>1 DEF Kept, Cached
<1>3. CASE Create(req[t])
  <2>1. [u \in Tasks |-> Told(u)]' = [u \in Tasks |-> Told(u)]
    BY <1>2
  <2>2. Catalog!Publish(req[t])
    BY <1>kept, <1>1, <1>3, <2>1 DEF Create, Scans, Catalog!Publish, Catalog!flags
  <2>3. QED
    BY <2>2 DEF Catalog!Next, TypeOK
<1>4. CASE UNCHANGED stored
  BY <1>kept, <1>1, <1>2, <1>4, QuietStep DEF SameCatalog
<1>5. QED
  BY <1>3, <1>4 DEF Insert, InsertFails

(* A DEL changes no list that is about to be answered.                     *)
LEMMA ListDelIsQuiet ==
    ASSUME TypeOK, NEW t \in Tasks, ListDel(t)
    PROVE  Catalog!Next
<1>1. SameCatalog /\ req' = req
  BY DEF ListDel, SameCatalog
<1>2. /\ pc[t] = "list_del" /\ pc'[t] = "created"
      /\ \A u \in Tasks \ {t} : pc'[u] = pc[u]
  BY DEF ListDel, Goto, TypeOK
<1>3. /\ \A u \in Tasks : snap'[u].list = snap[u].list /\ snap'[u].here = snap[u].here
      /\ saved'.list = saved.list /\ saved'.here = saved.here
      /\ live'.here => live.here /\ live'.list = live.list
  <2>1. req[t] \in Services
    BY DEF TypeOK
  <2>2. live' \in {Absent, PassBy(live, req[t])}
    BY DEF ListDel
  <2>3. live'.here => live.here /\ live'.list = live.list
    BY <2>1, <2>2, CopyFacts DEF TypeOK, Absent
  <2>4. QED
    BY <2>1, <2>3, CopyFacts DEF ListDel, TypeOK
<1>4. \A u \in Tasks : Told(u)' = Told(u)
  BY <1>1, <1>2, <1>3 DEF Told
<1>5. Kept' \subseteq Kept
  BY <1>2, <1>3, KeptLists, KeptShrinks
<1>6. QED
  BY <1>1, <1>4, <1>5, QuietStep

LEMMA RespondFinishes ==
    ASSUME TypeOK, NEW t \in Tasks, Respond(t)
    PROVE  Catalog!Next
<1>1. SameCatalog /\ req' = req
  BY DEF Respond, SameCatalog
<1>2. /\ pc'[t] = "idle"
      /\ \A u \in Tasks \ {t} : pc'[u] = pc[u] /\ snap'[u] = snap[u]
  BY DEF Respond, Goto, TypeOK
<1>3. Told(t)' = <<>> /\ \A u \in Tasks \ {t} : Told(u)' = Told(u)
  BY <1>1, <1>2 DEF Told
<1>4. [u \in Tasks |-> Told(u)]'
          = [u \in Tasks |-> IF u \in {t} THEN <<>> ELSE [v \in Tasks |-> Told(v)][u]]
  BY <1>3
<1>5. Kept' \subseteq Kept
  <2>1. live' = live /\ saved' = saved
    BY DEF Respond
  <2>2. QED
    BY <1>2, <2>1, KeptLists, KeptShrinks
<1>6. Catalog!Finish({t})
  BY <1>1, <1>4, <1>5 DEF SameCatalog, Scans, Catalog!Finish, Catalog!NoAnswer, Catalog!flags
<1>7. QED
  BY <1>6 DEF Catalog!Next

LEMMA RestartForgetsOrFinishes ==
    ASSUME TypeOK, NoCache, ServiceRestart
    PROVE  Catalog!Next
<1>1. build' = build /\ \A u \in Tasks : pc'[u] = "idle"
  BY DEF ServiceRestart
<1>2. \A u \in Tasks : Told(u)' = <<>>
  BY <1>1 DEF Told
<1>3. [u \in Tasks |-> Told(u)]' = [u \in Tasks |-> <<>>]
  BY <1>2
<1>4. CASE build = "memory"
  <2>1. Kept' = {}
    BY <1>1, <1>4 DEF ServiceRestart, NoCache, Absent, Kept, Cached
  <2>2. Catalog!Forget
    BY <1>1, <1>3, <1>4, <2>1
       DEF ServiceRestart, Scans, Catalog!Forget, Catalog!NoAnswer, Catalog!flags
  <2>3. QED
    BY <2>2 DEF Catalog!Next
<1>5. CASE build # "memory"
  <2>1. [u \in Tasks |-> <<>>]
            = [u \in Tasks |-> IF u \in Tasks THEN <<>> ELSE [v \in Tasks |-> Told(v)][u]]
    OBVIOUS
  <2>2. Kept' \subseteq Kept
    <3>1. live' = live /\ saved' = saved
      BY DEF ServiceRestart
    <3>2. QED
      BY <1>1, <3>1, KeptLists, KeptShrinks
  <2>3. Catalog!Finish(Tasks)
    BY <1>1, <1>3, <1>5, <2>1, <2>2
       DEF ServiceRestart, stored, Scans, Catalog!Finish, Catalog!NoAnswer, Catalog!flags
  <2>4. QED
    BY <2>3 DEF Catalog!Next
<1>6. QED
  BY <1>4, <1>5

LEMMA RedisIsQuiet ==
    ASSUME TypeOK, Environment, ~ServiceRestart
    PROVE  Catalog!Next
<1>1. SameCatalog /\ pc' = pc /\ req' = req /\ snap' = snap
  BY DEF Environment, ExpireList, ExpireSavedList, ExpireDoc, RedisSave, RedisStop,
         RedisStart, RedisLinkDrop, catalogVars, SameCatalog
<1>2. \A u \in Tasks : Told(u)' = Told(u)
  BY <1>1 DEF Told
<1>3. /\ live'.here => live' \in {live, saved}
      /\ saved'.here => saved' \in {live, saved}
  BY DEF Environment, ExpireList, ExpireSavedList, ExpireDoc, RedisSave, RedisStop,
         RedisStart, RedisLinkDrop, catalogVars, Absent
<1>4. Kept' \subseteq Kept
  BY <1>1, <1>3, KeptLists, KeptShrinks
<1>5. QED
  BY <1>1, <1>2, <1>4, QuietStep

(***************************************************************************)
(* Each build of the service is a catalog: it answers what is true at a    *)
(* moment of the request, or of all its moments when it reads from a       *)
(* cursor, or, from the cache, what it once so read and has kept since.    *)
(***************************************************************************)
THEOREM ImplementsServiceCatalog == Spec => ImplementsCatalog
<1>1. Init => Catalog!Init
  <2> SUFFICES ASSUME Init PROVE Catalog!Init
    OBVIOUS
  <2>1. \A u \in Tasks : Told(u) = <<>>
    BY DEF Init, Told
  <2>2. Kept = {}
    BY DEF Init, Kept, Cached, Absent
  <2>3. QED
    BY <2>1, <2>2 DEF Init, Scans, Catalog!Init, Catalog!NoAnswer
<1>2. CatalogInv /\ [Next]_vars => [Catalog!Next]_(Catalog!catalogVars)
  <2> SUFFICES ASSUME CatalogInv, [Next]_vars
               PROVE  Catalog!Next
    OBVIOUS
  <2>1. TypeOK /\ NoCache
    BY DEF CatalogInv, StaleInv
  <2>2. CASE UNCHANGED vars
    <3>1. SameCatalog /\ pc' = pc /\ req' = req /\ snap' = snap
      BY <2>2 DEF vars, catalogVars, SameCatalog
    <3>2. \A u \in Tasks : Told(u)' = Told(u)
      BY <3>1 DEF Told
    <3>3. Kept' = Kept
      BY <2>2 DEF Kept, Cached, vars, catalogVars
    <3>4. QED
      BY <3>1, <3>2, <3>3, QuietStep
  <2>3. CASE Environment
    BY <2>1, <2>3, RestartForgetsOrFinishes, RedisIsQuiet
  <2>4. ASSUME NEW t \in Tasks, Request(t) \/ Handle(t)
        PROVE  Catalog!Next
    BY <2>1, <2>4, ArrivalIsQuiet, ListStepsAnswer, DocStepsAnswer, InsertPublishes,
       ListDelIsQuiet, RespondFinishes
       DEF Handle
  <2>5. QED
    BY <2>2, <2>3, <2>4 DEF Next
<1>3. QED
  BY <1>1, <1>2, CatalogInvHolds, PTL DEF Spec, ImplementsCatalog, Catalog!Spec

-----------------------------------------------------------------------------
(***************************************************************************)
(* Staleness does not begin anew: every list that is read has all that was *)
(* stored when the reading began, and all other copies are copies of       *)
(* copies.                                                                 *)
(***************************************************************************)
LEMMA StepBringsNoStaleList ==
    ASSUME TypeOK, [Next]_vars, NEW s \in db, ~StaleList(s)
    PROVE  ~StaleList(s)'
<1> USE DEF StaleList, InHand, TypeOK, Goto, IfCached, Absent
<1>1. CASE UNCHANGED vars
  BY <1>1 DEF vars, catalogVars
<1>2. CASE Environment
  BY <1>2 DEF Environment, ExpireList, ExpireSavedList, ExpireDoc, RedisSave, RedisStop,
              RedisStart, RedisLinkDrop, ServiceRestart, catalogVars
<1>3. ASSUME NEW t \in Tasks, Request(t) \/ Handle(t)
      PROVE  ~StaleList(s)'
  <2>1. CASE Request(t)
    BY <2>1 DEF Request, RequestList, RequestDoc, RequestCreate, RejectCreate, Arrive
  <2>2. CASE ListGet(t) \/ ListSet(t) \/ Respond(t)
    BY <2>2 DEF ListGet, ListSet, Respond, Answers
  <2>3. CASE ListFind(t) \/ ListFetch(t)
    <3>1. CASE ListFind(t)
      BY <3>1 DEF ListFind, Read, GetAll, FreshCopy
    <3>2. CASE ListFetch(t)
      <4>1. PICK more \in SUBSET (db \ snap[t].list) :
                Read(t, [snap[t] EXCEPT !.list = @ \cup more])
        BY <3>2 DEF ListFetch
      <4>2. pc[t] = "list_fetch" /\ snap[t].list \subseteq snap'[t].list
        BY <3>2, <4>1 DEF ListFetch, Read, Copy
      <4>3. \A u \in Tasks \ {t} : pc'[u] = pc[u] /\ snap'[u] = snap[u]
        BY <4>1 DEF Read
      <4>4. QED
        BY <3>2, <4>2, <4>3 DEF ListFetch
    <3>3. QED
      BY <2>3, <3>1, <3>2
  <2>4. CASE ListDel(t)
    <3>1. /\ req[t] \in Services
          /\ saved' = PassBy(saved, req[t]) /\ live' \in {Absent, PassBy(live, req[t])}
      BY <2>4 DEF ListDel
    <3>2. \A u \in Tasks : pc'[u] \in InHand =>
              pc[u] \in InHand /\ snap'[u].list = snap[u].list
      BY <2>4, <3>1, CopyFacts DEF ListDel
    <3>3. /\ saved'.here = saved.here /\ saved'.list = saved.list
          /\ live'.here => live.here /\ live'.list = live.list
      BY <3>1, CopyFacts
    <3>4. QED
      BY <3>2, <3>3
  <2>5. CASE ListFindFails(t) \/ Insert(t) \/ InsertFails(t) \/ DocGet(t) \/ DocFind(t)
             \/ DocFindFails(t) \/ DocSet(t)
    BY <2>5 DEF ListFindFails, Insert, InsertFails, DocGet, DocFind, DocFindFails, DocSet
  <2>6. QED
    BY <1>3, <2>1, <2>2, <2>3, <2>4, <2>5 DEF Handle
<1>4. QED
  BY <1>1, <1>2, <1>3 DEF Next

(***************************************************************************)
(* Once no list without a stored service is left in Redis, its RDB file or *)
(* a fill, none comes back: with the expiry of the key, which only a run   *)
(* can show, staleness ends.                                               *)
(***************************************************************************)
THEOREM StalenessIsOver == Spec => NoStaleListReturns
<1>1. TypeOK /\ [Next]_vars => [\A s \in db : ~StaleList(s) => ~StaleList(s)']_vars
  BY StepBringsNoStaleList
<1>2. QED
  BY <1>1, TypeCorrect, PTL DEF Spec, NoStaleListReturns
=============================================================================
