------------------------- MODULE RateLimiterProofs -------------------------
(***************************************************************************)
(* Proofs about RateLimiter, for any limit, window, clock and number of    *)
(* requests.                                                               *)
(***************************************************************************)
EXTENDS RateLimiter, TLAPS

LEMMA WindowIsPositive == WindowTicks \in Nat \ {0}
BY RateLimiterAssumption, SMT DEF WindowTicks

LEMMA HalfASecond ==
    /\ TicksPerSecond \div 2 \in Nat
    /\ TicksPerSecond <= 2 * (TicksPerSecond \div 2) + 1
    /\ 2 * (TicksPerSecond \div 2) <= TicksPerSecond
BY RateLimiterAssumption, SMT

(* Division, as the bounds on the quotient.                                *)
LEMMA Quotient ==
    ASSUME NEW n \in Nat, NEW d \in Nat \ {0}
    PROVE  /\ n \div d \in Nat
           /\ (n \div d) * d \in Nat
           /\ (n \div d) * d <= n
           /\ n < (n \div d) * d + d
BY SMT

(***************************************************************************)
(* What TTL answers, in ticks, is within half a second of the TTL.         *)
(***************************************************************************)
LEMMA RoundingError ==
    ASSUME NEW n \in Nat
    PROVE  /\ Rounded(n) \in Nat
           /\ Rounded(n) * TicksPerSecond \in Nat
           /\ n <= Rounded(n) * TicksPerSecond + TicksPerSecond \div 2
           /\ Rounded(n) * TicksPerSecond <= n + TicksPerSecond \div 2
<1> DEFINE h == TicksPerSecond \div 2
<1>1. h \in Nat /\ TicksPerSecond <= 2 * h + 1 /\ n + h \in Nat
  BY HalfASecond
<1>2. /\ Rounded(n) \in Nat
      /\ Rounded(n) * TicksPerSecond \in Nat
      /\ Rounded(n) * TicksPerSecond <= n + h
      /\ n + h < Rounded(n) * TicksPerSecond + TicksPerSecond
  BY <1>1, Quotient, RateLimiterAssumption DEF Rounded
<1>3. QED
  <2> DEFINE r == Rounded(n) * TicksPerSecond
  <2>1. r \in Nat /\ n + h < r + TicksPerSecond
    BY <1>2
  <2> HIDE DEF h, r
  <2>2. n <= r + h
    BY <1>1, <2>1, RateLimiterAssumption, SMT
  <2>3. QED
    BY <1>2, <2>2 DEF h, r

-----------------------------------------------------------------------------
(***************************************************************************)
(* Type correctness.                                                       *)
(***************************************************************************)
LEMMA ContextAfterCommand ==
    ASSUME NEW outcome
    PROVE  /\ FreedUnlessReply(outcome) \in CtxStates
           /\ KeptOnFailure(outcome) \in CtxStates
BY DEF FreedUnlessReply, KeptOnFailure, CtxStates

LEMMA CounterRange ==
    /\ MaxCount \in Nat
    /\ \A c \in 0 .. MaxCount : Least(c + 1, MaxCount) \in 1 .. MaxCount
BY RateLimiterAssumption DEF MaxCount, Least

LEMMA AgesPass ==
    ASSUME recent \in Seq(Ages), GrowOld
    PROVE  recent' \in Seq(Ages)
<1>1. PICK n \in 0 .. Len(recent) :
        /\ \A i \in DOMAIN recent : recent[i] = WindowTicks - 1 <=> i <= n
        /\ recent' = [i \in 1 .. Len(recent) - n |-> recent[i + n] + 1]
  BY DEF GrowOld
<1>2. ASSUME NEW i \in 1 .. Len(recent) - n
      PROVE  recent[i + n] + 1 \in Ages
  <2>1. i + n \in DOMAIN recent /\ ~(i + n <= n)
    OBVIOUS
  <2>2. recent[i + n] \in Ages /\ recent[i + n] # WindowTicks - 1
    BY <1>1, <2>1
  <2>3. \A a \in Ages : a # WindowTicks - 1 => a + 1 \in Ages
    BY WindowIsPositive DEF Ages
  <2>4. QED
    BY <2>2, <2>3
<1>3. Len(recent) - n \in Nat
  OBVIOUS
<1>4. QED
  BY <1>1, <1>2, <1>3

THEOREM TypeCorrect == Spec => []TypeOK
<1> USE DEF TypeOK, ConnectionTypeOK
<1>1. Init => TypeOK
  <2> SUFFICES ASSUME Init PROVE TypeOK
    OBVIOUS
  <2>1. ConnectionTypeOK
    BY RedisFaultsAssumption DEF Init, ConnectionInit, CtxStates
  <2>2. 0 \in 0 .. MaxCount /\ 0 \in 0 .. WindowTicks
        /\ 0 \in 0 .. WindowTicks + TicksPerSecond
    BY WindowIsPositive, CounterRange, RateLimiterAssumption
  <2>3. recent \in Seq(Ages)
    BY DEF Init
  <2>4. QED
    BY <2>1, <2>2, <2>3 DEF Init
<1>2. TypeOK /\ [Next]_vars => TypeOK'
  <2> SUFFICES ASSUME TypeOK, [Next]_vars
               PROVE  TypeOK'
    OBVIOUS
  <2> USE DEF Goto
  <2>1. ASSUME NEW t \in Tasks, Arrive(t)
        PROVE  TypeOK'
    BY <2>1 DEF Arrive
  <2>2. ASSUME NEW t \in Tasks, Incr(t)
        PROVE  TypeOK'
    <3>1. ctx' \in CtxStates
      BY <2>2, ContextAfterCommand DEF Incr
    <3>2. count' \in 0 .. MaxCount
      BY <2>2, CounterRange DEF Incr
    <3>3. got' \in [Tasks -> 0 .. MaxCount]
      BY <2>2, <3>2, CounterRange DEF Incr
    <3>4. pc' \in [Tasks -> {"idle", "incr", "expire", "ttl", "allowed", "denied", "open"}]
      BY <2>2 DEF Incr
    <3>5. shut' \subseteq Tasks
      BY <2>2 DEF Incr
    <3>6. slipped' \in BOOLEAN
      BY <2>2, Zenon DEF Incr
    <3>7. QED
      BY <2>2, <3>1, <3>2, <3>3, <3>4, <3>5, <3>6 DEF Incr
  <2>3. ASSUME NEW t \in Tasks, Expire(t)
        PROVE  TypeOK'
    BY <2>3, ContextAfterCommand, WindowIsPositive DEF Expire
  <2>4. ASSUME NEW t \in Tasks, Ttl(t)
        PROVE  TypeOK'
    <3>1. ctx' \in CtxStates
      BY <2>4, ContextAfterCommand DEF Ttl
    <3>2. wait' \in [Tasks -> 0 .. WindowTicks + TicksPerSecond]
      <4>1. Rounded(ttl) * TicksPerSecond \in 0 .. WindowTicks + TicksPerSecond
        <5>1. ttl \in Nat /\ ttl <= WindowTicks
          BY WindowIsPositive
        <5> HIDE DEF TypeOK
        <5>2. QED
          BY <5>1, RoundingError, HalfASecond, WindowIsPositive, RateLimiterAssumption
      <4>2. WindowTicks \in 0 .. WindowTicks + TicksPerSecond
        BY WindowIsPositive, RateLimiterAssumption
      <4>3. QED
        BY <2>4, <4>1, <4>2 DEF Ttl
    <3>3. recent' \in Seq(Ages)
      <4>1. 0 \in Ages
        BY WindowIsPositive DEF Ages
      <4>2. recent' \in {recent, Append(recent, 0)}
        BY <2>4 DEF Ttl
      <4>3. recent \in Seq(Ages)
        OBVIOUS
      <4> HIDE DEF TypeOK
      <4>4. QED
        BY <4>1, <4>2, <4>3
    <3>4. QED
      BY <2>4, <3>1, <3>2, <3>3 DEF Ttl
  <2>5. ASSUME NEW t \in Tasks, Respond(t)
        PROVE  TypeOK'
    BY <2>5, CounterRange, WindowIsPositive, RateLimiterAssumption DEF Respond
  <2>6. CASE Tick
    <3>1. count' \in 0 .. MaxCount /\ ttl' \in 0 .. WindowTicks /\ shut' \subseteq Tasks
      BY <2>6, CounterRange, WindowIsPositive DEF Tick, KeyGone
    <3>2. wait' \in [Tasks -> 0 .. WindowTicks + TicksPerSecond]
      BY <2>6, WindowIsPositive, RateLimiterAssumption DEF Tick
    <3>3. recent' \in Seq(Ages)
      BY <2>6, AgesPass DEF Tick
    <3>4. slipped' \in BOOLEAN
      BY <2>6, Zenon DEF Tick, KeyGone
    <3>5. QED
      BY <2>6, <3>1, <3>2, <3>3, <3>4 DEF Tick
  <2>7. CASE RedisStop
    <3>1. count' \in 0 .. MaxCount /\ ttl' \in 0 .. WindowTicks /\ shut' \subseteq Tasks
      BY <2>7, CounterRange, WindowIsPositive DEF RedisStop, KeyGone
    <3>2. up' \in BOOLEAN /\ ctx' \in CtxStates
      BY <2>7 DEF RedisStop, ServerDown, CtxStates
    <3>3. recent' \in Seq(Ages)
      BY <2>7 DEF RedisStop
    <3>4. slipped' \in BOOLEAN
      BY <2>7, Zenon DEF RedisStop, KeyGone
    <3>5. QED
      BY <2>7, <3>1, <3>2, <3>3, <3>4 DEF RedisStop
  <2>8. CASE RedisStart \/ RedisLinkDrop
    BY <2>8 DEF RedisStart, RedisLinkDrop, ServerUp, LinkDrop, CtxStates, limiterVars
  <2>9. CASE ServiceRestart
    BY <2>9, CounterRange, WindowIsPositive, RateLimiterAssumption
       DEF ServiceRestart, CtxStates
  <2>10. CASE UNCHANGED vars
    BY <2>10 DEF vars, limiterVars
  <2>11. QED
    BY <2>1, <2>2, <2>3, <2>4, <2>5, <2>6, <2>7, <2>8, <2>9, <2>10 DEF Next, Handle
<1>3. QED
  BY <1>1, <1>2, PTL DEF Spec

-----------------------------------------------------------------------------
(***************************************************************************)
(* The reset time covers the TTL under all faults.  Only an EXPIRE makes a *)
(* TTL longer, and it finds nobody refused: the request that sends it made *)
(* the key, and holds the mutex since.                                     *)
(***************************************************************************)
Covered ==
    \A t \in Tasks :
        pc[t] = "denied" /\ t \in shut => ttl <= wait[t] + TicksPerSecond \div 2

ResetInv ==
    /\ TypeOK
    /\ count = 0 => shut = {}
    /\ \A t \in Tasks : pc[t] = "expire" => shut = {}
    /\ Covered

LEMMA ResetInvIncr ==
    ASSUME ResetInv, TypeOK', NEW t \in Tasks, Incr(t)
    PROVE  ResetInv'
<1> USE DEF ResetInv
<1>1. /\ Limit \in Nat \ {0} /\ count \in Nat
      /\ count' \in {count, Least(count + 1, MaxCount)} /\ count' \in Nat
      /\ count # 0 => count' # 0
  BY RateLimiterAssumption, CounterRange DEF Incr, TypeOK, Least, MaxCount
<1>2. \A u \in Tasks : pc[u] # "expire"
  BY DEF Incr, Holders
<1>3. /\ shut' \in {shut, shut \cup {t}}
      /\ shut' # shut => count' > Limit
      /\ \A u \in Tasks : u # t => pc'[u] = pc[u]
      /\ pc'[t] \in {"open", "expire", "ttl"}
      /\ pc'[t] = "expire" => count' = 1 /\ count' \in {Least(count + 1, MaxCount)}
      /\ ttl' = ttl /\ wait' = wait
  BY DEF Incr, Goto, TypeOK, Executed
<1>4. (count' = 0 => shut' = {}) /\ (pc'[t] = "expire" => shut' = {})
  <2>1. Least(count + 1, MaxCount) = 1 => count = 0
    BY <1>1, RateLimiterAssumption DEF Least, MaxCount
  <2>2. QED
    BY <1>1, <1>3, <2>1
<1>5. \A u \in Tasks : pc'[u] = "expire" => shut' = {}
  BY <1>2, <1>3, <1>4
<1>6. Covered'
  BY <1>3 DEF Covered
<1>7. QED
  BY <1>4, <1>5, <1>6

LEMMA ResetInvTtl ==
    ASSUME ResetInv, TypeOK', NEW t \in Tasks, Ttl(t)
    PROVE  ResetInv'
<1> USE DEF ResetInv
<1>1. ttl \in Nat /\ ttl <= WindowTicks
  BY WindowIsPositive DEF TypeOK
<1>2. ttl' <= wait'[t] + TicksPerSecond \div 2
  <2>1. ttl <= Rounded(ttl) * TicksPerSecond + TicksPerSecond \div 2
    BY <1>1, RoundingError
  <2>2. ttl <= WindowTicks + TicksPerSecond \div 2
    BY <1>1, HalfASecond, WindowIsPositive
  <2>3. ttl' = ttl /\ wait'[t] \in {Rounded(ttl) * TicksPerSecond, WindowTicks}
    BY DEF Ttl, TypeOK
  <2>4. QED
    BY <2>1, <2>2, <2>3
<1>3. /\ \A u \in Tasks : u # t => pc'[u] = pc[u] /\ wait'[u] = wait[u]
      /\ pc'[t] \in {"allowed", "denied"}
      /\ ttl' = ttl /\ shut' = shut /\ count' = count
  BY DEF Ttl, Goto, TypeOK
<1>4. QED
  BY <1>2, <1>3 DEF Covered

LEMMA ResetInvTick ==
    ASSUME ResetInv, TypeOK', Tick
    PROVE  ResetInv'
<1> USE DEF ResetInv
<1>1. CASE ttl = 1
  BY <1>1 DEF Tick, KeyGone, Covered
<1>2. CASE ttl # 1
  <2>1. ttl' <= ttl /\ (ttl' < ttl \/ ttl' = 0) /\ ttl \in Nat /\ ttl' \in Nat
    BY <1>2, WindowIsPositive DEF Tick, TypeOK
  <2>2. \A t \in Tasks : /\ wait[t] \in Nat
                         /\ wait'[t] = IF wait[t] = 0 THEN 0 ELSE wait[t] - 1
    <3>1. \A n \in 0 .. WindowTicks + TicksPerSecond : n \in Nat
      BY WindowIsPositive, RateLimiterAssumption
    <3>2. QED
      BY <3>1 DEF Tick, TypeOK
  <2>3. shut' = shut /\ count' = count /\ pc' = pc
    BY <1>2 DEF Tick
  <2>4. Covered'
    <3> SUFFICES ASSUME NEW t \in Tasks, pc[t] = "denied", t \in shut
                 PROVE  ttl' <= wait'[t] + TicksPerSecond \div 2
      BY <2>3 DEF Covered
    <3>1. ttl <= wait[t] + TicksPerSecond \div 2
      BY DEF Covered
    <3>2. wait'[t] \in Nat
      BY <2>2, WindowIsPositive, RateLimiterAssumption DEF Tick, TypeOK
    <3>3. QED
      BY <2>1, <2>2, <3>1, <3>2, HalfASecond
  <2>5. QED
    BY <2>3, <2>4
<1>3. QED
  BY <1>1, <1>2

LEMMA ResetInvOtherSteps ==
    ASSUME ResetInv, TypeOK',
           \/ \E t \in Tasks : Arrive(t) \/ Expire(t) \/ Respond(t)
           \/ RedisStop \/ RedisStart \/ RedisLinkDrop \/ ServiceRestart
    PROVE  ResetInv'
<1> USE DEF ResetInv, Covered, TypeOK, Goto
<1>1. CASE \E t \in Tasks : Arrive(t)
  BY <1>1 DEF Arrive
<1>2. CASE \E t \in Tasks : Expire(t)
  BY <1>2 DEF Expire
<1>3. CASE \E t \in Tasks : Respond(t)
  BY <1>3 DEF Respond
<1>4. CASE RedisStop
  <2>1. CASE KeyGone
    BY <1>4, <2>1 DEF RedisStop, KeyGone
  <2>2. CASE ~KeyGone
    <3>1. count' # 0 /\ shut' = shut /\ pc' = pc /\ wait' = wait /\ ttl' \in {0, ttl}
      BY <1>4, <2>2 DEF RedisStop
    <3>2. \A t \in Tasks : 0 <= wait[t] + TicksPerSecond \div 2
      <4> TAKE t \in Tasks
      <4>1. wait[t] \in Nat
        BY WindowIsPositive, RateLimiterAssumption
      <4>2. QED
        BY <4>1, HalfASecond
    <3>3. Covered'
      BY <3>1, <3>2
    <3>4. QED
      BY <3>1, <3>3
  <2>3. QED
    BY <2>1, <2>2
<1>5. CASE RedisStart \/ RedisLinkDrop
  BY <1>5 DEF RedisStart, RedisLinkDrop, limiterVars
<1>6. CASE ServiceRestart
  BY <1>6 DEF ServiceRestart
<1>7. QED
  BY <1>1, <1>2, <1>3, <1>4, <1>5, <1>6

LEMMA ResetInvHolds == Spec => []ResetInv
<1>1. Init /\ TypeOK => ResetInv
  BY DEF Init, ResetInv, Covered
<1>2. ResetInv /\ TypeOK' /\ [Next]_vars => ResetInv'
  <2>1. ASSUME ResetInv, TypeOK', UNCHANGED vars
        PROVE  ResetInv'
    BY <2>1 DEF ResetInv, Covered, vars, limiterVars
  <2>2. QED
    BY <2>1, ResetInvIncr, ResetInvTtl, ResetInvTick, ResetInvOtherSteps
       DEF Next, Handle
<1>3. QED
  BY <1>1, <1>2, TypeCorrect, PTL DEF Spec

-----------------------------------------------------------------------------
(***************************************************************************)
(* The counter has a TTL once the request that made it is done with the    *)
(* EXPIRE, but for the failures that slipped records.                      *)
(***************************************************************************)
ExpiryInv == TypeOK /\ CounterExpires

LEMMA ExpiryInvIncr ==
    ASSUME ExpiryInv, NEW t \in Tasks, Incr(t)
    PROVE  CounterExpires'
<1> USE DEF ExpiryInv, TypeOK
<1>1. \A u \in Tasks : pc[u] \notin {"expire", "ttl"}
  BY DEF Incr, Holders
<1>2. count > 0 => ttl # 0 \/ slipped
  BY <1>1 DEF CounterExpires, Holders
<1>3. PICK outcome \in CommandOutcomes(EnsureConnected) :
        /\ count' = IF Executed(outcome) THEN Least(count + 1, MaxCount) ELSE count
        /\ got' = [got EXCEPT ![t] = IF outcome = "ok" THEN count' ELSE 0]
        /\ slipped' = (slipped \/ (outcome = "lost" /\ count = 0))
        /\ Goto(t, CASE outcome \in {"skipped", "failed", "lost"} -> "open"
                     [] outcome = "ok" /\ count' = 1 -> "expire"
                     [] OTHER -> "ttl")
        /\ ttl' = ttl
  BY DEF Incr
<1>4. CASE count > 0
  BY <1>2, <1>3, <1>4 DEF CounterExpires
<1>5. CASE count = 0
  <2>1. CASE outcome = "ok"
    <3>1. count' = 1
      BY <1>3, <1>5, <2>1, RateLimiterAssumption DEF Least, MaxCount, Executed
    <3>2. pc'[t] = "expire" /\ got'[t] = 1
      BY <1>3, <2>1, <3>1 DEF Goto
    <3>3. QED
      BY <3>2 DEF CounterExpires, Holders
  <2>2. CASE outcome = "lost"
    BY <1>3, <1>5, <2>2 DEF CounterExpires
  <2>3. CASE outcome \notin {"ok", "lost"}
    BY <1>3, <1>5, <2>3 DEF CounterExpires, Executed
  <2>4. QED
    BY <2>1, <2>2, <2>3
<1>6. QED
  BY <1>4, <1>5, CounterRange

LEMMA ExpiryInvTaskSteps ==
    ASSUME ExpiryInv, NEW t \in Tasks, Arrive(t) \/ Expire(t) \/ Ttl(t) \/ Respond(t)
    PROVE  CounterExpires'
<1> USE DEF ExpiryInv, CounterExpires, Holders, Goto, TypeOK
<1>1. CASE Arrive(t)
  BY <1>1 DEF Arrive
<1>2. CASE Expire(t)
  <2>1. count' = count /\ (count > 0 => ttl' = WindowTicks \/ slipped')
    BY <1>2 DEF Expire
  <2>2. QED
    BY <2>1, WindowIsPositive
<1>3. CASE Ttl(t)
  BY <1>3 DEF Ttl
<1>4. CASE Respond(t)
  BY <1>4 DEF Respond
<1>5. QED
  BY <1>1, <1>2, <1>3, <1>4

LEMMA ExpiryInvTick ==
    ASSUME ExpiryInv, Tick
    PROVE  CounterExpires'
<1> USE DEF ExpiryInv, CounterExpires, Holders, TypeOK
<1>1. CASE ttl = 1
  BY <1>1 DEF Tick, KeyGone
<1>2. CASE ttl = 0
  BY <1>2 DEF Tick
<1>3. CASE ttl > 1
  BY <1>3 DEF Tick
<1>4. QED
  BY <1>1, <1>2, <1>3, WindowIsPositive

LEMMA ExpiryInvFailures ==
    ASSUME ExpiryInv, RedisStop \/ RedisStart \/ RedisLinkDrop \/ ServiceRestart
    PROVE  CounterExpires'
<1> USE DEF ExpiryInv, CounterExpires, Holders
<1>1. CASE RedisStop
  <2>1. CASE KeyGone
    BY <2>1 DEF KeyGone
  <2>2. CASE ~KeyGone
    <3>1. /\ pc' = pc /\ got' = got /\ slipped' = (slipped \/ ttl' = 0)
      BY <1>1, <2>2 DEF RedisStop
    <3>2. QED
      BY <3>1
  <2>3. QED
    BY <2>1, <2>2
<1>2. CASE RedisStart \/ RedisLinkDrop
  BY <1>2 DEF RedisStart, RedisLinkDrop, limiterVars
<1>3. CASE ServiceRestart
  BY <1>3 DEF ServiceRestart
<1>4. QED
  BY <1>1, <1>2, <1>3

LEMMA ExpiryInvHolds == Spec => []ExpiryInv
<1>1. Init /\ TypeOK => ExpiryInv
  BY DEF Init, ExpiryInv, CounterExpires
<1>2. ExpiryInv /\ TypeOK' /\ [Next]_vars => ExpiryInv'
  <2>1. ASSUME ExpiryInv, UNCHANGED vars
        PROVE  CounterExpires'
    BY <2>1 DEF ExpiryInv, CounterExpires, Holders, vars, limiterVars
  <2>2. QED
    BY <2>1, ExpiryInvIncr, ExpiryInvTaskSteps, ExpiryInvTick, ExpiryInvFailures
       DEF ExpiryInv, Next, Handle
<1>3. QED
  BY <1>1, <1>2, TypeCorrect, PTL DEF Spec

(***************************************************************************)
(* The counter ends with its window, but for the failures that slipped     *)
(* records.                                                                *)
(***************************************************************************)
THEOREM CounterHasTtl == Spec => []CounterExpires
<1>1. ExpiryInv => CounterExpires
  BY DEF ExpiryInv
<1>2. QED
  BY <1>1, ExpiryInvHolds, PTL

(***************************************************************************)
(* X-RateLimit-Reset covers the TTL of the key a client is refused by and, *)
(* unless that key lost its TTL, it is enough to wait as long.             *)
(***************************************************************************)
THEOREM ResetCovers == Spec => []ResetCoversTtl
<1>1. ResetInv /\ ExpiryInv => ResetCoversTtl
  <2> SUFFICES ASSUME ResetInv, ExpiryInv, NEW t \in Tasks,
                      pc[t] = "denied", t \in shut
               PROVE  /\ ttl <= wait[t] + TicksPerSecond \div 2
                      /\ ~slipped => ttl \in 1 .. wait[t] + TicksPerSecond \div 2
    BY DEF ResetCoversTtl, ResetIsEnough
  <2>1. ttl <= wait[t] + TicksPerSecond \div 2
    BY DEF ResetInv, Covered
  <2>2. ttl \in Nat /\ wait[t] \in Nat
    BY WindowIsPositive, RateLimiterAssumption DEF ResetInv, TypeOK
  <2>3. count \in Nat /\ count > 0 /\ \A u \in Tasks : pc[u] # "expire"
    BY CounterRange DEF ResetInv, TypeOK
  <2>4. ~slipped => ttl # 0
    BY <2>3 DEF ExpiryInv, CounterExpires, Holders
  <2>5. QED
    BY <2>1, <2>2, <2>4, HalfASecond
<1>2. QED
  BY <1>1, ResetInvHolds, ExpiryInvHolds, PTL

-----------------------------------------------------------------------------
(***************************************************************************)
(* Of the requests in recent the first n were counted in earlier windows,  *)
(* the others in the window of the counter in Redis.  Both are at most     *)
(* Limit: the others because INCR gave each its own number, the first      *)
(* because they had all reached a window's length, but for those of one    *)
(* window, when its counter ended.  A request that holds the mutex and     *)
(* will be let in counts as let in already.                                *)
(***************************************************************************)
Pending == {t \in Holders : got[t] \in 1 .. Limit}

(* Redis gives the key a window's length, counted from when the last of    *)
(* the earlier requests had been let in.                                   *)
EarlierEnd(n) == ttl > 0 => \A i \in 1 .. n : recent[i] + ttl >= WindowTicks

LetIn == Len(recent) + (IF Pending = {} THEN 0 ELSE 1)

WindowInv ==
    /\ \A t, u \in Holders : t = u
    /\ count = 0 => LetIn <= Limit /\ ttl = 0
    /\ count > 0 =>
        \E n \in 0 .. Len(recent) :
            /\ n <= Limit
            /\ LetIn - n <= Least(count, Limit)
            /\ EarlierEnd(n)

LEMMA WindowFacts ==
    ASSUME TypeOK
    PROVE  /\ Len(recent) \in Nat /\ LetIn \in {Len(recent), Len(recent) + 1}
           /\ count \in Nat /\ ttl \in Nat
           /\ \A i \in 1 .. Len(recent) : recent[i] \in Nat /\ recent[i] <= WindowTicks - 1
           /\ Limit \in Nat \ {0}
<1>1. Len(recent) \in Nat /\ \A i \in 1 .. Len(recent) : recent[i] \in Ages
  BY DEF TypeOK
<1>2. count \in Nat /\ ttl \in Nat
  BY CounterRange, WindowIsPositive DEF TypeOK
<1>3. \A a \in Ages : a \in Nat /\ a <= WindowTicks - 1
  BY WindowIsPositive DEF Ages
<1>4. QED
  BY <1>1, <1>2, <1>3, RateLimiterAssumption DEF LetIn

(* Steps that count nobody and leave the counter as it is.                 *)
LEMMA WindowKept ==
    ASSUME WindowInv, count' = count, ttl' = ttl, recent' = recent,
           Holders' \subseteq Holders, \A t \in Holders' : got'[t] = got[t],
           TypeOK, TypeOK'
    PROVE  WindowInv'
<1>1. Pending' \subseteq Pending
  BY DEF Pending
<1>2. LetIn' \in Nat /\ LetIn \in Nat /\ LetIn' <= LetIn
  BY <1>1, WindowFacts DEF LetIn
<1>3. count > 0 => \E n \in 0 .. Len(recent) :
         n <= Limit /\ LetIn' - n <= Least(count, Limit) /\ EarlierEnd(n)'
  <2> SUFFICES ASSUME count > 0 PROVE \E n \in 0 .. Len(recent) :
         n <= Limit /\ LetIn' - n <= Least(count, Limit) /\ EarlierEnd(n)'
    OBVIOUS
  <2>1. PICK n \in 0 .. Len(recent) :
           n <= Limit /\ LetIn - n <= Least(count, Limit) /\ EarlierEnd(n)
    BY DEF WindowInv
  <2>2. LetIn' - n <= Least(count, Limit)
    BY <1>2, <2>1, WindowFacts DEF Least
  <2>3. EarlierEnd(n)'
    BY <2>1 DEF EarlierEnd
  <2>4. QED
    BY <2>1, <2>2, <2>3
<1>4. count = 0 => LetIn' <= Limit
  BY <1>2, WindowFacts DEF WindowInv
<1>5. QED
  BY <1>3, <1>4 DEF WindowInv

LEMMA WindowIncr ==
    ASSUME WindowInv, TypeOK, TypeOK', NEW t \in Tasks, Incr(t)
    PROVE  WindowInv'
<1>1. PICK outcome \in CommandOutcomes(EnsureConnected) :
        /\ count' = IF Executed(outcome) THEN Least(count + 1, MaxCount) ELSE count
        /\ got' = [got EXCEPT ![t] = IF outcome = "ok" THEN count' ELSE 0]
  BY DEF Incr
<1>2. Holders = {} /\ Holders' \subseteq {t} /\ ttl' = ttl /\ recent' = recent
  BY DEF Incr, Holders, Goto, TypeOK
<1>3. LetIn = Len(recent)
  BY <1>2 DEF LetIn, Pending
<1>4. /\ count \in Nat /\ count' \in {count, Least(count + 1, MaxCount)}
      /\ Pending' # {} => count' = Least(count + 1, MaxCount) /\ count' <= Limit
      /\ LetIn' = Len(recent) + (IF Pending' = {} THEN 0 ELSE 1)
  <2>1. Pending' # {} => got'[t] \in 1 .. Limit
    BY <1>2 DEF Pending
  <2>2. got'[t] = IF outcome = "ok" THEN count' ELSE 0
    BY <1>1 DEF TypeOK
  <2>3. Pending' # {} => outcome = "ok" /\ count' \in 1 .. Limit
    BY <2>1, <2>2
  <2>4. QED
    BY <1>1, <1>2, <2>3, WindowFacts DEF Executed, LetIn
<1>5. Limit \in Nat \ {0} /\ MaxCount = Limit + 1 /\ count <= MaxCount /\ Len(recent) \in Nat
  <2>1. count \in 0 .. MaxCount
    BY DEF TypeOK
  <2>2. QED
    BY <2>1, WindowFacts, CounterRange DEF MaxCount
<1>6. CASE count' = 0
  BY <1>2, <1>3, <1>4, <1>5, <1>6 DEF WindowInv, Least
<1>7. CASE count = 0 /\ count' # 0
  <2>1. count' = 1 /\ ttl' = 0 /\ Len(recent) <= Limit
    BY <1>2, <1>3, <1>4, <1>5, <1>7 DEF WindowInv, Least
  <2>2. LetIn' - Len(recent) <= Least(count', Limit)
    BY <1>4, <1>5, <2>1 DEF Least
  <2>3. EarlierEnd(Len(recent))'
    BY <2>1 DEF EarlierEnd
  <2>4. QED
    BY <1>2, <1>5, <2>1, <2>2, <2>3 DEF WindowInv
<1>8. CASE count > 0 /\ count' # 0
  <2>1. PICK n \in 0 .. Len(recent) :
           n <= Limit /\ LetIn - n <= Least(count, Limit) /\ EarlierEnd(n)
    BY <1>8 DEF WindowInv
  <2>2. LetIn' - n <= Least(count', Limit)
    BY <1>3, <1>4, <1>5, <2>1 DEF Least
  <2>3. EarlierEnd(n)'
    BY <1>2, <2>1 DEF EarlierEnd
  <2>4. QED
    BY <1>2, <1>8, <2>1, <2>2, <2>3 DEF WindowInv
<1>9. QED
  BY <1>4, <1>6, <1>7, <1>8

LEMMA WindowExpire ==
    ASSUME WindowInv, TypeOK, TypeOK', NEW t \in Tasks, Expire(t)
    PROVE  WindowInv'
<1>1. /\ count' = count /\ recent' = recent /\ got' = got /\ Holders' = Holders
      /\ ttl' \in {ttl, WindowTicks} /\ (count = 0 => ttl' = ttl)
  BY DEF Expire, Holders, Goto, TypeOK
<1>2. LetIn' = LetIn
  BY <1>1 DEF LetIn, Pending
<1>3. ASSUME NEW n \in 0 .. Len(recent), EarlierEnd(n)
      PROVE  EarlierEnd(n)'
  BY <1>1, <1>3, WindowFacts, WindowIsPositive DEF EarlierEnd
<1>4. QED
  BY <1>1, <1>2, <1>3 DEF WindowInv

LEMMA WindowTtl ==
    ASSUME WindowInv, TypeOK, TypeOK', NEW t \in Tasks, Ttl(t)
    PROVE  WindowInv'
<1>1. count' = count /\ ttl' = ttl /\ got' = got /\ t \in Holders /\ t \notin Holders'
      /\ Holders' \subseteq Holders
  BY DEF Ttl, Holders, Goto, TypeOK
<1>2. Holders = {t} /\ Holders' = {}
  BY <1>1 DEF WindowInv
<1>3. recent' = IF got[t] \in 1 .. Limit THEN Append(recent, 0) ELSE recent
  BY DEF Ttl
<1>4. /\ Len(recent') \in Nat /\ Len(recent') >= Len(recent)
      /\ \A i \in 1 .. Len(recent) : recent'[i] = recent[i]
      /\ Len(recent') = Len(recent) + (IF got[t] \in 1 .. Limit THEN 1 ELSE 0)
  BY <1>3 DEF TypeOK
<1>5. LetIn' = LetIn
  BY <1>2, <1>4 DEF LetIn, Pending
<1>6. ASSUME NEW n \in 0 .. Len(recent), EarlierEnd(n)
      PROVE  n \in 0 .. Len(recent') /\ EarlierEnd(n)'
  BY <1>1, <1>4, <1>6, WindowFacts, SMTT(20) DEF EarlierEnd
<1>7. QED
  BY <1>1, <1>2, <1>5, <1>6 DEF WindowInv

LEMMA WindowTick ==
    ASSUME WindowInv, TypeOK, TypeOK', Tick
    PROVE  WindowInv'
<1>1. Holders' = Holders /\ Pending' = Pending
  BY DEF Tick, Holders, Pending
<1>2. PICK m \in 0 .. Len(recent) :
        /\ \A i \in DOMAIN recent : recent[i] = WindowTicks - 1 <=> i <= m
        /\ recent' = [i \in 1 .. Len(recent) - m |-> recent[i + m] + 1]
  BY DEF Tick, GrowOld
<1>3. Len(recent') = Len(recent) - m
  BY <1>2, WindowFacts
<1>4. LetIn' = LetIn - m
  BY <1>1, <1>3, WindowFacts DEF LetIn
<1>5. CASE ttl = 1
  <2>1. count' = 0 /\ ttl' = 0 /\ count > 0
    BY <1>5, WindowFacts DEF Tick, KeyGone, WindowInv
  <2>2. PICK n \in 0 .. Len(recent) :
           n <= Limit /\ LetIn - n <= Least(count, Limit) /\ EarlierEnd(n)
    BY <2>1 DEF WindowInv
  <2>3. n <= m
    <3>1. CASE n = 0
      BY <3>1
    <3>2. CASE n > 0
      <4>1. n \in DOMAIN recent /\ recent[n] + 1 >= WindowTicks
        BY <1>5, <2>2, <3>2 DEF EarlierEnd, TypeOK
      <4>2. recent[n] = WindowTicks - 1
        <5>1. recent[n] \in Nat /\ recent[n] <= WindowTicks - 1
          BY <4>1, WindowFacts DEF TypeOK
        <5>2. QED
          BY <4>1, <5>1, WindowIsPositive
      <4>3. QED
        BY <1>2, <4>1, <4>2
    <3>3. QED
      BY <3>1, <3>2, WindowFacts
  <2>4. LetIn' <= Limit
    BY <1>4, <2>2, <2>3, WindowFacts DEF Least
  <2>5. QED
    BY <1>1, <2>1, <2>4 DEF WindowInv
<1>6. CASE ttl # 1
  <2>1. count' = count /\ ttl' = IF ttl = 0 THEN 0 ELSE ttl - 1
    BY <1>6 DEF Tick
  <2>2. CASE count = 0
    BY <1>1, <1>4, <2>1, <2>2, WindowFacts DEF WindowInv
  <2>3. CASE count > 0
    <3>1. PICK n \in 0 .. Len(recent) :
             n <= Limit /\ LetIn - n <= Least(count, Limit) /\ EarlierEnd(n)
      BY <2>3 DEF WindowInv
    <3> DEFINE k == IF n <= m THEN 0 ELSE n - m
    <3>2. k \in 0 .. Len(recent') /\ k <= Limit /\ n <= m + k /\ (k > 0 => n = m + k)
      BY <1>3, <3>1, WindowFacts
    <3>3. LetIn' - k <= Least(count', Limit)
      BY <1>4, <2>1, <3>1, <3>2, WindowFacts DEF Least
    <3>4. EarlierEnd(k)'
      <4> SUFFICES ASSUME ttl' > 0, NEW i \in 1 .. k
                   PROVE  recent'[i] + ttl' >= WindowTicks
        BY DEF EarlierEnd
      <4>1. ttl > 0 /\ ttl' = ttl - 1
        BY <2>1, WindowFacts
      <4>2. i \in 1 .. Len(recent) - m /\ i + m \in 1 .. n /\ i + m \in 1 .. Len(recent)
        BY <1>3, <3>2, WindowFacts
      <4>3. recent'[i] = recent[i + m] + 1
        BY <1>2, <4>2
      <4>4. recent[i + m] + ttl >= WindowTicks
        BY <3>1, <4>1, <4>2 DEF EarlierEnd
      <4>5. QED
        BY <4>1, <4>2, <4>3, <4>4, WindowFacts, WindowIsPositive, SMTT(20)
    <3> HIDE DEF k
    <3>5. QED
      BY <1>1, <2>1, <2>3, <3>2, <3>3, <3>4 DEF WindowInv
  <2>4. QED
    BY <2>2, <2>3, WindowFacts
<1>7. QED
  BY <1>5, <1>6

LEMMA WindowRedisStop ==
    ASSUME WindowInv, TypeOK, TypeOK', RedisStop
    PROVE  WindowInv'
<1>1. recent' = <<>> /\ Holders' = Holders
  BY DEF RedisStop, Holders
<1>2. LetIn' \in {0, 1} /\ Len(recent') = 0
  BY <1>1 DEF LetIn
<1>3. CASE KeyGone
  BY <1>1, <1>2, <1>3, WindowFacts DEF KeyGone, WindowInv
<1>4. CASE ~KeyGone
  <2>1. count' >= 1 /\ count' \in Nat
    BY <1>4, WindowFacts DEF RedisStop
  <2>2. LetIn' - 0 <= Least(count', Limit)
    <3>1. Least(count', Limit) \in Nat /\ Least(count', Limit) >= 1
      BY <2>1, RateLimiterAssumption DEF Least
    <3>2. \A k \in {0, 1} : k - 0 <= Least(count', Limit)
      BY <3>1
    <3>3. QED
      BY <1>2, <3>2
  <2>3. 0 \in 0 .. Len(recent') /\ 0 <= Limit /\ EarlierEnd(0)'
    BY <1>2, WindowFacts DEF EarlierEnd
  <2>4. QED
    BY <1>1, <2>1, <2>2, <2>3 DEF WindowInv
<1>5. QED
  BY <1>3, <1>4

LEMMA WindowInvHolds == Spec => []WindowInv
<1>1. Init => WindowInv
  BY RateLimiterAssumption DEF Init, WindowInv, LetIn, Pending, Holders
<1>2. WindowInv /\ TypeOK /\ TypeOK' /\ [Next]_vars => WindowInv'
  <2> SUFFICES ASSUME WindowInv, TypeOK, TypeOK', [Next]_vars
               PROVE  WindowInv'
    OBVIOUS
  <2>1. ASSUME NEW t \in Tasks, Arrive(t) \/ Respond(t)
        PROVE  WindowInv'
    BY <2>1, WindowKept DEF Arrive, Respond, Holders, Goto, TypeOK
  <2>2. CASE RedisStart \/ RedisLinkDrop \/ UNCHANGED vars
    BY <2>2, WindowKept DEF RedisStart, RedisLinkDrop, vars, limiterVars, Holders
  <2>3. CASE ServiceRestart
    BY <2>3, WindowKept DEF ServiceRestart, Holders
  <2>4. QED
    BY <2>1, <2>2, <2>3, WindowIncr, WindowExpire, WindowTtl, WindowTick, WindowRedisStop
       DEF Next, Handle
<1>3. QED
  BY <1>1, <1>2, TypeCorrect, PTL DEF Spec

(***************************************************************************)
(* Of the requests that Redis told their count at most twice the limit are *)
(* let in during one window's length, wherever its borders fall, as long   *)
(* as Redis runs.  Requests let in because INCR gave no reply are not      *)
(* bounded.                                                                *)
(***************************************************************************)
THEOREM TwiceTheLimit == Spec => []TwiceTheLimitAtMost
<1>1. TypeOK /\ WindowInv => TwiceTheLimitAtMost
  <2> SUFFICES ASSUME TypeOK, WindowInv
               PROVE  Len(recent) <= 2 * Limit
    BY DEF TwiceTheLimitAtMost
  <2>1. CASE count = 0
    BY <2>1, WindowFacts DEF WindowInv
  <2>2. CASE count > 0
    <3>1. PICK n \in 0 .. Len(recent) : n <= Limit /\ LetIn - n <= Least(count, Limit)
      BY <2>2 DEF WindowInv
    <3>2. QED
      BY <3>1, WindowFacts DEF Least
  <2>3. QED
    BY <2>1, <2>2, WindowFacts
<1>2. QED
  BY <1>1, TypeCorrect, WindowInvHolds, PTL

-----------------------------------------------------------------------------
(***************************************************************************)
(* The fixed window. A request on its way to the EXPIRE made the key, and  *)
(* until it has sent it the key has no TTL: nobody else comes to an        *)
(* EXPIRE while it holds the mutex, and if it dies nobody ever does.       *)
(***************************************************************************)
NewKeyHasNoTtl == \A t \in Tasks : pc[t] = "expire" => ttl = 0

LEMMA NewKeyKept ==
    ASSUME TypeOK, WindowInv, NewKeyHasNoTtl, [Next]_vars
    PROVE  NewKeyHasNoTtl'
<1> USE DEF TypeOK, NewKeyHasNoTtl, Goto
<1>1. ASSUME NEW t \in Tasks, Incr(t)
      PROVE  NewKeyHasNoTtl'
  <2>1. \A u \in Tasks : pc[u] # "expire"
    BY <1>1 DEF Incr, Holders
  <2>2. PICK outcome \in CommandOutcomes(EnsureConnected) :
          /\ count' = IF Executed(outcome) THEN Least(count + 1, MaxCount) ELSE count
          /\ Goto(t, CASE outcome \in {"skipped", "failed", "lost"} -> "open"
                       [] outcome = "ok" /\ count' = 1 -> "expire"
                       [] OTHER -> "ttl")
          /\ ttl' = ttl
    BY <1>1 DEF Incr
  <2>3. pc'[t] = "expire" => count = 0
    <3>1. pc'[t] = "expire" => count' = 1 /\ outcome = "ok"
      BY <2>2
    <3>2. outcome = "ok" => count' = Least(count + 1, MaxCount)
      BY <2>2 DEF Executed
    <3>3. Least(count + 1, MaxCount) = 1 => count = 0
      BY CounterRange, RateLimiterAssumption DEF Least, MaxCount
    <3>4. QED
      BY <3>1, <3>2, <3>3
  <2>4. QED
    BY <2>1, <2>2, <2>3 DEF WindowInv
<1>2. ASSUME NEW t \in Tasks, Expire(t)
      PROVE  NewKeyHasNoTtl'
  <2>1. ASSUME NEW u \in Tasks, pc'[u] = "expire" PROVE FALSE
    BY <1>2, <2>1 DEF Expire, WindowInv, Holders
  <2>2. QED
    BY <2>1
<1>3. ASSUME NEW t \in Tasks, Arrive(t) \/ Ttl(t) \/ Respond(t)
      PROVE  NewKeyHasNoTtl'
  BY <1>3 DEF Arrive, Ttl, Respond
<1>4. CASE Tick
  BY <1>4 DEF Tick, KeyGone
<1>5. CASE RedisStop
  BY <1>5 DEF RedisStop, KeyGone
<1>6. CASE RedisStart \/ RedisLinkDrop \/ ServiceRestart \/ UNCHANGED vars
  BY <1>6 DEF RedisStart, RedisLinkDrop, ServiceRestart, vars, limiterVars
<1>7. QED
  BY <1>1, <1>2, <1>3, <1>4, <1>5, <1>6 DEF Next, Handle

LEMMA StepKeepsWindow ==
    ASSUME TypeOK, NewKeyHasNoTtl, Next, ttl > 0
    PROVE  \/ ttl' \in {ttl - 1, ttl} \ {0} /\ count' >= count
           \/ ttl' = 0 /\ count' = 0
           \/ ttl' <= ttl /\ count' <= count /\ ~up'
<1>0. count \in Nat /\ ttl \in Nat \ {0}
  BY CounterRange, WindowIsPositive DEF TypeOK
<1>1. ASSUME NEW t \in Tasks, Incr(t)
      PROVE  ttl' = ttl /\ count' >= count
  <2>1. ttl' = ttl /\ count' \in {count, Least(count + 1, MaxCount)}
    BY <1>1 DEF Incr
  <2>2. Least(count + 1, MaxCount) >= count
    BY CounterRange DEF TypeOK, Least
  <2>3. QED
    BY <1>0, <2>1, <2>2
<1>2. ASSUME NEW t \in Tasks, Arrive(t) \/ Ttl(t) \/ Respond(t)
      PROVE  UNCHANGED <<ttl, count>>
  BY <1>2 DEF Arrive, Ttl, Respond
<1>3. ASSUME NEW t \in Tasks, Expire(t) PROVE FALSE
  BY <1>0, <1>3 DEF Expire, NewKeyHasNoTtl
<1>4. CASE Tick
  BY <1>0, <1>4 DEF Tick, KeyGone
<1>5. CASE RedisStop
  <2>1. ~up'
    BY <1>5 DEF RedisStop, ServerDown
  <2>2. QED
    BY <1>0, <1>5, <2>1 DEF RedisStop, KeyGone
<1>6. CASE RedisStart \/ RedisLinkDrop \/ ServiceRestart
  BY <1>0, <1>6 DEF RedisStart, RedisLinkDrop, ServiceRestart, limiterVars
<1>7. QED
  BY <1>0, <1>1, <1>2, <1>3, <1>4, <1>5, <1>6 DEF Next, Handle

(* Whatever requests come and whatever fails, nothing prolongs a window    *)
(* that has its TTL or starts its count again, but a stop of Redis         *)
(* (performance_design.md:128, redis_cache.cpp:121).                       *)
THEOREM WindowStaysFixed == Spec => WindowIsFixed
<1>1. Init => NewKeyHasNoTtl
  BY DEF Init, NewKeyHasNoTtl
<1>2. TypeOK /\ WindowInv /\ NewKeyHasNoTtl /\ [Next]_vars => NewKeyHasNoTtl'
  BY NewKeyKept
<1>3. TypeOK /\ NewKeyHasNoTtl /\ [Next]_vars =>
        [ttl > 0 => \/ ttl' \in {ttl - 1, ttl} \ {0} /\ count' >= count
                    \/ ttl' = 0 /\ count' = 0
                    \/ ttl' <= ttl /\ count' <= count /\ ~up']_vars
  BY StepKeepsWindow
<1>4. QED
  BY <1>1, <1>2, <1>3, TypeCorrect, WindowInvHolds, PTL DEF Spec, WindowIsFixed
=============================================================================
