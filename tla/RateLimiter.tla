--------------------------- MODULE RateLimiter ---------------------------
(***************************************************************************)
(* RedisCache::CheckRateLimit (lab5 redis_cache.cpp) as RegisterHandler    *)
(* and LoginHandler call it: a fixed-window counter under one key          *)
(* (rl:login:<ip> or rl:register:<ip>), kept with INCR, EXPIRE and TTL.    *)
(*                                                                         *)
(* mutex_ is held from the INCR to the return, so the three commands of a  *)
(* task meet those of no other task of this process; but time passes and   *)
(* Redis may fail between any two of them.  Time is counted in ticks.      *)
(***************************************************************************)
EXTENDS RedisConnection, Integers, Sequences

CONSTANTS
    Tasks,              \* requests of one client that can be in flight together
    Limit,              \* max_requests
    Window,             \* window_seconds
    TicksPerSecond,
    ServiceFaults       \* may the user-service process die and be restarted?

ASSUME RateLimiterAssumption ==
    /\ ServiceFaults \in BOOLEAN
    /\ Limit \in Nat \ {0}
    /\ Window \in Nat \ {0}
    /\ TicksPerSecond \in Nat \ {0}

WindowTicks == Window * TicksPerSecond

VARIABLES
    count,      \* the counter in Redis; 0 when there is no key
    ttl,        \* ticks until the key expires; 0 when it has no TTL
    pc,         \* where each task is
    got,        \* what the task's INCR returned
    wait,       \* ticks until the X-RateLimit-Reset of its answer has passed
    shut,       \* history: tasks refused in the window the counter is in
    slipped,    \* history: a failure took the counter its TTL
    recent      \* history: the age in ticks of each request told its count and let in
                \* during the last window's length, or since Redis last stopped

limiterVars == <<count, ttl, pc, got, wait, shut, slipped, recent>>
vars == <<up, ctx, limiterVars>>

(* Nothing tells counters beyond the limit apart, so they stop there.      *)
MaxCount == Limit + 1

Ages == 0 .. WindowTicks - 1

Least(m, n) == IF m <= n THEN m ELSE n

Init ==
    /\ ConnectionInit
    /\ count = 0 /\ ttl = 0
    /\ pc = [t \in Tasks |-> "idle"]
    /\ got = [t \in Tasks |-> 0]
    /\ wait = [t \in Tasks |-> 0]
    /\ shut = {}
    /\ slipped = FALSE
    /\ recent = <<>>

Goto(t, step) == pc' = [pc EXCEPT ![t] = step]

(* The tasks that hold mutex_.                                             *)
Holders == {t \in Tasks : pc[t] \in {"expire", "ttl"}}

(* redisCommand inside CheckRateLimit: EXPIRE and TTL leave a context that *)
(* failed as it is, with its error set.                                    *)
KeptOnFailure(outcome) ==
    IF outcome \in {"ok", "refused"} THEN "live" ELSE "err"

(* TTL in seconds, as Redis rounds it.                                     *)
Rounded(ticks) == (ticks + TicksPerSecond \div 2) \div TicksPerSecond

(* The key is gone: the window, and every refusal in it, is over.          *)
KeyGone == count' = 0 /\ ttl' = 0 /\ shut' = {} /\ slipped' = FALSE

-----------------------------------------------------------------------------

(* POST /api/v1/auth/login or /register.                                   *)
Arrive(t) ==
    /\ pc[t] = "idle"
    /\ Goto(t, "incr")
    /\ UNCHANGED <<up, ctx, count, ttl, got, wait, shut, slipped, recent>>

(* Mutant: the EXPIRE is due one request late.                             *)
IncrCountsFromZero(t) ==
    /\ pc[t] = "incr"
    /\ Holders = {}
    /\ \E outcome \in CommandOutcomes(EnsureConnected) :
        /\ ctx' = FreedUnlessReply(outcome)
        /\ count' = IF Executed(outcome) THEN Least(count + 1, MaxCount) ELSE count
        /\ got' = [got EXCEPT ![t] = IF outcome = "ok" THEN count' ELSE 0]
        /\ shut' = IF outcome = "ok" /\ count' > Limit THEN shut \cup {t} ELSE shut
        /\ slipped' = (slipped \/ (outcome = "lost" /\ count = 0))
        /\ Goto(t, CASE outcome \in {"skipped", "failed", "lost"} -> "open"
                     [] outcome = "ok" /\ count' = 2 -> "expire"
                     [] OTHER -> "ttl")
    /\ UNCHANGED <<up, ttl, wait, recent>>

(* Mutant: every request sends an EXPIRE.                                  *)
IncrSlides(t) ==
    /\ pc[t] = "incr"
    /\ Holders = {}
    /\ \E outcome \in CommandOutcomes(EnsureConnected) :
        /\ ctx' = FreedUnlessReply(outcome)
        /\ count' = IF Executed(outcome) THEN Least(count + 1, MaxCount) ELSE count
        /\ got' = [got EXCEPT ![t] = IF outcome = "ok" THEN count' ELSE 0]
        /\ shut' = IF outcome = "ok" /\ count' > Limit THEN shut \cup {t} ELSE shut
        /\ slipped' = (slipped \/ (outcome = "lost" /\ count = 0))
        /\ Goto(t, CASE outcome \in {"skipped", "failed", "lost"} -> "open"
                     [] OTHER -> "expire")
    /\ UNCHANGED <<up, ttl, wait, recent>>

(* Lock, EnsureConnected, INCR.  An error reply has integer 0.  When the   *)
(* reply that the key is new is lost, nobody sends its EXPIRE.             *)
Incr(t) ==
    /\ pc[t] = "incr"
    /\ Holders = {}
    /\ \E outcome \in CommandOutcomes(EnsureConnected) :
        /\ ctx' = FreedUnlessReply(outcome)
        /\ count' = IF Executed(outcome) THEN Least(count + 1, MaxCount) ELSE count
        /\ got' = [got EXCEPT ![t] = IF outcome = "ok" THEN count' ELSE 0]
        /\ shut' = IF outcome = "ok" /\ count' > Limit THEN shut \cup {t} ELSE shut
        /\ slipped' = (slipped \/ (outcome = "lost" /\ count = 0))
        /\ Goto(t, CASE outcome \in {"skipped", "failed", "lost"} -> "open"
                     [] outcome = "ok" /\ count' = 1 -> "expire"
                     [] OTHER -> "ttl")
    /\ UNCHANGED <<up, ttl, wait, recent>>

(* Mutant: the window is half as long as max_requests is meant for.        *)
ExpireEarly(t) ==
    /\ pc[t] = "expire"
    /\ \E outcome \in CommandOutcomes(ctx) :
        /\ ctx' = KeptOnFailure(outcome)
        /\ ttl' = IF Executed(outcome) /\ count > 0 THEN WindowTicks \div 2 ELSE ttl
        /\ slipped' = (slipped \/ (count > 0 /\ ~Executed(outcome)))
    /\ Goto(t, "ttl")
    /\ UNCHANGED <<up, count, got, wait, shut, recent>>

(* Mutant: the EXPIRE is not sent.                                         *)
ExpireForgotten(t) ==
    /\ pc[t] = "expire"
    /\ Goto(t, "ttl")
    /\ UNCHANGED <<up, ctx, count, ttl, got, wait, shut, slipped, recent>>

(* EXPIRE, for the request that made the key.                              *)
Expire(t) ==
    /\ pc[t] = "expire"
    /\ \E outcome \in CommandOutcomes(ctx) :
        /\ ctx' = KeptOnFailure(outcome)
        /\ ttl' = IF Executed(outcome) /\ count > 0 THEN WindowTicks ELSE ttl
        /\ slipped' = (slipped \/ (count > 0 /\ ~Executed(outcome)))
    /\ Goto(t, "ttl")
    /\ UNCHANGED <<up, count, got, wait, shut, recent>>

(* Mutant: reset_after starts at 0 instead of at the window.               *)
TtlFromZero(t) ==
    /\ pc[t] = "ttl"
    /\ \E outcome \in CommandOutcomes(ctx) :
        /\ ctx' = KeptOnFailure(outcome)
        /\ wait' = [wait EXCEPT ![t] =
                        IF outcome = "ok" THEN Rounded(ttl) * TicksPerSecond ELSE 0]
    /\ Goto(t, IF got[t] <= Limit THEN "allowed" ELSE "denied")
    /\ recent' = IF got[t] \in 1 .. Limit THEN Append(recent, 0) ELSE recent
    /\ UNCHANGED <<up, count, ttl, got, shut, slipped>>

(* Mutant: PTTL's milliseconds are taken for seconds.                      *)
TtlUnscaled(t) ==
    /\ pc[t] = "ttl"
    /\ \E outcome \in CommandOutcomes(ctx) :
        /\ ctx' = KeptOnFailure(outcome)
        /\ wait' = [wait EXCEPT ![t] = ttl * TicksPerSecond]
    /\ Goto(t, IF got[t] <= Limit THEN "allowed" ELSE "denied")
    /\ UNCHANGED <<up, count, ttl, got, shut, slipped, recent>>

(* TTL, unlock, the headers.  A TTL that is not positive (no key, no       *)
(* expiry, less than half a second) or not read counts as a whole window.  *)
Ttl(t) ==
    /\ pc[t] = "ttl"
    /\ \E outcome \in CommandOutcomes(ctx) :
        /\ ctx' = KeptOnFailure(outcome)
        /\ wait' = [wait EXCEPT ![t] =
                        IF outcome = "ok" /\ Rounded(ttl) > 0
                        THEN Rounded(ttl) * TicksPerSecond ELSE WindowTicks]
    /\ Goto(t, IF got[t] <= Limit THEN "allowed" ELSE "denied")
    /\ recent' = IF got[t] \in 1 .. Limit THEN Append(recent, 0) ELSE recent
    /\ UNCHANGED <<up, count, ttl, got, shut, slipped>>

(* The answer is sent; fail-open ("open") answers say nothing of the key.  *)
Respond(t) ==
    /\ pc[t] \in {"allowed", "denied", "open"}
    /\ Goto(t, "idle")
    /\ got' = [got EXCEPT ![t] = 0]
    /\ wait' = [wait EXCEPT ![t] = 0]
    /\ shut' = shut \ {t}
    /\ UNCHANGED <<up, ctx, count, ttl, slipped, recent>>

-----------------------------------------------------------------------------

(* Ages grow, oldest first, and who comes to a window's length is past.    *)
GrowOld ==
    \E n \in 0 .. Len(recent) :
        /\ \A i \in DOMAIN recent : recent[i] = WindowTicks - 1 <=> i <= n
        /\ recent' = [i \in 1 .. Len(recent) - n |-> recent[i + n] + 1]

(* One tick of time: TTL, reset times and ages move on.                    *)
Tick ==
    /\ IF ttl = 1 THEN KeyGone
       ELSE ttl' = (IF ttl = 0 THEN 0 ELSE ttl - 1) /\ UNCHANGED <<count, shut, slipped>>
    /\ wait' = [t \in Tasks |-> IF wait[t] = 0 THEN 0 ELSE wait[t] - 1]
    /\ GrowOld
    /\ UNCHANGED <<up, ctx, pc, got>>

(* Redis stops.  What its RDB file holds of the key is this window's count *)
(* at some earlier time, between INCR and EXPIRE even, or no key.          *)
RedisStop ==
    /\ ServerDown
    /\ \/ KeyGone
       \/ /\ count' \in 1 .. count
          /\ ttl' = ttl \/ (count' = 1 /\ ttl' = 0)
          /\ slipped' = (slipped \/ ttl' = 0)
          /\ UNCHANGED shut
    /\ recent' = <<>>
    /\ UNCHANGED <<pc, got, wait>>

RedisStart == ServerUp /\ UNCHANGED limiterVars

RedisLinkDrop == LinkDrop /\ UNCHANGED limiterVars

(* The process dies with its requests and is started again (docker-compose *)
(* restart: on-failure); what they did in Redis stays.                     *)
ServiceRestart ==
    /\ ServiceFaults
    /\ ctx' = IF up THEN "live" ELSE "null"
    /\ pc' = [t \in Tasks |-> "idle"]
    /\ got' = [t \in Tasks |-> 0]
    /\ wait' = [t \in Tasks |-> 0]
    /\ shut' = {}
    /\ slipped' = (slipped \/ (count > 0 /\ \E t \in Tasks : pc[t] = "expire"))
    /\ UNCHANGED <<up, count, ttl, recent>>

Handle(t) == Incr(t) \/ Expire(t) \/ Ttl(t) \/ Respond(t)

Next ==
    \/ \E t \in Tasks : Arrive(t) \/ Handle(t)
    \/ Tick
    \/ RedisStop \/ RedisStart \/ RedisLinkDrop \/ ServiceRestart

Spec == Init /\ [][Next]_vars

(* Time passes, and a command to Redis comes back: a task that holds the   *)
(* mutex goes on.                                                          *)
FairSpec ==
    /\ Spec
    /\ WF_vars(Tick)
    /\ \A t \in Tasks : WF_vars(Handle(t))

-----------------------------------------------------------------------------
(* Properties.                                                             *)

TypeOK ==
    /\ ConnectionTypeOK
    /\ count \in 0 .. MaxCount
    /\ ttl \in 0 .. WindowTicks
    /\ pc \in [Tasks -> {"idle", "incr", "expire", "ttl", "allowed", "denied", "open"}]
    /\ got \in [Tasks -> 0 .. MaxCount]
    /\ wait \in [Tasks -> 0 .. WindowTicks + TicksPerSecond]
    /\ shut \subseteq Tasks
    /\ slipped \in BOOLEAN
    /\ recent \in Seq(Ages)

(* The counter has a TTL, and ends with its window                         *)
(* (performance_design.md:137), unless the request that made it is on its  *)
(* way to the EXPIRE, with the mutex held, or failed on that way: no other *)
(* failure, however timed, takes it its TTL.                               *)
CounterExpires ==
    count > 0 /\ ttl = 0 /\ ~slipped =>
        \E t \in Holders : pc[t] = "expire" /\ got[t] = 1

(* However the requests and the window borders fall, of those that Redis   *)
(* told their count at most twice the limit are let in during any stretch  *)
(* of one window's length (performance_design.md:150), as long as it runs. *)
(* Those let in because INCR gave no reply (redis_cache.cpp:108-119) are   *)
(* not among them, and nothing bounds them.                                *)
TwiceTheLimitAtMost == Len(recent) <= 2 * Limit

(* The window is a fixed one (performance_design.md:128): from the EXPIRE  *)
(* on its TTL only runs down and its count only grows, until both end at   *)
(* once; whatever requests come and fail, none prolongs the window or      *)
(* starts its count again, and only a stop of Redis sets either back.      *)
WindowIsFixed ==
    [][ttl > 0 => \/ ttl' \in {ttl - 1, ttl} \ {0} /\ count' >= count
                  \/ ttl' = 0 /\ count' = 0
                  \/ ttl' <= ttl /\ count' <= count /\ ~up']_vars

(* X-RateLimit-Reset is enough (performance_design.md:168): a refused      *)
(* client that waits as long, and half a second for the rounding of TTL,   *)
(* finds the window over that refused it.                                  *)
ResetIsEnough ==
    \A t \in Tasks :
        pc[t] = "denied" /\ t \in shut => ttl \in 1 .. wait[t] + TicksPerSecond \div 2

(* So it is, whatever fails, but for a counter that lost its TTL; and even *)
(* then the reset time understates no TTL (redis_cache.cpp:128-136).       *)
ResetCoversTtl ==
    /\ ~slipped => ResetIsEnough
    /\ \A t \in Tasks :
        pc[t] = "denied" /\ t \in shut => ttl <= wait[t] + TicksPerSecond \div 2

(* A window in which requests are refused always comes to an end, however  *)
(* the requests keep coming and Redis fails, but for a counter that lost   *)
(* its TTL.                                                                *)
WindowEnds == (count > Limit) ~> (count = 0 \/ slipped)
=============================================================================
