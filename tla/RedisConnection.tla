------------------------- MODULE RedisConnection -------------------------
(***************************************************************************)
(* The hiredis connection of one RedisCache component (lab5,               *)
(* src/shared/redis_cache.cpp) and the reachability of the Redis server.   *)
(* A service process owns one RedisCache, hence one context ctx_, shared   *)
(* by all its request coroutines under mutex_.  What the server stores is  *)
(* left to the modules that extend this one.                               *)
(***************************************************************************)

CONSTANT RedisFaults    \* may Redis stop, drop connections, refuse commands?

ASSUME RedisFaultsAssumption == RedisFaults \in BOOLEAN

VARIABLES
    up,     \* the server accepts connections
    ctx     \* ctx_, see CtxStates

(* "null"    ctx_ is nullptr                                               *)
(* "live"    connected, and the server still has the connection            *)
(* "broken"  the connection is gone but hiredis has not noticed:           *)
(*           ctx_->err is 0, so EnsureConnected keeps it                   *)
(* "err"     ctx_->err is set and ctx_ was not freed                       *)
CtxStates == {"null", "live", "broken", "err"}

ConnectionTypeOK ==
    /\ up \in BOOLEAN
    /\ ctx \in CtxStates

(* EnsureConnected: a context without an error is kept as it is, any other *)
(* is replaced by a new connection if one can be made.                     *)
EnsureConnected ==
    IF ctx \in {"live", "broken"} THEN ctx
    ELSE IF up THEN "live" ELSE "null"

(* What redisCommand can come back with on context c.                      *)
(*   "ok"       executed, the reply arrives                                *)
(*   "lost"     executed, the connection dies before the reply (NULL)      *)
(*   "refused"  an error reply (-LOADING, -MISCONF, -OOM): not executed    *)
(*   "failed"   not executed, NULL                                         *)
(*   "skipped"  there is no context: the caller sends nothing              *)
CommandOutcomes(c) ==
    CASE c = "live" -> IF RedisFaults THEN {"ok", "lost", "refused"} ELSE {"ok"}
      [] c = "null" -> {"skipped"}
      [] OTHER      -> {"failed"}

Executed(outcome) == outcome \in {"ok", "lost"}

(* Get, Set, Del and the INCR of CheckRateLimit free the context when the  *)
(* reply is NULL.                                                          *)
FreedUnlessReply(outcome) ==
    IF outcome \in {"ok", "refused"} THEN "live" ELSE "null"

-----------------------------------------------------------------------------

(* The constructor calls EnsureConnected on a null context.                *)
ConnectionInit ==
    /\ up \in {TRUE, ~RedisFaults}
    /\ ctx = IF up THEN "live" ELSE "null"

(* The connection is cut (idle timeout, network) while the server runs on. *)
LinkDrop ==
    /\ RedisFaults
    /\ ctx = "live"
    /\ ctx' = "broken"
    /\ UNCHANGED up

ServerDown ==
    /\ RedisFaults
    /\ up
    /\ up' = FALSE
    /\ ctx' = IF ctx = "live" THEN "broken" ELSE ctx

ServerUp ==
    /\ ~up
    /\ up' = TRUE
    /\ UNCHANGED ctx
=============================================================================
