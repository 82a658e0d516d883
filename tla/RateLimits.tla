---------------------------- MODULE RateLimits ----------------------------
(***************************************************************************)
(* The rate limit middleware: requests of one client, served at the same   *)
(* time, share a window kept in Redis. A pipeline sends its commands in one *)
(* go, yet Redis may run those of another connection in between: each is a *)
(* step. Headers, paths to skip and the choice of the key are left out.    *)
(***************************************************************************)
EXTENDS Integers, FiniteSets

CONSTANTS
  Handlers,   \* requests that are served at the same time
  Limit,      \* RateLimitConfig.Limit
  Window,     \* RateLimitConfig.Window, in ticks of the clock
  MaxDelay,   \* ticks from a request's now to its last command, at most
  MaxClock, MaxRequests, MaxLimitFaults  \* bounds

VARIABLES
  window,     \* "sliding": checkRateLimit, "fixed": FixedWindowRateLimit
  clock,
  step,       \* Handler -> the next command of its request
  stamp,      \* Handler -> its now
  count,      \* Handler -> what Redis counted
  zset, zsetUntil,          \* the sorted set and when its key expires
  counter, counterUntil,    \* fixed window -> Incr'ed counter and when its key expires
  allowed,    \* stamps of the requests that were let through by the limit
  lapsed,     \* stamps of those whose key expired before their last command on it
  requests, limitFaults

limitVars == <<window, clock, step, stamp, count, zset, zsetUntil, counter, counterUntil,
               allowed, lapsed, requests, limitFaults>>
sorted == <<zset, zsetUntil>>
counters == <<counter, counterUntil>>

Never == MaxClock + Window + 1
Truncated(t) == t \div Window
Windows == 0 .. Truncated(MaxClock)

\* Redis drops a key whose time has come.
LiveSet == IF clock < zsetUntil THEN zset ELSE {}
LiveCounter(w) == IF clock < counterUntil[w] THEN counter[w] ELSE 0

Init ==
  /\ window \in {"sliding", "fixed"}
  /\ clock = 0
  /\ step = [h \in Handlers |-> "idle"]
  /\ stamp = [h \in Handlers |-> 0] /\ count = [h \in Handlers |-> 0]
  /\ zset = {} /\ zsetUntil = Never
  /\ counter = [w \in Windows |-> 0] /\ counterUntil = [w \in Windows |-> Never]
  /\ allowed = {} /\ lapsed = {} /\ requests = 0 /\ limitFaults = 0

\* The clock is read in nanoseconds: no two requests read the same time.
Arrives(h) ==
  /\ step[h] = "idle" /\ requests < MaxRequests
  /\ \A g \in Handlers : stamp[g] # clock
  /\ step' = [step EXCEPT ![h] = IF window = "sliding" THEN "zrem" ELSE "incr"]
  /\ stamp' = [stamp EXCEPT ![h] = clock]
  /\ count' = [count EXCEPT ![h] = 0]
  /\ requests' = requests + 1
  /\ UNCHANGED <<window, clock, sorted, counters, allowed, lapsed, limitFaults>>

ClockTicks ==
  /\ clock < MaxClock /\ clock' = clock + 1
  /\ \A h \in Handlers : step[h] \notin {"idle", "decide"} => clock < stamp[h] + MaxDelay
  /\ UNCHANGED <<window, step, stamp, count, sorted, counters, allowed, lapsed, requests,
                 limitFaults>>

\* A command on a key: the set it left behind. Redis removes a key with its last member, and
\* a new key has no expiry.
Stored(s) ==
  /\ zset' = s
  /\ zsetUntil' = IF s # {} /\ LiveSet # {} THEN zsetUntil ELSE Never

To(h, next) == step' = [step EXCEPT ![h] = next]

ZRemRangeByScore(h) ==
  /\ step[h] = "zrem" /\ To(h, "zcard")
  /\ Stored({s \in LiveSet : s > stamp[h] - Window})
  /\ UNCHANGED <<count, lapsed>>

ZCard(h) ==
  /\ step[h] = "zcard" /\ To(h, "zadd")
  /\ count' = [count EXCEPT ![h] = Cardinality(LiveSet)]
  /\ UNCHANGED <<sorted, lapsed>>

ZAdd(h) ==
  /\ step[h] = "zadd" /\ To(h, "expire")
  /\ Stored(LiveSet \cup {stamp[h]})
  /\ UNCHANGED <<count, lapsed>>

Expire(h) ==
  /\ step[h] = "expire" /\ To(h, "decide")
  /\ zset' = LiveSet
  /\ zsetUntil' = IF LiveSet = {} THEN Never ELSE clock + Window
  /\ lapsed' = IF stamp[h] \in LiveSet THEN lapsed ELSE lapsed \cup {stamp[h]}
  /\ UNCHANGED count

\* checkRateLimit: the attempt is kept in the set even when it is refused.
Sliding(h) ==
  /\ ZRemRangeByScore(h) \/ ZCard(h) \/ ZAdd(h) \/ Expire(h)
  /\ UNCHANGED <<window, clock, stamp, counters, allowed, requests, limitFaults>>

Incr(h) ==
  LET w == Truncated(stamp[h]) IN
  /\ step[h] = "incr"
  /\ count' = [count EXCEPT ![h] = LiveCounter(w) + 1]
  /\ counter' = [counter EXCEPT ![w] = LiveCounter(w) + 1]
  /\ counterUntil' = [counterUntil EXCEPT ![w] = IF clock < @ THEN @ ELSE Never]
  /\ To(h, IF LiveCounter(w) = 0 THEN "expireCounter" ELSE "decide")
  /\ lapsed' = IF Truncated(clock) = w THEN lapsed ELSE lapsed \cup {stamp[h]}
  /\ UNCHANGED limitFaults

\* The error of this Expire is ignored.
ExpireCounter(h) ==
  LET w == Truncated(stamp[h]) IN
  /\ step[h] = "expireCounter" /\ To(h, "decide")
  /\ \/ /\ counterUntil' = [counterUntil EXCEPT ![w] = clock + Window]
        /\ UNCHANGED limitFaults
     \/ /\ limitFaults < MaxLimitFaults /\ limitFaults' = limitFaults + 1
        /\ UNCHANGED counterUntil
  /\ UNCHANGED <<counter, count, lapsed>>

Fixed(h) ==
  /\ Incr(h) \/ ExpireCounter(h)
  /\ UNCHANGED <<window, clock, stamp, sorted, allowed, requests>>

\* A bug: the count that leaves the request out is compared like the one that does not.
OneMore(h) == count[h] <= Limit

\* What the limit allows: the sliding count leaves this request out, the fixed one does not.
IsAllowed(h) == IF window = "sliding" THEN count[h] < Limit ELSE count[h] <= Limit

Decide(h) ==
  /\ step[h] = "decide" /\ To(h, "idle")
  /\ allowed' = IF IsAllowed(h) THEN allowed \cup {stamp[h]} ELSE allowed
  /\ UNCHANGED <<window, clock, stamp, count, sorted, counters, lapsed, requests, limitFaults>>

\* An error of Redis lets the request through unseen by the limit, whatever was stored.
RedisFails(h) ==
  /\ step[h] \in {"zrem", "zcard", "zadd", "expire", "incr"} /\ limitFaults < MaxLimitFaults
  /\ limitFaults' = limitFaults + 1 /\ To(h, "idle")
  /\ UNCHANGED <<window, clock, stamp, count, sorted, counters, allowed, lapsed, requests>>

\* GetRateLimitStatus removes what has expired, too.
GetRateLimitStatus ==
  /\ window = "sliding"
  /\ Stored({s \in LiveSet : s > clock - Window}) /\ LiveSet # zset'
  /\ UNCHANGED <<window, clock, step, stamp, count, counters, allowed, lapsed, requests,
                 limitFaults>>

Next ==
  \/ ClockTicks
  \/ GetRateLimitStatus
  \/ \E h \in Handlers : Arrives(h) \/ Sliding(h) \/ Fixed(h) \/ Decide(h) \/ RedisFails(h)

Spec == Init /\ [][Next]_limitVars

-----------------------------------------------------------------------------
\* The type of the state.
LimitTypeOK ==
  /\ window \in {"sliding", "fixed"} /\ clock \in 0 .. MaxClock
  /\ step \in [Handlers -> {"idle", "zrem", "zcard", "zadd", "expire", "incr",
                            "expireCounter", "decide"}]
  /\ stamp \in [Handlers -> 0 .. MaxClock] /\ count \in [Handlers -> 0 .. MaxRequests]
  /\ zset \subseteq 0 .. MaxClock /\ zsetUntil \in 0 .. Never
  /\ counter \in [Windows -> 0 .. MaxRequests] /\ counterUntil \in [Windows -> 0 .. Never]
  /\ allowed \subseteq 0 .. MaxClock /\ lapsed \subseteq 0 .. MaxClock
  /\ requests \in 0 .. MaxRequests /\ limitFaults \in 0 .. MaxLimitFaults

\* The requests let through that arrived within one window, less the time the commands may
\* take. Those whose key stayed are no more than the limit, and with checkRateLimit the other
\* requests served at the same time, as it counts before it adds (ratelimit.go:126-135); those
\* whose key expired meanwhile, so that the next count began anew, no more than are served at
\* the same time.
Within(t) == IF window = "sliding" THEN {s \in allowed : t - Window + MaxDelay < s /\ s <= t}
             ELSE {s \in allowed : Truncated(s) = Truncated(t)}
Most == IF window = "sliding" THEN Limit + Cardinality(Handlers) - 1 ELSE Limit
WindowHolds ==
  \A t \in allowed : /\ Cardinality(Within(t) \ lapsed) <= Most
                     /\ Cardinality(Within(t) \intersect lapsed) <= Cardinality(Handlers)

=============================================================================
