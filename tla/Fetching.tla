----------------------------- MODULE Fetching -----------------------------
(***************************************************************************)
(* A batch of requests through the fetcher's chain of middlewares: rate    *)
(* limiter, cache, metrics, retry, then the circuit breaker and the        *)
(* throttle a caller adds, then the client with a pool of proxies that     *)
(* come and go. The requests run in goroutines and share all of it.        *)
(* Headers, cookies, user agents, fingerprints and logging are left out.   *)
(***************************************************************************)
EXTENDS Integers, FiniteSets

CONSTANTS
  Fetches,            \* requests of a batch, for one page
  Proxies,
  MaxConnsPerHost,    \* slots of the batch
  MaxConcurrent,      \* slots of the throttle
  Retries,            \* of the retry middleware
  FailureThreshold, SuccessThreshold,  \* of the circuit breaker
  MaxCancels                           \* bound

VARIABLES
  fetchAt,      \* Fetch -> where its goroutine is
  tried,        \* Fetch -> attempts made
  answer,       \* Fetch -> what the last attempt or the cache gave
  cancelled,    \* Fetch -> is its context done?
  cache,        \* is there an answer in the cache that has not expired?
  breaker, failures, successes,
  cooled,       \* has the breaker's timeout passed since the last failure?
  alive,        \* proxies that the pool may choose
  clientProxy,  \* the proxy of the one client
  stats,        \* requests that were counted: succeeded, failed
  cancels

fetchVars == <<fetchAt, tried, answer, cancelled, cache, breaker, failures, successes,
               cooled, alive, clientProxy, stats, cancels>>
circuit == <<breaker, failures, successes, cooled>>
proxyPool == <<alive, clientProxy>>

NoProxy == "none"
Good == {"ok", "notFound"}          \* no error and a status below 500
Bad == {"serverError", "error"}
Refused == "open"                   \* "circuit breaker is open"

Holding(f) == fetchAt[f] \notin {"new", "done"}
Inside(f) == fetchAt[f] \in {"proxy", "sent"}

Init ==
  /\ fetchAt = [f \in Fetches |-> "new"] /\ tried = [f \in Fetches |-> 0]
  /\ answer = [f \in Fetches |-> "none"] /\ cancelled = [f \in Fetches |-> FALSE]
  /\ cache = FALSE
  /\ breaker = "closed" /\ failures = 0 /\ successes = 0 /\ cooled = TRUE
  /\ alive = Proxies /\ clientProxy = NoProxy
  /\ stats = [ok |-> 0, failed |-> 0]
  /\ cancels = 0

To(f, where) == fetchAt' = [fetchAt EXCEPT ![f] = where]
Gets(f, what) == answer' = [answer EXCEPT ![f] = what]

-----------------------------------------------------------------------------
(* One request on its way in.                                              *)

\* ExecuteBatch: a slot of the semaphore.
TakeConnection(f) ==
  /\ fetchAt[f] = "new"
  /\ Cardinality({g \in Fetches : Holding(g)}) < MaxConnsPerHost
  /\ To(f, "limiter")
  /\ UNCHANGED <<tried, answer, cancelled, cache, circuit, proxyPool, stats, cancels>>

\* Wait gives a token in time, or the context ends.
RateLimit(f) ==
  /\ fetchAt[f] = "limiter"
  /\ \/ ~cancelled[f] /\ To(f, "cache") /\ UNCHANGED answer
     \/ cancelled[f] /\ To(f, "finish") /\ Gets(f, "error")
  /\ UNCHANGED <<tried, cancelled, cache, circuit, proxyPool, stats, cancels>>

\* CacheMiddleware.Process
LookUp(f) ==
  /\ fetchAt[f] = "cache"
  /\ IF cache THEN To(f, "finish") /\ Gets(f, "ok")
     ELSE To(f, "breaker") /\ UNCHANGED answer
  /\ UNCHANGED <<tried, cancelled, cache, circuit, proxyPool, stats, cancels>>

\* The state is read under one lock and changed under another.
PassBreaker(f) ==
  /\ fetchAt[f] = "breaker"
  /\ tried' = [tried EXCEPT ![f] = @ + 1]
  /\ CASE breaker = "open" /\ ~cooled -> To(f, "retry") /\ Gets(f, Refused)
       [] breaker = "open" /\ cooled -> To(f, "halfOpen") /\ UNCHANGED answer
       [] OTHER -> To(f, "throttle") /\ UNCHANGED answer
  /\ UNCHANGED <<cancelled, cache, circuit, proxyPool, stats, cancels>>

HalfOpen(f) ==
  /\ fetchAt[f] = "halfOpen" /\ To(f, "throttle")
  /\ breaker' = "halfOpen" /\ successes' = 0
  /\ UNCHANGED <<tried, answer, cancelled, cache, failures, cooled, proxyPool, stats,
                 cancels>>

KeepsSlot == Cardinality({g \in Fetches : Inside(g) \/ answer[g] \in Bad}) >= MaxConcurrent  \* bug
Throttled == Cardinality({g \in Fetches : Inside(g)}) >= MaxConcurrent

Throttle(f) ==
  /\ fetchAt[f] = "throttle"
  /\ \/ ~Throttled /\ To(f, "proxy") /\ UNCHANGED answer
     \/ cancelled[f] /\ To(f, "update") /\ Gets(f, "error")
  /\ UNCHANGED <<tried, cancelled, cache, circuit, proxyPool, stats, cancels>>

\* Get and SetProxy: the client of all requests is changed, and kept if no proxy is alive.
SetProxy(f) ==
  /\ fetchAt[f] = "proxy" /\ To(f, "sent")
  /\ IF alive = {} THEN UNCHANGED clientProxy ELSE \E p \in alive : clientProxy' = p
  /\ UNCHANGED <<tried, answer, cancelled, cache, circuit, alive, stats, cancels>>

\* The answer, an error of the network, a proxy that is down, the client's timeout or the end
\* of the context.
Answered(f) ==
  /\ fetchAt[f] = "sent" /\ To(f, "update")
  /\ \E a \in Good \cup Bad :
       /\ cancelled[f] \/ (clientProxy # NoProxy /\ clientProxy \notin alive) => a = "error"
       /\ Gets(f, a)
  /\ UNCHANGED <<tried, cancelled, cache, circuit, proxyPool, stats, cancels>>

-----------------------------------------------------------------------------
(* And on its way back.                                                    *)

\* CircuitBreakerMiddleware after next.
UpdateCircuit(f) ==
  /\ fetchAt[f] = "update" /\ To(f, "retry")
  /\ IF answer[f] \in Bad
     THEN /\ failures' = IF failures < FailureThreshold THEN failures + 1 ELSE failures
          /\ successes' = 0 /\ cooled' = FALSE
          /\ breaker' = IF failures + 1 >= FailureThreshold THEN "open" ELSE breaker
     ELSE /\ successes' = IF successes < SuccessThreshold THEN successes + 1 ELSE successes
          /\ failures' = 0 /\ UNCHANGED cooled
          /\ breaker' = IF breaker = "halfOpen" /\ successes + 1 >= SuccessThreshold
                        THEN "closed" ELSE breaker
  /\ UNCHANGED <<tried, answer, cancelled, cache, proxyPool, stats, cancels>>

\* RetryMiddleware: again after a wait, unless the context ends.
Retry(f) ==
  /\ fetchAt[f] = "retry"
  /\ \/ (answer[f] \in Good \/ tried[f] > Retries) /\ To(f, "finish") /\ UNCHANGED answer
     \/ /\ answer[f] \notin Good /\ tried[f] <= Retries
        /\ IF cancelled[f] THEN To(f, "finish") /\ Gets(f, "error")
           ELSE To(f, "breaker") /\ UNCHANGED answer
  /\ UNCHANGED <<tried, cancelled, cache, circuit, proxyPool, stats, cancels>>

\* The cache takes a 2xx answer, updateStats counts (a 5xx that is no error as a success), the
\* slot of the batch is free again.
Finish(f) ==
  /\ fetchAt[f] = "finish" /\ To(f, "done")
  /\ cache' = (cache \/ answer[f] = "ok")
  /\ stats' = IF answer[f] \in {"error", Refused} THEN [stats EXCEPT !.failed = @ + 1]
              ELSE [stats EXCEPT !.ok = @ + 1]
  /\ UNCHANGED <<tried, answer, cancelled, circuit, proxyPool, cancels>>

-----------------------------------------------------------------------------
(* What happens meanwhile.                                                 *)

\* The five minutes of a cached answer pass.
CacheExpires ==
  /\ cache /\ cache' = FALSE
  /\ UNCHANGED <<fetchAt, tried, answer, cancelled, circuit, proxyPool, stats, cancels>>

Cools ==
  /\ ~cooled /\ cooled' = TRUE
  /\ UNCHANGED <<fetchAt, tried, answer, cancelled, cache, breaker, failures, successes,
                 proxyPool, stats, cancels>>

Cancelled(f) ==
  /\ ~cancelled[f] /\ fetchAt[f] # "done"
  /\ cancels < MaxCancels /\ cancels' = cancels + 1
  /\ cancelled' = [cancelled EXCEPT ![f] = TRUE]
  /\ UNCHANGED <<fetchAt, tried, answer, cache, circuit, proxyPool, stats>>

\* checkAll and MarkFailure: a proxy comes back or is taken out.
ProxyChecked(p) ==
  /\ alive' = IF p \in alive THEN alive \ {p} ELSE alive \cup {p}
  /\ UNCHANGED <<fetchAt, tried, answer, cancelled, cache, circuit, clientProxy, stats,
                 cancels>>

Request(f) ==
  \/ TakeConnection(f) \/ RateLimit(f) \/ LookUp(f) \/ PassBreaker(f) \/ HalfOpen(f)
  \/ Throttle(f) \/ SetProxy(f) \/ Answered(f) \/ UpdateCircuit(f) \/ Retry(f) \/ Finish(f)

Next ==
  \/ \E f \in Fetches : Request(f) \/ Cancelled(f)
  \/ \E p \in Proxies : ProxyChecked(p)
  \/ CacheExpires \/ Cools

\* Goroutines run, the client has a timeout and waits end. A goroutine that waits for a slot
\* of a channel gets one some time, if there is one again and again (channels are queues).
Spec == Init /\ [][Next]_fetchVars /\ \A f \in Fetches : SF_fetchVars(Request(f))

-----------------------------------------------------------------------------
\* The type of the state.
FetchTypeOK ==
  /\ fetchAt \in [Fetches -> {"new", "limiter", "cache", "breaker", "halfOpen", "throttle",
                              "proxy", "sent", "update", "retry", "finish", "done"}]
  /\ tried \in [Fetches -> 0 .. Retries + 1]
  /\ answer \in [Fetches -> Good \cup Bad \cup {Refused, "none"}]
  /\ cancelled \in [Fetches -> BOOLEAN] /\ cache \in BOOLEAN
  /\ breaker \in {"closed", "open", "halfOpen"}
  /\ failures \in 0 .. FailureThreshold /\ successes \in 0 .. SuccessThreshold
  /\ cooled \in BOOLEAN /\ alive \subseteq Proxies /\ clientProxy \in Proxies \cup {NoProxy}
  /\ stats.ok + stats.failed \in 0 .. Cardinality(Fetches)
  /\ cancels \in 0 .. MaxCancels

\* ExecuteBatch returns: every request gets an answer or an error, whatever fails, is
\* cancelled or waits for the slots of the batch and of the throttle.
BatchEnds == <>(\A f \in Fetches : fetchAt[f] = "done" /\ answer[f] # "none")
=============================================================================
