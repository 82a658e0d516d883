----------------------------- MODULE FetcherPools -----------------------------
(***************************************************************************)
(* The pools of crawler/fetcher/pool.go, which share no state.             *)
(* ProxyPool: requests take a proxy and report how it did, the health      *)
(* check sets every proxy alive or not, proxies are added and removed.     *)
(* What a request reports is counted under a read lock only, and the check *)
(* writes without one. UserAgentPool: the user agents and their weights    *)
(* are two slices that belong together by their indexes, when they are of  *)
(* one length; Add leaves the weight out when it is not positive.          *)
(***************************************************************************)
EXTENDS Integers, Sequences, FiniteSets, Functions

CONSTANTS
  ProxyURLs,
  Requesters,
  Strategies,
  FailureLimit,  \* FailureCount above which a proxy may be disabled (10)
  MaxReportsOf,  \* bound on the reports of each proxy
  MaxIndex,      \* the greatest int32
  MaxEditions,   \* bound on calls of Add and Remove
  Agents,
  Configured,     \* those of the configuration, or the defaults
  Mobile,         \* those with a mobile's keyword
  Weights,        \* weights callers give, 0 for none
  AgentStrategies,
  MaxAgents,      \* bound on the agents of the pool
  MaxAgentIndex   \* the greatest int32

VARIABLES
  strategy,
  pool,       \* p.proxies
  alive, good, bad,  \* Alive, SuccessCount, FailureCount
  current,    \* index of the rotation, an int32
  poolPanic,  \* has an index out of range ended the program?
  asks,       \* where each requester is
  using,      \* the proxy it has
  round,      \* proxies the check under way has not judged
  checkLoop,  \* "on", "off"
  poolClosed,
  edits,
  revived,    \* proxies a check has set alive since their last failure was judged
  userAgents, weights,
  uaStrategy,
  uaCurrent,   \* index of the rotation, an int32
  ownWeight,   \* weight each agent was last added with
  unweighted,  \* has an agent been added without a weight?
  uaChosen,    \* what the last call returned
  uaPanic

proxyVars == <<strategy, pool, alive, good, bad, current, poolPanic, asks, using, round,
               checkLoop, poolClosed, edits, revived>>
counts == <<good, bad>>
use == <<asks, using>>
health == <<alive, revived>>
checker == <<round, checkLoop, poolClosed>>

NoURL == "none"

\* The members of a set in some order; append(s[:i], s[i+1:]...), counting from 1. (SetToSeq
\* and RemoveAt of SequencesExt, which would bring its bags and folds into every proof.)
Listing(S) == CHOOSE s \in [1 .. Cardinality(S) -> S] : IsInjective(s)
Without(s, i) == SubSeq(s, 1, i - 1) \o SubSeq(s, i + 1, Len(s))

\* No proxy is alive before its first check.
ProxyInit ==
  /\ strategy \in Strategies
  /\ pool = Listing(ProxyURLs)
  /\ alive = {}
  /\ good = [p \in ProxyURLs |-> 0] /\ bad = [p \in ProxyURLs |-> 0]
  /\ current = 0 /\ poolPanic = FALSE
  /\ asks = [r \in Requesters |-> "idle"] /\ using = [r \in Requesters |-> NoURL]
  /\ round = ProxyURLs /\ checkLoop = "on" /\ poolClosed = FALSE
  /\ edits = 0 /\ revived = {}

-----------------------------------------------------------------------------
(* Selection among the proxies that are alive, in the order of the pool.   *)

\* The places in the pool of the proxies that are alive; how many come before a place.
Usable == {i \in DOMAIN pool : pool[i] \in alive}
Rank(i) == Cardinality({j \in Usable : j < i})

\* The first of the least used.
Usage(p) == good[p] + bad[p]
LessUsed(i, j) == \/ Usage(pool[i]) < Usage(pool[j])
                  \/ Usage(pool[i]) = Usage(pool[j]) /\ i <= j
LeastUsed == {i \in Usable : \A j \in Usable : LessUsed(i, j)}
\* Random, by success rate: 0.5 for a new one. All may be chosen when no rate is
\* positive: the cumulative sum is 0, as the random number is, and the first is taken.
HasWeight(p) == Usage(p) = 0 \/ good[p] > 0
Weighted == IF \E i \in Usable : HasWeight(pool[i])
            THEN {i \in Usable : HasWeight(pool[i])} ELSE {i \in Usable : Rank(i) = 0}
NextIndex == IF current = MaxIndex THEN -MaxIndex - 1 ELSE current + 1
\* The latencies are not kept: any proxy may be the fastest.
Candidates == CASE strategy \in {"random", "best_latency"} -> Usable
                [] strategy = "least_used"  -> LeastUsed
                [] strategy = "weighted"    -> Weighted
                [] strategy = "round_robin" ->
                     {i \in Usable : Rank(i) = NextIndex % Cardinality(Usable)}

\* In Go the remainder of a negative index is negative or 0.
OutOfRange == strategy = "round_robin" /\ NextIndex < 0 /\ (-NextIndex) % Cardinality(Usable) # 0
Get(r) ==
  /\ asks[r] = "idle" /\ Usable # {}
  /\ IF OutOfRange THEN poolPanic' = TRUE /\ UNCHANGED use
     ELSE /\ \E i \in Candidates : using' = [using EXCEPT ![r] = pool[i]]
          /\ asks' = [asks EXCEPT ![r] = "using"] /\ UNCHANGED poolPanic
  /\ current' = (IF strategy = "round_robin" THEN NextIndex ELSE current)
  /\ UNCHANGED <<strategy, pool, health, counts, checker, edits>>

-----------------------------------------------------------------------------
(* Reports. A proxy that was removed meanwhile is not counted.             *)

Known(r) == \E i \in DOMAIN pool : pool[i] = using[r]
Done(r) == asks' = [asks EXCEPT ![r] = "idle"] /\ using' = [using EXCEPT ![r] = NoURL]

MarkSuccess(r) ==
  /\ asks[r] = "using" /\ Usage(using[r]) < MaxReportsOf
  /\ good' = (IF Known(r) THEN [good EXCEPT ![using[r]] = @ + 1] ELSE good)
  /\ Done(r)
  /\ UNCHANGED <<strategy, pool, health, bad, current, poolPanic, checker, edits>>

CountFailure(r) ==
  /\ asks[r] = "using" /\ Usage(using[r]) < MaxReportsOf
  /\ IF Known(r) THEN /\ bad' = [bad EXCEPT ![using[r]] = @ + 1]
                      /\ asks' = [asks EXCEPT ![r] = "judging"] /\ UNCHANGED using
                 ELSE Done(r) /\ UNCHANGED bad
  /\ UNCHANGED <<strategy, pool, health, good, current, poolPanic, checker, edits>>

OneMore(p) == bad[p] > FailureLimit + 1 /\ good[p] < bad[p] \div 2  \* bug: off by one
TooOften(p) == bad[p] > FailureLimit /\ good[p] < bad[p] \div 2
JudgeFailure(r) ==
  LET p == using[r]
  IN  /\ asks[r] = "judging"
      /\ alive' = (IF TooOften(p) THEN alive \ {p} ELSE alive)
      /\ revived' = revived \ {p}
      /\ Done(r)
      /\ UNCHANGED <<strategy, pool, counts, current, poolPanic, checker, edits>>

-----------------------------------------------------------------------------
(* The health check, and changes of the pool.                              *)

\* checkAll takes a copy of the pool; each proxy of it is checked by a goroutine.
StartRound ==
  /\ checkLoop = "on" /\ round = {}
  /\ round' = Range(pool)
  /\ UNCHANGED <<strategy, pool, health, counts, current, poolPanic, use, checkLoop, poolClosed, edits>>

CheckEnds(p, ok) ==
  /\ p \in round
  /\ round' = round \ {p}
  /\ alive' = (IF ok THEN alive \union {p} ELSE alive \ {p})
  /\ revived' = (IF ok THEN revived \union {p} ELSE revived \ {p})
  /\ UNCHANGED <<strategy, pool, counts, current, poolPanic, use, checkLoop, poolClosed, edits>>

\* The loop waits for the round to end, and sees the closed channel then.
LoopEnds ==
  /\ checkLoop = "on" /\ poolClosed /\ round = {}
  /\ checkLoop' = "off"
  /\ UNCHANGED <<strategy, pool, health, counts, current, poolPanic, use, round, poolClosed, edits>>

Close ==
  /\ ~poolClosed
  /\ poolClosed' = TRUE
  /\ UNCHANGED <<strategy, pool, health, counts, current, poolPanic, use, round, checkLoop, edits>>

IndexOf(s, a) == CHOOSE i \in DOMAIN s : s[i] = a   \* those of a pool differ
\* The write lock excludes a report under way.
Locks == \A r \in Requesters : asks[r] # "judging"
RemoveProxy(p) ==
  /\ Locks /\ edits < MaxEditions /\ \E i \in DOMAIN pool : pool[i] = p
  /\ pool' = Without(pool, IndexOf(pool, p))
  /\ edits' = edits + 1
  /\ UNCHANGED <<strategy, health, counts, current, poolPanic, use, checker>>

\* Add makes no check, and a caller may add a proxy it has removed.
AddProxy(p) ==
  /\ Locks /\ edits < MaxEditions /\ \A i \in DOMAIN pool : pool[i] # p
  /\ pool' = Append(pool, p)
  /\ edits' = edits + 1
  /\ UNCHANGED <<strategy, health, counts, current, poolPanic, use, checker>>

-----------------------------------------------------------------------------
Request(r) == Get(r) \/ MarkSuccess(r) \/ CountFailure(r) \/ JudgeFailure(r)
ProxyNext == ~poolPanic /\ (
        \/ \E r \in Requesters : Request(r)
        \/ StartRound \/ LoopEnds \/ Close
        \/ \E p \in ProxyURLs : \/ RemoveProxy(p) \/ AddProxy(p)
                                \/ \E ok \in BOOLEAN : CheckEnds(p, ok))

-----------------------------------------------------------------------------
(* User agents.                                                            *)

agentVars == <<userAgents, weights, uaStrategy, uaCurrent, ownWeight, unweighted, uaChosen,
               uaPanic>>

NoAgent == "none"

\* What is configured, with a weight for each or without weights; the defaults of
\* NewUserAgentPool have none.
AgentsInit ==
  /\ userAgents = Listing(Configured)
  /\ \/ weights = <<>> /\ ownWeight = [a \in Agents |-> 0] /\ unweighted = TRUE
     \/ /\ weights \in [DOMAIN userAgents -> Weights \ {0}] /\ unweighted = FALSE
        /\ ownWeight = [a \in Agents |-> IF a \in Configured THEN weights[IndexOf(userAgents, a)]
                                         ELSE 0]
  /\ uaStrategy \in AgentStrategies /\ uaCurrent = 0
  /\ uaChosen = NoAgent /\ uaPanic = FALSE

Add(a, w) ==
  /\ Len(userAgents) < MaxAgents /\ a \notin Range(userAgents)
  /\ userAgents' = Append(userAgents, a)
  /\ weights' = (IF w > 0 THEN Append(weights, w) ELSE weights)
  /\ ownWeight' = [ownWeight EXCEPT ![a] = w] /\ unweighted' = (unweighted \/ w = 0)
  /\ UNCHANGED <<uaStrategy, uaCurrent, uaChosen, uaPanic>>

\* The weight at the agent's index goes too, whether it was the agent's or not.
DropsLast(i) == IF weights = <<>> THEN weights ELSE Without(weights, Len(weights))   \* bug: the last goes
DropsWeight(i) == IF Len(weights) >= i THEN Without(weights, i) ELSE weights
RemoveAgent(a) ==
  /\ a \in Range(userAgents)
  /\ LET i == IndexOf(userAgents, a)
     IN  userAgents' = Without(userAgents, i) /\ weights' = DropsWeight(i)
  /\ UNCHANGED <<uaStrategy, uaCurrent, ownWeight, unweighted, uaChosen, uaPanic>>

-----------------------------------------------------------------------------
(* Get of a user agent.                                                    *)

NextAgent == IF uaCurrent = MaxAgentIndex THEN -MaxAgentIndex - 1 ELSE uaCurrent + 1
\* In Go the remainder of a negative index is negative or 0.
BadIndex == NextAgent < 0 /\ (-NextAgent) % Len(userAgents) # 0
Choose(S) == /\ \E a \in S : uaChosen' = a
             /\ UNCHANGED <<userAgents, weights, uaStrategy, ownWeight, unweighted>>

GetRoundRobin ==
  /\ uaStrategy = "round_robin" /\ userAgents # <<>>
  /\ uaCurrent' = NextAgent /\ uaPanic' = BadIndex
  /\ Choose(IF BadIndex THEN {NoAgent} ELSE {userAgents[(NextAgent % Len(userAgents)) + 1]})

\* An agent is chosen by the weight at its index, or at random when the slices differ.
GetOther ==
  /\ uaStrategy # "round_robin" /\ userAgents # <<>>
  /\ Choose(Range(userAgents)) /\ UNCHANGED <<uaCurrent, uaPanic>>

\* GetDesktop and GetMobile.
GetKind(mobile) ==
  /\ LET kind == {a \in Range(userAgents) : a \in Mobile <=> mobile}
     IN  Choose(IF kind = {} THEN {NoAgent} ELSE kind)
  /\ UNCHANGED <<uaCurrent, uaPanic>>

AgentsNext == ~uaPanic /\ (
        \/ GetRoundRobin \/ GetOther \/ \E mobile \in BOOLEAN : GetKind(mobile)
        \/ \E a \in Agents : RemoveAgent(a) \/ \E w \in Weights : Add(a, w))

-----------------------------------------------------------------------------
(* Properties.                                                             *)

ProxyTypeOK ==
  /\ strategy \in Strategies /\ pool \in Seq(ProxyURLs)
  /\ alive \subseteq ProxyURLs /\ revived \subseteq alive /\ round \subseteq ProxyURLs
  /\ \A p \in ProxyURLs : good[p] >= 0 /\ bad[p] >= 0 /\ Usage(p) <= MaxReportsOf
  /\ current \in (-MaxIndex - 1)..MaxIndex /\ poolPanic \in BOOLEAN /\ edits \in 0..MaxEditions
  /\ asks \in [Requesters -> {"idle", "using", "judging"}]
  /\ using \in [Requesters -> ProxyURLs \union {NoURL}]
  /\ checkLoop \in {"on", "off"} /\ poolClosed \in BOOLEAN

\* Many requests report on one proxy at once, each counting and judging in two steps
\* (pool.go:208-223), while a check may set it alive again (pool.go:405-416): a proxy
\* that fails too often is not handed out, unless a failure is about to be judged or a
\* check has found it alive since the last one.
FailingNotUsed ==
  \A p \in alive : bad[p] > FailureLimit /\ good[p] < bad[p] \div 2 =>
     p \in revived \/ \E r \in Requesters : asks[r] = "judging" /\ using[r] = p

AgentsTypeOK ==
  /\ userAgents \in Seq(Agents) /\ weights \in Seq(Weights \ {0})
  /\ uaStrategy \in AgentStrategies
  /\ uaCurrent \in (-MaxAgentIndex - 1)..MaxAgentIndex
  /\ ownWeight \in [Agents -> Weights] /\ unweighted \in BOOLEAN
  /\ uaChosen \in Agents \union {NoAgent} /\ uaPanic \in BOOLEAN

\* Add and Remove keep two slices in step by index (pool.go:504-528): as long as every
\* agent was added with a weight, each is chosen with its own after any removals.
WeightsKept ==
  ~unweighted => /\ Len(weights) = Len(userAgents)
                 /\ \A i \in DOMAIN userAgents : weights[i] = ownWeight[userAgents[i]]
=============================================================================
