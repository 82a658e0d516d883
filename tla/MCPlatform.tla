---------------------------- MODULE MCPlatform ----------------------------
(***************************************************************************)
(* The parts of the kit around the crawler and of its client programs,     *)
(* checked in one run like MCCluster: these components share no state       *)
(* either, and part says which one moves.                                  *)
(***************************************************************************)
EXTENDS Integers, Sequences, FiniteSets

CONSTANTS LogEntries, BufferSize, StoreBatch, StreamMax, MaxLogs, MaxLogFaults
CONSTANTS Clients, MaxCalls, MaxTokenFaults
CONSTANTS Handlers, Limit, Window, MaxDelay, MaxClock, MaxRequests, MaxLimitFaults
CONSTANTS Docs, Refreshes, MaxKeys, MaxScreenFaults
CONSTANTS Fetches, Proxies, MaxConnsPerHost, MaxConcurrent, Retries, FailureThreshold,
          SuccessThreshold, MaxCancels
CONSTANTS Bodies, MaxDials, MaxMqFaults
CONSTANTS ProxyURLs, Requesters, Strategies, FailureLimit, MaxReportsOf, MaxIndex, MaxEditions
CONSTANTS Agents, Configured, Mobile, Weights, AgentStrategies, MaxAgents, MaxAgentIndex
CONSTANTS Audited, Anonymous, RetentionDays, MaxTaking, MaxDay, MaxAuditFaults
CONSTANTS WebRequests, SentIDs
CONSTANTS Lines, MaxAge, MaxHalf, MaxFileFaults
CONSTANTS DbCallers, DbKinds, DbCalls, MaxDbCalls, MaxDbFaults
CONSTANTS NumServers, HttpRequests, ShutdownTime
CONSTANTS TableRows, Asked, DefaultPerPage, MaxPerPage, MaxTableChanges
CONSTANTS Nobody, LockModes, Second, Expiration, RefreshInterval, Slack, WorkBound, LockRetries

ASSUME LogBounds == /\ "none" \notin LogEntries /\ StreamMax \in Nat /\ MaxLogs \in Nat
                    /\ BufferSize \in Nat /\ StoreBatch \in Nat \ {0} /\ MaxLogFaults \in Nat
ASSUME AuditBounds == MaxDay \in Nat /\ RetentionDays \in Nat /\ MaxTaking \in Nat
  /\ MaxTaking < RetentionDays /\ MaxAuditFaults \in Nat
ASSUME FileBounds == MaxAge \in Nat /\ MaxHalf \in Nat /\ MaxFileFaults \in Nat
ASSUME ServerBounds == NumServers \in Nat \ {0} /\ ShutdownTime \in Nat
ASSUME PageBounds == /\ IsFiniteSet(TableRows) /\ Asked \subseteq Int
                     /\ DefaultPerPage \in Nat \ {0} /\ MaxPerPage \in Nat \ {0}
                     /\ MaxTableChanges \in Nat
\* The commands of a request take less than a window.
ASSUME RateBounds == /\ IsFiniteSet(Handlers) /\ Handlers # {} /\ Limit \in Nat
                     /\ Window \in Nat \ {0} /\ MaxDelay \in Nat /\ MaxDelay < Window
                     /\ MaxClock \in Nat /\ MaxRequests \in Nat /\ MaxLimitFaults \in Nat
ASSUME TokenBounds == MaxCalls \in Nat /\ MaxTokenFaults \in Nat
ASSUME ScreenBounds == IsFiniteSet(Docs) /\ Docs \subseteq Nat \ {0} /\ MaxKeys \in Nat
                       /\ MaxScreenFaults \in Nat
ASSUME FetchBounds == /\ IsFiniteSet(Fetches) /\ Retries \in Nat /\ FailureThreshold \in Nat
                      /\ SuccessThreshold \in Nat /\ MaxCancels \in Nat
ASSUME MqBounds == MaxDials \in Nat \ {0} /\ MaxMqFaults \in Nat
ASSUME ProxyBounds == /\ IsFiniteSet(ProxyURLs)
                      /\ "weighted" \in Strategies
                      /\ Strategies \subseteq {"random", "best_latency", "least_used", "weighted",
                                               "round_robin"}
                      /\ MaxReportsOf \in Nat /\ MaxIndex \in Nat /\ MaxEditions \in Nat
ASSUME AgentBounds == /\ Configured \subseteq Agents /\ IsFiniteSet(Configured)
                      /\ 0 \in Weights /\ Weights \subseteq Nat /\ MaxAgentIndex \in Nat
ASSUME DbBounds == /\ "none" \notin DbCallers /\ DbKinds \subseteq {"mysql", "redis", "mongodb"}
                   /\ DbCalls \subseteq {"Connect", "Disconnect", "HealthCheck", "Stats",
                                         "GetClient", "IncrementQueryCount"}
                   /\ MaxDbCalls \in Nat /\ MaxDbFaults \in Nat
ASSUME LockBounds == /\ Nobody \notin Clients /\ LockModes \subseteq {"plain", "refresh"}
                     /\ Second \in Nat \ {0} /\ Expiration \in Nat \ {0}
                     /\ RefreshInterval \in Nat /\ Slack \in Nat /\ WorkBound \in Nat
                     /\ LockRetries \in Nat

VARIABLES
  part,
  logged, fwdBuffer, publishing, fwdEnded, storeBuffer, storeBatch, storeClosed, written,
  logStream, pubsub, subscribed, loading, readLogs, logs, paused, excused, logFaults,
  todo, fresh, sent, oldMeta, holds, mainKey, metaKey, activeKey, deviceKey, made, calls, alone,
  given, tokenFaults,
  window, clock, step, stamp, count, zset, zsetUntil, counter, counterUntil, allowed, lapsed,
  requests, limitFaults,
  stored, isOn, page, named, buttons, docList, rows, listedOn, current, currentOn, shown, refresh,
  found, ran, stray, late, keys, screenFaults,
  fetchAt, tried, answer, cancelled, cache, breaker, failures, successes, cooled, alive,
  clientProxy, stats, cancels,
  rqConn, connUp, isConnected, watch, channels, shut, calling, seen, place, buffer, taken, loop,
  loopConn, left, did, mqFaults,
  strategy, pool, upProxies, good, bad, proxyIndex, poolPanic, asks, using, round, checkLoop,
  poolClosed, edits, revived,
  userAgents, weights, uaStrategy, uaCurrent, ownWeight, unweighted, uaChosen, uaPanic,
  today, auditAt, day, addedOn, kept, expiry, unexpired, auditFaults,
  webAt, idOf, tracked, mapBroken,
  half, files, there, fileOf, isOpen, currentDate, link, writer, line, began, wroteOn, toCheck,
  cutoffHalf, cleaned, closed, linkFailed, fileFaults,
  dbKind, dbCall, steps, readers, announced, inside, hasClient, connected, dbPanic, dbCallsMade,
  dbFaults,
  managed, process, toStart, serverAt, requestAt, toStop, timeLeft, failedStop,
  table, original, asking, handlerAt, countFirst, total, rowsSeen, removed, between, changes,
  owner, ttl, lockPc, lockMode, lockTries, refresher, since

logPart == <<logged, fwdBuffer, publishing, fwdEnded, storeBuffer, storeBatch, storeClosed,
  written, logStream, pubsub, subscribed, loading, readLogs, logs, paused, excused, logFaults>>
tokenPart == <<todo, fresh, sent, oldMeta, holds, mainKey, metaKey, activeKey, deviceKey, made,
  calls, alone, given, tokenFaults>>
limitPart == <<window, clock, step, stamp, count, zset, zsetUntil, counter, counterUntil, allowed,
  lapsed, requests, limitFaults>>
screenPart == <<stored, isOn, page, named, buttons, docList, rows, listedOn, current, currentOn,
  shown, refresh, found, ran, stray, late, keys, screenFaults>>
fetchPart == <<fetchAt, tried, answer, cancelled, cache, breaker, failures, successes, cooled,
  alive, clientProxy, stats, cancels>>
mqPart == <<rqConn, connUp, isConnected, watch, channels, shut, calling, seen, place, buffer,
  taken, loop, loopConn, left, did, mqFaults>>
lockPart == <<owner, ttl, lockPc, lockMode, lockTries, refresher, since>>
proxyPart == <<strategy, pool, upProxies, good, bad, proxyIndex, poolPanic, asks, using, round,
  checkLoop, poolClosed, edits, revived>>
agentPart == <<userAgents, weights, uaStrategy, uaCurrent, ownWeight, unweighted, uaChosen, uaPanic>>
auditPart == <<today, auditAt, day, addedOn, kept, expiry, unexpired, auditFaults>>
trackPart == <<webAt, idOf, tracked, mapBroken>>
filePart == <<half, files, there, fileOf, isOpen, currentDate, link, writer, line, began, wroteOn,
  toCheck, cutoffHalf, cleaned, closed, linkFailed, fileFaults>>
dbPart == <<dbKind, dbCall, steps, readers, announced, inside, hasClient, connected, dbPanic,
  dbCallsMade, dbFaults>>
serverPart == <<managed, process, toStart, serverAt, requestAt, toStop, timeLeft, failedStop>>
pagePart == <<table, original, asking, handlerAt, countFirst, total, rowsSeen, removed, between,
  changes>>
all == <<part, logPart, tokenPart, limitPart, screenPart, fetchPart, mqPart, lockPart, proxyPart,
         agentPart, auditPart, trackPart, filePart, dbPart, serverPart, pagePart>>

Logs == INSTANCE LogPipeline
Tokens == INSTANCE RefreshTokens
Limits == INSTANCE RateLimits
Screen == INSTANCE TaskScreen
Fetch == INSTANCE Fetching
Mq == INSTANCE MessageQueue
Pools == INSTANCE FetcherPools WITH alive <- upProxies, current <- proxyIndex
Trail == INSTANCE RequestTrail
Db == INSTANCE DatabaseClients
Server == INSTANCE Servers
Pages == INSTANCE Pagination
\* The lock with commands of Redis that fail and functions that overrun their lease.
Lock == INSTANCE DistributedLock WITH
  pc <- lockPc, mode <- lockMode, tries <- lockTries,
  Modes <- LockModes, MaxRetries <- LockRetries, RedisFails <- TRUE

\* A part that does not move starts in one state only.
Init ==
  /\ part \in {"logs", "tokens", "limits", "screen", "fetch", "mq", "lock", "proxies", "agents",
               "audit", "track", "files", "db", "servers", "pages"}
  /\ Logs!Init /\ Tokens!Init /\ Screen!Init /\ Fetch!Init /\ Mq!Init
  /\ Trail!AuditInit /\ Trail!TrackerInit /\ Logs!RotatorInit
  /\ Limits!Init /\ (part # "limits" => window = "fixed")
  /\ Lock!Init /\ (part # "lock" => \A c \in Clients : lockMode[c] = "plain")
  /\ Pools!ProxyInit /\ (part # "proxies" => strategy = "weighted")
  /\ Pools!AgentsInit /\ (part # "agents" => uaStrategy = "weighted" /\ weights = <<>>)
  /\ Db!DbInit /\ (part # "db" => dbKind = "mongodb")
  /\ Server!ServersInit /\ (part # "servers" => managed)
  /\ Pages!PagesInit
  /\ part # "pages" => /\ table = <<>> /\ ~countFirst
                       /\ asking = [page |-> <<>>, perPage |-> <<>>, offset |-> <<>>]

\* Only the part p moves.
Only(p) ==
  /\ part = p /\ UNCHANGED part
  /\ p # "logs"    => UNCHANGED logPart
  /\ p # "tokens"  => UNCHANGED tokenPart
  /\ p # "limits"  => UNCHANGED limitPart
  /\ p # "screen"  => UNCHANGED screenPart
  /\ p # "fetch"   => UNCHANGED fetchPart
  /\ p # "mq"      => UNCHANGED mqPart
  /\ p # "lock"    => UNCHANGED lockPart
  /\ p # "proxies" => UNCHANGED proxyPart
  /\ p # "agents"  => UNCHANGED agentPart
  /\ p # "audit"   => UNCHANGED auditPart
  /\ p # "track"   => UNCHANGED trackPart
  /\ p # "files"   => UNCHANGED filePart
  /\ p # "db"      => UNCHANGED dbPart
  /\ p # "servers" => UNCHANGED serverPart
  /\ p # "pages"   => UNCHANGED pagePart

Next == \/ Only("logs") /\ Logs!Next
        \/ Only("tokens") /\ Tokens!Next
        \/ Only("limits") /\ Limits!Next
        \/ Only("screen") /\ Screen!Next
        \/ Only("fetch") /\ Fetch!Next
        \/ Only("mq") /\ Mq!Next
        \/ Only("lock") /\ Lock!Next
        \/ Only("proxies") /\ Pools!ProxyNext
        \/ Only("agents") /\ Pools!AgentsNext
        \/ Only("audit") /\ Trail!AuditNext
        \/ Only("track") /\ Trail!TrackerNext
        \/ Only("files") /\ Logs!RotatorNext
        \/ Only("db") /\ Db!Next
        \/ Only("servers") /\ Server!Next
        \/ Only("pages") /\ Pages!Next

\* The fairness of the fetches and of the lock, while they are the part that moves.
Fairness ==
  /\ \A f \in Fetches : SF_fetchPart(part = "fetch" /\ Fetch!Request(f))
  /\ WF_lockPart(part = "lock" /\ Lock!Tick)
  /\ \A c \in Clients : /\ WF_lockPart(part = "lock" /\ (Lock!Extend(c) \/ Lock!ExtendFails(c)))
                        /\ WF_lockPart(part = "lock" /\ Lock!Finish(c))
                        /\ WF_lockPart(part = "lock" /\ Lock!Join(c))
                        /\ WF_lockPart(part = "lock" /\ Lock!Release(c))

Spec == Init /\ [][Next]_all /\ Fairness

-----------------------------------------------------------------------------
\* The types of the states of the component that moves; the others are as they began.
TypesOK == CASE part = "logs"   -> Logs!LogTypeOK
             [] part = "tokens" -> Tokens!TokenTypeOK
             [] part = "limits" -> Limits!LimitTypeOK
             [] part = "screen" -> Screen!ScreenTypeOK
             [] part = "fetch"  -> Fetch!FetchTypeOK
             [] part = "mq"     -> Mq!MqTypeOK
             [] part = "lock"   -> Lock!TypeOK
             [] part = "proxies" -> Pools!ProxyTypeOK
             [] part = "agents" -> Pools!AgentsTypeOK
             [] part = "audit"  -> Trail!AuditTypeOK
             [] part = "track"  -> Trail!TrackerTypeOK
             [] part = "files"  -> Logs!RotatorTypeOK
             [] part = "db"     -> Db!DbTypeOK
             [] part = "servers" -> Server!ServersTypeOK
             [] part = "pages"  -> Pages!PagesTypeOK

\* See the modules for what these say.
TrailKept        == /\ part = "logs" => Logs!LogSeen
                    /\ part = "audit" => Trail!AuditKept
                    /\ part = "track" => Trail!EntriesEnd
                    /\ part = "files" => Logs!LinesKept
GivenTokenWorks  == part = "tokens" => Tokens!GivenTokenWorks
WindowHolds      == part = "limits" => Limits!WindowHolds
ActsOnChosen     == part = "screen" => Screen!ActsOnChosen
NothingForgotten == /\ part = "mq" => Mq!NothingForgotten
                    /\ part = "servers" => Server!GracefulEnd
                    /\ part = "pages" => Pages!NoRowMissed
PoolsKept        == /\ part = "proxies" => Pools!FailingNotUsed
                    /\ part = "agents" => Pools!WeightsKept
                    /\ part = "db" => Db!MongoIsSafe
WaitersServed    == /\ part = "fetch" => Fetch!BatchEnds
                    /\ part = "lock" => Lock!LockFreed
NotRobbed        == Lock!NotRobbed
=============================================================================
