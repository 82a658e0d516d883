------------------------------ MODULE Storages ------------------------------
(***************************************************************************)
(* The key-value stores of the crawler: the map of src/crawler/storage.go  *)
(* and those of src/crawler/storage (memory, Redis, MongoDB, MySQL), under *)
(* one interface. Several goroutines use one store of one kind; each       *)
(* command of a store is atomic, except where a comment says so. Values    *)
(* are numbered in the order of the calls, 0 is no value, and times are    *)
(* counted in the shortest expiration.                                     *)
(***************************************************************************)
EXTENDS Integers, FiniteSets

CONSTANTS Keys,
          StoreKinds,     \* the kinds to check: "map", "memory", "redis", "mongo", "mysql"
          TTLs,           \* expirations callers ask for, 0 for none
          DefaultTTL,     \* the expiration of the configuration
          MaxStores,      \* bound of the calls that store
          MaxNow,         \* bound of the clock
          MaxStoreFaults  \* bound of the commands that fail

VARIABLES kind, now,
          data,         \* what the store holds
          until,        \* the expiry it holds, Never for none
          scanning,     \* keys the SCAN of a Redis Clear has still to return
          clearing,     \* Clear is between two of its rounds
          disconnected, \* Close was called on the MongoDB store
          stores, storeFaults,
          want,         \* what a reader may find under each key, by what was answered
          since         \* keys stored since Clear began

storesVars == <<kind, now, data, until, scanning, clearing, disconnected, stores, storeFaults,
                want, since>>
clientSide == <<want, since>>

Never == MaxNow + DefaultTTL + 2
Nothing == [v |-> 0, due |-> Never]
Remote == kind \in {"redis", "mongo", "mysql"}
\* MemoryStorage.StoreWithTTL keeps an older expiry when it gets 0; no caller does that.
Asked == IF kind = "memory" THEN TTLs \ {0} ELSE TTLs

StoresInit ==
  /\ kind \in StoreKinds /\ now = 0
  /\ data = [k \in Keys |-> 0] /\ until = [k \in Keys |-> Never]
  /\ scanning = {} /\ clearing = FALSE /\ disconnected = FALSE
  /\ stores = 0 /\ storeFaults = 0
  /\ want = [k \in Keys |-> {Nothing}] /\ since = {}

\* The expiry each store writes for an expiration of t.
MapDue(k, t)    == now + t
MemoryDue(k, t) == IF t > 0 THEN now + t ELSE until[k]
RedisDue(t)     == IF t > 0 THEN now + t ELSE Never
MongoDue(t)     == IF t > 0 THEN now + t ELSE Never
MySQLDue(t)     == IF t > 0 THEN now + t ELSE Never
Due(k, t) == CASE kind = "map"    -> MapDue(k, t)
               [] kind = "memory" -> MemoryDue(k, t)
               [] kind = "redis"  -> RedisDue(t)
               [] kind = "mongo"  -> MongoDue(t)
               [] kind = "mysql"  -> MySQLDue(t)

\* What Get, Exists, BatchGet and Query look at besides the key. MongoDB's reads
\* do not look at the expiry.
MapLive(k)    == data[k] # 0 /\ ~(now > until[k])
MemoryLive(k) == data[k] # 0 /\ ~(now > until[k])
RedisLive(k)  == data[k] # 0 /\ now < until[k]
MongoLive(k)  == data[k] # 0
MySQLLive(k)  == data[k] # 0 /\ (until[k] = Never \/ until[k] > now)
Live(k) == CASE kind = "map"    -> MapLive(k)
             [] kind = "memory" -> MemoryLive(k)
             [] kind = "redis"  -> RedisLive(k)
             [] kind = "mongo"  -> MongoLive(k)
             [] kind = "mysql"  -> MySQLLive(k)
Get(k) == IF Live(k) THEN data[k] ELSE 0

-----------------------------------------------------------------------------
\* The keys S hold value v with expiry d[k], the keys E nothing.
Sets(S, v, d) == /\ data' = [k \in Keys |-> IF k \in S THEN v ELSE data[k]]
                    /\ until' = [k \in Keys |-> IF k \in S THEN d[k] ELSE until[k]]
Drops(E) == /\ data' = [k \in Keys |-> IF k \in E THEN 0 ELSE data[k]]
            /\ until' = [k \in Keys |-> IF k \in E THEN Never ELSE until[k]]

\* A remote store answers, or fails before or after it did a part of its work.
Answers(S, done) == /\ done = S /\ ~disconnected /\ UNCHANGED storeFaults
Fails(done) == /\ Remote /\ (disconnected => done = {})
               /\ IF disconnected THEN UNCHANGED storeFaults
                  ELSE storeFaults < MaxStoreFaults /\ storeFaults' = storeFaults + 1

\* While a Clear runs, what is stored may fall to it.
Stored(S, e) ==
  /\ want' = [k \in Keys |-> IF k \notin S THEN want[k]
                             ELSE {e[k]} \cup (IF clearing THEN {Nothing} ELSE {})]
  /\ since' = IF clearing THEN since \cup S ELSE since
Doubted(S, e) ==
  /\ want' = [k \in Keys |-> IF k \in S THEN want[k] \cup {e[k]} ELSE want[k]]
  /\ since' = IF clearing THEN since \cup S ELSE since

StoreKeys(S, done, v, d) ==
  LET entry == [k \in Keys |-> [v |-> v, due |-> d[k]]]
  IN /\ Sets(done, v, d)
     /\ \/ Answers(S, done) /\ Stored(S, entry)
        \/ Fails(done) /\ Doubted(S, entry)

\* Store, StoreWithTTL, Save: a key, whose name Save makes from the clock.
StoreWithTTL(k, t) ==
  /\ stores < MaxStores /\ stores' = stores + 1
  /\ \E done \in SUBSET {k} : StoreKeys({k}, done, stores + 1, [j \in Keys |-> Due(j, t)])
  /\ UNCHANGED <<kind, now, scanning, clearing, disconnected>>

\* What may have happened to a batch that failed: a pipeline and an unordered
\* bulk write leave any part of it, a transaction all or nothing.
Parts(S) == IF kind = "mysql" THEN {{}, S} ELSE SUBSET S

\* The configured expiration in MySQL is multiplied by a second once too often
\* (mysql.go:52) and may come out negative, that is, none.
BatchDues == IF kind = "mysql" THEN {DefaultTTL, 0} ELSE {DefaultTTL}
BatchStore(S) ==
  /\ stores < MaxStores /\ stores' = stores + 1
  /\ \E done \in Parts(S), t \in BatchDues :
       StoreKeys(S, done, stores + 1, [j \in Keys |-> Due(j, t)])
  /\ UNCHANGED <<kind, now, scanning, clearing, disconnected>>

Delete(k) ==
  /\ want[k] # {Nothing}
  /\ \E done \in SUBSET {k} :
       /\ Drops(done)
       /\ \/ Answers({k}, done) /\ Stored({k}, [j \in Keys |-> Nothing])
          \/ Fails(done) /\ Doubted({k}, [j \in Keys |-> Nothing])
  /\ UNCHANGED <<kind, now, scanning, clearing, disconnected, stores>>

-----------------------------------------------------------------------------
\* Clear of every store but Redis: one command.
Clear ==
  /\ kind # "redis" /\ \E k \in Keys : want[k] # {Nothing}
  /\ \E done \in Parts(Keys) :
       /\ Drops(done)
       /\ \/ Answers(Keys, done) /\ Stored(Keys, [j \in Keys |-> Nothing])
          \/ Fails(done) /\ Doubted(Keys, [j \in Keys |-> Nothing])
  /\ UNCHANGED <<kind, now, scanning, clearing, disconnected, stores>>

\* Clear of Redis: rounds of SCAN and DEL. SCAN returns every key that is there
\* all the time, and perhaps one that came meanwhile.
ClearBegins ==
  /\ kind = "redis" /\ ~clearing /\ clearing' = TRUE
  /\ scanning' = {k \in Keys : data[k] # 0}
  /\ want' = [k \in Keys |-> want[k] \cup {Nothing}] /\ since' = {}
  /\ UNCHANGED <<kind, now, data, until, disconnected, stores, storeFaults>>
ScanRound(E) ==
  /\ clearing /\ E # {} /\ E \subseteq scanning \cup {k \in Keys : data[k] # 0}
  /\ scanning' = scanning \ E /\ Drops(E)
  /\ UNCHANGED <<kind, now, clearing, disconnected, stores, storeFaults, clientSide>>
ClearEnds ==
  /\ clearing /\ scanning = {} /\ clearing' = FALSE
  /\ want' = [k \in Keys |-> IF k \in since THEN want[k] ELSE {Nothing}]
  /\ UNCHANGED <<kind, now, data, until, scanning, disconnected, stores, storeFaults, since>>
ClearFails ==
  /\ clearing /\ Fails({}) /\ clearing' = FALSE /\ scanning' = {}
  /\ UNCHANGED <<kind, now, data, until, disconnected, stores, clientSide>>

-----------------------------------------------------------------------------
\* The cleaning goroutines, and what Redis and MongoDB do by themselves.
MapExpired    == {k \in Keys : now > until[k]}
MemoryExpired == {k \in Keys : now > until[k]}
MySQLExpired  == {k \in Keys : until[k] < now}
RemoteExpired == {k \in Keys : until[k] <= now}
KeepsData(E) ==  \* bug: the expiry goes, the data stays
  until' = [k \in Keys |-> IF k \in E THEN Never ELSE until[k]] /\ UNCHANGED data
CleansUp(E) == Drops(E)
Cleanup ==
  /\ CleansUp(CASE kind = "map"    -> MapExpired
                [] kind = "memory" -> MemoryExpired
                [] kind = "mysql"  -> MySQLExpired
                [] OTHER           -> RemoteExpired)
  /\ UNCHANGED <<kind, now, scanning, clearing, disconnected, stores, storeFaults, clientSide>>

\* Close of the MongoDB store disconnects its client; the others do nothing.
Close ==
  /\ kind = "mongo" /\ ~disconnected /\ disconnected' = TRUE
  /\ UNCHANGED <<kind, now, data, until, scanning, clearing, stores, storeFaults, clientSide>>

ClockTick ==
  /\ now < MaxNow /\ now' = now + 1
  /\ UNCHANGED <<kind, data, until, scanning, clearing, disconnected, stores, storeFaults,
                 clientSide>>

Next == \/ \E k \in Keys, t \in Asked : StoreWithTTL(k, t)
        \/ \E S \in SUBSET Keys : S # {} /\ BatchStore(S)
        \/ \E k \in Keys : Delete(k)
        \/ Clear \/ ClearBegins \/ (\E E \in SUBSET Keys : ScanRound(E)) \/ ClearEnds
        \/ ClearFails \/ Cleanup \/ Close \/ ClockTick

Spec == StoresInit /\ [][Next]_storesVars

-----------------------------------------------------------------------------
\* Types of the state.
StoresTypeOK ==
  /\ kind \in StoreKinds /\ now \in 0 .. MaxNow
  /\ data \in [Keys -> 0 .. MaxStores] /\ until \in [Keys -> 0 .. Never]
  /\ scanning \subseteq Keys /\ clearing \in BOOLEAN /\ disconnected \in BOOLEAN
  /\ (clearing => kind = "redis") /\ (disconnected => kind = "mongo")
  /\ stores \in 0 .. MaxStores /\ storeFaults \in 0 .. MaxStoreFaults
  /\ \A k \in Keys : want[k] # {} /\ want[k] \subseteq [v : 0 .. MaxStores, due : 0 .. Never]
  /\ since \subseteq Keys

\* The value of e while it is not due, and nothing after it; a document of
\* MongoDB may stay for a while.
Reads(e) == CASE kind = "mongo"              -> IF e.due <= now THEN {e.v, 0} ELSE {e.v}
              [] kind \in {"map", "memory"}  -> IF now > e.due THEN {0} ELSE {e.v}
              [] OTHER                       -> IF e.due <= now THEN {0} ELSE {e.v}

\* A reader finds the value that was stored last, until it is due, and nothing
\* after a Delete or a Clear: never a value that was replaced, deleted or due
\* before, and never nothing while there is one. Only a call that failed, and a
\* Clear that was running meanwhile, leave a choice.
ReadsLast == \A k \in Keys : \E e \in want[k] : Get(k) \in Reads(e)
=============================================================================
