-------------------------- MODULE DatabaseClients --------------------------
(***************************************************************************)
(* A database of database/*.go with the callers that share it. The three   *)
(* kinds guard the same fields of BaseDatabase with its RWMutex in three   *)
(* ways: mongo.go holds it for a whole call, redis.go for some calls, and  *)
(* mysql.go leaves it to the setters of base.go. A call is a sequence of   *)
(* steps; the RWMutex is Go's: a reader waits behind a writer that has     *)
(* announced itself, and nobody may take it twice.                         *)
(***************************************************************************)
EXTENDS Naturals, Sequences

CONSTANTS
  DbCallers,
  DbKinds,        \* subset of {"mysql", "redis", "mongodb"}
  DbCalls,        \* the methods that are called
  MaxDbCalls,     \* bound on the calls
  MaxDbFaults     \* bound on the dials and closes that fail

VARIABLES
  dbKind,
  dbCall,         \* the method each caller is in
  steps,          \* what is left of it
  readers,        \* read locks each caller holds
  announced,      \* the writer that holds the mutex or waits for its readers, or None
  inside,         \* does it hold it?
  hasClient,      \* r.client, m.client or m.db is not nil
  connected,
  dbPanic,        \* callers that dereferenced a nil client
  dbCallsMade, dbFaults

dbVars == <<dbKind, dbCall, steps, readers, announced, inside, hasClient, connected, dbPanic,
            dbCallsMade, dbFaults>>
None == "none"
lockVars == <<readers, announced, inside>>

Set == <<"lock", "unlock">>             \* a setter of base.go whose field nothing here reads
Read == <<"rlock", "runlock">>          \* a getter of one
IsConnected == <<"rlock", "connected?", "runlock">>

\* MySQLDatabase overrides IncrementErrorCount with one that locks and calls itself.
CountError == IF dbKind = "mysql" THEN <<"lock", "lock">> ELSE <<>>
NoteError == Set \o CountError          \* SetLastError, IncrementErrorCount

StatsProgram ==
  CASE dbKind = "mysql"   -> <<"rlock">> \o Read \o Read \o IsConnected
                                     \o <<"client?", "use", "runlock">>
    [] dbKind = "redis"   -> Read \o Read \o Read \o IsConnected
    [] dbKind = "mongodb" -> Read
CountQuery ==
  CASE dbKind = "mysql" -> <<"lock", "lock">> [] dbKind = "redis" -> <<>> [] dbKind = "mongodb" -> Set

Program(call) ==
  CASE call = "Connect" ->
         IF dbKind = "mongodb" THEN <<"lock", "dial">> ELSE <<"dial">>
    [] call = "Disconnect" ->
         IF dbKind = "mysql" THEN IsConnected \o <<"client?", "use", "close">>
                             ELSE <<"lock", "connected?", "client?", "close">>
    [] call = "HealthCheck" ->
         IF dbKind = "mysql" THEN IsConnected \o <<"client?", "use">>
                             ELSE <<"rlock", "connected?", "client?", "use", "runlock">>
    [] call = "Stats" -> StatsProgram
    [] call = "GetClient" -> Read
    [] call = "IncrementQueryCount" -> CountQuery

DialSucceeds == IF dbKind = "mongodb" THEN <<"store", "connect", "unlock">>
                ELSE <<"store", "lock", "connect", "unlock">> \o Set \o Set
DialFailsWithSetter == IF dbKind = "mongodb" THEN Set \o <<"unlock">> ELSE NoteError  \* bug
DialFails == IF dbKind = "mongodb" THEN <<"unlock">> ELSE NoteError
CloseSucceeds == IF dbKind = "mysql" THEN <<"lock", "disconnect", "unlock", "forget">>
                                     ELSE <<"disconnect", "forget", "unlock">>
CloseFails == CASE dbKind = "mysql"   -> NoteError
                [] dbKind = "redis"   -> NoteError \o <<"unlock">>
                [] dbKind = "mongodb" -> <<"unlock">>

DbInit ==
  /\ dbKind \in DbKinds
  /\ dbCall = [c \in DbCallers |-> None] /\ steps = [c \in DbCallers |-> <<>>]
  /\ readers = [c \in DbCallers |-> 0] /\ announced = None /\ inside = FALSE
  /\ hasClient = FALSE /\ connected = FALSE /\ dbPanic = {} /\ dbCallsMade = 0 /\ dbFaults = 0

-----------------------------------------------------------------------------
At(c, s) == steps[c] # <<>> /\ Head(steps[c]) = s
Goes(c) == steps' = [steps EXCEPT ![c] = Tail(@)]
GoesOn(c, s) == steps' = [steps EXCEPT ![c] = s]

\* return: the deferred unlocks are what is left to do.
Unlocks(c) == IF inside /\ announced = c THEN <<"unlock">>
              ELSE [i \in 1..readers[c] |-> "runlock"]
Same == UNCHANGED <<dbKind, dbCall, dbPanic, dbCallsMade, dbFaults>>

Call(c) ==
  /\ steps[c] = <<>> /\ c \notin dbPanic /\ dbCallsMade < MaxDbCalls
  /\ \E call \in DbCalls : dbCall' = [dbCall EXCEPT ![c] = call] /\ GoesOn(c, Program(call))
  /\ dbCallsMade' = dbCallsMade + 1
  /\ UNCHANGED <<dbKind, lockVars, hasClient, connected, dbPanic, dbFaults>>

Announce(c) ==
  /\ At(c, "lock") /\ announced = None
  /\ announced' = c
  /\ UNCHANGED <<steps, readers, inside, hasClient, connected>> /\ Same
Enter(c) ==
  /\ At(c, "lock") /\ announced = c /\ ~inside /\ \A d \in DbCallers : readers[d] = 0
  /\ inside' = TRUE /\ Goes(c)
  /\ UNCHANGED <<readers, announced, hasClient, connected>> /\ Same
Unlock(c) ==
  /\ At(c, "unlock")
  /\ announced' = None /\ inside' = FALSE /\ Goes(c)
  /\ UNCHANGED <<readers, hasClient, connected>> /\ Same
RLock(c) ==
  /\ At(c, "rlock") /\ announced = None
  /\ readers' = [readers EXCEPT ![c] = @ + 1] /\ Goes(c)
  /\ UNCHANGED <<announced, inside, hasClient, connected>> /\ Same
RUnlock(c) ==
  /\ At(c, "runlock")
  /\ readers' = [readers EXCEPT ![c] = @ - 1] /\ Goes(c)
  /\ UNCHANGED <<announced, inside, hasClient, connected>> /\ Same

\* The early returns.
Looks(c) ==
  /\ \/ At(c, "connected?") /\ (IF connected THEN Goes(c) ELSE GoesOn(c, Unlocks(c)))
     \/ At(c, "client?") /\ (IF hasClient THEN Goes(c) ELSE GoesOn(c, Unlocks(c)))
  /\ UNCHANGED <<lockVars, hasClient, connected>> /\ Same

\* The client is read again and used: m.db.DB(), Ping, Stats.
Uses(c) ==
  /\ At(c, "use")
  /\ IF hasClient THEN Goes(c) /\ UNCHANGED dbPanic
     ELSE GoesOn(c, Unlocks(c)) /\ dbPanic' = dbPanic \union {c}
  /\ UNCHANGED <<dbKind, dbCall, lockVars, hasClient, connected, dbCallsMade, dbFaults>>

\* gorm.Open, redis.NewClient or mongo.Connect, and the ping.
Dial(c) ==
  /\ At(c, "dial")
  /\ \/ GoesOn(c, DialSucceeds) /\ UNCHANGED dbFaults
     \/ dbFaults < MaxDbFaults /\ dbFaults' = dbFaults + 1 /\ GoesOn(c, DialFails)
  /\ UNCHANGED <<dbKind, dbCall, lockVars, hasClient, connected, dbPanic, dbCallsMade>>
\* redis.go closes whatever the client is by now; a second Close fails.
CloseClient(c) ==
  /\ At(c, "close")
  /\ \/ GoesOn(c, CloseSucceeds) /\ UNCHANGED dbFaults
     \/ dbFaults < MaxDbFaults /\ dbFaults' = dbFaults + 1 /\ GoesOn(c, CloseFails)
  /\ UNCHANGED <<dbKind, dbCall, lockVars, hasClient, connected, dbPanic, dbCallsMade>>
Assigns(c) ==
  /\ \/ At(c, "store") /\ hasClient' = TRUE /\ UNCHANGED connected
     \/ At(c, "forget") /\ hasClient' = FALSE /\ UNCHANGED connected
     \/ At(c, "connect") /\ connected' = TRUE /\ UNCHANGED hasClient
     \/ At(c, "disconnect") /\ connected' = FALSE /\ UNCHANGED hasClient
  /\ Goes(c) /\ UNCHANGED lockVars /\ Same

Step(c) == \/ Call(c) \/ Announce(c) \/ Enter(c) \/ Unlock(c) \/ RLock(c) \/ RUnlock(c)
           \/ Looks(c) \/ Uses(c) \/ Dial(c) \/ CloseClient(c) \/ Assigns(c)
Next == \E c \in DbCallers : Step(c)
Spec == DbInit /\ [][Next]_dbVars

-----------------------------------------------------------------------------
DbTypeOK ==
  /\ dbKind \in DbKinds /\ dbCall \in [DbCallers -> DbCalls \union {None}]
  /\ readers \in [DbCallers -> 0..2] /\ announced \in DbCallers \union {None}
  /\ inside \in BOOLEAN /\ hasClient \in BOOLEAN /\ connected \in BOOLEAN
  /\ dbPanic \subseteq DbCallers /\ dbCallsMade \in 0..MaxDbCalls /\ dbFaults \in 0..MaxDbFaults
  /\ inside => announced # None

\* A caller waits for itself when it locks what it has locked, or read-locks again
\* while a writer waits for its first read lock.
WaitsForItself(c) == \/ At(c, "lock") /\ announced = c /\ inside
                     \/ At(c, "rlock") /\ readers[c] > 0 /\ announced # None

\* Counting an error or a query returns: base.go:66 and 71 say that the methods
\* increment a count. mysql.go:143 and 149 lock the mutex and call themselves, so
\* that a Connect that fails never returns its error.
CountingReturns ==
  \A c \in DbCallers : ~(At(c, "lock") /\ announced = c /\ inside /\ dbKind = "mysql")

\* A caller waits for itself only in the methods of mysql.go that count, in the nested
\* read locks of its Stats and in redis.go's Disconnect after a Close that failed;
\* mongo.go, which holds the mutex for the whole call, never does, dereferences no
\* nil client, and its connected and client agree whenever nobody is inside.
MongoIsSafe ==
  /\ \A c \in DbCallers : WaitsForItself(c) =>
       \/ dbKind = "mysql"
       \/ dbKind = "redis" /\ dbCall[c] = "Disconnect"
  /\ dbKind # "mysql" => dbPanic = {}
  /\ dbKind = "mongodb" => (~inside => (connected <=> hasClient))
=============================================================================
