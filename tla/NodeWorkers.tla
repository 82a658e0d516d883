---------------------------- MODULE NodeWorkers ----------------------------
(***************************************************************************)
(* Inside one node (crawler/distributed/node.go): the gRPC receiver, the   *)
(* fetcher, the workers and the result publisher share two bounded         *)
(* channels, and Pause, Resume and Stop change a status that they read     *)
(* without the lock.                                                       *)
(*                                                                         *)
(* An entry is a task with its RetryCount. The node's own Redis list holds *)
(* only what the node itself pushed: tasks to retry.                       *)
(***************************************************************************)
EXTENDS Integers, FiniteSets, SequencesExt

CONSTANTS
  Tasks,
  Workers,
  None,        \* a worker or the fetcher holds no entry
  QueueSize,   \* capacity of taskQueue
  ResultSize,  \* capacity of resultQueue (100)
  FetchMax,    \* most entries fetched in one round (10)
  MaxRetries,  \* Task.MaxRetries
  Pauses,      \* may the node be paused?
  Stops        \* may the node be stopped?

Entry  == [task : Tasks, retry : 0..MaxRetries]
Result == [task : Tasks, status : {"success", "failed"}]

ASSUME NoneAssumption  == None \notin Entry
ASSUME SizesAssumption == /\ QueueSize \in Nat \ {0}
                          /\ ResultSize \in Nat \ {0}
                          /\ FetchMax \in Nat \ {0}
                          /\ MaxRetries \in Nat
                          /\ Pauses \in BOOLEAN /\ Stops \in BOOLEAN

VARIABLES
  status,       \* Node.Status
  closed,       \* is stopChan closed?
  taskQueue,    \* Node.taskQueue
  store,        \* the Redis list queue:tasks:<id>, next entry first
  pending,      \* tasks sent to the Redis list queue:pending
  fetching,     \* rounds left in fetchBatch, 0 outside of it
  fetched,      \* the entry fetchBatch has popped
  fetcher,      \* is its goroutine running?
  pc,           \* where each worker is
  held,         \* the entry it holds
  result,       \* the result it is about to send
  resultQueue,  \* Node.resultQueue
  publisher,    \* is processResults running?
  given,        \* tasks acknowledged to the hub
  refused,      \* tasks answered with "Task queue full"
  attempts,     \* executions of each task
  outcome,      \* result of its last execution, "none" before
  published,    \* results sent to the coordinator
  dropped,      \* results dropped because resultQueue was full
  taskStatus    \* field "status" of the Redis hash of the task

fetch   == <<fetching, fetched, fetcher>>
worker  == <<pc, held, result>>
history == <<given, refused, attempts, outcome, published, dropped, taskStatus>>
vars    == <<status, closed, taskQueue, store, pending, fetch, worker,
             resultQueue, publisher, history>>

-----------------------------------------------------------------------------
Init ==  \* after Start
  /\ status = "active" /\ closed = FALSE
  /\ taskQueue = <<>> /\ store = <<>> /\ pending = {}
  /\ fetching = 0 /\ fetched = None /\ fetcher = "on"
  /\ pc = [w \in Workers |-> "idle"]
  /\ held = [w \in Workers |-> None]
  /\ result = [w \in Workers |-> None]
  /\ resultQueue = <<>> /\ publisher = "on"
  /\ given = {} /\ refused = {}
  /\ attempts = [t \in Tasks |-> 0]
  /\ outcome = [t \in Tasks |-> "none"]
  /\ published = {} /\ dropped = {}
  /\ taskStatus = [t \in Tasks |-> "none"]

RoomInQueue == Len(taskQueue) < QueueSize
Goto(w, l)  == pc' = [pc EXCEPT ![w] = l]

-----------------------------------------------------------------------------
(* The gRPC receiver.                                                      *)

\* handleTaskAssignment looks at the channel, not at the status; after Stop the
\* node is disconnected.
HandleTaskAssignment(t) ==
  /\ status # "stopped"
  /\ t \notin given \union refused
  /\ IF RoomInQueue
     THEN /\ taskQueue' = Append(taskQueue, [task |-> t, retry |-> 0])
          /\ given' = given \union {t} /\ UNCHANGED refused
     ELSE refused' = refused \union {t} /\ UNCHANGED <<taskQueue, given>>
  /\ UNCHANGED <<status, closed, store, pending, fetch, worker, resultQueue, publisher,
                 attempts, outcome, published, dropped, taskStatus>>

-----------------------------------------------------------------------------
(* The fetcher.                                                            *)

\* The ticker fires: below half the capacity, a round of fetchBatch begins.
FetchTasks ==
  /\ fetcher = "on" /\ fetching = 0 /\ fetched = None
  /\ status = "active"
  /\ Len(taskQueue) < QueueSize \div 2
  /\ fetching' = LET n == QueueSize - Len(taskQueue) IN IF n > FetchMax THEN FetchMax ELSE n
  /\ UNCHANGED <<status, closed, taskQueue, store, pending, fetched, fetcher, worker,
                 resultQueue, publisher, history>>

\* RPOP; an empty list ends the round.
FetchPop ==
  /\ fetching > 0 /\ fetched = None
  /\ IF store = <<>>
     THEN fetching' = 0 /\ UNCHANGED <<store, fetched>>
     ELSE fetched' = Head(store) /\ store' = Tail(store) /\ fetching' = fetching - 1
  /\ UNCHANGED <<status, closed, taskQueue, pending, fetcher, worker, resultQueue, publisher, history>>

\* The entry goes to a worker, or, when the channel has filled up meanwhile, to
\* the list queue:pending, and the round ends.
DivertNowhere == fetching' = 0 /\ UNCHANGED <<pending, taskQueue>>  \* bug: LPush missing
Divert == pending' = pending \union {fetched.task} /\ fetching' = 0 /\ UNCHANGED taskQueue
FetchQueue ==
  /\ fetched # None
  /\ IF RoomInQueue
     THEN taskQueue' = Append(taskQueue, fetched) /\ UNCHANGED <<pending, fetching>>
     ELSE Divert
  /\ fetched' = None
  /\ UNCHANGED <<status, closed, store, fetcher, worker, resultQueue, publisher, history>>

FetcherExits ==
  /\ closed /\ fetcher = "on" /\ fetching = 0 /\ fetched = None
  /\ fetcher' = "off"
  /\ UNCHANGED <<status, closed, taskQueue, store, pending, fetching, fetched, worker,
                 resultQueue, publisher, history>>

-----------------------------------------------------------------------------
(* The workers.                                                            *)

Take(w) ==
  /\ pc[w] = "idle" /\ taskQueue # <<>>
  /\ held' = [held EXCEPT ![w] = Head(taskQueue)]
  /\ taskQueue' = Tail(taskQueue)
  /\ Goto(w, "taken")
  /\ UNCHANGED <<status, closed, store, pending, fetch, result, resultQueue, publisher, history>>

\* The status is read after the receive.
Check(w) ==
  /\ pc[w] = "taken"
  /\ IF status = "active"
     THEN Goto(w, "busy") /\ attempts' = [attempts EXCEPT ![held[w].task] = @ + 1]
     ELSE Goto(w, "returning") /\ UNCHANGED attempts
  /\ UNCHANGED <<status, closed, taskQueue, store, pending, fetch, held, result, resultQueue, publisher,
                 given, refused, outcome, published, dropped, taskStatus>>

\* n.taskQueue <- t waits for room.
GiveBack(w) ==
  /\ pc[w] = "returning" /\ RoomInQueue
  /\ taskQueue' = Append(taskQueue, held[w])
  /\ held' = [held EXCEPT ![w] = None]
  /\ Goto(w, "idle")
  /\ UNCHANGED <<status, closed, store, pending, fetch, result, resultQueue, publisher, history>>

Executed(w, s) ==
  /\ pc[w] = "busy"
  /\ result' = [result EXCEPT ![w] = [task |-> held[w].task, status |-> s]]
  /\ held' = [held EXCEPT ![w] = None]
  /\ Goto(w, "reporting")
  /\ UNCHANGED <<status, closed, taskQueue, pending, fetch, resultQueue, publisher,
                 given, refused, attempts, published, dropped, taskStatus>>

Succeed(w) == /\ Executed(w, "success")
              /\ outcome' = [outcome EXCEPT ![held[w].task] = "success"]
              /\ UNCHANGED store

CanRetryOnceMore(e) == e.retry <= MaxRetries  \* bug: off by one
CanRetry(e) == e.retry < MaxRetries

\* A failure that may be retried goes back to the Redis list, and is reported too.
FailRetry(w) == /\ Executed(w, "failed") /\ CanRetry(held[w])
                /\ store' = Append(store, [held[w] EXCEPT !.retry = @ + 1])
                /\ UNCHANGED outcome
FailFinally(w) == /\ Executed(w, "failed") /\ ~CanRetry(held[w])
                  /\ outcome' = [outcome EXCEPT ![held[w].task] = "failed"]
                  /\ UNCHANGED store

\* The result, or nothing when resultQueue is full.
Report(w) ==
  /\ pc[w] = "reporting"
  /\ IF Len(resultQueue) < ResultSize
     THEN resultQueue' = Append(resultQueue, result[w]) /\ UNCHANGED dropped
     ELSE dropped' = dropped \union {result[w]} /\ UNCHANGED resultQueue
  /\ result' = [result EXCEPT ![w] = None]
  /\ Goto(w, "idle")
  /\ UNCHANGED <<status, closed, taskQueue, store, pending, fetch, held, publisher,
                 given, refused, attempts, outcome, published, taskStatus>>

\* select picks any ready case: a closed stopChan may wait.
WorkerExits(w) ==
  /\ closed /\ pc[w] = "idle"
  /\ Goto(w, "exited")
  /\ UNCHANGED <<status, closed, taskQueue, store, pending, fetch, held, result,
                 resultQueue, publisher, history>>

-----------------------------------------------------------------------------
(* The publisher.                                                          *)

HandleResult ==
  /\ publisher = "on" /\ resultQueue # <<>>
  /\ LET r == Head(resultQueue)
     IN published' = published \union {r} /\ taskStatus' = [taskStatus EXCEPT ![r.task] = r.status]
  /\ resultQueue' = Tail(resultQueue)
  /\ UNCHANGED <<status, closed, taskQueue, store, pending, fetch, worker, publisher,
                 given, refused, attempts, outcome, dropped>>

PublisherExits ==
  /\ closed /\ publisher = "on"
  /\ publisher' = "off"
  /\ UNCHANGED <<status, closed, taskQueue, store, pending, fetch, worker, resultQueue, history>>

-----------------------------------------------------------------------------
(* Commands.                                                               *)

SetStatus(s) == /\ status' = s
                /\ UNCHANGED <<taskQueue, store, pending, fetch, worker, resultQueue, publisher, history>>

Pause  == Pauses /\ status = "active" /\ SetStatus("paused") /\ UNCHANGED closed
Resume == status = "paused" /\ SetStatus("active") /\ UNCHANGED closed

\* Stop closes stopChan, waits until no worker is busy or 30 s have passed, and
\* disconnects.
Stop ==
  /\ Stops /\ status \in {"active", "paused"}
  /\ SetStatus("stopping") /\ closed' = TRUE
Stopped ==
  /\ status = "stopping"
  /\ SetStatus("stopped") /\ UNCHANGED closed

Fetch == FetchTasks \/ FetchPop \/ FetchQueue
Work(w) == \/ Take(w) \/ Check(w) \/ GiveBack(w)
           \/ Succeed(w) \/ FailRetry(w) \/ FailFinally(w) \/ Report(w)
Done == FetcherExits \/ (\E w \in Workers : WorkerExits(w)) \/ PublisherExits

Next == \/ \E t \in Tasks : HandleTaskAssignment(t)
        \/ Fetch \/ (\E w \in Workers : Work(w)) \/ HandleResult \/ Done
        \/ Pause \/ Resume \/ Stop \/ Stopped

Spec == Init /\ [][Next]_vars

\* Every goroutine runs, and a paused node is resumed.
FairSpec == /\ Spec
            /\ WF_vars(Fetch) /\ WF_vars(HandleResult) /\ WF_vars(Resume)
            /\ \A w \in Workers : WF_vars(Work(w))

-----------------------------------------------------------------------------
(* Properties.                                                             *)

\* Types of the state (Node and Worker, node.go:36-119).
TypeOK ==
  /\ status \in {"active", "paused", "stopping", "stopped"}
  /\ closed \in BOOLEAN /\ (closed <=> status \in {"stopping", "stopped"})
  /\ taskQueue \in Seq(Entry) /\ Len(taskQueue) <= QueueSize
  /\ store \in Seq(Entry) /\ pending \subseteq Tasks
  /\ fetching \in 0..FetchMax /\ fetched \in Entry \union {None}
  /\ fetcher \in {"on", "off"} /\ publisher \in {"on", "off"}
  /\ pc \in [Workers -> {"idle", "taken", "busy", "returning", "reporting", "exited"}]
  /\ held \in [Workers -> Entry \union {None}] /\ result \in [Workers -> Result \union {None}]
  /\ \A w \in Workers :
       /\ IF pc[w] \in {"taken", "busy", "returning"} THEN held[w] \in Entry ELSE held[w] = None
       /\ IF pc[w] = "reporting" THEN result[w] \in Result ELSE result[w] = None
  /\ resultQueue \in Seq(Result) /\ Len(resultQueue) <= ResultSize
  /\ given \subseteq Tasks /\ refused \subseteq Tasks
  /\ attempts \in [Tasks -> 0 .. MaxRetries + 1]  \* no more than CanRetry allows
  /\ outcome \in [Tasks -> {"none", "success", "failed"}]
  /\ published \subseteq Result /\ dropped \subseteq Result
  /\ taskStatus \in [Tasks -> {"none", "success", "failed"}]

\* Where a task waits or runs.
Places(t) ==
  UNION {{<<"queue", i>> : i \in {j \in DOMAIN taskQueue : taskQueue[j].task = t}},
         {<<"store", i>> : i \in {j \in DOMAIN store : store[j].task = t}},
         {<<"fetcher", 0>> : x \in {y \in {fetched} : y # None /\ y.task = t}},
         {<<"pending", 0>> : x \in pending \intersect {t}},
         {<<"worker", w>> : w \in {v \in Workers : held[v] # None /\ held[v].task = t}}}

\* Whatever is paused, stopped, retried or refused, an acknowledged task whose
\* last execution has not ended is in exactly one place, and one that ended, or
\* was refused, in none (the channels and lists of node.go:547-642, 831-842).
OnePlace == \A t \in Tasks :
  Cardinality(Places(t)) = IF t \in given /\ outcome[t] = "none" THEN 1 ELSE 0

\* A node that is not paused or stopped executes each acknowledged task to its
\* end and publishes the last result, unless the task was diverted to
\* queue:pending or the result dropped.
EventuallySettled == \A t \in Tasks :
  t \in given ~> \/ t \in pending
                 \/ outcome[t] # "none"
                    /\ [task |-> t, status |-> outcome[t]] \in published \union dropped

-----------------------------------------------------------------------------
(* What the comments say.                                                  *)

\* "Return task to queue" (node.go:628): a worker that holds a task of a node that
\* is not active gets rid of it.
WorkerReturnsTask == \A w \in Workers : pc[w] = "returning" ~> pc[w] # "returning"

\* "Task failed after all retries" (README.md:377) is what status "failed" says.
FailedIsFinal == \A t \in Tasks : taskStatus[t] = "failed" => outcome[t] = "failed"

\* "Wait for workers to finish current tasks" (node.go:379): once the node has
\* stopped and its goroutines are gone, the results of the executions are out.
StoppedWithResultsOut ==
  status = "stopped" /\ (\A w \in Workers : pc[w] = "exited") /\ publisher = "off"
    => resultQueue = <<>>
=============================================================================
