------------------------------ MODULE Crawler ------------------------------
(***************************************************************************)
(* The standalone crawler (crawler.go): its status, its worker goroutines  *)
(* and what becomes of a task from the queue on. A seed is task 0 and its  *)
(* five children, which differ in nothing here, are task 1. MaxRetries is  *)
(* zero in the tasks the crawler makes; other programs that push to the    *)
(* same Redis queue set it. Fetcher, pipeline, storage and queue answer,   *)
(* or fail while MaxCrawlFaults allows it; a storage that fails may have   *)
(* stored all the same.                                                    *)
(***************************************************************************)
EXTENDS Integers, FiniteSets

CONSTANTS Goroutines,      \* the worker goroutines of one Start
          Modes,           \* the modes a crawler may be configured for
          RetryLimits,     \* the MaxRetries of pushed tasks
          MaxCrawlFaults, MaxStarts

VARIABLES
  mode,         \* config.Mode
  crawlStatus,  \* Crawler.status
  stopChan,     \* stopChan is closed
  startsMade,   \* Starts so far
  nodeUp,       \* the distributed node runs
  goroutine,    \* where each worker is: "none", "loop", or a step of processTask
  task,         \* the task each worker holds, 2 for none
  queue,        \* the tasks in taskQueue
  limit, retries, taskState,  \* of each task: MaxRetries, RetryCount, Status
  tries, saves, \* of each task: requests made, times stored
  lostPush,     \* tasks whose Push failed
  stopPanic,    \* Stop closed a closed channel
  crawlFaults

crawlVars == <<mode, crawlStatus, stopChan, startsMade, nodeUp, goroutine, task, queue, limit,
               retries, taskState, tries, saves, lostPush, stopPanic, crawlFaults>>
lifecycle == <<mode, crawlStatus, stopChan, startsMade, nodeUp, stopPanic>>

CrawlTasks == {0, 1}
NoTask == 2
Steps == {"fetch", "extract", "store", "children", "complete", "failed"}

CrawlTypeOK ==
  /\ mode \in Modes /\ stopChan \in BOOLEAN /\ stopPanic \in BOOLEAN /\ nodeUp \in BOOLEAN
  /\ crawlStatus \in {"idle", "starting", "running", "stopping", "stopped"}
  /\ startsMade \in 0 .. MaxStarts /\ crawlFaults \in 0 .. MaxCrawlFaults
  /\ goroutine \in [Goroutines -> Steps \cup {"none", "loop"}]
  /\ task \in [Goroutines -> CrawlTasks \cup {NoTask}]
  /\ queue \subseteq CrawlTasks /\ lostPush \subseteq CrawlTasks
  /\ limit \in [CrawlTasks -> RetryLimits \cup {0}]
  /\ retries \in [CrawlTasks -> Nat] /\ saves \in [CrawlTasks -> Nat]
  /\ tries \in [CrawlTasks -> Nat]
  /\ taskState \in [CrawlTasks -> {"none", "pending", "running", "retrying", "failed", "completed"}]

Init ==
  /\ mode \in Modes /\ crawlStatus = "idle" /\ stopChan = FALSE /\ startsMade = 0
  /\ nodeUp = FALSE /\ goroutine = [g \in Goroutines |-> "none"]
  /\ task = [g \in Goroutines |-> NoTask] /\ queue = {}
  /\ limit = [t \in CrawlTasks |-> 0] /\ retries = [t \in CrawlTasks |-> 0]
  /\ taskState = [t \in CrawlTasks |-> "none"] /\ tries = [t \in CrawlTasks |-> 0]
  /\ saves = [t \in CrawlTasks |-> 0] /\ lostPush = {} /\ stopPanic = FALSE /\ crawlFaults = 0

Fault == crawlFaults < MaxCrawlFaults /\ crawlFaults' = crawlFaults + 1

-----------------------------------------------------------------------------
\* Start: from idle or stopped only. In the distributed modes the node may
\* fail to start, or start and the cluster manager fail: the status stays
\* "starting", which neither Start nor Stop accepts.
StartBegins ==
  /\ ~stopPanic /\ crawlStatus \in {"idle", "stopped"} /\ startsMade < MaxStarts
  /\ crawlStatus' = "starting" /\ startsMade' = startsMade + 1
  /\ UNCHANGED <<mode, stopChan, nodeUp, goroutine, task, queue, limit, retries, taskState,
                 tries, saves, lostPush, stopPanic, crawlFaults>>

StartEnds ==
  /\ ~stopPanic /\ crawlStatus = "starting"
  /\ crawlStatus' = "running"
  /\ IF mode = "standalone"
     THEN /\ goroutine' = [g \in Goroutines |-> IF goroutine[g] = "none" THEN "loop" ELSE goroutine[g]]
          /\ UNCHANGED nodeUp
     ELSE nodeUp' = TRUE /\ UNCHANGED goroutine
  /\ UNCHANGED <<mode, stopChan, startsMade, task, queue, limit, retries, taskState, tries,
                 saves, lostPush, stopPanic, crawlFaults>>

StartFails ==
  /\ ~stopPanic /\ crawlStatus = "starting" /\ mode # "standalone" /\ Fault
  /\ nodeUp' \in {nodeUp} \cup (IF mode = "cluster" THEN {TRUE} ELSE {})
  /\ UNCHANGED <<mode, crawlStatus, stopChan, startsMade, goroutine, task, queue, limit, retries,
                 taskState, tries, saves, lostPush, stopPanic>>

\* Stop closes stopChan, which only New makes: a second Stop panics.
StopBegins ==
  /\ ~stopPanic /\ crawlStatus = "running"
  /\ crawlStatus' = "stopping"
  /\ stopPanic' = stopChan /\ stopChan' = TRUE
  /\ UNCHANGED <<mode, startsMade, nodeUp, goroutine, task, queue, limit, retries, taskState,
                 tries, saves, lostPush, crawlFaults>>

\* The node is stopped and the workers are awaited, at most DefaultTimeout.
StopEnds ==
  /\ ~stopPanic /\ crawlStatus = "stopping"
  /\ crawlStatus' = "stopped" /\ nodeUp' = FALSE
  /\ UNCHANGED <<mode, stopChan, startsMade, goroutine, task, queue, limit, retries, taskState,
                 tries, saves, lostPush, stopPanic, crawlFaults>>

-----------------------------------------------------------------------------
\* AddSeed, at any status, and a task that another program pushes.
AddSeed(m) ==
  /\ ~stopPanic /\ taskState[0] = "none"
  /\ taskState' = [taskState EXCEPT ![0] = "pending"]
  /\ limit' = [limit EXCEPT ![0] = m]
  /\ queue' = queue \cup {0}
  /\ UNCHANGED <<lifecycle, goroutine, task, retries, tries, saves, lostPush, crawlFaults>>

\* runWorker: a closed stopChan ends it between two tasks, never within one.
WorkerEnds(g) ==
  /\ ~stopPanic /\ goroutine[g] = "loop" /\ stopChan
  /\ goroutine' = [goroutine EXCEPT ![g] = "none"]
  /\ UNCHANGED <<lifecycle, task, queue, limit, retries, taskState, tries, saves, lostPush, crawlFaults>>

PopTask(g, t) ==
  /\ ~stopPanic /\ goroutine[g] = "loop" /\ ~stopChan /\ t \in queue
  /\ queue' = queue \ {t}
  /\ task' = [task EXCEPT ![g] = t]
  /\ goroutine' = [goroutine EXCEPT ![g] = "fetch"]
  /\ taskState' = [taskState EXCEPT ![t] = "running"]
  /\ UNCHANGED <<lifecycle, limit, retries, tries, saves, lostPush, crawlFaults>>

Goes(g, step) == goroutine' = [goroutine EXCEPT ![g] = step]

NextTask(g) == Goes(g, "loop")

FetchTask(g) ==
  /\ ~stopPanic /\ goroutine[g] = "fetch"
  /\ tries' = [tries EXCEPT ![task[g]] = @ + 1]
  /\ \/ Goes(g, "extract") /\ UNCHANGED crawlFaults
     \/ Goes(g, "failed") /\ Fault
  /\ UNCHANGED <<lifecycle, task, queue, limit, retries, taskState, saves, lostPush>>

\* extractData never fails, and no processor of the pipeline stops it (see Pipelines).
PipelineStep(g) ==
  /\ ~stopPanic /\ goroutine[g] = "extract" /\ Goes(g, "store")
  /\ UNCHANGED <<lifecycle, task, queue, limit, retries, taskState, tries, saves, lostPush,
                 crawlFaults>>

StoreData(g) ==
  /\ ~stopPanic /\ goroutine[g] = "store"
  /\ \/ /\ saves' = [saves EXCEPT ![task[g]] = @ + 1]
        /\ Goes(g, IF task[g] = 0 THEN "children" ELSE "complete") /\ UNCHANGED crawlFaults
     \/ /\ saves' \in {saves, [saves EXCEPT ![task[g]] = @ + 1]}
        /\ Goes(g, "failed") /\ Fault
  /\ UNCHANGED <<lifecycle, task, queue, limit, retries, taskState, tries, lostPush>>

\* A child whose Push fails is logged and forgotten.
PushChildren(g) ==
  /\ ~stopPanic /\ goroutine[g] = "children" /\ Goes(g, "complete")
  /\ taskState' = [taskState EXCEPT ![1] = "pending"]
  /\ \/ queue' = queue \cup {1} /\ UNCHANGED <<lostPush, crawlFaults>>
     \/ lostPush' = lostPush \cup {1} /\ Fault /\ UNCHANGED queue
  /\ UNCHANGED <<lifecycle, task, limit, retries, tries, saves>>

CompleteTask(g) ==
  /\ ~stopPanic /\ goroutine[g] = "complete" /\ NextTask(g)
  /\ taskState' = [taskState EXCEPT ![task[g]] = "completed"]
  /\ task' = [task EXCEPT ![g] = NoTask]
  /\ UNCHANGED <<lifecycle, queue, limit, retries, tries, saves, lostPush, crawlFaults>>

\* Task.CanRetry, with n for RetryCount; the tasks here do not expire.
CanRetry(t, n) == n < limit[t]

NotQueued(t) == UNCHANGED <<queue, lostPush, crawlFaults>>
Retried(t) ==
  \/ queue' = queue \cup {t} /\ UNCHANGED <<lostPush, crawlFaults>>
  \/ lostPush' = lostPush \cup {t} /\ Fault /\ UNCHANGED queue

\* handleTaskError: Fail counts a retry when one is left; when another one is
\* left then, it is counted too and the task is queued again.
HandleTaskError(g) ==
  /\ ~stopPanic /\ goroutine[g] = "failed" /\ NextTask(g)
  /\ task' = [task EXCEPT ![g] = NoTask]
  /\ LET t == task[g]
         first == IF CanRetry(t, retries[t]) THEN 1 ELSE 0
         again == CanRetry(t, retries[t] + first)
     IN /\ retries' = [retries EXCEPT ![t] = @ + first + (IF again THEN 1 ELSE 0)]
        /\ taskState' = [taskState EXCEPT ![t] = IF first = 1 THEN "retrying" ELSE "failed"]
        /\ IF again THEN Retried(t) ELSE NotQueued(t)
  /\ UNCHANGED <<lifecycle, limit, tries, saves>>

Work(g) == \/ WorkerEnds(g) \/ FetchTask(g) \/ PipelineStep(g) \/ StoreData(g)
           \/ PushChildren(g) \/ CompleteTask(g) \/ HandleTaskError(g)
           \/ \E t \in CrawlTasks : PopTask(g, t)
Next == \/ StartBegins \/ StartEnds \/ StartFails \/ StopBegins \/ StopEnds
        \/ \E m \in RetryLimits \cup {0} : AddSeed(m)
        \/ \E g \in Goroutines : Work(g)

Spec == Init /\ [][Next]_crawlVars

-----------------------------------------------------------------------------
InWorker(t) == \E g \in Goroutines : task[g] = t

\* A task that was made and is neither queued nor with a worker is completed,
\* has no retry left, or is one whose Push failed; it is never in two places
\* (processTask, handleTaskError and the Push at the end of each).
TaskKept ==
  \A t \in CrawlTasks : taskState[t] # "none" =>
    /\ (t \in queue \/ InWorker(t) \/ t \in lostPush
        \/ (taskState[t] = "completed" /\ saves[t] > 0)
        \/ (taskState[t] \in {"retrying", "failed"} /\ retries[t] = limit[t]))
    /\ ~(t \in queue /\ InWorker(t))
    /\ Cardinality({g \in Goroutines : task[g] = t}) <= 1
=============================================================================
