----------------------------- MODULE Execution -----------------------------
(***************************************************************************)
(* How the workers of a node execute tasks: executeTaskEnhanced            *)
(* (src/crawler/distributed/node_enhanced.go) and the executor all workers *)
(* share (executor.go), with its fetcher, extractors, pipelines, storages  *)
(* and Lua engines. A task that fails is executed again while it may be    *)
(* retried; how it gets back to a worker is in NodeWorkers.                *)
(***************************************************************************)
EXTENDS Integers, FiniteSets

CONSTANTS ExecTasks, ExecWorkers,
          ExecKinds,      \* kinds of tasks to check, out of "api", "page", "seed" and "lua"
          ExecRetries,    \* Task.MaxRetries
          MaxExecFaults   \* bound of the steps that fail

VARIABLES taskKind,
          extractor,   \* the one extractor of the executor
          exAt, exTask,  \* per worker: its next step, its task
          exUsed,      \* per worker: the extractor its data came from
          luaQueue,    \* per worker: does the channel of its Lua engine hold a task?
          exTries, exOutcome,  \* per task: executions, the result of the last one
          records,     \* per task: records in the storage
          spoiled,     \* ... of executions that failed nevertheless
          unsaved,     \* tasks that succeeded without a record
          subTasks,    \* per task: sub-tasks on the Redis list
          luaLost,     \* tasks a script created and nobody took
          execFaults

executionVars == <<taskKind, extractor, exAt, exTask, exUsed, luaQueue, exTries, exOutcome,
                   records, spoiled, unsaved, subTasks, luaLost, execFaults>>
outside == <<records, spoiled, unsaved, subTasks, luaLost>>
inside == <<taskKind, extractor, exUsed, luaQueue>>

NoTask == "no task"
\* executeTaskEnhanced chooses by the type; only api tasks have JSON.
ExtractorFor(k) == IF k = "api" THEN "json" ELSE "css"

ExecInit ==
  /\ taskKind \in [ExecTasks -> ExecKinds] /\ extractor = "none"
  /\ exAt = [w \in ExecWorkers |-> "idle"] /\ exTask = [w \in ExecWorkers |-> NoTask]
  /\ exUsed = [w \in ExecWorkers |-> "none"] /\ luaQueue = [w \in ExecWorkers |-> FALSE]
  /\ exTries = [t \in ExecTasks |-> 0] /\ exOutcome = [t \in ExecTasks |-> "none"]
  /\ records = [t \in ExecTasks |-> 0] /\ spoiled = [t \in ExecTasks |-> 0]
  /\ unsaved = {} /\ subTasks = [t \in ExecTasks |-> 0] /\ luaLost = {} /\ execFaults = 0

Moves(w, from, to) == exAt[w] = from /\ exAt' = [exAt EXCEPT ![w] = to]
Fault == execFaults < MaxExecFaults /\ execFaults' = execFaults + 1
Kind(w) == taskKind[exTask[w]]
Running(t) == \E w \in ExecWorkers : exTask[w] = t

-----------------------------------------------------------------------------
\* A worker takes a task that waits for its first or its next execution.
TakeTask(w, t) ==
  /\ ~Running(t) /\ exOutcome[t] = "none" /\ exTries[t] <= ExecRetries
  /\ Moves(w, "idle", "select") /\ exTask' = [exTask EXCEPT ![w] = t]
  /\ exTries' = [exTries EXCEPT ![t] = @ + 1]
  /\ UNCHANGED <<inside, exOutcome, outside, execFaults>>

\* SetExtractor writes the field all workers read.
SetExtractor(w) ==
  /\ Moves(w, "select", "fetch") /\ extractor' = ExtractorFor(Kind(w))
  /\ UNCHANGED <<taskKind, exTask, exUsed, luaQueue, exTries, exOutcome, outside, execFaults>>

\* The execution ends: with a failure, of which wrote records are left, or well.
Ends(w, result, wrote) ==
  LET t == exTask[w]
  IN /\ exAt' = [exAt EXCEPT ![w] = "idle"] /\ exTask' = [exTask EXCEPT ![w] = NoTask]
     /\ exUsed' = [exUsed EXCEPT ![w] = "none"]
     /\ exOutcome' = [exOutcome EXCEPT ![t] =
          IF result = "failed" /\ exTries[t] <= ExecRetries THEN "none" ELSE result]
     /\ spoiled' = [spoiled EXCEPT ![t] = @ + (IF result = "failed" THEN wrote ELSE 0)]
     /\ records' = [records EXCEPT ![t] = @ + wrote]
Fails(w, from, wrote) ==
  /\ exAt[w] = from /\ Fault /\ Ends(w, "failed", wrote)
  /\ UNCHANGED <<taskKind, extractor, luaQueue, exTries, unsaved, subTasks, luaLost>>

\* The HTTP fetcher answers with whatever status the server had, or fails.
Fetch(w) ==
  /\ Moves(w, "fetch", IF Kind(w) = "lua" THEN "script" ELSE "extract")
  /\ UNCHANGED <<inside, exTask, exTries, exOutcome, outside, execFaults>>
FetchFails(w) == Fails(w, "fetch", 0)

-----------------------------------------------------------------------------
\* The script creates a task and saves a document; an error of the save is only a value
\* it gets. It raises an error before or after each of them, or ends.
CreateTask(w) ==
  /\ Moves(w, "script", "script saves") /\ luaQueue' = [luaQueue EXCEPT ![w] = TRUE]
  /\ UNCHANGED <<taskKind, extractor, exUsed, exTask, exTries, exOutcome, outside, execFaults>>

\* What the channel holds is handed to the scheduler, of which a node has none.
Drained(w) == luaQueue' = [luaQueue EXCEPT ![w] = FALSE]
ScriptEnds(w, wrote) ==
  /\ exAt[w] = "script saves" /\ Ends(w, "success", wrote) /\ Drained(w)
  /\ luaLost' = luaLost \cup {exTask[w]}
  /\ unsaved' = IF wrote = 0 THEN unsaved \cup {exTask[w]} ELSE unsaved
  /\ UNCHANGED <<taskKind, extractor, exTries, subTasks>>
MongoSave(w) == ScriptEnds(w, 1) /\ UNCHANGED execFaults
MongoSaveFails(w) == Fault /\ ScriptEnds(w, 0)
ScriptFails(w) ==
  /\ exAt[w] \in {"script", "script saves"} /\ Fault /\ Drained(w)
  /\ \E wrote \in (IF exAt[w] = "script" THEN {0} ELSE {0, 1}) : Ends(w, "failed", wrote)
  /\ UNCHANGED <<taskKind, extractor, exTries, unsaved, subTasks, luaLost>>

-----------------------------------------------------------------------------
\* Extract and ExtractLinks use the field as it is now.
Extract(w) ==
  /\ Moves(w, "extract", "pipeline") /\ exUsed' = [exUsed EXCEPT ![w] = extractor]
  /\ UNCHANGED <<taskKind, extractor, luaQueue, exTask, exTries, exOutcome, outside, execFaults>>
ExtractFails(w) == Fails(w, "extract", 0)

\* A pipeline that does not exist is left out; one that rejects the data ends the task.
PipelineProcess(w) ==
  /\ Moves(w, "pipeline", "storage")
  /\ UNCHANGED <<inside, exTask, exTries, exOutcome, outside, execFaults>>
PipelineFails(w) == Fails(w, "pipeline", 0)

\* Without a storage, or with one that cannot be created, the task goes on.
CreateStorage(w) ==
  /\ Moves(w, "storage", "save")
  /\ UNCHANGED <<inside, exTask, exTries, exOutcome, outside, execFaults>>
NoStorage(w) ==
  /\ Moves(w, "storage", "links") /\ Fault /\ unsaved' = unsaved \cup {exTask[w]}
  /\ UNCHANGED <<inside, exTask, exTries, exOutcome, records, spoiled, subTasks, luaLost>>

\* Save, which may fail before or after it wrote the record.
Save(w) ==
  /\ Moves(w, "save", "links") /\ records' = [records EXCEPT ![exTask[w]] = @ + 1]
  /\ UNCHANGED <<inside, exTask, exTries, exOutcome, spoiled, unsaved, subTasks, luaLost,
                 execFaults>>
OnlyLogged(w) ==  \* bug: the error of Save is logged like that of CreateStorage
  Moves(w, "save", "links") /\ Fault
  /\ UNCHANGED <<inside, exTask, exTries, exOutcome, outside>>
SaveFails(w) == \E wrote \in {0, 1} : Fails(w, "save", wrote)

\* The links of a seed become sub-tasks; one that Redis refuses is logged.
GenerateSubTasks(w) ==
  /\ exAt[w] = "links" /\ Ends(w, "success", 0)
  /\ \/ /\ subTasks' = [subTasks EXCEPT ![exTask[w]] = @ + (IF Kind(w) = "seed" THEN 1 ELSE 0)]
        /\ UNCHANGED execFaults
     \/ Kind(w) = "seed" /\ Fault /\ UNCHANGED subTasks
  /\ UNCHANGED <<taskKind, extractor, luaQueue, exTries, unsaved, luaLost>>

Work(w) == \/ (\E t \in ExecTasks : TakeTask(w, t)) \/ SetExtractor(w)
           \/ Fetch(w) \/ FetchFails(w)
           \/ CreateTask(w) \/ MongoSave(w) \/ MongoSaveFails(w) \/ ScriptFails(w)
           \/ Extract(w) \/ ExtractFails(w) \/ PipelineProcess(w) \/ PipelineFails(w)
           \/ CreateStorage(w) \/ NoStorage(w) \/ Save(w) \/ SaveFails(w) \/ GenerateSubTasks(w)

Next == \E w \in ExecWorkers : Work(w)
Spec == ExecInit /\ [][Next]_executionVars

-----------------------------------------------------------------------------
\* Types of the state.
ExecTypeOK ==
  /\ taskKind \in [ExecTasks -> ExecKinds] /\ extractor \in {"none", "json", "css"}
  /\ \A w \in ExecWorkers :
       /\ exAt[w] \in {"idle", "select", "fetch", "script", "script saves", "extract",
                       "pipeline", "storage", "save", "links"}
       /\ (exAt[w] = "idle") <=> (exTask[w] = NoTask)
       /\ exTask[w] \in ExecTasks \cup {NoTask}
       /\ exUsed[w] \in {"none", "json", "css"} /\ luaQueue[w] \in BOOLEAN
       /\ luaQueue[w] => exAt[w] = "script saves"
  /\ exTries \in [ExecTasks -> 0 .. ExecRetries + 1]
  /\ exOutcome \in [ExecTasks -> {"none", "success", "failed"}]
  /\ \A t \in ExecTasks : records[t] \in Nat /\ spoiled[t] \in 0 .. records[t]
  /\ unsaved \subseteq ExecTasks /\ luaLost \subseteq ExecTasks
  /\ subTasks \in [ExecTasks -> {0, 1}] /\ execFaults \in 0 .. MaxExecFaults

\* However often a task fails, is retried and fails at another step, its storage holds
\* one record of the execution that succeeded, none if that one had no storage or its
\* script took no notice of an error, and besides only records of executions that
\* failed after they had written; and only a success leaves sub-tasks.
OneRecord == \A t \in ExecTasks :
  ~Running(t) =>
    /\ records[t] - spoiled[t] = IF exOutcome[t] = "success" /\ t \notin unsaved THEN 1 ELSE 0
    /\ subTasks[t] > 0 => exOutcome[t] = "success"

\* "Set the appropriate extractor for this task" (node_enhanced.go:81): the data a
\* worker has extracted came from the extractor of its own task's type.
OwnExtractor == \A w \in ExecWorkers :
  exUsed[w] # "none" => exUsed[w] = ExtractorFor(Kind(w))
=============================================================================
