---------------------------- MODULE MCScheduling ----------------------------
(***************************************************************************)
(* Where tasks come from, and what becomes of them and their data,         *)
(* checked in one run like MCCluster: these components share no state      *)
(* either, and part says which one moves.                                  *)
(***************************************************************************)
EXTENDS Integers, Sequences, FiniteSets

CONSTANTS Period, Hour, SweepPeriod, BatchDates, MaxUnanswered, MaxSchedFaults
CONSTANTS Delayable, Processors, Polled, Priorities, MaxQFaults
CONSTANTS Schedules, Executions, MaxRuns, EventCapacity, MaxAdds
CONSTANTS Instances, AllocNodes, ChanSize, MaxMgrFaults
CONSTANTS Goroutines, Modes, RetryLimits, MaxCrawlFaults, MaxStarts
CONSTANTS Loaders, Callers, MaxLoads, MaxRegFaults
CONSTANTS ExecTasks, ExecWorkers, ExecKinds, ExecRetries, MaxExecFaults
CONSTANTS Records, PipeWorkers, Invalid, Shapes, PipeRetries, MaxPipeFaults
CONSTANTS Keys, StoreKinds, TTLs, DefaultTTL, MaxStores, MaxNow, MaxStoreFaults
CONSTANTS Runs, Hubs, BestForms, MaxResultFaults
CONSTANTS FieldNames, MaxFields

VARIABLES
  part,
  kind, dates, exists, enabled, due, scheduling, entry, fireIn, sweepIn, job, left,
  unanswered, schedFaults,
  priority, delayed, ripe, queued, popped, handed, moving, copying, cleared, qFaults,
  stype, present, active, nextSet, adds, runCount, entries, recorded, cronState, eventChan,
  at, on,
  table, state, node, started, ended, saved, savedMarks, taskChan, allocating, load, counters,
  countMarks, mgrFaults,
  mode, crawlStatus, stopChan, startsMade, nodeUp, goroutine, task, queue, limit, retries,
  taskState, tries, saves, lostPush, stopPanic, crawlFaults,
  definitions, templates, rDefinitions, rTemplates, rIndex, luaTasks, regAt, regJob, failed,
  refused, missed, loads, regFaults,
  taskKind, extractor, exAt, exTask, exUsed, luaQueue, exTries, exOutcome, records, spoiled,
  unsaved, subTasks, luaLost, execFaults,
  shape, processors, seen, pAt, pItem, pValue, pTries, finished, wrote, wroteNil, invalidKept,
  marks, raced, pipeDead, pipeFaults,
  storeKind, now, data, until, scanning, clearing, disconnected, stores, storeFaults, want, since,
  okRun, smallRun, runAt, value, meta, inbox, hubAt, handledBy, packer, sums, readerDead, older,
  resultFaults,
  original, stored, marked, restored

mongoPart == <<kind, dates, exists, enabled, due, scheduling, entry, fireIn, sweepIn, job, left,
  unanswered, schedFaults>>
queuePart == <<priority, delayed, ripe, queued, popped, handed, moving, copying, cleared, qFaults>>
cronPart == <<stype, present, active, nextSet, adds, runCount, entries, recorded, cronState,
  eventChan, at, on>>
managerPart == <<table, state, node, started, ended, saved, savedMarks, taskChan, allocating,
  load, counters, countMarks, mgrFaults>>
crawlerPart == <<mode, crawlStatus, stopChan, startsMade, nodeUp, goroutine, task, queue, limit,
  retries, taskState, tries, saves, lostPush, stopPanic, crawlFaults>>
registryPart == <<definitions, templates, rDefinitions, rTemplates, rIndex, luaTasks, regAt,
  regJob, failed, refused, missed, loads, regFaults>>
execPart == <<taskKind, extractor, exAt, exTask, exUsed, luaQueue, exTries, exOutcome, records,
  spoiled, unsaved, subTasks, luaLost, execFaults>>
pipePart == <<shape, processors, seen, pAt, pItem, pValue, pTries, finished, wrote, wroteNil,
  invalidKept, marks, raced, pipeDead, pipeFaults>>
storesPart == <<storeKind, now, data, until, scanning, clearing, disconnected, stores,
  storeFaults, want, since>>
resultPart == <<okRun, smallRun, runAt, value, meta, inbox, hubAt, handledBy, packer, sums,
  readerDead, older, resultFaults>>
docPart == <<original, stored, marked, restored>>
all == <<part, mongoPart, queuePart, cronPart, managerPart, crawlerPart, registryPart, execPart,
         pipePart, storesPart, resultPart, docPart>>

Mongo == INSTANCE MongoScheduler
Queues == INSTANCE RedisQueues
Cron == INSTANCE CronSchedules
Manager == INSTANCE TaskManager WITH marked <- countMarks
Crawl == INSTANCE Crawler
\* Two processes, a template, a script that defines what the template names and one that
\* defines nothing.
RegUsers        == [c \in Callers |-> CHOOSE p \in Loaders : TRUE]
RegDefinitionOf == [t \in {"t1"} |-> "d1"]
RegDefines      == [s \in {"s1", "s2"} |-> IF s = "s1" THEN {"d1"} ELSE {}]
Registry == INSTANCE TaskRegistry WITH
  at <- regAt, job <- regJob,
  Users <- RegUsers, DefinitionOf <- RegDefinitionOf, Defines <- RegDefines
Exec == INSTANCE Execution
PipeKeys == [r \in Records |-> "the same key"]
Pipes == INSTANCE Pipelines WITH KeyOf <- PipeKeys
Stores == INSTANCE Storages WITH kind <- storeKind
Results == INSTANCE Compression

ASSUME MongoBounds == /\ Period \in Nat /\ Hour \in Nat /\ SweepPeriod \in Nat
                      /\ BatchDates \in Nat \ {0} /\ MaxUnanswered \in Nat /\ MaxSchedFaults \in Nat
ASSUME QueueBounds == IsFiniteSet(Processors) /\ Processors # {} /\ MaxQFaults \in Nat
ASSUME CronBounds == EventCapacity \in Nat /\ MaxAdds \in Nat
ASSUME RunBounds == Schedules # {} /\ IsFiniteSet(Executions) /\ MaxRuns \in Nat
ASSUME ManagerBounds == ChanSize \in Nat /\ MaxMgrFaults \in Nat
ASSUME CrawlBounds == MaxStarts \in Nat /\ MaxCrawlFaults \in Nat /\ RetryLimits \subseteq Nat
ASSUME LoadBounds == Loaders # {} /\ MaxLoads \in Nat /\ MaxRegFaults \in Nat
ASSUME ExecBounds == ExecRetries \in Nat /\ MaxExecFaults \in Nat /\ Exec!NoTask \notin ExecTasks
ASSUME PipeBounds == PipeRetries \in Nat /\ MaxPipeFaults \in Nat /\ Pipes!NoRecord \notin Records
ASSUME StoreBounds ==
  /\ StoreKinds \subseteq {"map", "memory", "redis", "mongo", "mysql"}
  /\ DefaultTTL \in Nat /\ MaxStores \in Nat /\ MaxNow \in Nat /\ MaxStoreFaults \in Nat
  /\ TTLs \subseteq 0 .. DefaultTTL + 1
ASSUME ResultBounds ==
  IsFiniteSet(Runs) /\ BestForms \subseteq Results!Packed /\ MaxResultFaults \in Nat
\* A document's names stay names when they are made short and long again.
ASSUME DocBounds == \A k \in FieldNames : Results!Expanded(Results!Compacted(k)) \in FieldNames

\* A part that does not move starts in one state only.
Init ==
  /\ part \in {"mongo", "queues", "cron", "manager", "crawler", "registry", "exec", "pipes",
               "stores", "results", "docs"}
  /\ Mongo!Init /\ (part # "mongo" => kind = "once" /\ dates = 0)
  /\ Queues!Init /\ (part # "queues" => \A d \in Delayable : priority[d] = 0)
  /\ Cron!Init /\ (part # "cron" => \A s \in Schedules : stype[s] = "once")
  /\ Manager!Init
  /\ Crawl!Init /\ (part # "crawler" => mode = "standalone")
  /\ Registry!RegistryInit
  /\ Exec!ExecInit /\ (part # "exec" => \A t \in ExecTasks : taskKind[t] = "api")
  /\ Pipes!PipesInit /\ (part # "pipes" => shape = "maps" /\ processors = {})
  /\ Stores!StoresInit /\ (part # "stores" => storeKind = "map")
  /\ Results!ResultsInit /\ (part # "results" => okRun = {} /\ smallRun = {})
  /\ Results!DocsInit /\ (part # "docs" => original = CHOOSE d \in Results!Docs : TRUE)

\* Only the part p moves.
Only(p) ==
  /\ part = p /\ UNCHANGED part
  /\ p # "mongo"    => UNCHANGED mongoPart
  /\ p # "queues"   => UNCHANGED queuePart
  /\ p # "cron"     => UNCHANGED cronPart
  /\ p # "manager"  => UNCHANGED managerPart
  /\ p # "crawler"  => UNCHANGED crawlerPart
  /\ p # "registry" => UNCHANGED registryPart
  /\ p # "exec"     => UNCHANGED execPart
  /\ p # "pipes"    => UNCHANGED pipePart
  /\ p # "stores"   => UNCHANGED storesPart
  /\ p # "results"  => UNCHANGED resultPart
  /\ p # "docs"     => UNCHANGED docPart

Next == \/ Only("mongo") /\ Mongo!Next
        \/ Only("queues") /\ Queues!Next
        \/ Only("cron") /\ Cron!Next
        \/ Only("manager") /\ Manager!Next
        \/ Only("crawler") /\ Crawl!Next
        \/ Only("registry") /\ Registry!Next
        \/ Only("exec") /\ Exec!Next
        \/ Only("pipes") /\ Pipes!Next
        \/ Only("stores") /\ Stores!Next
        \/ Only("results") /\ Results!ResultsNext
        \/ Only("docs") /\ Results!DocsNext

\* The fairness of the components, while they are the part that moves.
Fairness ==
  /\ WF_mongoPart(part = "mongo" /\ Mongo!Tick) /\ WF_mongoPart(part = "mongo" /\ Mongo!EntryFires)
  /\ WF_mongoPart(part = "mongo" /\ Mongo!Sweep)
  /\ \A t \in Mongo!Threads : WF_mongoPart(part = "mongo" /\ Mongo!Work(t))

Spec == Init /\ [][Next]_all /\ Fairness

-----------------------------------------------------------------------------
\* The types of the states of the component that moves; the others are as they began.
TypesOK ==
  CASE part = "mongo"    -> Mongo!SchedTypeOK
    [] part = "queues"   -> Queues!RedisQTypeOK
    [] part = "cron"     -> Cron!CronTypeOK
    [] part = "manager"  -> Manager!MgrTypeOK
    [] part = "crawler"  -> Crawl!CrawlTypeOK
    [] part = "registry" -> Registry!RegistryTypeOK
    [] part = "exec"     -> Exec!ExecTypeOK
    [] part = "pipes"    -> Pipes!PipesTypeOK
    [] part = "stores"   -> Stores!StoresTypeOK
    [] part = "results"  -> Results!ResultTypeOK
    [] part = "docs"     -> restored = Results!NoDoc \/ DOMAIN restored \subseteq FieldNames

\* See the modules for what these say.
DelayedFate   == part = "queues" => Queues!DelayedFate
MaxRunsHolds  == part = "cron" => Cron!MaxRunsHolds
CountedOnce   == part = "manager" => Manager!CountedOnce
TaskKept      == part = "crawler" => Crawl!TaskKept
RegistryWorks == part = "registry" => Registry!RegistryWorks
RecordsKept   == /\ part = "exec" => Exec!OneRecord
                 /\ part = "pipes" => Pipes!RecordFate
ReadBack      == /\ part = "stores" => Stores!ReadsLast
                 /\ part = "results" => Results!NotOverwritten
                 /\ part = "docs" => Results!DocumentRestored
KeepsRunning  == part = "mongo" => Mongo!KeepsRunning
=============================================================================
