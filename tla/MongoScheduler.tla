---------------------------- MODULE MongoScheduler --------------------------
(***************************************************************************)
(* A scheduled task document in MongoDB (crawler/task/service.go) and the  *)
(* scheduler that turns it into tasks on the Redis list                    *)
(* (crawler/scheduler/scheduler.go). The entry made from the document when *)
(* the scheduler starts, the sweep for overdue documents and RunTaskNow    *)
(* each run submitTask in a thread of their own; the result of a task      *)
(* moves next_run once more. Times are ticks from now, rounded up, so that *)
(* "now plus a period" taken within a tick lies after the period's end.    *)
(***************************************************************************)
EXTENDS Integers

CONSTANTS
  Period,         \* ticks between two firings of the entry
  Hour,           \* ticks of calculateNextRun's placeholder for cron
  SweepPeriod,    \* ticks between two sweeps
  BatchDates,     \* dates of a document with a date strategy of several dates
  MaxUnanswered,  \* bound on tasks whose result is awaited
  MaxSchedFaults  \* bound on failed calls, crashes and RunTaskNow together

VARIABLES
  kind,        \* schedule.type of the document
  dates,       \* dates of its strategy, 0 if it has no date variable
  exists,      \* is the document in the collection?
  enabled,     \* status.enabled
  due,         \* status.next_run: ticks until it, 0 if past, or Never
  scheduling,  \* where the scheduler process is
  entry,       \* is there a cron entry (or a timer) for the document?
  fireIn,      \* ticks until it fires
  sweepIn,     \* ticks until the next sweep
  job,         \* where each thread is in submitTask
  left,        \* dates it has still to submit
  unanswered,  \* submitted tasks whose result is awaited
  schedFaults

schedVars == <<kind, dates, exists, enabled, due, scheduling, entry, fireIn, sweepIn,
               job, left, unanswered, schedFaults>>

Kinds   == {"interval", "cron", "once", "manual"}
Threads == {"entry", "sweep", "now"}
Never   == Period + Hour + 2  \* the zero time

\* Scheduler.calculateNextRun
ForgetsInterval(k) == IF k = "cron" THEN Hour ELSE Never  \* bug: default case
NextRun(k) == CASE k = "interval" -> Period + 1
                [] k = "cron"     -> Hour
                [] OTHER          -> Never

Init ==
  /\ kind \in Kinds /\ dates \in {0, 1, BatchDates}
  /\ exists = FALSE /\ enabled = FALSE /\ due = Never
  /\ scheduling = "down" /\ entry = FALSE /\ fireIn = 0 /\ sweepIn = 0
  /\ job = [t \in Threads |-> "idle"] /\ left = [t \in Threads |-> 0]
  /\ unanswered = 0 /\ schedFaults = 0

-----------------------------------------------------------------------------
(* The task service.                                                       *)

\* CreateTask: an enabled document gets its first next_run (30 seconds, one
\* hour, or the start time of a "once").
CreateTask(e) ==
  /\ ~exists
  /\ exists' = TRUE /\ enabled' = e
  /\ due' \in IF ~e \/ kind = "manual" THEN {Never}
              ELSE IF kind = "once" THEN {0, Period} ELSE {1}
  /\ UNCHANGED <<kind, dates, scheduling, entry, fireIn, sweepIn, job, left, unanswered,
                 schedFaults>>

\* EnableTask makes it due now, whatever its schedule.
EnableTask ==
  /\ exists
  /\ enabled' = TRUE /\ due' = 0
  /\ UNCHANGED <<kind, dates, exists, scheduling, entry, fireIn, sweepIn, job, left,
                 unanswered, schedFaults>>

\* DisableTask and DeleteTask; the scheduler is not told.
DisableTask ==
  /\ exists
  /\ enabled' = FALSE
  /\ UNCHANGED <<kind, dates, exists, due, scheduling, entry, fireIn, sweepIn, job, left,
                 unanswered, schedFaults>>
DeleteTask ==
  /\ exists
  /\ exists' = FALSE /\ enabled' = FALSE /\ due' = Never
  /\ UNCHANGED <<kind, dates, scheduling, entry, fireIn, sweepIn, job, left, unanswered,
                 schedFaults>>

-----------------------------------------------------------------------------
(* The scheduler.                                                          *)

\* Start: loadTasks takes the documents enabled at that moment; a "once" only if
\* its time is still to come.
Start ==
  /\ scheduling = "down"
  /\ scheduling' = "running" /\ sweepIn' = SweepPeriod
  /\ LET timed == exists /\ enabled
         once  == kind = "once" /\ due \in 1..(Never - 1)
     IN  /\ entry' = (timed /\ (once \/ kind \in {"interval", "cron"}))
         /\ fireIn' = IF timed /\ once THEN due ELSE Period
  /\ UNCHANGED <<kind, dates, exists, enabled, due, job, left, unanswered, schedFaults>>

\* The ends of the process: Stop, which waits for the entries' jobs, and a crash.
Down == /\ scheduling' = "down" /\ entry' = FALSE
        /\ job' = [t \in Threads |-> "idle"] /\ left' = [t \in Threads |-> 0]
        /\ UNCHANGED <<kind, dates, exists, enabled, due, fireIn, sweepIn, unanswered>>
Stop  == scheduling = "running" /\ job["entry"] = "idle" /\ Down /\ UNCHANGED schedFaults
Crash == /\ scheduling = "running" /\ schedFaults < MaxSchedFaults
         /\ Down /\ schedFaults' = schedFaults + 1

\* submitTask: one task, or one for each date.
Submit(t) == /\ job' = [job EXCEPT ![t] = "store"]
             /\ left' = [left EXCEPT ![t] = IF dates = 0 THEN 1 ELSE dates]

\* The entry of an interval reads the document again and submits it if it is
\* due; the others submit the document they were made from.
EntryFires ==
  /\ scheduling = "running" /\ entry
  /\ fireIn = 0 /\ job["entry"] = "idle"
  /\ fireIn' = Period
  /\ entry' = (kind # "once")
  /\ IF kind = "interval" => (exists /\ due = 0)
     THEN Submit("entry") ELSE UNCHANGED <<job, left>>
  /\ UNCHANGED <<kind, dates, exists, enabled, due, scheduling, sweepIn, unanswered,
                 schedFaults>>

\* checkOverdueTasks
Sweep ==
  /\ scheduling = "running"
  /\ sweepIn = 0 /\ job["sweep"] = "idle"
  /\ sweepIn' = SweepPeriod
  /\ IF exists /\ enabled /\ due = 0 THEN Submit("sweep") ELSE UNCHANGED <<job, left>>
  /\ UNCHANGED <<kind, dates, exists, enabled, due, scheduling, entry, fireIn, unanswered,
                 schedFaults>>

RunTaskNow ==
  /\ scheduling = "running" /\ exists
  /\ job["now"] = "idle" /\ schedFaults < MaxSchedFaults
  /\ schedFaults' = schedFaults + 1
  /\ Submit("now")
  /\ UNCHANGED <<kind, dates, exists, enabled, due, scheduling, entry, fireIn, sweepIn,
                 unanswered>>

\* submitSingleTask is left, with or without success; the loop over the dates
\* goes on either way.
NextDate(t) ==
  /\ left' = [left EXCEPT ![t] = @ - 1]
  /\ job' = [job EXCEPT ![t] = IF left[t] = 1 THEN "idle" ELSE "store"]

\* SET of the task's data, then LPUSH, then (for a task without a date)
\* updateTaskStatus.
Store(t) ==
  /\ job[t] = "store"
  /\ job' = [job EXCEPT ![t] = "push"]
  /\ UNCHANGED <<kind, dates, exists, enabled, due, scheduling, entry, fireIn, sweepIn, left,
                 unanswered, schedFaults>>
Push(t) ==
  /\ job[t] = "push"
  /\ unanswered' = IF unanswered < MaxUnanswered THEN unanswered + 1 ELSE unanswered
  /\ IF dates = 0 THEN job' = [job EXCEPT ![t] = "update"] /\ UNCHANGED left
                  ELSE NextDate(t)
  /\ UNCHANGED <<kind, dates, exists, enabled, due, scheduling, entry, fireIn, sweepIn,
                 schedFaults>>
UpdateTaskStatus(t) ==
  /\ job[t] = "update"
  /\ NextDate(t)
  /\ due' = IF exists THEN NextRun(kind) ELSE due
  /\ UNCHANGED <<kind, dates, exists, enabled, scheduling, entry, fireIn, sweepIn,
                 unanswered, schedFaults>>

\* Any of the calls fails.
SubmitFails(t) ==
  /\ job[t] # "idle" /\ schedFaults < MaxSchedFaults
  /\ schedFaults' = schedFaults + 1
  /\ NextDate(t)
  /\ UNCHANGED <<kind, dates, exists, enabled, due, scheduling, entry, fireIn, sweepIn,
                 unanswered>>

\* The coordinator passes a result on, which need not be a success.
UpdateTaskResult ==
  /\ unanswered > 0
  /\ unanswered' = unanswered - 1
  /\ due' = IF exists THEN NextRun(kind) ELSE due
  /\ UNCHANGED <<kind, dates, exists, enabled, scheduling, entry, fireIn, sweepIn, job, left,
                 schedFaults>>

\* Time. The timers of a running scheduler are served before it goes on.
Tick ==
  /\ scheduling = "running" => sweepIn > 0 /\ (entry => fireIn > 0)
  /\ due' = IF due \in {0, Never} THEN due ELSE due - 1
  /\ fireIn' = IF scheduling = "running" /\ entry THEN fireIn - 1 ELSE fireIn
  /\ sweepIn' = IF scheduling = "running" THEN sweepIn - 1 ELSE sweepIn
  /\ UNCHANGED <<kind, dates, exists, enabled, scheduling, entry, job, left, unanswered,
                 schedFaults>>

Work(t) == Store(t) \/ Push(t) \/ UpdateTaskStatus(t)
Timers  == EntryFires \/ Sweep
Next ==
  \/ \E e \in BOOLEAN : CreateTask(e)
  \/ EnableTask \/ DisableTask \/ DeleteTask
  \/ Start \/ Stop \/ Crash \/ RunTaskNow \/ Timers \/ Tick \/ UpdateTaskResult
  \/ \E t \in Threads : Work(t) \/ SubmitFails(t)

\* Threads and timers of a running scheduler go on, and so does time.
Fairness == WF_schedVars(Tick) /\ WF_schedVars(EntryFires) /\ WF_schedVars(Sweep)
            /\ \A t \in Threads : WF_schedVars(Work(t))
Spec == Init /\ [][Next]_schedVars /\ Fairness

-----------------------------------------------------------------------------
(* Properties.                                                             *)

SchedTypeOK ==
  /\ kind \in Kinds /\ dates \in {0, 1, BatchDates}
  /\ exists \in BOOLEAN /\ enabled \in BOOLEAN /\ due \in 0..Never
  /\ scheduling \in {"running", "down"} /\ entry \in BOOLEAN
  /\ fireIn \in 0..Never /\ sweepIn \in 0..SweepPeriod
  /\ job \in [Threads -> {"idle", "store", "push", "update"}]
  /\ left \in [Threads -> 0..(BatchDates + 1)]
  /\ unanswered \in 0..MaxUnanswered /\ schedFaults \in 0..MaxSchedFaults

\* A document that stays enabled under a running scheduler is submitted again
\* and again, whatever was cut short by failed calls or crashes before, whether
\* it was there at the start or came later, although nothing advances next_run
\* but the calls after a push; a "once" is submitted until that has happened
\* (scheduler.go:404-418, 542-572, 845-879).
KeepsRunning ==
  <>[](exists /\ enabled /\ scheduling = "running" /\ kind # "manual") =>
    \/ []<><<\E t \in Threads : Push(t)>>_schedVars
    \/ kind = "once" /\ <>[](due = Never)
=============================================================================
