---------------------------- MODULE CronSchedules ---------------------------
(***************************************************************************)
(* The in-memory schedules that submit tasks to the dispatcher             *)
(* (crawler/task/scheduler.go): a table under a lock, cron entries made    *)
(* from it, an event channel, and executions of a schedule that look it up *)
(* under the lock and go on without it.                                    *)
(***************************************************************************)
EXTENDS Integers, FiniteSets

CONSTANTS
  Schedules,     \* schedule IDs
  Executions,    \* executions of schedules that run side by side
  MaxRuns,       \* MaxRuns of every schedule, 0 for no limit
  EventCapacity, \* capacity of eventChan (100)
  MaxAdds        \* bound on AddSchedule calls per ID

VARIABLES
  stype,       \* Type, with the two sorts of cron expressions there are
  present,     \* IDs in the table
  active,      \* Enabled of the object in the table
  nextSet,     \* is its NextRun set?
  adds,        \* how many objects had this ID: the last is the one in the table
  runCount,    \* its RunCount
  entries,     \* cron entries of the ID
  recorded,    \* does its metadata hold the entry's ID?
  cronState,   \* not started, running, stopped
  eventChan,   \* events buffered
  at,          \* where an execution is
  on           \* the ID and the object it works with

cronVars == <<stype, present, active, nextSet, adds, runCount, entries, recorded,
              cronState, eventChan, at, on>>

\* validateSchedule takes five fields or a descriptor, the cron object takes
\* six fields or a descriptor: only the latter make an entry.
Types  == {"fields", "descriptor", "interval", "once", "event"}
IsCron(s) == stype[s] \in {"fields", "descriptor"}
AddsEntry(s) == stype[s] = "descriptor"

Init ==
  /\ stype \in [Schedules -> Types]
  /\ present = {} /\ active = {} /\ nextSet = {} /\ recorded = {}
  /\ adds = [s \in Schedules |-> 0] /\ runCount = [s \in Schedules |-> 0]
  /\ entries = [s \in Schedules |-> 0]
  /\ cronState = "created" /\ eventChan = 0
  /\ at = [x \in Executions |-> "idle"]
  /\ on = [x \in Executions |-> [id |-> CHOOSE s \in Schedules : TRUE, add |-> 0]]

-----------------------------------------------------------------------------
(* The table.                                                              *)

\* AddSchedule, e: is it enabled, n: has the caller set NextRun? It overwrites
\* a schedule of the same ID, whose cron entry stays.
AddSchedule(s, e, n) ==
  /\ adds[s] < MaxAdds
  /\ ~(e /\ stype[s] = "fields")
  /\ adds' = [adds EXCEPT ![s] = @ + 1] /\ runCount' = [runCount EXCEPT ![s] = 0]
  /\ present' = present \union {s}
  /\ active' = IF e THEN active \union {s} ELSE active \ {s}
  /\ nextSet' = IF n \/ IsCron(s) \/ stype[s] = "once"
                THEN nextSet \union {s} ELSE nextSet \ {s}
  /\ IF e /\ AddsEntry(s)
     THEN entries' = [entries EXCEPT ![s] = @ + 1] /\ recorded' = recorded \union {s}
     ELSE UNCHANGED entries /\ recorded' = recorded \ {s}
  /\ UNCHANGED <<stype, cronState, eventChan, at, on>>

\* The entry the metadata holds leaves cron.
DropsBlindly(s) == entries' = [entries EXCEPT ![s] = @ - 1]  \* bug: whether or not it holds one
DropsEntry(s) == entries' = [entries EXCEPT ![s] = IF s \in recorded THEN @ - 1 ELSE @]

RemoveSchedule(s) ==
  /\ s \in present
  /\ present' = present \ {s} /\ active' = active \ {s} /\ nextSet' = nextSet \ {s}
  /\ recorded' = recorded \ {s}
  /\ DropsEntry(s)
  /\ UNCHANGED <<stype, adds, runCount, cronState, eventChan, at, on>>

\* EnableSchedule sets Enabled before AddFunc can fail.
EnableSchedule(s) ==
  /\ s \in present \ active
  /\ active' = active \union {s}
  /\ IF AddsEntry(s)
     THEN entries' = [entries EXCEPT ![s] = @ + 1] /\ recorded' = recorded \union {s}
     ELSE UNCHANGED <<entries, recorded>>
  /\ UNCHANGED <<stype, present, nextSet, adds, runCount, cronState, eventChan, at, on>>

Disabled(s) ==
  IF s \in active
  THEN active' = active \ {s} /\ recorded' = recorded \ {s} /\ DropsEntry(s)
  ELSE UNCHANGED <<active, recorded, entries>>
DisableSchedule(s) ==
  /\ s \in present
  /\ Disabled(s)
  /\ UNCHANGED <<stype, present, nextSet, adds, runCount, cronState, eventChan, at, on>>

\* Start: reloadSchedules makes a second entry for each enabled cron schedule
\* that was there before, and records none of them.
Start ==
  /\ cronState = "created"
  /\ cronState' = "running"
  /\ entries' = [s \in Schedules |-> IF s \in active /\ AddsEntry(s)
                                     THEN entries[s] + 1 ELSE entries[s]]
  /\ UNCHANGED <<stype, present, active, nextSet, adds, runCount, recorded, eventChan, at, on>>

\* Stop; executions are not waited for.
Stop ==
  /\ cronState = "running" /\ cronState' = "stopped"
  /\ UNCHANGED <<stype, present, active, nextSet, adds, runCount, entries, recorded,
                 eventChan, at, on>>

-----------------------------------------------------------------------------
(* What starts an execution: an entry, the interval check (the only one    *)
(* that needs NextRun), an event, a call. Nothing starts a "once".         *)

Execute(x, s) ==
  /\ at[x] = "idle"
  /\ at' = [at EXCEPT ![x] = "check"]
  /\ on' = [on EXCEPT ![x] = [id |-> s, add |-> adds[s]]]

Fires(x, s) ==
  /\ cronState = "running"
  /\ \/ entries[s] > 0 /\ s \in present
     \/ stype[s] = "interval" /\ s \in active \intersect nextSet
  /\ Execute(x, s)
  /\ UNCHANGED <<stype, present, active, nextSet, adds, runCount, entries, recorded,
                 cronState, eventChan>>
TriggerSchedule(x, s) ==
  /\ s \in present
  /\ Execute(x, s)
  /\ UNCHANGED <<stype, present, active, nextSet, adds, runCount, entries, recorded,
                 cronState, eventChan>>

\* A full channel drops the event. handleEvent starts an execution for every
\* enabled schedule the event matches.
TriggerEvent ==
  /\ eventChan < EventCapacity
  /\ eventChan' = eventChan + 1
  /\ UNCHANGED <<stype, present, active, nextSet, adds, runCount, entries, recorded,
                 cronState, at, on>>
HandleEvent(s) ==
  /\ cronState = "running" /\ eventChan > 0
  /\ eventChan' = eventChan - 1
  /\ IF s \in active /\ stype[s] = "event"
     THEN \E x \in Executions : Execute(x, s) ELSE UNCHANGED <<at, on>>
  /\ UNCHANGED <<stype, present, active, nextSet, adds, runCount, entries, recorded, cronState>>

-----------------------------------------------------------------------------
(* executeSchedule, after the look-up.                                     *)

Current(x) == on[x].id \in present /\ on[x].add = adds[on[x].id]

\* The check reads the object without the lock. An object no longer in the
\* table keeps the values it had, which nobody else sees: either outcome.
CheckTooLate(s) == MaxRuns > 0 /\ runCount[s] > MaxRuns  \* bug: one too many
AtMaxRuns(s)    == MaxRuns > 0 /\ runCount[s] >= MaxRuns
Check(x) ==
  LET s == on[x].id
      outcomes == IF ~Current(x) THEN {"skip", "disable", "submit"}
                  ELSE IF s \notin active THEN {"skip"}
                  ELSE IF AtMaxRuns(s) THEN {"disable"} ELSE {"submit"}
  IN  /\ at[x] = "check"
      /\ \E o \in outcomes :
           /\ at' = [at EXCEPT ![x] = IF o = "submit" THEN "submit" ELSE "idle"]
           /\ IF o = "disable" /\ s \in present THEN Disabled(s)
                                ELSE UNCHANGED <<active, recorded, entries>>
  /\ UNCHANGED <<stype, present, nextSet, adds, runCount, cronState, eventChan, on>>

\* Submit to the dispatcher fails (failedRuns) or not, and then the run is
\* counted under the lock.
Submit(x) ==
  /\ at[x] = "submit"
  /\ \E o \in {"count", "idle"} : at' = [at EXCEPT ![x] = o]
  /\ UNCHANGED <<stype, present, active, nextSet, adds, runCount, entries, recorded,
                 cronState, eventChan, on>>
Count(x) ==
  /\ at[x] = "count"
  /\ at' = [at EXCEPT ![x] = "idle"]
  /\ runCount' = IF Current(x) THEN [runCount EXCEPT ![on[x].id] = @ + 1] ELSE runCount
  /\ UNCHANGED <<stype, present, active, nextSet, adds, entries, recorded, cronState,
                 eventChan, on>>

Next ==
  \/ \E s \in Schedules :
       \/ \E e \in BOOLEAN, n \in BOOLEAN : AddSchedule(s, e, n)
       \/ RemoveSchedule(s) \/ EnableSchedule(s) \/ DisableSchedule(s) \/ HandleEvent(s)
       \/ \E x \in Executions : Fires(x, s) \/ TriggerSchedule(x, s)
  \/ Start \/ Stop \/ TriggerEvent
  \/ \E x \in Executions : Check(x) \/ Submit(x) \/ Count(x)
Spec == Init /\ [][Next]_cronVars

-----------------------------------------------------------------------------
(* Properties.                                                             *)

CronTypeOK ==
  /\ stype \in [Schedules -> Types]
  /\ present \subseteq Schedules /\ active \subseteq present
  /\ nextSet \subseteq present /\ recorded \subseteq present
  /\ adds \in [Schedules -> 0..MaxAdds] /\ runCount \in [Schedules -> Nat]
  /\ \A s \in Schedules : entries[s] \in Nat
  /\ cronState \in {"created", "running", "stopped"} /\ eventChan \in 0..EventCapacity
  /\ at \in [Executions -> {"idle", "check", "submit", "count"}]

\* MaxRuns is passed only by the executions that were side by side when the last
\* permitted one was checked: those counted and those still to count are never
\* more than MaxRuns and the other executions (scheduler.go:265-302).
InFlight(s) == {x \in Executions : /\ at[x] \in {"submit", "count"}
                                   /\ Current(x) /\ on[x].id = s}
MaxRunsHolds ==
  MaxRuns > 0 => \A s \in Schedules : runCount[s] + Cardinality(InFlight(s))
                                        < MaxRuns + Cardinality(Executions)

=============================================================================
