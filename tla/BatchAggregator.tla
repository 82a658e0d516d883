--------------------------- MODULE BatchAggregator --------------------------
(***************************************************************************)
(* The middleware that counts the results of a batch in Redis and reports  *)
(* the batch as complete (crawler/distributed/batch_middleware.go). The    *)
(* coordinator runs it for results of successful tasks only, each in a     *)
(* thread of its own.                                                      *)
(***************************************************************************)
EXTENDS Naturals, FiniteSets

CONSTANTS
  BatchTasks,  \* the tasks of one batch; BatchSize is their number
  MaxReports   \* bound on results of one task

VARIABLES
  reports,      \* results that have arrived, per task
  aggregating,  \* where the thread of a task's result is
  counted,      \* what INCR returned to it
  processed,    \* key batch:<id>:processed, 0 if there is none
  expiring,     \* has the key a TTL?
  expiredOnce,  \* has it expired?
  completions   \* batch_completed events pushed

batchVars == <<reports, aggregating, counted, processed, expiring, expiredOnce,
               completions>>

BatchSize == Cardinality(BatchTasks)

Init ==
  /\ reports = [t \in BatchTasks |-> 0]
  /\ aggregating = [t \in BatchTasks |-> "idle"]
  /\ counted = [t \in BatchTasks |-> 0]
  /\ processed = 0 /\ expiring = FALSE /\ expiredOnce = FALSE /\ completions = 0

Report(t) ==
  /\ aggregating[t] = "idle" /\ reports[t] < MaxReports
  /\ reports' = [reports EXCEPT ![t] = @ + 1]
  /\ aggregating' = [aggregating EXCEPT ![t] = "count"]
  /\ UNCHANGED <<counted, processed, expiring, expiredOnce, completions>>

\* INCR
Count(t) ==
  /\ aggregating[t] = "count"
  /\ processed' = processed + 1
  /\ counted' = [counted EXCEPT ![t] = processed + 1]
  /\ aggregating' = [aggregating EXCEPT ![t] = "expire"]
  /\ UNCHANGED <<reports, expiring, expiredOnce, completions>>

\* EXPIRE by the first; then the test.
CompleteEarly(t) == counted[t] + 1 >= BatchSize  \* bug: off by one
BatchComplete(t) == counted[t] >= BatchSize
SetTTL(t) ==
  /\ aggregating[t] = "expire"
  /\ expiring' = (expiring \/ (counted[t] = 1 /\ processed > 0))
  /\ aggregating' =
       [aggregating EXCEPT ![t] = IF BatchComplete(t) THEN "publish" ELSE "idle"]
  /\ UNCHANGED <<reports, counted, processed, expiredOnce, completions>>

\* RPUSH of the event, then DEL of the counter.
PublishComplete(t) ==
  /\ aggregating[t] = "publish"
  /\ completions' = completions + 1
  /\ aggregating' = [aggregating EXCEPT ![t] = "delete"]
  /\ UNCHANGED <<reports, counted, processed, expiring, expiredOnce>>
DeleteCounter(t) ==
  /\ aggregating[t] = "delete"
  /\ processed' = 0 /\ expiring' = FALSE
  /\ aggregating' = [aggregating EXCEPT ![t] = "idle"]
  /\ UNCHANGED <<reports, counted, expiredOnce, completions>>

\* Two hours after the first result.
ExpireCounter ==
  /\ expiring
  /\ processed' = 0 /\ expiring' = FALSE /\ expiredOnce' = TRUE
  /\ UNCHANGED <<reports, aggregating, counted, completions>>

Aggregate(t) == Count(t) \/ SetTTL(t) \/ PublishComplete(t) \/ DeleteCounter(t)
Next     == \/ \E t \in BatchTasks : Report(t) \/ Aggregate(t)
            \/ ExpireCounter
Spec     == Init /\ [][Next]_batchVars

-----------------------------------------------------------------------------
(* Properties.                                                             *)

BatchTypeOK ==
  /\ reports \in [BatchTasks -> 0..MaxReports]
  /\ aggregating \in [BatchTasks -> {"idle", "count", "expire", "publish", "delete"}]
  /\ counted \in [BatchTasks -> Nat] /\ processed \in Nat /\ completions \in Nat
  /\ expiring \in BOOLEAN /\ expiredOnce \in BOOLEAN

\* With one result per task, threads that count side by side report the batch at
\* most once, and only when every task of it has been counted
\* (batch_middleware.go:61-101).
OneCompletion ==
  /\ completions <= 1
  /\ completions = 1 => \A t \in BatchTasks : reports[t] > 0 /\ counted[t] > 0
=============================================================================
