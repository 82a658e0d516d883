------------------------------ MODULE RedisQueues ---------------------------
(***************************************************************************)
(* The task queues in Redis (crawler/task/queue.go): one sorted set per    *)
(* priority (RedisQueue), and the sorted set of delayed tasks whose        *)
(* processors move the ripe ones over (DelayedQueue). A processor reads    *)
(* the ripe tasks once and then pushes and removes them one by one.        *)
(***************************************************************************)
EXTENDS Naturals, FiniteSets

CONSTANTS
  Delayable,   \* tasks
  Processors,  \* processes that run StartProcessor
  Polled,      \* priorities Pop asks for, highest first from the largest
  Priorities,  \* priorities tasks have; getQueueKey takes any integer
  MaxQFaults   \* bound on failed calls and processors that die

VARIABLES
  priority,  \* of each task
  delayed,   \* the set <prefix>:delayed
  ripe,      \* the tasks whose time has come
  queued,    \* copies in the priority's set; Queue() stamps each, so they differ
  popped,    \* copies that left it
  handed,    \* tasks PushDelayed or Push was called for
  moving,    \* what each processor has read and not dealt with
  copying,   \* the task it has pushed and not yet removed
  cleared,   \* has Clear been called?
  qFaults

redisQVars == <<priority, delayed, ripe, queued, popped, handed, moving, copying, cleared,
                qFaults>>

Nobody == {}

Init ==
  /\ priority \in [Delayable -> Priorities]
  /\ delayed = {} /\ ripe = {} /\ handed = {}
  /\ queued = [t \in Delayable |-> 0] /\ popped = [t \in Delayable |-> 0]
  /\ moving = [p \in Processors |-> {}] /\ copying = [p \in Processors |-> Nobody]
  /\ cleared = FALSE /\ qFaults = 0

PushDelayed(t) ==
  /\ t \notin handed
  /\ handed' = handed \union {t} /\ delayed' = delayed \union {t}
  /\ UNCHANGED <<priority, ripe, queued, popped, moving, copying, cleared, qFaults>>

\* Push and PushBatch: ZADD; the metadata that follows steers nothing.
Push(t) ==
  /\ t \notin handed
  /\ handed' = handed \union {t} /\ queued' = [queued EXCEPT ![t] = @ + 1]
  /\ UNCHANGED <<priority, delayed, ripe, popped, moving, copying, cleared, qFaults>>

Ripen(t) ==
  /\ t \in delayed \ ripe
  /\ ripe' = ripe \union {t}
  /\ UNCHANGED <<priority, delayed, queued, popped, handed, moving, copying, cleared, qFaults>>

\* ProcessDelayed: ZRANGEBYSCORE, then for each task Push and ZREM.
Read(p) ==
  /\ moving[p] = {} /\ copying[p] = Nobody
  /\ delayed \intersect ripe # {}
  /\ moving' = [moving EXCEPT ![p] = delayed \intersect ripe]
  /\ UNCHANGED <<priority, delayed, ripe, queued, popped, handed, copying, cleared, qFaults>>

Removed(t) == delayed' = delayed \ {t}
RemovesFirst(p, t) == Removed(t) /\ UNCHANGED queued  \* bug: the push comes second
Copies(p, t) ==
  /\ queued' = [queued EXCEPT ![t] = @ + 1]
  /\ UNCHANGED delayed
Copy(p, t) ==
  /\ t \in moving[p] /\ copying[p] = Nobody
  /\ moving' = [moving EXCEPT ![p] = @ \ {t}]
  /\ copying' = [copying EXCEPT ![p] = {t}]
  /\ Copies(p, t)
  /\ UNCHANGED <<priority, ripe, popped, handed, cleared, qFaults>>
Remove(p) ==
  /\ copying[p] # Nobody
  /\ delayed' = delayed \ copying[p]
  /\ copying' = [copying EXCEPT ![p] = Nobody]
  /\ UNCHANGED <<priority, ripe, queued, popped, handed, moving, cleared, qFaults>>

\* The push, or the removal, fails and the next task is taken.
CopyFails(p, t) ==
  /\ t \in moving[p] /\ copying[p] = Nobody /\ qFaults < MaxQFaults
  /\ moving' = [moving EXCEPT ![p] = @ \ {t}]
  /\ qFaults' = qFaults + 1
  /\ UNCHANGED <<priority, delayed, ripe, queued, popped, handed, copying, cleared>>
RemoveFails(p) ==
  /\ copying[p] # Nobody /\ qFaults < MaxQFaults
  /\ copying' = [copying EXCEPT ![p] = Nobody]
  /\ qFaults' = qFaults + 1
  /\ UNCHANGED <<priority, delayed, ripe, queued, popped, handed, moving, cleared>>
Dies(p) ==
  /\ qFaults < MaxQFaults
  /\ moving[p] # {} \/ copying[p] # Nobody
  /\ moving' = [moving EXCEPT ![p] = {}] /\ copying' = [copying EXCEPT ![p] = Nobody]
  /\ qFaults' = qFaults + 1
  /\ UNCHANGED <<priority, delayed, ripe, queued, popped, handed, cleared>>

\* Pop: ZPOPMIN of the first set that is not empty; an error counts as empty.
Pop(t) ==
  /\ queued[t] > 0 /\ priority[t] \in Polled
  /\ \/ \A u \in Delayable : queued[u] > 0 /\ priority[u] \in Polled => priority[u] <= priority[t]
     \/ qFaults < MaxQFaults
  /\ queued' = [queued EXCEPT ![t] = @ - 1] /\ popped' = [popped EXCEPT ![t] = @ + 1]
  /\ UNCHANGED <<priority, delayed, ripe, handed, moving, copying, cleared, qFaults>>

\* Clear deletes <prefix>:queue:*, which is every priority's set.
Clear ==
  /\ \E t \in Delayable : queued[t] > 0
  /\ queued' = [t \in Delayable |-> 0] /\ cleared' = TRUE
  /\ UNCHANGED <<priority, delayed, ripe, popped, handed, moving, copying, qFaults>>

Process(p) == Read(p) \/ Remove(p) \/ \E t \in Delayable : Copy(p, t)
Next ==
  \/ \E t \in Delayable : PushDelayed(t) \/ Push(t) \/ Ripen(t) \/ Pop(t)
  \/ \E p \in Processors : \/ Process(p) \/ RemoveFails(p) \/ Dies(p)
                           \/ \E t \in Delayable : CopyFails(p, t)
  \/ Clear
Spec == Init /\ [][Next]_redisQVars

-----------------------------------------------------------------------------
(* Properties.                                                             *)

RedisQTypeOK ==
  /\ priority \in [Delayable -> Priorities]
  /\ delayed \subseteq Delayable /\ ripe \subseteq Delayable /\ handed \subseteq Delayable
  /\ queued \in [Delayable -> Nat] /\ popped \in [Delayable -> Nat]
  /\ moving \in [Processors -> SUBSET Delayable]
  /\ copying \in [Processors -> SUBSET Delayable]
  /\ cleared \in BOOLEAN /\ qFaults \in 0..MaxQFaults

\* Until somebody clears the queue, a task handed over is delayed, queued or was
\* popped, whatever processor dies or fails in the middle of its move; and it is
\* copied once by each processor at most, and once more for each of these faults
\* (queue.go:573-604).
DelayedFate ==
  \A t \in handed :
    /\ cleared \/ t \in delayed \/ queued[t] + popped[t] > 0
    /\ queued[t] + popped[t] <= Cardinality(Processors) + qFaults
=============================================================================
