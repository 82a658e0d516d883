---------------------------- MODULE Coordinator ----------------------------
(***************************************************************************)
(* The hub's task hand-off (crawler/distributed/coordinator.go): the       *)
(* scheduler pushes tasks on the Redis list "queue:tasks:pending", the     *)
(* distributor goroutine takes batches from it and sends each task to a    *)
(* node through the communication hub, nodes publish results on a Redis    *)
(* channel, and the result, failure and reassignment handlers update the   *)
(* two maps taskAssignments and pendingTasks that remember what was sent.  *)
(*                                                                         *)
(* The distributor, the result loop and the reassignment loop are separate *)
(* goroutines; each action below is one of their steps between two points  *)
(* where another one may run (a Redis call, a lock, a channel send).       *)
(* Fields of a task that no handler branches on are left out.              *)
(***************************************************************************)
EXTENDS Integers, SequencesExt

CONSTANTS
  Tasks,         \* task instances the scheduler submits, once each
  Nodes,         \* crawler nodes
  NoNode,        \* "no assignment": a missing key of taskAssignments
  BatchSize,     \* CoordinatorConfig.BatchSize
  MaxRetries,    \* Task.MaxRetries, the same for every task
  NodeCapacity,  \* size of a node's local task queue and workers
  SendBuffer,    \* capacity of NodeConnection.sendCh (100 in the code)
  PushInWindow,  \* may the scheduler push between LRANGE and LTRIM?
  MaxFaults,     \* bound on node crashes and pauses
  MaxRestarts    \* bound on hub restarts

ASSUME NodesAssumption      == IsFiniteSet(Nodes)
ASSUME NoNodeAssumption     == NoNode \notin Nodes
ASSUME BatchSizeAssumption  == BatchSize \in Nat \ {0}
ASSUME MaxRetriesAssumption == MaxRetries \in Nat
ASSUME BoundsAssumption     == /\ NodeCapacity \in Nat
                               /\ SendBuffer \in Nat
                               /\ MaxFaults \in Nat
                               /\ MaxRestarts \in Nat
                               /\ PushInWindow \in BOOLEAN

VARIABLES
  submitted,        \* tasks the scheduler has pushed
  pending,          \* the Redis list "<prefix>:queue:tasks:pending"
  distPC,           \* where the distributor goroutine is
  batch,            \* taskDataList of distributeTaskBatch
  next,             \* index i of its loop, from 1
  targets,          \* activeNodes, in the order the map iteration gave
  taskAssignments,  \* taskID -> nodeID
  pendingTasks,     \* taskID -> RetryCount of the remembered task
  inflight,         \* messages in a node's sendCh or on its stream
  running,          \* attempts in a node's queue or workers
  retryList,        \* attempts in the Redis list of a node, which outlives it
  rejected,         \* tasks a node answered "Task queue full" to
  results,          \* messages of the Redis channel "<prefix>:results"
  inHand,           \* the result handleTaskResult is working on, if any
  notified,         \* UpdateTaskResult calls per task
  failed,           \* tasks with a "<prefix>:failed:<id>" key
  toReassign,       \* tasksToReassign of checkAndReassignTasks
  up,               \* nodes that are alive and connected to the hub
  view,             \* what ClusterManager.GetNodes says of a node
  faults,           \* node faults so far
  restarts          \* hub restarts so far

queueVars == <<submitted, pending>>
distVars  == <<distPC, batch, next, targets>>
mapVars   == <<taskAssignments, pendingTasks>>
nodeVars  == <<inflight, running, retryList, rejected>>
resVars   == <<results, inHand, notified, failed>>
envVars   == <<up, view, faults, restarts>>
vars == <<queueVars, distVars, mapVars, nodeVars, resVars, toReassign, envVars>>

-----------------------------------------------------------------------------
NotPending == -1
NoResult   == <<>>

\* A list entry is the JSON of a task ("data") or, when the coordinator itself
\* requeues, the bare task ID ("id").
Entry  == [kind : {"data", "id"}, task : Tasks]
Result == [task : Tasks, ok : BOOLEAN]
Data(t) == [kind |-> "data", task |-> t]
IdAsJSON(t) == Data(t)  \* bug: the requeue writes the task itself
Id(t)   == [kind |-> "id",   task |-> t]

\* A task on a node, with its RetryCount there.
Attempt  == [task : Tasks, retry : 0..MaxRetries]
First(t) == [task |-> t, retry |-> 0]

\* What the cluster manager's map holds for a node: nothing, status "active",
\* another status, or another status and no update for more than 60 seconds.
Views == {"absent", "active", "inactive", "dead"}
ActiveNodes == {n \in Nodes : view[n] = "active"}

Current == batch[next]
Target  == targets[((next - 1) % Len(targets)) + 1]

NoTasks    == [t \in Tasks |-> 0]
NoAttempts == [e \in Attempt |-> 0]

Init ==
  /\ submitted = {}
  /\ pending = <<>>
  /\ distPC = "idle" /\ batch = <<>> /\ next = 1 /\ targets = <<>>
  /\ taskAssignments = [t \in Tasks |-> NoNode]
  /\ pendingTasks = [t \in Tasks |-> NotPending]
  /\ inflight = [n \in Nodes |-> NoTasks]
  /\ running = [n \in Nodes |-> NoAttempts]
  /\ retryList = [n \in Nodes |-> NoAttempts]
  /\ rejected = {}
  /\ results = <<>> /\ inHand = NoResult
  /\ notified = NoTasks /\ failed = {}
  /\ toReassign = {}
  /\ up = Nodes /\ view = [n \in Nodes |-> "active"]
  /\ faults = 0 /\ restarts = 0

-----------------------------------------------------------------------------
(* The scheduler.                                                          *)

\* submitSingleTask: LPUSH at the end the coordinator reads from.
Submit(t) ==
  /\ t \notin submitted
  /\ PushInWindow \/ distPC # "trim"
  /\ submitted' = submitted \union {t}
  /\ pending' = <<Data(t)>> \o pending
  /\ UNCHANGED <<distVars, mapVars, nodeVars, resVars, toReassign, envVars>>

-----------------------------------------------------------------------------
(* The distributor goroutine.                                              *)

\* Snapshot of the active nodes, then LRANGE 0 .. BatchSize-1.
Fetch ==
  /\ distPC = "idle"
  /\ ActiveNodes # {}
  /\ pending # <<>>
  /\ \E order \in SetToSeqs(ActiveNodes) : targets' = order  \* map order
  /\ batch' = SubSeq(pending, 1,
                IF Len(pending) < BatchSize THEN Len(pending) ELSE BatchSize)
  /\ next' = 1
  /\ distPC' = "trim"
  /\ UNCHANGED <<queueVars, mapVars, nodeVars, resVars, toReassign, envVars>>

\* LTRIM len(batch) .. -1: a second command, which removes as many entries
\* from the head as were read, whatever they are by now.
LTrim(start) ==
  /\ distPC = "trim"
  /\ pending' = SubSeq(pending, start + 1, Len(pending))
  /\ distPC' = "assign"
  /\ UNCHANGED <<submitted, batch, next, targets,
                 mapVars, nodeVars, resVars, toReassign, envVars>>
TrimOneLess == LTrim(Len(batch) - 1)  \* bug: off by one
Trim == LTrim(Len(batch))

\* The loop moves to the next entry, or the batch is over.
Advance ==
  IF next < Len(batch)
  THEN distPC' = "assign" /\ next' = next + 1 /\ UNCHANGED <<batch, targets>>
  ELSE distPC' = "idle" /\ next' = 1 /\ batch' = <<>> /\ targets' = <<>>

\* json.Unmarshal fails on a bare ID: the entry is skipped, already trimmed.
SkipUndecodable ==
  /\ distPC = "assign"
  /\ Current.kind = "id"
  /\ Advance
  /\ UNCHANGED <<queueVars, mapVars, nodeVars, resVars, toReassign, envVars>>

\* hub.SendToNode puts the message in the node's sendCh.
Send ==
  /\ distPC = "assign"
  /\ Current.kind = "data"
  /\ Target \in up
  /\ SumFunction(inflight[Target]) < SendBuffer
  /\ inflight' = [inflight EXCEPT ![Target][Current.task] = @ + 1]
  /\ distPC' = "record"
  /\ UNCHANGED <<queueVars, batch, next, targets, mapVars, running, retryList,
                 rejected, resVars, toReassign, envVars>>

\* SendToNode fails (no such connection, or sendCh stays full for five
\* seconds): the task's data goes back, to the other end of the list.
Unsendable ==
  /\ distPC = "assign"
  /\ Current.kind = "data"
  /\ Target \notin up \/ SumFunction(inflight[Target]) >= SendBuffer
  /\ Advance
  /\ UNCHANGED <<submitted, mapVars, nodeVars, resVars, toReassign, envVars>>
SendFailsForgets == Unsendable /\ UNCHANGED pending  \* bug: no RPUSH
SendFails == Unsendable /\ pending' = Append(pending, Current)

\* Only now are the maps written. The task was decoded from JSON the scheduler
\* wrote, so its RetryCount is 0.
Record ==
  /\ distPC = "record"
  /\ taskAssignments' = [taskAssignments EXCEPT ![Current.task] = Target]
  /\ pendingTasks' = [pendingTasks EXCEPT ![Current.task] = 0]
  /\ Advance
  /\ UNCHANGED <<queueVars, nodeVars, resVars, toReassign, envVars>>

-----------------------------------------------------------------------------
(* The nodes, as the coordinator sees them.                                *)

\* handleTaskAssignment: a full task queue answers with a negative
\* acknowledgement, which the hub only logs. The message carries MaxRetries but
\* no RetryCount.
Deliver(n, t) ==
  /\ inflight[n][t] > 0
  /\ inflight' = [inflight EXCEPT ![n][t] = @ - 1]
  /\ IF SumFunction(running[n]) < NodeCapacity
     THEN /\ running' = [running EXCEPT ![n][First(t)] = @ + 1]
          /\ UNCHANGED rejected
     ELSE rejected' = rejected \union {t} /\ UNCHANGED running
  /\ UNCHANGED <<queueVars, distVars, mapVars, retryList, resVars, toReassign,
                 envVars>>

\* A worker is done with a task, and the node publishes the result.
Publish(n, e, ok) ==
  /\ running' = [running EXCEPT ![n][e] = @ - 1]
  /\ results' = Append(results, [task |-> e.task, ok |-> ok])
  /\ UNCHANGED <<queueVars, distVars, mapVars, inflight, rejected, inHand,
                 notified, failed, toReassign, envVars>>

\* A failed attempt that may be retried is put on the node's own Redis list
\* before its result is sent: the coordinator hears of a failure although the
\* node still has the task.
LocalRetry(n, e, ok) ==
  IF ~ok /\ e.retry < MaxRetries
  THEN retryList' = [retryList EXCEPT ![n][[e EXCEPT !.retry = @ + 1]] = @ + 1]
  ELSE UNCHANGED retryList
NodeFinishTwice(n, e, ok) ==  \* bug: no guard
  e.task \in submitted /\ Publish(n, e, ok) /\ LocalRetry(n, e, ok)
NodeFinish(n, e, ok) ==
  running[n][e] > 0 /\ Publish(n, e, ok) /\ LocalRetry(n, e, ok)

\* fetchBatch: an active node with room takes a task off its list.
Refetch(n, e) ==
  /\ n \in up
  /\ view[n] = "active"
  /\ retryList[n][e] > 0
  /\ SumFunction(running[n]) < NodeCapacity
  /\ retryList' = [retryList EXCEPT ![n][e] = @ - 1]
  /\ running' = [running EXCEPT ![n][e] = @ + 1]
  /\ UNCHANGED <<queueVars, distVars, mapVars, inflight, rejected, resVars,
                 toReassign, envVars>>

-----------------------------------------------------------------------------
(* The result goroutine.                                                   *)

\* handleTaskResult, under the lock: both map entries go.
Take ==
  /\ inHand = NoResult
  /\ results # <<>>
  /\ inHand' = <<Head(results)>>
  /\ results' = Tail(results)
  /\ pendingTasks' = [pendingTasks EXCEPT ![Head(results).task] = NotPending]
  /\ UNCHANGED <<queueVars, distVars, nodeVars, notified, failed,
                 toReassign, envVars>>
TakeResultHalf == Take /\ UNCHANGED taskAssignments  \* bug: one delete missing
TakeResult ==
  /\ Take
  /\ taskAssignments' = [taskAssignments EXCEPT ![Head(results).task] = NoNode]

\* handleTaskFailure: nothing if the task is not remembered; a bare ID on the
\* list if it may be retried; else a failure record.
HandleTaskFailure(t) ==
  IF pendingTasks[t] = NotPending
  THEN UNCHANGED <<pending, pendingTasks, failed>>
  ELSE IF pendingTasks[t] < MaxRetries
       THEN /\ pendingTasks' = [pendingTasks EXCEPT ![t] = @ + 1]
            /\ pending' = Append(pending, Id(t))
            /\ UNCHANGED failed
       ELSE /\ failed' = failed \union {t}
            /\ UNCHANGED <<pending, pendingTasks>>

\* The rest of handleTaskResult, after the lock: UpdateTaskResult, then the
\* failure handler or the result store.
FinishResult ==
  /\ inHand # NoResult
  /\ LET r == inHand[1]
     IN  /\ notified' = [notified EXCEPT ![r.task] = @ + 1]
         /\ IF r.ok THEN UNCHANGED <<pending, pendingTasks, failed>>
                    ELSE HandleTaskFailure(r.task)
  /\ inHand' = NoResult
  /\ UNCHANGED <<submitted, distVars, taskAssignments, nodeVars, results,
                 toReassign, envVars>>

-----------------------------------------------------------------------------
(* The reassignment goroutine.                                             *)

OnIdleNode == {t \in Tasks : /\ taskAssignments[t] # NoNode  \* bug: no 60 s
                             /\ view[taskAssignments[t]] \in {"inactive", "dead"}
                             /\ pendingTasks[t] # NotPending}
OnDeadNode == {t \in Tasks : /\ taskAssignments[t] # NoNode
                             /\ view[taskAssignments[t]] = "dead"
                             /\ pendingTasks[t] # NotPending}

\* checkAndReassignTasks, under the lock: the assignments are dropped, the
\* pendingTasks entries stay.
CollectDead ==
  /\ toReassign = {}
  /\ OnDeadNode # {}
  /\ toReassign' = OnDeadNode
  /\ taskAssignments' = [t \in Tasks |-> IF t \in OnDeadNode THEN NoNode
                                         ELSE taskAssignments[t]]
  /\ UNCHANGED <<queueVars, distVars, pendingTasks, nodeVars, resVars, envVars>>

\* After the lock, one RPUSH of the bare ID per task.
RequeueDead(t) ==
  /\ t \in toReassign
  /\ toReassign' = toReassign \ {t}
  /\ pending' = Append(pending, Id(t))
  /\ UNCHANGED <<submitted, distVars, mapVars, nodeVars, resVars, envVars>>

-----------------------------------------------------------------------------
(* Faults, and what the cluster manager makes of them.                     *)

Crash(n) ==
  /\ faults < MaxFaults
  /\ n \in up
  /\ up' = up \ {n}
  /\ inflight' = [inflight EXCEPT ![n] = NoTasks]
  /\ running' = [running EXCEPT ![n] = NoAttempts]
  /\ faults' = faults + 1
  /\ UNCHANGED <<queueVars, distVars, mapVars, retryList, rejected, resVars,
                 toReassign, view, restarts>>

\* The node reports status "paused" (or "disconnected"), later "active".
Pause(n) ==
  /\ faults < MaxFaults
  /\ n \in up
  /\ view[n] = "active"
  /\ view' = [view EXCEPT ![n] = "inactive"]
  /\ faults' = faults + 1
  /\ UNCHANGED <<queueVars, distVars, mapVars, nodeVars, resVars, toReassign,
                 up, restarts>>

Resume(n) ==
  /\ n \in up
  /\ view[n] = "inactive"
  /\ view' = [view EXCEPT ![n] = "active"]
  /\ UNCHANGED <<queueVars, distVars, mapVars, nodeVars, resVars, toReassign,
                 up, faults, restarts>>

\* A record that is not "active" gets older than 60 seconds before
\* checkNodeHealth evicts it (it does so at 30 seconds when it runs on time).
GrowOld(n) ==
  /\ n \notin up
  /\ view[n] = "inactive"
  /\ view' = [view EXCEPT ![n] = "dead"]
  /\ UNCHANGED <<queueVars, distVars, mapVars, nodeVars, resVars, toReassign,
                 up, faults, restarts>>

\* checkNodeHealth / handleNodeFailure of the cluster manager.
Evict(n) ==
  /\ n \notin up
  /\ view[n] # "absent"
  /\ view' = [view EXCEPT ![n] = "absent"]
  /\ UNCHANGED <<queueVars, distVars, mapVars, nodeVars, resVars, toReassign,
                 up, faults, restarts>>

\* The node comes back, with the ID of its configuration and empty queues.
Rejoin(n) ==
  /\ n \notin up
  /\ up' = up \union {n}
  /\ view' = [view EXCEPT ![n] = "active"]
  /\ UNCHANGED <<queueVars, distVars, mapVars, nodeVars, resVars, toReassign,
                 faults, restarts>>

\* The hub process dies and starts again: the maps, the fetched batch, the
\* send buffers and the messages published meanwhile are gone.
HubRestart ==
  /\ restarts < MaxRestarts
  /\ restarts' = restarts + 1
  /\ distPC' = "idle" /\ batch' = <<>> /\ next' = 1 /\ targets' = <<>>
  /\ taskAssignments' = [t \in Tasks |-> NoNode]
  /\ pendingTasks' = [t \in Tasks |-> NotPending]
  /\ inflight' = [n \in Nodes |-> NoTasks]
  /\ results' = <<>> /\ inHand' = NoResult
  /\ toReassign' = {}
  /\ UNCHANGED <<queueVars, running, retryList, rejected, notified, failed,
                 up, view, faults>>

-----------------------------------------------------------------------------
Distributor == Fetch \/ Trim \/ SkipUndecodable \/ Send \/ SendFails \/ Record
NodeStep    == \E n \in Nodes :
                 \/ \E t \in Tasks : Deliver(n, t)
                 \/ \E e \in Attempt, ok \in BOOLEAN : NodeFinish(n, e, ok)
                 \/ \E e \in Attempt : Refetch(n, e)
ResultLoop  == TakeResult \/ FinishResult
Reassigner  == CollectDead \/ \E t \in Tasks : RequeueDead(t)
Environment == \/ HubRestart
               \/ \E n \in Nodes : \/ Crash(n) \/ Pause(n) \/ Resume(n)
                                   \/ GrowOld(n) \/ Evict(n) \/ Rejoin(n)

Next == \/ \E t \in Tasks : Submit(t)
        \/ Distributor
        \/ NodeStep
        \/ ResultLoop
        \/ Reassigner
        \/ Environment

Spec == Init /\ [][Next]_vars

\* Every goroutine is scheduled, every node works, messages arrive; nothing is
\* assumed of the scheduler or of faults, and a node that went away need not
\* come back.
Fairness == /\ WF_vars(Distributor)
            /\ \A n \in Nodes, t \in Tasks : WF_vars(Deliver(n, t))
            /\ \A n \in Nodes, e \in Attempt :
                 /\ WF_vars(\E ok \in BOOLEAN : NodeFinish(n, e, ok))
                 /\ WF_vars(Refetch(n, e))
            /\ WF_vars(ResultLoop)
            /\ WF_vars(Reassigner)

FairSpec == Spec /\ Fairness

\* Tasks and nodes are interchangeable, for the safety properties.
Symmetry == Permutations(Tasks) \union Permutations(Nodes)

-----------------------------------------------------------------------------
(* Properties.                                                             *)

\* Types of the state (the maps of coordinator.go:36-37, the Redis list, the
\* position of the distributor in its batch).
TypeOK ==
  /\ submitted \subseteq Tasks
  /\ pending \in Seq(Entry)
  /\ distPC \in {"idle", "trim", "assign", "record"}
  /\ batch \in Seq(Entry)
  /\ next \in Nat \ {0}
  /\ targets \in Seq(Nodes)
  /\ taskAssignments \in [Tasks -> Nodes \union {NoNode}]
  /\ pendingTasks \in [Tasks -> {NotPending} \union (0..MaxRetries)]
  /\ inflight \in [Nodes -> [Tasks -> Nat]]
  /\ running \in [Nodes -> [Attempt -> Nat]]
  /\ retryList \in [Nodes -> [Attempt -> Nat]]
  /\ rejected \subseteq Tasks
  /\ results \in Seq(Result)
  /\ inHand = NoResult \/ \E r \in Result : inHand = <<r>>
  /\ notified \in [Tasks -> Nat]
  /\ failed \subseteq Tasks
  /\ toReassign \subseteq Tasks
  /\ up \subseteq Nodes
  /\ view \in [Nodes -> Views]
  /\ faults \in 0..MaxFaults
  /\ restarts \in 0..MaxRestarts

\* Entries of the batch the distributor has not sent yet.
Unsent == CASE distPC = "assign" -> next..Len(batch)
            [] distPC = "record" -> (next + 1)..Len(batch)
            [] OTHER             -> {}

\* How many times a task exists before a node has it, and on the nodes: entries
\* and messages are counted one by one.
OnTheList(t) == {i \in DOMAIN pending : pending[i] = Data(t)}
InTheBatch(t) == {i \in Unsent : batch[i] = Data(t)}
Messages(t) == UNION {{<<n, k>> : k \in 1..inflight[n][t]} : n \in Nodes}
AttemptsAt(n, e) == {<<n, e, "worker", k>> : k \in 1..running[n][e]}
                    \union {<<n, e, "list", k>> : k \in 1..retryList[n][e]}
AttemptsAlive(t) ==
  UNION {UNION {AttemptsAt(n, e) : e \in {f \in Attempt : f.task = t}} : n \in Nodes}

Queued(t) == Cardinality(OnTheList(t)) + Cardinality(InTheBatch(t)) + Cardinality(Messages(t))
Live(t) == Queued(t) + Cardinality(AttemptsAlive(t))

\* How many of its results the nodes have published that are not lost.
Reports(t) ==
  Cardinality({i \in DOMAIN results : results[i].task = t})
  + (IF inHand # NoResult /\ inHand[1].task = t THEN 1 ELSE 0)
  + notified[t]

\* Without faults and without a push between LRANGE and LTRIM, a submitted task
\* that no full node turned away is neither lost nor doubled on its way through
\* distributor, hub and node, and every attempt at it is reported exactly once:
\* a task that waits has no result, one on a node has a result for each earlier
\* attempt, one that is over has at least one (coordinator.go:177-232, 460-517,
\* node.go:693-750).
ExactlyOnce ==
  faults = 0 /\ restarts = 0 =>
    \A t \in Tasks \ rejected :
      /\ Live(t) <= 1
      /\ t \in submitted <=> Live(t) = 1 \/ Reports(t) > 0
      /\ Queued(t) > 0 => Reports(t) = 0
      /\ \A n \in Nodes, e \in Attempt :
           e.task = t /\ running[n][e] + retryList[n][e] > 0
             => Reports(t) = e.retry
      /\ Reports(t) <= MaxRetries + 1

\* Node crashes, evictions, reassignments and hub restarts may lose a task, but
\* never make a second copy of it or an attempt too many: what goes back to the
\* list on a failed send (coordinator.go:229) is the only copy, and what the
\* failure and reassignment handlers push (543, 654), while a node may still
\* have the task to retry, is not a task.
AtMostOnce == \A t \in Tasks : Live(t) <= 1 /\ Reports(t) <= MaxRetries + 1

\* A task has left the system only through a fault or a full node queue: else
\* it is on the list, in the batch, on a node or its list, in a result, or
\* reported.
Held(t) ==
  \/ \E i \in DOMAIN pending : pending[i] = Data(t)
  \/ \E i \in Unsent : batch[i] = Data(t)
  \/ \E n \in Nodes : inflight[n][t] > 0
  \/ \E n \in Nodes, e \in Attempt :
       e.task = t /\ (running[n][e] > 0 \/ retryList[n][e] > 0)
  \/ \E i \in DOMAIN results : results[i].task = t
  \/ inHand # NoResult /\ inHand[1].task = t
  \/ notified[t] > 0

NoLoss ==
  faults = 0 /\ restarts = 0
    => \A t \in submitted : Held(t) \/ t \in rejected

\* Every assigned task is remembered: the reassignment loop, which looks a
\* task up in pendingTasks before it takes its assignment away
\* (coordinator.go:640-643), can always reassign it.
AssignmentsBacked ==
  \A t \in Tasks : taskAssignments[t] # NoNode => pendingTasks[t] # NotPending

\* A task on its way to a node, or on it for the first time, is assigned to
\* that node, save while the distributor is between SendToNode and the maps
\* (coordinator.go:357-365): this is what lets the reassignment loop find the
\* tasks of a dead node. The result of the first attempt takes the assignment
\* away, so nothing of the kind holds for a retry, nor after a restart of the
\* hub, which forgets the maps.
WorkIsRecorded ==
  restarts = 0 =>
    \A n \in Nodes, t \in Tasks :
      inflight[n][t] + running[n][First(t)] > 0
        => \/ taskAssignments[t] = n
           \/ distPC = "record" /\ Current.task = t /\ Target = n

\* An assignment never moves from one node to another in one step: it is
\* first taken away by the result or the reassignment handler.
NoSilentMove ==
  [][\A t \in Tasks : taskAssignments[t] # NoNode
       => taskAssignments'[t] \in {taskAssignments[t], NoNode}]_vars

\* Without faults, every submitted task is eventually reported to the
\* scheduler (UpdateTaskResult, coordinator.go:472) and off every queue, its
\* retries included.
EveryTaskReported ==
  \A t \in Tasks : t \in submitted ~> notified[t] > 0 /\ Live(t) = 0

-----------------------------------------------------------------------------
(* What the comments and the documentation say.                            *)

\* "Remove fetched tasks from queue" (coordinator.go:206).
TrimRemovesFetched ==
  [][distPC = "trim" /\ distPC' = "assign"
       => batch = SubSeq(pending, 1, Len(batch))]_vars

\* "Requeue task(s)" (coordinator.go:541, 650): a task that the coordinator
\* puts back on the list is sent to a node again or reported.
RequeuedIsSentAgain ==
  \A t \in Tasks :
    (\E i \in DOMAIN pending : pending[i] = Id(t))
      ~> (notified[t] > 0 \/ \E n \in Nodes : inflight[n][t] > 0)

\* "Get task before deleting it (needed for change detector)"
\* (coordinator.go:462): the first result of a task finds it.
ResultFindsTask ==
  [][inHand = NoResult /\ inHand' # NoResult
       => LET t == inHand'[1].task
          IN  notified[t] = 0 => pendingTasks[t] # NotPending]_vars

\* "Task failed after all retries" (crawler/README.md:377): a failure is final
\* only when the retries are used up; otherwise the task is requeued.
FailureIsRetriedOrRecorded ==
  [][inHand # NoResult /\ inHand' = NoResult /\ restarts' = restarts
     /\ ~inHand[1].ok
       => LET t == inHand[1].task
          IN  t \in failed' \/ pending' # pending]_vars
=============================================================================
