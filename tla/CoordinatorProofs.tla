-------------------------- MODULE CoordinatorProofs --------------------------
(***************************************************************************)
(* Proofs about Coordinator, for every set of tasks, finite set of nodes,  *)
(* batch size, retry limit, buffer size and number of faults.              *)
(***************************************************************************)
EXTENDS Coordinator, FiniteSetTheorems, SequenceTheorems, TLAPS

-----------------------------------------------------------------------------
(* Lemmas about the operators the model is built from.                     *)

\* The snapshot of the active nodes is a non-empty sequence of nodes, so the
\* modulo of the round robin (coordinator.go:212) never divides by zero.
LEMMA OrdersAreSequences ==
  ASSUME NEW S \in SUBSET Nodes, S # {}, NEW order \in SetToSeqs(S)
  PROVE  order \in Seq(Nodes) /\ Len(order) \in Nat \ {0}
<1>1. IsFiniteSet(S)
  BY NodesAssumption, FS_Subset
<1>2. Cardinality(S) \in Nat /\ Cardinality(S) # 0
  BY <1>1, FS_CardinalityType, FS_EmptySet
<1>3. order \in [1..Cardinality(S) -> S]
  BY DEF SetToSeqs
<1>4. order \in [1..Cardinality(S) -> Nodes]
  BY <1>3
<1> QED
  BY <1>2, <1>4

\* What LRANGE 0 .. BatchSize-1 returns: a non-empty prefix.
LEMMA RangeIsPrefix ==
  ASSUME NEW list \in Seq(Entry), list # <<>>,
         NEW k, k = IF Len(list) < BatchSize THEN Len(list) ELSE BatchSize
  PROVE  /\ SubSeq(list, 1, k) \in Seq(Entry)
         /\ Len(SubSeq(list, 1, k)) = k
         /\ k \in 1..Len(list)
         /\ \A i \in 1..k : SubSeq(list, 1, k)[i] = list[i]
<1>1. k \in 1..Len(list)
  BY BatchSizeAssumption
<1> QED
  BY <1>1

-----------------------------------------------------------------------------
(* Types, and where the distributor is in its batch.                       *)

BatchOK ==
  /\ distPC = "idle" => batch = <<>>
  /\ distPC # "idle" => next \in 1..Len(batch) /\ Len(targets) # 0
  /\ distPC = "trim" => next = 1
  /\ distPC = "record" => Current.kind = "data"

TypeInv == TypeOK /\ BatchOK

LEMMA InitTypeInv == Init => TypeInv
  BY NoNodeAssumption, MaxRetriesAssumption, BoundsAssumption
     DEF Init, TypeInv, TypeOK, BatchOK, NoTasks, NoAttempts, Views, NoResult,
         NotPending

\* While a batch is worked on, its current entry and its target exist.
LEMMA CurrentTyped ==
  ASSUME TypeInv, distPC # "idle"
  PROVE  Current \in Entry /\ Target \in Nodes
<1>1. Current \in Entry
  BY DEF TypeInv, TypeOK, BatchOK, Current
<1>2. Len(targets) \in Nat \ {0} /\ next \in Nat
  BY DEF TypeInv, TypeOK, BatchOK
<1>3. ((next - 1) % Len(targets)) + 1 \in 1..Len(targets)
  BY <1>2
<1> QED
  BY <1>1, <1>3 DEF TypeInv, TypeOK, Target

\* What a node makes of a task it is sent, and of one it will try again.
LEMMA FirstIsAttempt ==
  ASSUME NEW t \in Tasks
  PROVE  First(t) \in Attempt
  BY MaxRetriesAssumption DEF First, Attempt

LEMMA RetryIsAttempt ==
  ASSUME NEW e \in Attempt, e.retry < MaxRetries
  PROVE  /\ [e EXCEPT !.retry = @ + 1] \in Attempt
         /\ [e EXCEPT !.retry = @ + 1].task = e.task
  BY MaxRetriesAssumption DEF Attempt

LEMMA LocalRetryTyped ==
  ASSUME TypeInv, NEW n \in Nodes, NEW e \in Attempt, NEW ok \in BOOLEAN,
         LocalRetry(n, e, ok)
  PROVE  /\ retryList' \in [Nodes -> [Attempt -> Nat]]
         /\ \A m \in Nodes, f \in Attempt :
              f.task # e.task => retryList'[m][f] = retryList[m][f]
<1>1. retryList \in [Nodes -> [Attempt -> Nat]]
  BY DEF TypeInv, TypeOK
<1>2. CASE ~ok /\ e.retry < MaxRetries
  <2>1. PICK f \in Attempt : /\ f.task = e.task
                             /\ retryList' = [retryList EXCEPT ![n][f] = @ + 1]
    BY <1>2, RetryIsAttempt DEF LocalRetry
  <2> QED
    BY <1>1, <2>1
<1>3. CASE ~(~ok /\ e.retry < MaxRetries)
  BY <1>1, <1>3 DEF LocalRetry
<1> QED
  BY <1>2, <1>3

\* Moving on in the batch keeps the distributor's state well formed.
LEMMA AdvanceTyped ==
  ASSUME TypeInv, distPC # "idle", Advance
  PROVE  /\ distPC' \in {"idle", "assign"} /\ batch' \in Seq(Entry)
         /\ next' \in Nat \ {0} /\ targets' \in Seq(Nodes)
         /\ BatchOK'
<1>1. next \in 1..Len(batch) /\ Len(targets) # 0 /\ Len(batch) \in Nat
  BY DEF TypeInv, TypeOK, BatchOK
<1>2. CASE next < Len(batch)
  <2>1. /\ distPC' = "assign" /\ next' = next + 1
        /\ batch' = batch /\ targets' = targets
    BY <1>2 DEF Advance
  <2>2. next' \in 1..Len(batch')
    BY <1>1, <1>2, <2>1
  <2> QED
    BY <1>1, <2>1, <2>2 DEF TypeInv, TypeOK, BatchOK
<1>3. CASE ~(next < Len(batch))
  BY <1>3 DEF Advance, BatchOK
<1> QED
  BY <1>2, <1>3

\* What the failure branch may do to the list, the map and the records.
LEMMA FailureCases ==
  ASSUME TypeInv, FinishResult
  PROVE  \/ UNCHANGED <<pending, pendingTasks, failed>>
         \/ \E t \in Tasks :
              /\ pendingTasks[t] # NotPending /\ pendingTasks[t] < MaxRetries
              /\ pendingTasks' = [pendingTasks EXCEPT ![t] = @ + 1]
              /\ pending' = Append(pending, Id(t)) /\ failed' = failed
         \/ \E t \in Tasks :
              failed' = failed \union {t} /\ UNCHANGED <<pending, pendingTasks>>
<1>1. PICK r \in Result : inHand = <<r>>
  BY DEF FinishResult, TypeInv, TypeOK
<1>2. inHand[1].task \in Tasks
  BY <1>1 DEF Result
<1>3. CASE inHand[1].ok
  BY <1>3 DEF FinishResult
<1>4. CASE ~inHand[1].ok
  <2>1. HandleTaskFailure(inHand[1].task)
    BY <1>4 DEF FinishResult
  <2> QED
    BY <1>2, <2>1 DEF HandleTaskFailure
<1> QED
  BY <1>3, <1>4

LEMMA StepTypeInv == TypeInv /\ [Next]_vars => TypeInv'
<1> SUFFICES ASSUME TypeInv, [Next]_vars PROVE TypeInv'
  OBVIOUS
<1> USE DEF queueVars, distVars, mapVars, nodeVars, resVars, envVars
<1>1. ASSUME NEW t \in Tasks, Submit(t) PROVE TypeInv'
  <2>1. Data(t) \in Entry
    BY DEF Data, Entry
  <2>2. pending' \in Seq(Entry)
    BY <1>1, <2>1 DEF Submit, TypeInv, TypeOK
  <2> QED
    BY <1>1, <2>2 DEF Submit, TypeInv, TypeOK, BatchOK, Current
<1>2. CASE Fetch
  <2>1. targets' \in Seq(Nodes) /\ Len(targets') # 0
    BY <1>2, OrdersAreSequences DEF Fetch, ActiveNodes
  <2>2. batch' \in Seq(Entry) /\ next' \in 1..Len(batch') /\ next' = 1
    BY <1>2, RangeIsPrefix DEF Fetch, TypeInv, TypeOK
  <2>3. TypeOK'
    BY <1>2, <2>1, <2>2 DEF Fetch, TypeInv, TypeOK
  <2>4. BatchOK'
    BY <1>2, <2>1, <2>2 DEF Fetch, BatchOK
  <2> QED
    BY <2>3, <2>4 DEF TypeInv
<1>3. CASE Trim
  <2>1. pending' \in Seq(Entry)
    BY <1>3 DEF Trim, LTrim, TypeInv, TypeOK
  <2> QED
    BY <1>3, <2>1 DEF Trim, LTrim, TypeInv, TypeOK, BatchOK
<1>4. CASE SkipUndecodable
  BY <1>4, AdvanceTyped DEF SkipUndecodable, TypeInv, TypeOK
<1>5. CASE Send
  <2>1. Current \in Entry /\ Target \in Nodes
    BY <1>5, CurrentTyped DEF Send
  <2>2. inflight' \in [Nodes -> [Tasks -> Nat]]
    BY <1>5, <2>1 DEF Send, TypeInv, TypeOK, Entry
  <2> QED
    BY <1>5, <2>1, <2>2 DEF Send, TypeInv, TypeOK, BatchOK, Current
<1>6. CASE SendFails
  <2>1. Current \in Entry
    BY <1>6, CurrentTyped DEF SendFails, Unsendable
  <2>2. pending' \in Seq(Entry)
    BY <1>6, <2>1 DEF SendFails, TypeInv, TypeOK
  <2> QED
    BY <1>6, <2>2, AdvanceTyped DEF SendFails, Unsendable, TypeInv, TypeOK
<1>7. CASE Record
  <2>1. Current \in Entry /\ Target \in Nodes
    BY <1>7, CurrentTyped DEF Record
  <2>2. /\ taskAssignments' \in [Tasks -> Nodes \union {NoNode}]
        /\ pendingTasks' \in [Tasks -> {NotPending} \union (0..MaxRetries)]
    BY <1>7, <2>1, MaxRetriesAssumption DEF Record, TypeInv, TypeOK, Entry
  <2> QED
    BY <1>7, <2>2, AdvanceTyped DEF Record, TypeInv, TypeOK
<1>8. ASSUME NEW n \in Nodes, NEW t \in Tasks, Deliver(n, t) PROVE TypeInv'
  <2>1. inflight' \in [Nodes -> [Tasks -> Nat]]
    BY <1>8 DEF Deliver, TypeInv, TypeOK
  <2>2. \/ running' = [running EXCEPT ![n][First(t)] = @ + 1] /\ rejected' = rejected
        \/ running' = running /\ rejected' = rejected \union {t}
    BY <1>8 DEF Deliver
  <2>3. running' \in [Nodes -> [Attempt -> Nat]] /\ rejected' \subseteq Tasks
    <3>1. running \in [Nodes -> [Attempt -> Nat]] /\ rejected \subseteq Tasks
      BY DEF TypeInv, TypeOK
    <3>2. ASSUME NEW e \in Attempt
          PROVE  [running EXCEPT ![n][e] = @ + 1] \in [Nodes -> [Attempt -> Nat]]
      BY <3>1
    <3>3. First(t) \in Attempt
      BY FirstIsAttempt
    <3> QED
      BY <2>2, <3>1, <3>2, <3>3
  <2>4. /\ UNCHANGED <<queueVars, distVars, mapVars, resVars, toReassign, envVars>>
        /\ UNCHANGED retryList
    BY <1>8 DEF Deliver
  <2>5. TypeOK'
    BY <2>1, <2>3, <2>4 DEF TypeInv, TypeOK
  <2>6. BatchOK'
    BY <2>4 DEF TypeInv, BatchOK, Current
  <2> QED
    BY <2>5, <2>6 DEF TypeInv
<1>9. ASSUME NEW n \in Nodes, NEW e \in Attempt, NEW ok \in BOOLEAN,
             NodeFinish(n, e, ok)
      PROVE  TypeInv'
  <2>1. running' \in [Nodes -> [Attempt -> Nat]]
    BY <1>9 DEF NodeFinish, Publish, TypeInv, TypeOK
  <2>2. results' \in Seq(Result)
    <3>1. [task |-> e.task, ok |-> ok] \in Result
      BY DEF Attempt, Result
    <3> QED
      BY <1>9, <3>1 DEF NodeFinish, Publish, TypeInv, TypeOK
  <2>3. retryList' \in [Nodes -> [Attempt -> Nat]]
    BY <1>9, LocalRetryTyped DEF NodeFinish
  <2> QED
    BY <1>9, <2>1, <2>2, <2>3
       DEF NodeFinish, Publish, TypeInv, TypeOK, BatchOK, Current
<1>19. ASSUME NEW n \in Nodes, NEW e \in Attempt, Refetch(n, e) PROVE TypeInv'
  <2>1. /\ running' \in [Nodes -> [Attempt -> Nat]]
        /\ retryList' \in [Nodes -> [Attempt -> Nat]]
    BY <1>19 DEF Refetch, TypeInv, TypeOK
  <2> QED
    BY <1>19, <2>1 DEF Refetch, TypeInv, TypeOK, BatchOK, Current
<1>10. CASE TakeResult
  <2>1. Head(results) \in Result /\ results' \in Seq(Result)
    BY <1>10 DEF TakeResult, Take, TypeInv, TypeOK
  <2>2. /\ taskAssignments' \in [Tasks -> Nodes \union {NoNode}]
        /\ pendingTasks' \in [Tasks -> {NotPending} \union (0..MaxRetries)]
    BY <1>10, <2>1 DEF TakeResult, Take, TypeInv, TypeOK, Result
  <2> QED
    BY <1>10, <2>1, <2>2
       DEF TakeResult, Take, TypeInv, TypeOK, BatchOK, Current
<1>11. CASE FinishResult
  <2>1. inHand[1] \in Result
    <3>1. PICK r \in Result : inHand = <<r>>
      BY <1>11 DEF FinishResult, TypeInv, TypeOK
    <3> QED
      BY <3>1
  <2>2. inHand[1].task \in Tasks
    BY <2>1 DEF Result
  <2>3. notified' \in [Tasks -> Nat]
    BY <1>11, <2>2 DEF FinishResult, TypeInv, TypeOK
  <2>4. \A t \in Tasks : Id(t) \in Entry
    BY DEF Id, Entry
  <2>5. CASE UNCHANGED <<pending, pendingTasks, failed>>
    BY <1>11, <2>3, <2>5 DEF FinishResult, TypeInv, TypeOK, BatchOK, Current
  <2>6. ASSUME NEW t \in Tasks,
               pendingTasks[t] # NotPending, pendingTasks[t] < MaxRetries,
               pendingTasks' = [pendingTasks EXCEPT ![t] = @ + 1],
               pending' = Append(pending, Id(t)), failed' = failed
        PROVE  TypeInv'
    <3>1. pending' \in Seq(Entry)
      BY <2>4, <2>6 DEF TypeInv, TypeOK
    <3>2. pendingTasks' \in [Tasks -> {NotPending} \union (0..MaxRetries)]
      BY <2>6, MaxRetriesAssumption DEF TypeInv, TypeOK, NotPending
    <3> QED
      BY <1>11, <2>3, <2>6, <3>1, <3>2
         DEF FinishResult, TypeInv, TypeOK, BatchOK, Current
  <2>7. ASSUME NEW t \in Tasks,
               failed' = failed \union {t}, UNCHANGED <<pending, pendingTasks>>
        PROVE  TypeInv'
    BY <1>11, <2>3, <2>7 DEF FinishResult, TypeInv, TypeOK, BatchOK, Current
  <2> QED
    BY <1>11, <2>5, <2>6, <2>7, FailureCases
<1>12. CASE CollectDead
  <2>1. /\ taskAssignments' \in [Tasks -> Nodes \union {NoNode}]
        /\ toReassign' \subseteq Tasks
    BY <1>12 DEF CollectDead, OnDeadNode, TypeInv, TypeOK
  <2> QED
    BY <1>12, <2>1 DEF CollectDead, TypeInv, TypeOK, BatchOK, Current
<1>13. ASSUME NEW t \in Tasks, RequeueDead(t) PROVE TypeInv'
  <2>1. Id(t) \in Entry
    BY DEF Id, Entry
  <2>2. pending' \in Seq(Entry)
    BY <1>13, <2>1 DEF RequeueDead, TypeInv, TypeOK
  <2> QED
    BY <1>13, <2>2 DEF RequeueDead, TypeInv, TypeOK, BatchOK, Current
<1>14. CASE HubRestart
  BY <1>14, BoundsAssumption, NoNodeAssumption
     DEF HubRestart, NoTasks, NoResult, TypeInv, TypeOK, BatchOK
<1>15. ASSUME NEW n \in Nodes, Crash(n) PROVE TypeInv'
  BY <1>15, BoundsAssumption DEF Crash, NoTasks, NoAttempts, TypeInv, TypeOK, BatchOK, Current
<1>16. ASSUME NEW n \in Nodes, Pause(n) PROVE TypeInv'
  BY <1>16, BoundsAssumption DEF Pause, TypeInv, TypeOK, Views, BatchOK, Current
<1>17. ASSUME NEW n \in Nodes, Resume(n) \/ GrowOld(n) \/ Evict(n) \/ Rejoin(n)
       PROVE  TypeInv'
  BY <1>17
     DEF Resume, GrowOld, Evict, Rejoin, TypeInv, TypeOK, Views, BatchOK, Current
<1>18. CASE UNCHANGED vars
  BY <1>18 DEF vars, TypeInv, TypeOK, BatchOK, Current
<1> QED
  BY <1>1, <1>2, <1>3, <1>4, <1>5, <1>6, <1>7, <1>8, <1>9, <1>10, <1>11, <1>12,
     <1>13, <1>14, <1>15, <1>16, <1>17, <1>18, <1>19
     DEF Next, Distributor, NodeStep, ResultLoop, Reassigner, Environment

\* The state always has its types, and the distributor never looks outside its
\* batch or its snapshot of nodes (coordinator.go:210-212).
THEOREM TypeCorrect == Spec => []TypeOK
<1>1. Spec => []TypeInv
  BY InitTypeInv, StepTypeInv, PTL DEF Spec
<1> QED
  BY <1>1, PTL DEF TypeInv

-----------------------------------------------------------------------------
(* Assigned tasks are remembered.                                          *)

LEMMA StepBacked == TypeInv /\ AssignmentsBacked /\ [Next]_vars => AssignmentsBacked'
<1> SUFFICES ASSUME TypeInv, AssignmentsBacked, [Next]_vars PROVE AssignmentsBacked'
  OBVIOUS
<1> USE DEF mapVars, AssignmentsBacked
<1>1. CASE UNCHANGED mapVars
  BY <1>1
<1>2. CASE Record
  <2>1. Current.task \in Tasks
    BY <1>2, CurrentTyped DEF Record, Entry
  <2> QED
    BY <1>2, <2>1 DEF Record, TypeInv, TypeOK, NotPending
<1>3. CASE TakeResult
  <2>1. PICK h : /\ pendingTasks' = [pendingTasks EXCEPT ![h] = NotPending]
                 /\ taskAssignments' = [taskAssignments EXCEPT ![h] = NoNode]
    BY <1>3 DEF TakeResult, Take
  <2>2. /\ pendingTasks \in [Tasks -> {NotPending} \union (0..MaxRetries)]
        /\ taskAssignments \in [Tasks -> Nodes \union {NoNode}]
    BY DEF TypeInv, TypeOK
  <2> QED
    BY <2>1, <2>2
<1>4. CASE FinishResult
  <2>1. UNCHANGED taskAssignments
    BY <1>4 DEF FinishResult
  <2>2. \A t \in Tasks : pendingTasks[t] # NotPending => pendingTasks'[t] # NotPending
    <3>1. pendingTasks \in [Tasks -> {NotPending} \union (0..MaxRetries)]
      BY DEF TypeInv, TypeOK
    <3>2. \/ pendingTasks' = pendingTasks
          \/ \E t \in Tasks : /\ pendingTasks[t] # NotPending
                               /\ pendingTasks' = [pendingTasks EXCEPT ![t] = @ + 1]
      BY <1>4, FailureCases
    <3> QED
      BY <3>1, <3>2, MaxRetriesAssumption DEF NotPending
  <2> QED
    BY <2>1, <2>2
<1>5. CASE CollectDead
  BY <1>5 DEF CollectDead, OnDeadNode
<1>6. CASE HubRestart
  BY <1>6 DEF HubRestart
<1> QED
  BY <1>1, <1>2, <1>3, <1>4, <1>5, <1>6
     DEF Next, vars, Distributor, NodeStep, ResultLoop, Reassigner, Environment,
         Submit, Fetch, Trim, LTrim, SkipUndecodable, Send, SendFails, Unsendable,
         Deliver, NodeFinish, Publish, Refetch, RequeueDead, Crash, Pause, Resume, GrowOld,
         Evict, Rejoin

\* Whatever crashes, is lost or raced, an entry of taskAssignments always has
\* its entry in pendingTasks, so checkAndReassignTasks (coordinator.go:636-647)
\* never skips an assigned task of a dead node.
THEOREM AssignedTasksAreRemembered == Spec => []AssignmentsBacked
<1>1. Init => AssignmentsBacked
  BY DEF Init, AssignmentsBacked
<1>2. Spec => []TypeInv
  BY InitTypeInv, StepTypeInv, PTL DEF Spec
<1> QED
  BY <1>1, <1>2, StepBacked, PTL DEF Spec

-----------------------------------------------------------------------------
(* Nothing is lost without a fault.                                        *)

\* Between LRANGE and LTRIM the batch is still the head of the list.
WindowClosed ==
  distPC = "trim" => /\ Len(batch) <= Len(pending)
                     /\ \A i \in 1..Len(batch) : pending[i] = batch[i]

LossInv == TypeInv /\ WindowClosed /\ NoLoss

LEMMA StepWindow ==
  ASSUME PushInWindow = FALSE, TypeInv, WindowClosed, [Next]_vars
  PROVE  WindowClosed'
<1> USE DEF queueVars, distVars
<1>t. pending \in Seq(Entry) /\ batch \in Seq(Entry)
  BY DEF TypeInv, TypeOK
<1>1. CASE UNCHANGED <<pending, distPC, batch>>
  BY <1>1 DEF WindowClosed
<1>2. ASSUME NEW e \in Entry, pending' = Append(pending, e), UNCHANGED <<distPC, batch>>
      PROVE  WindowClosed'
  BY <1>t, <1>2 DEF WindowClosed
<1>3. ASSUME NEW t \in Tasks, Submit(t) PROVE WindowClosed'
  BY <1>3 DEF Submit, WindowClosed
<1>4. CASE Fetch
  BY <1>4, <1>t, RangeIsPrefix DEF Fetch, WindowClosed
<1>5. CASE distPC' # "trim"
  BY <1>5 DEF WindowClosed
<1>6. CASE FinishResult
  <2>1. UNCHANGED <<distPC, batch>>
    BY <1>6 DEF FinishResult
  <2>2. \A t \in Tasks : Id(t) \in Entry
    BY DEF Id, Entry
  <2> QED
    BY <1>1, <1>2, <1>6, <2>1, <2>2, FailureCases
<1>7. ASSUME NEW t \in Tasks, RequeueDead(t) PROVE WindowClosed'
  <2>1. Id(t) \in Entry
    BY DEF Id, Entry
  <2> QED
    BY <1>2, <1>7, <2>1 DEF RequeueDead
<1>8. CASE Trim \/ SkipUndecodable \/ Send \/ SendFails \/ Record \/ HubRestart
  BY <1>5, <1>8
     DEF Trim, LTrim, SkipUndecodable, Send, SendFails, Unsendable, Record,
         Advance, HubRestart
<1> QED
  BY <1>1, <1>3, <1>4, <1>6, <1>7, <1>8
     DEF Next, vars, Distributor, NodeStep, ResultLoop, Reassigner, Environment,
         Deliver, NodeFinish, Publish, Refetch, TakeResult, Take, CollectDead, Crash, Pause,
         Resume, GrowOld, Evict, Rejoin

\* Where a task may be, one predicate per place.
OnList(t)    == \E i \in DOMAIN pending : pending[i] = Data(t)
InBatch(t)   == \E i \in Unsent : batch[i] = Data(t)
ToNode(t)    == \E n \in Nodes : inflight[n][t] > 0
AtNode(t)    == \E n \in Nodes, e \in Attempt :
                  e.task = t /\ (running[n][e] > 0 \/ retryList[n][e] > 0)
InResults(t) == \E i \in DOMAIN results : results[i].task = t
Handled(t)   == inHand # NoResult /\ inHand[1].task = t

LEMMA HeldPlaces ==
  ASSUME NEW t
  PROVE  Held(t) <=> \/ OnList(t) \/ InBatch(t) \/ ToNode(t) \/ AtNode(t)
                     \/ InResults(t) \/ Handled(t) \/ notified[t] > 0
  BY DEF Held, OnList, InBatch, ToNode, AtNode, InResults, Handled

\* An append to the list takes nothing from it.
LEMMA AppendKeeps ==
  ASSUME pending \in Seq(Entry), NEW e \in Entry, pending' = Append(pending, e),
         NEW t
  PROVE  OnList(t) => OnList(t)'
  BY DEF OnList

\* The entries left in the batch when the distributor moves on.
LEMMA AdvanceKeeps ==
  ASSUME TypeInv, distPC \in {"assign", "record"}, Advance, NEW t, InBatch(t)
  PROVE  InBatch(t)' \/ (distPC = "assign" /\ Current = Data(t))
<1>1. PICK i \in Unsent : batch[i] = Data(t)
  BY DEF InBatch
<1>2. next \in 1..Len(batch) /\ Len(batch) \in Nat
  BY DEF TypeInv, TypeOK, BatchOK
<1>3. CASE i = next
  BY <1>1, <1>2, <1>3 DEF Unsent, Current
<1>4. CASE i # next
  <2>1. i \in (next + 1)..Len(batch)
    BY <1>1, <1>2, <1>4 DEF Unsent
  <2>2. next < Len(batch)
    BY <1>2, <2>1
  <2>3. distPC' = "assign" /\ next' = next + 1 /\ batch' = batch
    BY <2>2 DEF Advance
  <2>4. i \in Unsent'
    BY <2>1, <2>3 DEF Unsent
  <2> QED
    BY <1>1, <2>3, <2>4 DEF InBatch
<1> QED
  BY <1>3, <1>4

\* The task of a list entry is on the list, in the batch or about to be sent
\* whatever the distributor and the failure handlers do.
LEMMA StepHeld ==
  ASSUME LossInv, [Next]_vars, NEW t \in Tasks, Held(t),
         faults' = faults, restarts' = restarts
  PROVE  Held(t)' \/ t \in rejected'
<1> USE DEF queueVars, distVars, mapVars, nodeVars, resVars, envVars
<1>t. TypeInv /\ WindowClosed
  BY DEF LossInv
<1>s. pending \in Seq(Entry) /\ batch \in Seq(Entry) /\ results \in Seq(Result)
  BY <1>t DEF TypeInv, TypeOK
<1>p. \/ OnList(t) \/ InBatch(t) \/ ToNode(t) \/ AtNode(t) \/ InResults(t)
      \/ Handled(t) \/ notified[t] > 0
  BY HeldPlaces
<1>q. \/ OnList(t)' \/ InBatch(t)' \/ ToNode(t)' \/ AtNode(t)' \/ InResults(t)'
      \/ Handled(t)' \/ notified'[t] > 0
      => Held(t)'
  BY DEF Held, OnList, InBatch, ToNode, AtNode, InResults, Handled
<1>d. UNCHANGED distVars => (InBatch(t) => InBatch(t)')
  BY DEF InBatch, Unsent
<1>l. pending' = pending => (OnList(t) => OnList(t)')
  BY DEF OnList
<1>c. inflight' = inflight => (ToNode(t) => ToNode(t)')
  BY DEF ToNode
<1>n. UNCHANGED <<running, retryList>> => (AtNode(t) => AtNode(t)')
  BY DEF AtNode
<1>r. results' = results => (InResults(t) => InResults(t)')
  BY DEF InResults
<1>h. inHand' = inHand => (Handled(t) => Handled(t)')
  BY DEF Handled
<1>1. ASSUME NEW u \in Tasks, Submit(u) PROVE Held(t)'
  <2>1. OnList(t) => OnList(t)'
    <3> SUFFICES ASSUME NEW i \in DOMAIN pending, pending[i] = Data(t)
                 PROVE  \E j \in DOMAIN pending' : pending'[j] = Data(t)
      BY DEF OnList
    <3>1. pending' = <<Data(u)>> \o pending /\ Data(u) \in Entry
      BY <1>1 DEF Submit, Data, Entry
    <3>2. i + 1 \in DOMAIN pending' /\ pending'[i + 1] = pending[i]
      BY <1>s, <3>1
    <3> QED
      BY <3>2
  <2> QED
    BY <1>1, <1>p, <1>q, <1>d, <1>c, <1>n, <1>r, <1>h, <2>1 DEF Submit
<1>2. CASE Fetch
  <2>1. ~InBatch(t)
    BY <1>2 DEF Fetch, InBatch, Unsent
  <2> QED
    BY <1>2, <1>p, <1>q, <1>l, <1>c, <1>n, <1>r, <1>h, <2>1 DEF Fetch
<1>3. CASE Trim
  <2>1. ~InBatch(t)
    BY <1>3 DEF Trim, LTrim, InBatch, Unsent
  <2>2. OnList(t) => OnList(t)' \/ InBatch(t)'
    <3> SUFFICES ASSUME NEW i \in DOMAIN pending, pending[i] = Data(t)
                 PROVE  OnList(t)' \/ InBatch(t)'
      BY DEF OnList
    <3>1. /\ distPC = "trim" /\ distPC' = "assign" /\ batch' = batch /\ next' = next
          /\ pending' = SubSeq(pending, Len(batch) + 1, Len(pending))
      BY <1>3 DEF Trim, LTrim
    <3>2. Len(batch) <= Len(pending) /\ \A j \in 1..Len(batch) : pending[j] = batch[j]
      BY <1>t, <3>1 DEF WindowClosed
    <3>3. CASE i <= Len(batch)
      <4>1. next = 1
        BY <1>t, <3>1 DEF TypeInv, BatchOK
      <4>2. i \in Unsent' /\ batch'[i] = Data(t)
        BY <1>s, <3>1, <3>2, <3>3, <4>1 DEF Unsent
      <4> QED
        BY <4>2 DEF InBatch
    <3>4. CASE ~(i <= Len(batch))
      <4>1. i - Len(batch) \in 1..(Len(pending) - Len(batch))
        BY <1>s, <3>2, <3>4
      <4>2. /\ i - Len(batch) \in DOMAIN pending'
            /\ pending'[i - Len(batch)] = pending[i]
        BY <1>s, <3>1, <3>2, <4>1
      <4> QED
        BY <4>2 DEF OnList
    <3> QED
      BY <3>3, <3>4
  <2> QED
    BY <1>3, <1>p, <1>q, <1>c, <1>n, <1>r, <1>h, <2>1, <2>2 DEF Trim, LTrim
<1>4. CASE SkipUndecodable
  <2>1. InBatch(t) => InBatch(t)'
    BY <1>4, <1>t, AdvanceKeeps DEF SkipUndecodable, Data
  <2> QED
    BY <1>4, <1>p, <1>q, <1>l, <1>c, <1>n, <1>r, <1>h, <2>1 DEF SkipUndecodable
<1>5. CASE Send
  <2>1. Current \in Entry /\ Target \in Nodes
    BY <1>5, <1>t, CurrentTyped DEF Send
  <2>2. /\ inflight \in [Nodes -> [Tasks -> Nat]]
        /\ inflight' = [inflight EXCEPT ![Target][Current.task] = @ + 1]
    BY <1>5, <1>t DEF Send, TypeInv, TypeOK
  <2>3. ToNode(t) => ToNode(t)'
    BY <2>1, <2>2 DEF ToNode, Entry
  <2>4. InBatch(t) => InBatch(t)' \/ ToNode(t)'
    <3> SUFFICES ASSUME NEW i \in Unsent, batch[i] = Data(t)
                 PROVE  InBatch(t)' \/ ToNode(t)'
      BY DEF InBatch
    <3>1. /\ distPC = "assign" /\ distPC' = "record" /\ batch' = batch
          /\ next' = next
      BY <1>5 DEF Send
    <3>2. CASE i = next
      <4>1. Current.task = t
        BY <3>2 DEF Current, Data
      <4>2. inflight'[Target][t] = inflight[Target][t] + 1
        BY <2>1, <2>2, <4>1
      <4>3. inflight'[Target][t] > 0
        BY <2>1, <2>2, <4>2
      <4> QED
        BY <2>1, <4>3 DEF ToNode
    <3>3. CASE i # next
      <4>1. i \in Unsent'
        BY <1>s, <1>t, <3>1, <3>3 DEF Unsent, TypeInv, TypeOK
      <4> QED
        BY <3>1, <4>1 DEF InBatch
    <3> QED
      BY <3>2, <3>3
  <2> QED
    BY <1>5, <1>p, <1>q, <1>l, <1>n, <1>r, <1>h, <2>3, <2>4 DEF Send
<1>6. CASE SendFails
  <2>1. Current \in Entry /\ pending' = Append(pending, Current)
    BY <1>6, <1>t, CurrentTyped DEF SendFails, Unsendable
  <2>2. OnList(t) => OnList(t)'
    BY <1>s, <2>1, AppendKeeps
  <2>3. Current = Data(t) => OnList(t)'
    <3>1. Len(pending) + 1 \in DOMAIN pending' /\ pending'[Len(pending) + 1] = Current
      BY <1>s, <2>1
    <3> QED
      BY <3>1 DEF OnList
  <2>4. InBatch(t) => InBatch(t)' \/ OnList(t)'
    BY <1>6, <1>t, <2>3, AdvanceKeeps DEF SendFails, Unsendable
  <2> QED
    BY <1>6, <1>p, <1>q, <1>c, <1>n, <1>r, <1>h, <2>2, <2>4 DEF SendFails, Unsendable
<1>7. CASE Record
  <2>1. InBatch(t) => InBatch(t)'
    BY <1>7, <1>t, AdvanceKeeps DEF Record
  <2> QED
    BY <1>7, <1>p, <1>q, <1>l, <1>c, <1>n, <1>r, <1>h, <2>1 DEF Record
<1>8. ASSUME NEW n \in Nodes, NEW u \in Tasks, Deliver(n, u)
      PROVE  Held(t)' \/ t \in rejected'
  <2>1. /\ inflight \in [Nodes -> [Tasks -> Nat]]
        /\ running \in [Nodes -> [Attempt -> Nat]]
    BY <1>t DEF TypeInv, TypeOK
  <2>2. /\ inflight[n][u] > 0
        /\ inflight' = [inflight EXCEPT ![n][u] = @ - 1]
        /\ \/ running' = [running EXCEPT ![n][First(u)] = @ + 1]
           \/ running' = running /\ u \in rejected'
        /\ retryList' = retryList
    BY <1>8 DEF Deliver
  <2>3. First(u) \in Attempt /\ First(u).task = u
    BY FirstIsAttempt DEF First
  <2>4. ToNode(t) => ToNode(t)' \/ AtNode(t)' \/ t \in rejected'
    <3> SUFFICES ASSUME NEW m \in Nodes, inflight[m][t] > 0
                 PROVE  ToNode(t)' \/ AtNode(t)' \/ t \in rejected'
      BY DEF ToNode
    <3>1. CASE m = n /\ t = u /\ t \notin rejected'
      <4>1. running'[n][First(u)] = running[n][First(u)] + 1
        BY <2>1, <2>2, <2>3, <3>1
      <4>2. running'[n][First(u)] > 0
        BY <2>1, <2>3, <4>1
      <4> QED
        BY <2>3, <3>1, <4>2 DEF AtNode
    <3>2. CASE ~(m = n /\ t = u)
      <4>1. inflight'[m][t] = inflight[m][t]
        BY <2>1, <2>2, <3>2
      <4> QED
        BY <4>1 DEF ToNode
    <3> QED
      BY <3>1, <3>2
  <2>5. AtNode(t) => AtNode(t)'
    <3>1. \A m \in Nodes, f \in Attempt : running[m][f] > 0 => running'[m][f] > 0
      BY <2>1, <2>2, <2>3
    <3> QED
      BY <2>2, <3>1 DEF AtNode
  <2>6. UNCHANGED <<queueVars, distVars, mapVars, resVars, toReassign, envVars>>
    BY <1>8 DEF Deliver
  <2> QED
    BY <1>p, <1>q, <1>d, <1>l, <1>r, <1>h, <2>4, <2>5, <2>6
<1>9. ASSUME NEW n \in Nodes, NEW e \in Attempt, NEW ok \in BOOLEAN,
             NodeFinish(n, e, ok)
      PROVE  Held(t)'
  <2>1. running \in [Nodes -> [Attempt -> Nat]]
    BY <1>t DEF TypeInv, TypeOK
  <2>2. /\ running' = [running EXCEPT ![n][e] = @ - 1] /\ inflight' = inflight
        /\ results' = Append(results, [task |-> e.task, ok |-> ok])
    BY <1>9 DEF NodeFinish, Publish
  <2>r. [task |-> e.task, ok |-> ok] \in Result
    BY DEF Attempt, Result
  <2>3. InResults(t) => InResults(t)'
    <3> SUFFICES ASSUME NEW i \in DOMAIN results, results[i].task = t
                 PROVE  InResults(t)'
      BY DEF InResults
    <3>1. i \in DOMAIN results' /\ results'[i] = results[i]
      BY <1>s, <2>2, <2>r
    <3> QED
      BY <3>1 DEF InResults
  <2>4. t = e.task => InResults(t)'
    <3>1. /\ Len(results) + 1 \in DOMAIN results'
          /\ results'[Len(results) + 1].task = e.task
      BY <1>s, <2>2, <2>r
    <3> QED
      BY <3>1 DEF InResults
  <2>5. t # e.task => (AtNode(t) => AtNode(t)')
    <3> SUFFICES ASSUME t # e.task, NEW m \in Nodes, NEW f \in Attempt, f.task = t,
                        running[m][f] > 0 \/ retryList[m][f] > 0
                 PROVE  AtNode(t)'
      BY DEF AtNode
    <3>1. retryList'[m][f] = retryList[m][f]
      BY <1>9, <1>t, LocalRetryTyped DEF NodeFinish
    <3>2. running'[m][f] = running[m][f]
      BY <2>1, <2>2
    <3> QED
      BY <3>1, <3>2 DEF AtNode
  <2> QED
    BY <1>9, <1>p, <1>q, <1>d, <1>l, <1>c, <1>h, <2>3, <2>4, <2>5
       DEF NodeFinish, Publish
<1>22. ASSUME NEW n \in Nodes, NEW e \in Attempt, Refetch(n, e)
       PROVE  Held(t)'
  <2>1. /\ running \in [Nodes -> [Attempt -> Nat]]
        /\ retryList \in [Nodes -> [Attempt -> Nat]]
    BY <1>t DEF TypeInv, TypeOK
  <2>2. /\ running' = [running EXCEPT ![n][e] = @ + 1]
        /\ retryList' = [retryList EXCEPT ![n][e] = @ - 1]
    BY <1>22 DEF Refetch
  <2>3. AtNode(t) => AtNode(t)'
    <3> SUFFICES ASSUME NEW m \in Nodes, NEW f \in Attempt, f.task = t,
                        running[m][f] > 0 \/ retryList[m][f] > 0
                 PROVE  AtNode(t)'
      BY DEF AtNode
    <3>1. CASE m = n /\ f = e
      <4>1. running'[m][f] = running[m][f] + 1
        BY <2>1, <2>2, <3>1
      <4>2. running'[m][f] > 0
        BY <2>1, <4>1
      <4> QED
        BY <4>2 DEF AtNode
    <3>2. CASE ~(m = n /\ f = e)
      <4>1. running'[m][f] = running[m][f] /\ retryList'[m][f] = retryList[m][f]
        BY <2>1, <2>2, <3>2
      <4> QED
        BY <4>1 DEF AtNode
    <3> QED
      BY <3>1, <3>2
  <2> QED
    BY <1>22, <1>p, <1>q, <1>d, <1>l, <1>c, <1>r, <1>h, <2>3 DEF Refetch
<1>10. CASE TakeResult
  <2>1. results # <<>> /\ results' = Tail(results) /\ inHand' = <<Head(results)>>
    BY <1>10 DEF TakeResult, Take
  <2>2. ~Handled(t)
    BY <1>10 DEF TakeResult, Take, Handled
  <2>3. InResults(t) => InResults(t)' \/ Handled(t)'
    <3> SUFFICES ASSUME NEW i \in DOMAIN results, results[i].task = t
                 PROVE  InResults(t)' \/ Handled(t)'
      BY DEF InResults
    <3>1. CASE i = 1
      BY <1>s, <2>1, <3>1 DEF Handled, NoResult
    <3>2. CASE i # 1
      <4>1. i - 1 \in DOMAIN results' /\ results'[i - 1] = results[i]
        BY <1>s, <2>1, <3>2
      <4> QED
        BY <4>1 DEF InResults
    <3> QED
      BY <3>1, <3>2
  <2> QED
    BY <1>10, <1>p, <1>q, <1>d, <1>l, <1>c, <1>n, <2>2, <2>3 DEF TakeResult, Take
<1>11. CASE FinishResult
  <2>1. notified \in [Tasks -> Nat]
    BY <1>t DEF TypeInv, TypeOK
  <2>2. notified' = [notified EXCEPT ![inHand[1].task] = @ + 1]
    BY <1>11 DEF FinishResult
  <2>3. notified[t] > 0 => notified'[t] > 0
    BY <2>1, <2>2
  <2>4. Handled(t) => notified'[t] > 0
    BY <2>1, <2>2 DEF Handled
  <2>5. \A u \in Tasks : Id(u) \in Entry
    BY DEF Id, Entry
  <2>6. OnList(t) => OnList(t)'
    BY <1>11, <1>l, <1>s, <1>t, <2>5, FailureCases, AppendKeeps
  <2> QED
    BY <1>11, <1>p, <1>q, <1>d, <1>c, <1>n, <1>r, <2>3, <2>4, <2>6 DEF FinishResult
<1>12. CASE CollectDead
  BY <1>12, <1>p, <1>q, <1>d, <1>l, <1>c, <1>n, <1>r, <1>h DEF CollectDead
<1>13. ASSUME NEW u \in Tasks, RequeueDead(u) PROVE Held(t)'
  <2>1. Id(u) \in Entry
    BY DEF Id, Entry
  <2>2. OnList(t) => OnList(t)'
    BY <1>13, <1>s, <2>1, AppendKeeps DEF RequeueDead
  <2> QED
    BY <1>13, <1>p, <1>q, <1>d, <1>c, <1>n, <1>r, <1>h, <2>2 DEF RequeueDead
<1>14. ASSUME NEW n \in Nodes, Resume(n) \/ GrowOld(n) \/ Evict(n) \/ Rejoin(n)
       PROVE  Held(t)'
  BY <1>14, <1>p, <1>q, <1>d, <1>l, <1>c, <1>n, <1>r, <1>h
     DEF Resume, GrowOld, Evict, Rejoin
<1>15. ~HubRestart /\ \A n \in Nodes : ~Crash(n) /\ ~Pause(n)
  <2>1. faults \in Nat /\ restarts \in Nat
    BY <1>t, BoundsAssumption DEF TypeInv, TypeOK
  <2>2. ~HubRestart
    BY <2>1 DEF HubRestart
  <2>3. ASSUME NEW n \in Nodes PROVE ~Crash(n) /\ ~Pause(n)
    BY <2>1 DEF Crash, Pause
  <2> QED
    BY <2>2, <2>3
<1>16. CASE UNCHANGED vars
  BY <1>16, <1>p, <1>q, <1>d, <1>l, <1>c, <1>n, <1>r, <1>h DEF vars
<1>17. CASE Distributor
  BY <1>2, <1>3, <1>4, <1>5, <1>6, <1>7, <1>17 DEF Distributor
<1>18. CASE NodeStep
  BY <1>8, <1>9, <1>18, <1>22 DEF NodeStep
<1>19. CASE ResultLoop \/ Reassigner
  BY <1>10, <1>11, <1>12, <1>13, <1>19 DEF ResultLoop, Reassigner
<1>20. CASE Environment
  BY <1>14, <1>15, <1>20 DEF Environment
<1>21. \/ \E u \in Tasks : Submit(u)
       \/ Distributor \/ NodeStep \/ ResultLoop \/ Reassigner \/ Environment
       \/ UNCHANGED vars
  BY DEF Next
<1> QED
  BY <1>1, <1>16, <1>17, <1>18, <1>19, <1>20, <1>21

\* faults and restarts only grow, and no step takes a task out of rejected.
LEMMA StepCounters ==
  ASSUME TypeInv, [Next]_vars
  PROVE  /\ faults' = 0 => faults = 0
         /\ restarts' = 0 => restarts = 0
         /\ rejected \subseteq rejected'
<1> USE DEF queueVars, distVars, mapVars, nodeVars, resVars, envVars
<1>1. faults \in Nat /\ restarts \in Nat
  BY BoundsAssumption DEF TypeInv, TypeOK
<1>2. ASSUME NEW t \in Tasks, Submit(t)
      PROVE  UNCHANGED <<faults, restarts, rejected>>
  BY <1>2 DEF Submit
<1>3. CASE Distributor
  <2>1. UNCHANGED <<faults, restarts, rejected>>
    BY <1>3 DEF Distributor, Fetch, Trim, LTrim, SkipUndecodable, Send, SendFails,
                Unsendable, Record
  <2> QED
    BY <2>1
<1>4. CASE NodeStep
  <2>1. ASSUME NEW n \in Nodes, NEW t \in Tasks, Deliver(n, t)
        PROVE  UNCHANGED <<faults, restarts>> /\ rejected \subseteq rejected'
    BY <2>1 DEF Deliver
  <2>2. ASSUME NEW n \in Nodes, NEW e \in Attempt, NEW ok \in BOOLEAN,
               NodeFinish(n, e, ok)
        PROVE  UNCHANGED <<faults, restarts, rejected>>
    BY <2>2 DEF NodeFinish, Publish
  <2>3. ASSUME NEW n \in Nodes, NEW e \in Attempt, Refetch(n, e)
        PROVE  UNCHANGED <<faults, restarts, rejected>>
    BY <2>3 DEF Refetch
  <2> QED
    BY <1>4, <2>1, <2>2, <2>3 DEF NodeStep
<1>5. CASE ResultLoop \/ Reassigner
  <2>1. UNCHANGED <<faults, restarts, rejected>>
    BY <1>5 DEF ResultLoop, Reassigner, TakeResult, Take, FinishResult,
                CollectDead, RequeueDead
  <2> QED
    BY <2>1
<1>6. CASE Environment
  <2>1. CASE HubRestart
    BY <1>1, <2>1 DEF HubRestart
  <2>2. ASSUME NEW n \in Nodes,
               \/ Crash(n) \/ Pause(n) \/ Resume(n) \/ GrowOld(n) \/ Evict(n)
               \/ Rejoin(n)
        PROVE  /\ faults' = faults \/ faults' = faults + 1
               /\ restarts' = restarts /\ rejected' = rejected
    BY <2>2 DEF Crash, Pause, Resume, GrowOld, Evict, Rejoin
  <2> QED
    BY <1>1, <1>6, <2>1, <2>2 DEF Environment
<1>7. CASE UNCHANGED vars
  BY <1>7 DEF vars
<1> QED
  BY <1>2, <1>3, <1>4, <1>5, <1>6, <1>7 DEF Next

\* A submitted task was submitted before, or this step puts it on the list.
LEMMA StepSubmitted ==
  ASSUME TypeInv, [Next]_vars, NEW t \in submitted'
  PROVE  t \in submitted \/ Held(t)'
<1> USE DEF queueVars, distVars, mapVars, nodeVars, resVars, envVars
<1>1. ASSUME NEW u \in Tasks, Submit(u) PROVE t \in submitted \/ Held(t)'
  <2>1. pending \in Seq(Entry) /\ Data(u) \in Entry
    BY DEF TypeInv, TypeOK, Data, Entry
  <2>2. /\ submitted' = submitted \union {u}
        /\ pending' = <<Data(u)>> \o pending
    BY <1>1 DEF Submit
  <2>3. 1 \in DOMAIN pending' /\ pending'[1] = Data(u)
    BY <2>1, <2>2
  <2> QED
    BY <2>2, <2>3 DEF Held
<1>2. CASE Distributor
  BY <1>2 DEF Distributor, Fetch, Trim, LTrim, SkipUndecodable, Send, SendFails,
              Unsendable, Record
<1>3. CASE NodeStep
  BY <1>3 DEF NodeStep, Deliver, NodeFinish, Publish, Refetch
<1>4. CASE ResultLoop \/ Reassigner
  BY <1>4 DEF ResultLoop, Reassigner, TakeResult, Take, FinishResult,
              CollectDead, RequeueDead
<1>5. CASE Environment
  BY <1>5 DEF Environment, HubRestart, Crash, Pause, Resume, GrowOld, Evict, Rejoin
<1>6. CASE UNCHANGED vars
  BY <1>6 DEF vars
<1> QED
  BY <1>1, <1>2, <1>3, <1>4, <1>5, <1>6 DEF Next

LEMMA StepNoLoss ==
  ASSUME LossInv, [Next]_vars
  PROVE  NoLoss'
<1> SUFFICES ASSUME faults' = 0, restarts' = 0, NEW t \in submitted'
             PROVE  Held(t)' \/ t \in rejected'
  BY DEF NoLoss
<1>1. TypeInv /\ NoLoss
  BY DEF LossInv
<1>2. /\ faults = 0 /\ restarts = 0
      /\ rejected \subseteq rejected'
  BY <1>1, StepCounters
<1>3. CASE t \in submitted
  <2>1. t \in Tasks
    BY <1>1, <1>3 DEF TypeInv, TypeOK
  <2>2. Held(t) \/ t \in rejected
    BY <1>1, <1>2, <1>3 DEF NoLoss
  <2>3. Held(t) => Held(t)' \/ t \in rejected'
    BY <1>2, <2>1, StepHeld
  <2> QED
    BY <1>2, <2>2, <2>3
<1> QED
  BY <1>1, <1>3, StepSubmitted

\* Without a push between LRANGE and LTRIM and without faults, a submitted task
\* is on the list, in the distributor's batch, on a node, in a result or
\* reported, unless a node with a full queue turned it away: neither the two
\* commands of the fetch (coordinator.go:201-207), nor a failed send
\* (221-230), nor the handlers that run meanwhile lose it.
THEOREM NothingIsLost ==
  ASSUME PushInWindow = FALSE
  PROVE  Spec => []NoLoss
<1>1. Init => LossInv
  <2>1. Init => TypeInv
    BY InitTypeInv
  <2>2. Init => WindowClosed /\ NoLoss
    BY DEF Init, WindowClosed, NoLoss
  <2> QED
    BY <2>1, <2>2 DEF LossInv
<1>2. LossInv /\ [Next]_vars => LossInv'
  <2> SUFFICES ASSUME LossInv, [Next]_vars PROVE LossInv'
    OBVIOUS
  <2>1. TypeInv /\ WindowClosed
    BY DEF LossInv
  <2>2. TypeInv'
    BY <2>1, StepTypeInv
  <2>3. WindowClosed'
    BY <2>1, StepWindow
  <2>4. NoLoss'
    BY StepNoLoss
  <2> QED
    BY <2>2, <2>3, <2>4 DEF LossInv
<1>3. LossInv => NoLoss
  BY DEF LossInv
<1> QED
  BY <1>1, <1>2, <1>3, PTL DEF Spec

-----------------------------------------------------------------------------
(* What a node has, the coordinator knows it has.                          *)

\* Places in more detail, and what their contents mean.
AttemptsOf(t) == {e \in Attempt : e.task = t}
On(n, e)      == running[n][e] > 0 \/ retryList[n][e] > 0
ListAt(t, i)  == i \in DOMAIN pending /\ pending[i] = Data(t)
BatchAt(t, i) == i \in Unsent /\ batch[i] = Data(t)
Fresh(n, t)   == inflight[n][t] > 0 \/ running[n][First(t)] > 0
Reported(t)   == InResults(t) \/ Handled(t)

\* No place has a task twice.
ListOnce(t)  == \A i, j : ListAt(t, i) /\ ListAt(t, j) => i = j
BatchOnce(t) == \A i, j : BatchAt(t, i) /\ BatchAt(t, j) => i = j
NodesOnce(t) ==
  /\ \A n \in Nodes : inflight[n][t] <= 1
  /\ \A n, m \in Nodes : inflight[n][t] > 0 /\ inflight[m][t] > 0 => n = m
  /\ \A n \in Nodes, e \in AttemptsOf(t) : running[n][e] + retryList[n][e] <= 1
  /\ \A n, m \in Nodes, e, f \in AttemptsOf(t) : On(n, e) /\ On(m, f) => n = m /\ e = f

\* No two places have the same task.
Apart(t) ==
  /\ OnList(t) => ~InBatch(t) /\ ~ToNode(t) /\ ~AtNode(t)
  /\ InBatch(t) => ~ToNode(t) /\ ~AtNode(t)
  /\ ToNode(t) => ~AtNode(t)

\* A task is nowhere before it is submitted, no first attempt at it is under way once there
\* is a result, what a node tries again is no first attempt, and a node that is down holds
\* nothing but its list in Redis.
InOrder(t) ==
  /\ t \notin submitted =>
       ~OnList(t) /\ ~InBatch(t) /\ ~ToNode(t) /\ ~AtNode(t) /\ ~Reported(t)
  /\ Reported(t) => ~OnList(t) /\ ~InBatch(t) /\ \A n \in Nodes : ~Fresh(n, t)
  /\ \A n \in Nodes : retryList[n][First(t)] = 0
  /\ \A n \in Nodes \ up : inflight[n][t] = 0 /\ \A e \in AttemptsOf(t) : running[n][e] = 0

Sole(t) == ListOnce(t) /\ BatchOnce(t) /\ NodesOnce(t) /\ Apart(t) /\ InOrder(t)

\* WorkIsRecorded for one task; between SendToNode and the maps only the target
\* may have it.
Recorded(t) ==
  \A n \in Nodes : Fresh(n, t) => IF distPC = "record" /\ Current = Data(t)
                                  THEN Target = n ELSE taskAssignments[t] = n

DeadAreDown == \A n \in Nodes : view[n] = "dead" => n \notin up

RecordInv == /\ TypeInv /\ WindowClosed /\ DeadAreDown
             /\ \A t \in Tasks : Sole(t) /\ (restarts = 0 => Recorded(t))

LEMMA AttemptTyped == \A t \in Tasks : First(t) \in AttemptsOf(t) /\ AttemptsOf(t) \subseteq Attempt
  BY FirstIsAttempt DEF AttemptsOf, First

\* Taking copies away disturbs nothing.
LEMMA Fewer ==
  ASSUME NEW t \in Tasks, TypeInv, TypeInv', Sole(t), ListOnce(t)', BatchOnce(t)',
         OnList(t)' => OnList(t), InBatch(t)' => InBatch(t),
         \A n \in Nodes : inflight'[n][t] <= inflight[n][t],
         \A n \in Nodes, e \in AttemptsOf(t) :
           running'[n][e] <= running[n][e] /\ retryList'[n][e] <= retryList[n][e],
         Reported(t)' => Reported(t), t \in submitted => t \in submitted',
         \A n \in Nodes \ up' :
           n \notin up \/ (inflight'[n][t] = 0 /\ \A e \in AttemptsOf(t) : running'[n][e] = 0)
  PROVE  Sole(t)'
<1>1. /\ \A n \in Nodes : inflight[n][t] \in Nat /\ inflight'[n][t] \in Nat
      /\ \A n \in Nodes, e \in AttemptsOf(t) :
           /\ running[n][e] \in Nat /\ running'[n][e] \in Nat
           /\ retryList[n][e] \in Nat /\ retryList'[n][e] \in Nat
  <2>1. AttemptsOf(t) \subseteq Attempt
    BY AttemptTyped
  <2>2. /\ inflight \in [Nodes -> [Tasks -> Nat]] /\ inflight' \in [Nodes -> [Tasks -> Nat]]
        /\ running \in [Nodes -> [Attempt -> Nat]] /\ running' \in [Nodes -> [Attempt -> Nat]]
        /\ retryList \in [Nodes -> [Attempt -> Nat]] /\ retryList' \in [Nodes -> [Attempt -> Nat]]
    BY DEF TypeInv, TypeOK
  <2>. QED  BY <2>1, <2>2
<1>2. /\ \A n \in Nodes : inflight'[n][t] > 0 => inflight[n][t] > 0
      /\ \A n \in Nodes, e \in AttemptsOf(t) :
           /\ running'[n][e] > 0 => running[n][e] > 0
           /\ retryList'[n][e] > 0 => retryList[n][e] > 0
  BY <1>1
<1>3. ToNode(t)' => ToNode(t)
  BY <1>2 DEF ToNode
<1>4. AtNode(t)' => AtNode(t)
  BY <1>2 DEF AtNode, AttemptsOf
<1>5. \A n \in Nodes : Fresh(n, t)' => Fresh(n, t)
  BY <1>2, AttemptTyped DEF Fresh, First
<1>6. NodesOnce(t)'
  <2>1. \A n \in Nodes, e \in AttemptsOf(t) : On(n, e)' => On(n, e)
    BY <1>2 DEF On
  <2>2. \A n \in Nodes : inflight'[n][t] <= 1
    BY <1>1 DEF Sole, NodesOnce
  <2>3. \A n \in Nodes, e \in AttemptsOf(t) : running'[n][e] + retryList'[n][e] <= 1
    BY <1>1 DEF Sole, NodesOnce
  <2>. QED  BY <1>2, <2>1, <2>2, <2>3 DEF Sole, NodesOnce, AttemptsOf, On
<1>7. Apart(t)'
  BY <1>3, <1>4 DEF Sole, Apart
<1>8. InOrder(t)'
  <2>1. \A n \in Nodes : retryList'[n][First(t)] = 0
    BY <1>1, AttemptTyped DEF Sole, InOrder
  <2>2. \A n \in Nodes \ up' :
          inflight'[n][t] = 0 /\ \A e \in AttemptsOf(t) : running'[n][e] = 0
    BY <1>1 DEF Sole, InOrder
  <2>. QED  BY <1>3, <1>4, <1>5, <2>1, <2>2 DEF Sole, InOrder, First, AttemptsOf
<1>. QED  BY <1>6, <1>7, <1>8 DEF Sole

\* Nothing fresh, and the distributor where it was.
LEMMA RecordedKept ==
  ASSUME NEW t \in Tasks, Recorded(t), \A n \in Nodes : Fresh(n, t)' => Fresh(n, t),
         taskAssignments'[t] = taskAssignments[t],
         \/ distPC = "record" /\ UNCHANGED <<distPC, batch, next, targets>>
         \/ distPC # "record" /\ distPC' # "record"
  PROVE  Recorded(t)'
  BY DEF Recorded, Current, Target, Data

\* The nodes are as they were; or the list and the batch are.
LEMMA FewerQueued ==
  ASSUME NEW t \in Tasks, TypeInv, TypeInv', Sole(t), ListOnce(t)', BatchOnce(t)',
         OnList(t)' => OnList(t), InBatch(t)' => InBatch(t),
         UNCHANGED <<inflight, running, retryList>>,
         Reported(t)' => Reported(t), t \in submitted => t \in submitted', up \subseteq up'
  PROVE  Sole(t)'
<1>1. AttemptsOf(t) \subseteq Attempt
  BY AttemptTyped
<1>2. /\ inflight \in [Nodes -> [Tasks -> Nat]]
      /\ running \in [Nodes -> [Attempt -> Nat]] /\ retryList \in [Nodes -> [Attempt -> Nat]]
  BY DEF TypeInv, TypeOK
<1>3. /\ \A n \in Nodes : inflight'[n][t] <= inflight[n][t]
      /\ \A n \in Nodes, e \in AttemptsOf(t) :
           running'[n][e] <= running[n][e] /\ retryList'[n][e] <= retryList[n][e]
  BY <1>1, <1>2
<1>. QED  BY <1>3, Fewer

LEMMA SameQueues ==
  ASSUME NEW t, UNCHANGED <<pending, distVars>>, ListOnce(t), BatchOnce(t)
  PROVE  /\ ListOnce(t)' /\ BatchOnce(t)'
         /\ OnList(t)' <=> OnList(t)
         /\ InBatch(t)' <=> InBatch(t)
  BY DEF distVars, ListOnce, BatchOnce, ListAt, BatchAt, OnList, InBatch, Unsent

LEMMA FewerOnNodes ==
  ASSUME NEW t \in Tasks, TypeInv, TypeInv', Sole(t), UNCHANGED <<pending, distVars, submitted>>,
         \A n \in Nodes : inflight'[n][t] <= inflight[n][t],
         \A n \in Nodes, e \in AttemptsOf(t) :
           running'[n][e] <= running[n][e] /\ retryList'[n][e] <= retryList[n][e],
         Reported(t)' => Reported(t),
         \A n \in Nodes \ up' :
           n \notin up \/ (inflight'[n][t] = 0 /\ \A e \in AttemptsOf(t) : running'[n][e] = 0)
  PROVE  Sole(t)'
<1>1. /\ ListOnce(t)' /\ BatchOnce(t)'
      /\ OnList(t)' => OnList(t)
      /\ InBatch(t)' => InBatch(t)
  BY SameQueues DEF Sole
<1>. QED  BY <1>1, Fewer

\* An entry that is not the task is put at either end of the list.
LEMMA ListAppend ==
  ASSUME NEW t, NEW e \in Entry, pending \in Seq(Entry), pending' = Append(pending, e),
         e # Data(t), ListOnce(t)
  PROVE  ListOnce(t)' /\ (OnList(t)' => OnList(t))
<1>1. ASSUME NEW i, ListAt(t, i)' PROVE ListAt(t, i)
  BY <1>1 DEF ListAt
<1>. QED  BY <1>1 DEF ListOnce, OnList, ListAt

LEMMA ListPrepend ==
  ASSUME NEW t, NEW e \in Entry, pending \in Seq(Entry), pending' = <<e>> \o pending
  PROVE  \A i : ListAt(t, i)' => i \in Nat /\ (IF i = 1 THEN e = Data(t) ELSE ListAt(t, i - 1))
  BY DEF ListAt

\* The distributor moves on.
LEMMA AdvanceShrinks ==
  ASSUME NEW t, TypeInv, distPC \in {"assign", "record"}, Advance, BatchOnce(t)
  PROVE  /\ BatchOnce(t)'
         /\ InBatch(t)' => InBatch(t)
         /\ distPC = "assign" /\ Current = Data(t) => InBatch(t) /\ ~InBatch(t)'
<1>1. next \in 1..Len(batch) /\ batch \in Seq(Entry) /\ Len(batch) \in Nat
  BY DEF TypeInv, TypeOK, BatchOK
<1>2. ASSUME NEW i, BatchAt(t, i)' PROVE BatchAt(t, i) /\ i # next
  <2>1. CASE next < Len(batch)
    <3>1. distPC' = "assign" /\ next' = next + 1 /\ batch' = batch
      BY <2>1 DEF Advance
    <3>2. i \in (next + 1)..Len(batch) /\ batch[i] = Data(t)
      BY <1>2, <3>1 DEF BatchAt, Unsent
    <3>. QED  BY <1>1, <3>2 DEF BatchAt, Unsent
  <2>2. CASE ~(next < Len(batch))
    BY <1>2, <2>2 DEF Advance, BatchAt, Unsent
  <2>. QED  BY <2>1, <2>2
<1>3. distPC = "assign" /\ Current = Data(t) => BatchAt(t, next)
  BY <1>1 DEF BatchAt, Unsent, Current
<1>. QED  BY <1>2, <1>3 DEF BatchOnce, InBatch, BatchAt

\* A task is pushed where it was not.
LEMMA SoleSubmit ==
  ASSUME NEW t \in Tasks, NEW u \in Tasks, TypeInv, TypeInv', Sole(t), Submit(u)
  PROVE  Sole(t)'
<1>1. pending \in Seq(Entry) /\ Data(u) \in Entry
  BY DEF TypeInv, TypeOK, Data, Entry
<1>2. /\ pending' = <<Data(u)>> \o pending /\ u \notin submitted /\ submitted' = submitted \union {u}
      /\ UNCHANGED <<distVars, inflight, running, retryList, results, inHand, up>>
  BY DEF Submit, nodeVars, resVars, envVars
<1>3. \A i : ListAt(t, i)' => i \in Nat /\ (IF i = 1 THEN u = t ELSE ListAt(t, i - 1))
  BY <1>1, <1>2, ListPrepend DEF Data
<1>4. /\ BatchOnce(t)'
      /\ InBatch(t)' <=> InBatch(t)
      /\ ToNode(t)' <=> ToNode(t)
      /\ AtNode(t)' <=> AtNode(t)
      /\ Reported(t)' <=> Reported(t)
  BY <1>2 DEF Sole, distVars, BatchOnce, BatchAt, InBatch, Unsent, ToNode, AtNode, Reported,
              InResults, Handled
<1>5. CASE u = t
  <2>1. ~OnList(t) /\ ~InBatch(t) /\ ~ToNode(t) /\ ~AtNode(t) /\ ~Reported(t)
    BY <1>2, <1>5 DEF Sole, InOrder
  <2>2. \A i : ~ListAt(t, i)
    BY <2>1 DEF OnList, ListAt
  <2>3. ListOnce(t)'
    BY <1>3, <2>2 DEF ListOnce
  <2>4. NodesOnce(t)'
    BY <1>2 DEF Sole, NodesOnce, On
  <2>5. Apart(t)'
    BY <1>4, <2>1 DEF Apart
  <2>6. InOrder(t)'
    BY <1>2, <1>4, <1>5, <2>1 DEF Sole, InOrder
  <2>. QED  BY <1>4, <2>3, <2>4, <2>5, <2>6 DEF Sole
<1>6. CASE u # t
  <2>1. \A i : ListAt(t, i)' => i \in Nat /\ ListAt(t, i - 1)
    BY <1>3, <1>6
  <2>2. ListOnce(t)'
    <3>. SUFFICES ASSUME NEW i, NEW j, ListAt(t, i)', ListAt(t, j)' PROVE i = j
      BY DEF ListOnce
    <3>1. i \in Nat /\ j \in Nat /\ ListAt(t, i - 1) /\ ListAt(t, j - 1)
      BY <2>1
    <3>2. i - 1 = j - 1
      BY <3>1 DEF Sole, ListOnce
    <3>. QED  BY <3>1, <3>2
  <2>3. OnList(t)' => OnList(t)
    BY <2>1 DEF OnList, ListAt
  <2>. QED  BY <1>2, <1>4, <2>2, <2>3, FewerQueued
<1>. QED  BY <1>5, <1>6

\* What LRANGE copied, LTRIM removes: the task moves from the list to the batch.
LEMMA SoleTrim ==
  ASSUME NEW t \in Tasks, TypeInv, TypeInv', WindowClosed, Sole(t), Trim
  PROVE  Sole(t)'
<1>1. /\ pending \in Seq(Entry) /\ Len(batch) \in Nat /\ next = 1
      /\ Len(batch) <= Len(pending) /\ \A j \in 1..Len(batch) : pending[j] = batch[j]
  BY DEF TypeInv, TypeOK, BatchOK, WindowClosed, Trim, LTrim
<1>2. /\ distPC' = "assign" /\ UNCHANGED <<batch, next, targets>>
      /\ pending' = SubSeq(pending, Len(batch) + 1, Len(pending))
      /\ UNCHANGED <<submitted, inflight, running, retryList, results, inHand, up>>
  BY DEF Trim, LTrim, nodeVars, resVars, envVars
<1>3. \A i : ListAt(t, i)' => i \in Nat \ {0} /\ ListAt(t, i + Len(batch))
  BY <1>1, <1>2 DEF ListAt
<1>4. \A i : BatchAt(t, i)' => i \in 1..Len(batch) /\ ListAt(t, i)
  BY <1>1, <1>2 DEF ListAt, BatchAt, Unsent
<1>5. \A i, j : ListAt(t, i) /\ ListAt(t, j) => i = j
  BY DEF Sole, ListOnce
<1>6. ListOnce(t)'
  <2>. SUFFICES ASSUME NEW i, NEW j, ListAt(t, i)', ListAt(t, j)' PROVE i = j
    BY DEF ListOnce
  <2>1. i \in Nat /\ j \in Nat /\ ListAt(t, i + Len(batch)) /\ ListAt(t, j + Len(batch))
    BY <1>3
  <2>2. i + Len(batch) = j + Len(batch)
    BY <1>5, <2>1
  <2>. QED  BY <1>1, <2>1, <2>2
<1>7. BatchOnce(t)'
  BY <1>4, <1>5 DEF BatchOnce
<1>8. OnList(t)' => OnList(t) /\ ~InBatch(t)'
  <2>. SUFFICES ASSUME NEW i, ListAt(t, i)' PROVE OnList(t) /\ ~InBatch(t)'
    BY DEF OnList, ListAt
  <2>1. i \in Nat \ {0} /\ ListAt(t, i + Len(batch))
    BY <1>3
  <2>2. ASSUME NEW j, BatchAt(t, j)' PROVE FALSE
    BY <1>1, <1>4, <1>5, <2>1, <2>2
  <2>3. OnList(t)
    BY <2>1 DEF OnList, ListAt
  <2>. QED  BY <2>2, <2>3 DEF InBatch, BatchAt
<1>9. InBatch(t)' => OnList(t)
  BY <1>4 DEF OnList, ListAt, InBatch, BatchAt
<1>10. /\ ToNode(t)' <=> ToNode(t)
       /\ AtNode(t)' <=> AtNode(t)
       /\ Reported(t)' <=> Reported(t)
  BY <1>2 DEF ToNode, AtNode, Reported, InResults, Handled
<1>11. NodesOnce(t)'
  BY <1>2 DEF Sole, NodesOnce, On
<1>12. Apart(t)'
  BY <1>8, <1>9, <1>10 DEF Sole, Apart
<1>13. InOrder(t)'
  <2>1. \A n \in Nodes : Fresh(n, t)' <=> Fresh(n, t)
    BY <1>2 DEF Fresh
  <2>. QED  BY <1>2, <1>8, <1>9, <1>10, <2>1 DEF Sole, InOrder
<1>. QED  BY <1>6, <1>7, <1>11, <1>12, <1>13 DEF Sole

\* The current entry, if it is a task, is the one copy of that task.
LEMMA CurrentIsSole ==
  ASSUME NEW t \in Tasks, TypeInv, distPC = "assign", Current = Data(t), Sole(t)
  PROVE  InBatch(t) /\ ~OnList(t) /\ ~ToNode(t) /\ ~AtNode(t) /\ ~Reported(t) /\ t \in submitted
<1>1. next \in Unsent
  BY DEF TypeInv, TypeOK, BatchOK, Unsent
<1>2. InBatch(t)
  BY <1>1 DEF InBatch, Current
<1>. QED  BY <1>2 DEF Sole, Apart, InOrder

\* The task moves from the batch to the send buffer of a node that is up.
LEMMA SoleSend ==
  ASSUME NEW t \in Tasks, TypeInv, TypeInv', Sole(t), Send
  PROVE  Sole(t)'
<1>1. /\ distPC = "assign" /\ distPC' = "record" /\ UNCHANGED <<batch, next>>
      /\ Current.kind = "data" /\ Target \in up
      /\ inflight' = [inflight EXCEPT ![Target][Current.task] = @ + 1]
      /\ UNCHANGED <<submitted, pending, running, retryList, results, inHand, up>>
  BY DEF Send, queueVars, resVars, envVars
<1>2. /\ Current \in Entry /\ Target \in Nodes
      /\ next \in 1..Len(batch) /\ Len(batch) \in Nat
      /\ inflight \in [Nodes -> [Tasks -> Nat]]
      /\ running \in [Nodes -> [Attempt -> Nat]] /\ retryList \in [Nodes -> [Attempt -> Nat]]
  <2>1. Current \in Entry /\ Target \in Nodes
    BY <1>1, CurrentTyped
  <2>2. distPC # "idle" /\ batch \in Seq(Entry) /\ (distPC # "idle" => next \in 1..Len(batch))
    BY <1>1 DEF TypeInv, TypeOK, BatchOK
  <2>3. /\ inflight \in [Nodes -> [Tasks -> Nat]]
        /\ running \in [Nodes -> [Attempt -> Nat]] /\ retryList \in [Nodes -> [Attempt -> Nat]]
    BY DEF TypeInv, TypeOK
  <2>. QED  BY <2>1, <2>2, <2>3
<1>3. Current = Data(Current.task) /\ Current.task \in Tasks
  BY <1>1, <1>2 DEF Entry, Data
<1>4. \A i : BatchAt(t, i)' => BatchAt(t, i) /\ i # next
  BY <1>1, <1>2 DEF BatchAt, Unsent
<1>5. BatchOnce(t)' /\ (InBatch(t)' => InBatch(t))
  BY <1>4 DEF Sole, BatchOnce, InBatch, BatchAt
<1>6. /\ ListOnce(t)'
      /\ OnList(t)' <=> OnList(t)
      /\ AtNode(t)' <=> AtNode(t)
      /\ Reported(t)' <=> Reported(t)
  BY <1>1 DEF Sole, ListOnce, ListAt, OnList, AtNode, Reported, InResults, Handled
<1>7. CASE Current.task = t
  <2>1. InBatch(t) /\ ~OnList(t) /\ ~ToNode(t) /\ ~AtNode(t) /\ ~Reported(t) /\ t \in submitted
    BY <1>1, <1>3, <1>7, CurrentIsSole
  <2>2. ~InBatch(t)'
    <3>1. BatchAt(t, next)
      BY <1>1, <1>2, <1>3, <1>7 DEF BatchAt, Unsent, Current
    <3>2. \A i : ~BatchAt(t, i)'
      BY <1>4, <3>1 DEF Sole, BatchOnce
    <3>. QED  BY <3>2 DEF InBatch, BatchAt
  <2>3. \A n \in Nodes : inflight[n][t] = 0
    BY <1>2, <2>1 DEF ToNode
  <2>4. \A n \in Nodes : inflight'[n][t] = IF n = Target THEN 1 ELSE 0
    BY <1>1, <1>2, <1>7, <2>3
  <2>5. NodesOnce(t)'
    BY <1>1, <1>2, <2>4 DEF Sole, NodesOnce, On
  <2>6. Apart(t)'
    BY <1>6, <2>1, <2>2 DEF Apart
  <2>7. InOrder(t)'
    <3>1. \A n \in Nodes \ up : inflight'[n][t] = 0
      BY <1>1, <2>4
    <3>. QED  BY <1>1, <1>6, <2>1, <3>1 DEF Sole, InOrder
  <2>. QED  BY <1>5, <1>6, <2>5, <2>6, <2>7 DEF Sole
<1>8. CASE Current.task # t
  <2>1. \A n \in Nodes : inflight'[n][t] = inflight[n][t]
    BY <1>1, <1>2, <1>3, <1>8
  <2>2. AttemptsOf(t) \subseteq Attempt
    BY AttemptTyped
  <2>3. /\ \A n \in Nodes : inflight'[n][t] <= inflight[n][t]
        /\ \A n \in Nodes, e \in AttemptsOf(t) :
             running'[n][e] <= running[n][e] /\ retryList'[n][e] <= retryList[n][e]
    BY <1>1, <1>2, <2>1, <2>2
  <2>. QED  BY <1>1, <1>5, <1>6, <2>3, Fewer
<1>. QED  BY <1>7, <1>8

\* Or back to the list.
LEMMA SoleSendFails ==
  ASSUME NEW t \in Tasks, TypeInv, TypeInv', Sole(t), SendFails
  PROVE  Sole(t)'
<1>1. /\ distPC = "assign" /\ Current.kind = "data" /\ Advance /\ pending' = Append(pending, Current)
      /\ UNCHANGED <<submitted, inflight, running, retryList, results, inHand, up>>
  BY DEF SendFails, Unsendable, nodeVars, resVars, envVars
<1>2. Current \in Entry /\ pending \in Seq(Entry)
  BY <1>1, CurrentTyped DEF TypeInv, TypeOK
<1>3. /\ BatchOnce(t)'
      /\ InBatch(t)' => InBatch(t)
      /\ Current = Data(t) => ~InBatch(t)'
  BY <1>1, AdvanceShrinks DEF Sole
<1>4. CASE Current = Data(t)
  <2>1. ~OnList(t) /\ ~ToNode(t) /\ ~AtNode(t) /\ ~Reported(t) /\ t \in submitted
    BY <1>1, <1>4, CurrentIsSole
  <2>2. \A i : ListAt(t, i)' => i = Len(pending) + 1
    BY <1>1, <1>2, <2>1 DEF ListAt, OnList
  <2>3. /\ ToNode(t)' <=> ToNode(t)
        /\ AtNode(t)' <=> AtNode(t)
        /\ Reported(t)' <=> Reported(t)
    BY <1>1 DEF ToNode, AtNode, Reported, InResults, Handled
  <2>4. NodesOnce(t)' /\ Apart(t)' /\ InOrder(t)'
    <3>1. NodesOnce(t)'
      BY <1>1 DEF Sole, NodesOnce, On
    <3>2. Apart(t)'
      BY <1>3, <1>4, <2>1, <2>3 DEF Apart
    <3>3. InOrder(t)'
      BY <1>1, <2>1, <2>3 DEF Sole, InOrder
    <3>. QED  BY <3>1, <3>2, <3>3
  <2>. QED  BY <1>3, <2>2, <2>4 DEF Sole, ListOnce
<1>5. CASE Current # Data(t)
  <2>1. ListOnce(t)' /\ (OnList(t)' => OnList(t))
    BY <1>1, <1>2, <1>5, ListAppend DEF Sole
  <2>2. Reported(t)' => Reported(t)
    BY <1>1 DEF Reported, InResults, Handled
  <2>. QED  BY <1>1, <1>3, <2>1, <2>2, FewerQueued
<1>. QED  BY <1>4, <1>5

\* A task that is not sent, run or listed by any node, but perhaps once at one of them.
LEMMA OneAttempt ==
  ASSUME NEW t \in Tasks, TypeInv, NodesOnce(t), NEW n \in Nodes, NEW e \in AttemptsOf(t), On(n, e)
  PROVE  /\ running[n][e] + retryList[n][e] = 1
         /\ \A m \in Nodes, f \in AttemptsOf(t) :
              ~(m = n /\ f = e) => running[m][f] = 0 /\ retryList[m][f] = 0
         /\ AtNode(t)
<1>1. AttemptsOf(t) \subseteq Attempt
  BY AttemptTyped
<1>2. running \in [Nodes -> [Attempt -> Nat]] /\ retryList \in [Nodes -> [Attempt -> Nat]]
  BY DEF TypeInv, TypeOK
<1>3. /\ running[n][e] + retryList[n][e] <= 1
      /\ \A m \in Nodes, f \in AttemptsOf(t) : On(m, f) => m = n /\ f = e
  BY DEF NodesOnce
<1>4. \A m \in Nodes, f \in AttemptsOf(t) : running[m][f] \in Nat /\ retryList[m][f] \in Nat
  BY <1>1, <1>2
<1>5. running[n][e] + retryList[n][e] = 1
  BY <1>3, <1>4 DEF On
<1>6. \A m \in Nodes, f \in AttemptsOf(t) :
        ~(m = n /\ f = e) => running[m][f] = 0 /\ retryList[m][f] = 0
  BY <1>3, <1>4 DEF On
<1>7. AtNode(t)
  BY DEF AtNode, On, AttemptsOf
<1>. QED  BY <1>5, <1>6, <1>7

\* The task moves from a node's send buffer to its workers, or is turned away.
LEMMA SoleDeliver ==
  ASSUME NEW t \in Tasks, NEW u \in Tasks, NEW n \in Nodes, TypeInv, TypeInv', Sole(t), Deliver(n, u)
  PROVE  Sole(t)'
<1>1. /\ inflight[n][u] > 0 /\ inflight' = [inflight EXCEPT ![n][u] = @ - 1]
      /\ running' = running \/ running' = [running EXCEPT ![n][First(u)] = @ + 1]
      /\ UNCHANGED <<pending, distVars, submitted, retryList, results, inHand, up>>
  BY DEF Deliver, queueVars, resVars, envVars
<1>2. /\ inflight \in [Nodes -> [Tasks -> Nat]]
      /\ running \in [Nodes -> [Attempt -> Nat]] /\ retryList \in [Nodes -> [Attempt -> Nat]]
  BY DEF TypeInv, TypeOK
<1>3. AttemptsOf(t) \subseteq Attempt /\ First(t) \in AttemptsOf(t) /\ First(u) \in Attempt
  BY AttemptTyped, FirstIsAttempt
<1>4. /\ ListOnce(t)' /\ BatchOnce(t)'
      /\ OnList(t)' <=> OnList(t)
      /\ InBatch(t)' <=> InBatch(t)
  BY <1>1, SameQueues DEF Sole
<1>5. Reported(t)' <=> Reported(t)
  BY <1>1 DEF Reported, InResults, Handled
<1>6. CASE u = t
  <2>1. ToNode(t) /\ ~OnList(t) /\ ~InBatch(t) /\ ~AtNode(t) /\ ~Reported(t) /\ t \in submitted
    <3>1. ToNode(t)
      BY <1>1, <1>6 DEF ToNode
    <3>2. Fresh(n, t)
      BY <1>1, <1>6 DEF Fresh
    <3>3. ~OnList(t) /\ ~InBatch(t) /\ ~AtNode(t)
      BY <3>1 DEF Sole, Apart
    <3>4. ~Reported(t) /\ t \in submitted
      BY <3>1, <3>2 DEF Sole, InOrder
    <3>. QED  BY <3>1, <3>3, <3>4
  <2>2. \A m \in Nodes : inflight'[m][t] = 0
    <3>1. /\ \A m \in Nodes : inflight[m][t] <= 1 /\ inflight[m][t] \in Nat
          /\ \A m \in Nodes : inflight[m][t] > 0 => m = n
      BY <1>1, <1>2, <1>6 DEF Sole, NodesOnce
    <3>. QED  BY <1>1, <1>2, <1>6, <3>1
  <2>3. \A m \in Nodes, e \in AttemptsOf(t) : running[m][e] = 0 /\ retryList[m][e] = 0
    BY <1>2, <1>3, <2>1 DEF AtNode, AttemptsOf
  <2>4. /\ \A m \in Nodes, e \in AttemptsOf(t) :
             running'[m][e] \in {0, IF m = n /\ e = First(t) THEN 1 ELSE 0}
        /\ \A m \in Nodes, e \in AttemptsOf(t) : retryList'[m][e] = 0
    <3>1. \A m \in Nodes, e \in AttemptsOf(t) : retryList'[m][e] = 0
      BY <1>1, <2>3
    <3>2. CASE running' = running
      BY <2>3, <3>1, <3>2
    <3>3. CASE running' = [running EXCEPT ![n][First(u)] = @ + 1]
      BY <1>2, <1>3, <1>6, <2>3, <3>1, <3>3
    <3>. QED  BY <1>1, <3>2, <3>3
  <2>5. NodesOnce(t)'
    <3>1. \A m \in Nodes, e \in AttemptsOf(t) : On(m, e)' => m = n /\ e = First(t)
      BY <2>4 DEF On
    <3>2. \A m \in Nodes, e \in AttemptsOf(t) : running'[m][e] + retryList'[m][e] <= 1
      BY <2>4
    <3>. QED  BY <2>2, <3>1, <3>2 DEF NodesOnce, AttemptsOf
  <2>6. Apart(t)'
    <3>1. ~ToNode(t)'
      BY <2>2 DEF ToNode
    <3>. QED  BY <1>4, <2>1, <3>1 DEF Apart
  <2>7. InOrder(t)'
    <3>1. n \in up
      BY <1>1, <1>6 DEF Sole, InOrder
    <3>2. \A m \in Nodes \ up :
            inflight'[m][t] = 0 /\ \A e \in AttemptsOf(t) : running'[m][e] = 0
      BY <2>2, <2>4, <3>1
    <3>3. \A m \in Nodes : retryList'[m][First(t)] = 0
      BY <1>3, <2>4
    <3>. QED  BY <1>1, <1>5, <2>1, <3>2, <3>3 DEF InOrder, First, AttemptsOf
  <2>. QED  BY <1>4, <2>5, <2>6, <2>7 DEF Sole
<1>7. CASE u # t
  <2>1. \A m \in Nodes : inflight'[m][t] = inflight[m][t]
    BY <1>1, <1>2, <1>7
  <2>2. \A m \in Nodes, e \in AttemptsOf(t) :
          running'[m][e] = running[m][e] /\ retryList'[m][e] = retryList[m][e]
    <3>. SUFFICES ASSUME NEW m \in Nodes, NEW e \in AttemptsOf(t)
                  PROVE  running'[m][e] = running[m][e] /\ retryList'[m][e] = retryList[m][e]
      OBVIOUS
    <3>1. e # First(u)
      BY <1>7 DEF First, AttemptsOf
    <3>2. ASSUME running' = [running EXCEPT ![n][First(u)] = @ + 1]
          PROVE  running'[m][e] = running[m][e]
      BY <1>2, <1>3, <3>1, <3>2
    <3>. QED  BY <1>1, <3>2
  <2>3. /\ \A m \in Nodes : inflight'[m][t] <= inflight[m][t]
        /\ \A m \in Nodes, e \in AttemptsOf(t) :
             running'[m][e] <= running[m][e] /\ retryList'[m][e] <= retryList[m][e]
    BY <1>2, <1>3, <2>1, <2>2
  <2>. QED  BY <1>1, <1>5, <2>3, FewerOnNodes
<1>. QED  BY <1>6, <1>7

\* The node's one attempt ends: it is reported, and perhaps put on the node's list again.
LEMMA SoleFinish ==
  ASSUME NEW t \in Tasks, NEW n \in Nodes, NEW e \in Attempt, NEW ok \in BOOLEAN,
         TypeInv, TypeInv', Sole(t), NodeFinish(n, e, ok)
  PROVE  Sole(t)'
<1>1. /\ running[n][e] > 0 /\ running' = [running EXCEPT ![n][e] = @ - 1]
      /\ results' = Append(results, [task |-> e.task, ok |-> ok]) /\ LocalRetry(n, e, ok)
      /\ UNCHANGED <<pending, distVars, submitted, inflight, inHand, up>>
  BY DEF NodeFinish, Publish, queueVars, envVars
<1>2. /\ inflight \in [Nodes -> [Tasks -> Nat]] /\ results \in Seq(Result)
      /\ running \in [Nodes -> [Attempt -> Nat]] /\ retryList \in [Nodes -> [Attempt -> Nat]]
  BY DEF TypeInv, TypeOK
<1>3. AttemptsOf(t) \subseteq Attempt /\ First(t) \in AttemptsOf(t)
  BY AttemptTyped
<1>4. /\ ListOnce(t)' /\ BatchOnce(t)'
      /\ OnList(t)' <=> OnList(t)
      /\ InBatch(t)' <=> InBatch(t)
      /\ ToNode(t)' <=> ToNode(t)
  BY <1>1, SameQueues DEF Sole, ToNode
<1>5. CASE e.task = t
  <2>. DEFINE again == [e EXCEPT !.retry = @ + 1]
  <2>1. e \in AttemptsOf(t) /\ On(n, e)
    BY <1>1, <1>5 DEF AttemptsOf, On
  <2>2. /\ running[n][e] + retryList[n][e] = 1
        /\ \A m \in Nodes, f \in AttemptsOf(t) :
             ~(m = n /\ f = e) => running[m][f] = 0 /\ retryList[m][f] = 0
        /\ AtNode(t)
    BY <2>1, OneAttempt DEF Sole
  <2>3. /\ ~OnList(t) /\ ~InBatch(t) /\ ~ToNode(t)
        /\ t \in submitted
    BY <2>2 DEF Sole, Apart, InOrder
  <2>4. running[n][e] = 1 /\ retryList[n][e] = 0
    BY <1>1, <1>2, <2>2
  <2>5. \A m \in Nodes, f \in AttemptsOf(t) : running'[m][f] = 0 /\ retryList[m][f] = 0
    BY <1>1, <1>2, <1>3, <2>1, <2>2, <2>4
  <2>6. \A m \in Nodes, f \in AttemptsOf(t) :
          retryList'[m][f] \in {0, IF m = n /\ f = again /\ e.retry < MaxRetries THEN 1 ELSE 0}
    <3>1. CASE ~ok /\ e.retry < MaxRetries
      <4>1. again \in Attempt /\ retryList' = [retryList EXCEPT ![n][again] = @ + 1]
        BY <1>1, <3>1, RetryIsAttempt DEF LocalRetry
      <4>. HIDE DEF again
      <4>. QED  BY <1>2, <1>3, <2>5, <3>1, <4>1
    <3>2. CASE ~(~ok /\ e.retry < MaxRetries)
      BY <1>1, <2>5, <3>2 DEF LocalRetry
    <3>. QED  BY <3>1, <3>2
  <2>7. again # First(t)
    BY MaxRetriesAssumption DEF First, Attempt
  <2>. HIDE DEF again
  <2>8. NodesOnce(t)'
    <3>1. \A m \in Nodes, f \in AttemptsOf(t) : On(m, f)' => m = n /\ f = again
      BY <2>5, <2>6 DEF On
    <3>2. \A m \in Nodes, f \in AttemptsOf(t) : running'[m][f] + retryList'[m][f] <= 1
      BY <2>5, <2>6
    <3>. QED  BY <1>1, <3>1, <3>2 DEF Sole, NodesOnce, AttemptsOf
  <2>9. Apart(t)'
    BY <1>4, <2>3 DEF Apart
  <2>10. InOrder(t)'
    <3>1. \A m \in Nodes : inflight'[m][t] = 0
      BY <1>1, <1>2, <2>3 DEF ToNode
    <3>2. \A m \in Nodes : retryList'[m][First(t)] = 0
      BY <1>3, <2>6, <2>7
    <3>3. \A m \in Nodes : ~Fresh(m, t)'
      BY <1>3, <2>5, <3>1 DEF Fresh, First
    <3>. QED  BY <1>1, <1>4, <2>3, <2>5, <3>1, <3>2, <3>3 DEF InOrder, First, AttemptsOf
  <2>. QED  BY <1>4, <2>8, <2>9, <2>10 DEF Sole
<1>6. CASE e.task # t
  <2>1. \A m \in Nodes, f \in AttemptsOf(t) :
          running'[m][f] = running[m][f] /\ retryList'[m][f] = retryList[m][f]
    <3>. SUFFICES ASSUME NEW m \in Nodes, NEW f \in AttemptsOf(t)
                  PROVE  running'[m][f] = running[m][f] /\ retryList'[m][f] = retryList[m][f]
      OBVIOUS
    <3>1. f # e /\ f \in Attempt /\ f.task # e.task
      BY <1>6 DEF AttemptsOf
    <3>2. retryList'[m][f] = retryList[m][f]
      BY <1>1, <3>1, LocalRetryTyped
    <3>. QED  BY <1>1, <1>2, <3>1, <3>2
  <2>2. /\ \A m \in Nodes : inflight'[m][t] <= inflight[m][t]
        /\ \A m \in Nodes, f \in AttemptsOf(t) :
             running'[m][f] <= running[m][f] /\ retryList'[m][f] <= retryList[m][f]
    <3>1. /\ \A m \in Nodes : inflight[m][t] \in Nat /\ inflight'[m][t] = inflight[m][t]
          /\ \A m \in Nodes, f \in AttemptsOf(t) : running[m][f] \in Nat /\ retryList[m][f] \in Nat
      BY <1>1, <1>2, <1>3
    <3>. QED  BY <2>1, <3>1
  <2>3. Reported(t)' => Reported(t)
    <3>1. [task |-> e.task, ok |-> ok] \in Result
      BY DEF Attempt, Result
    <3>2. ASSUME NEW i \in DOMAIN results', results'[i].task = t PROVE InResults(t)
      <4>1. i \in DOMAIN results /\ results'[i] = results[i]
        BY <1>1, <1>2, <1>6, <3>1, <3>2
      <4>. QED  BY <3>2, <4>1 DEF InResults
    <3>. QED  BY <1>1, <3>2 DEF Reported, InResults, Handled
  <2>. QED  BY <1>1, <2>2, <2>3, FewerOnNodes
<1>. QED  BY <1>5, <1>6

\* The task moves from a node's list to its workers.
LEMMA SoleRefetch ==
  ASSUME NEW t \in Tasks, NEW n \in Nodes, NEW e \in Attempt,
         TypeInv, TypeInv', Sole(t), Refetch(n, e)
  PROVE  Sole(t)'
<1>1. /\ retryList[n][e] > 0 /\ n \in up
      /\ running' = [running EXCEPT ![n][e] = @ + 1]
      /\ retryList' = [retryList EXCEPT ![n][e] = @ - 1]
      /\ UNCHANGED <<pending, distVars, submitted, inflight, results, inHand, up>>
  BY DEF Refetch, queueVars, resVars, envVars
<1>2. /\ inflight \in [Nodes -> [Tasks -> Nat]]
      /\ running \in [Nodes -> [Attempt -> Nat]] /\ retryList \in [Nodes -> [Attempt -> Nat]]
  BY DEF TypeInv, TypeOK
<1>3. AttemptsOf(t) \subseteq Attempt /\ First(t) \in AttemptsOf(t)
  BY AttemptTyped
<1>4. /\ ListOnce(t)' /\ BatchOnce(t)'
      /\ OnList(t)' <=> OnList(t)
      /\ InBatch(t)' <=> InBatch(t)
      /\ ToNode(t)' <=> ToNode(t)
      /\ Reported(t)' <=> Reported(t)
  BY <1>1, SameQueues DEF Sole, ToNode, Reported, InResults, Handled
<1>5. CASE e.task = t
  <2>1. e \in AttemptsOf(t) /\ On(n, e)
    BY <1>1, <1>5 DEF AttemptsOf, On
  <2>2. /\ running[n][e] + retryList[n][e] = 1
        /\ \A m \in Nodes, f \in AttemptsOf(t) :
             ~(m = n /\ f = e) => running[m][f] = 0 /\ retryList[m][f] = 0
        /\ AtNode(t)
    BY <2>1, OneAttempt DEF Sole
  <2>3. ~OnList(t) /\ ~InBatch(t) /\ ~ToNode(t) /\ t \in submitted
    BY <2>2 DEF Sole, Apart, InOrder
  <2>4. running[n][e] = 0 /\ retryList[n][e] = 1
    <3>1. running[n][e] \in Nat /\ retryList[n][e] \in Nat
      BY <1>2
    <3>. QED  BY <1>1, <2>2, <3>1
  <2>5. \A m \in Nodes, f \in AttemptsOf(t) :
          /\ running'[m][f] = IF m = n /\ f = e THEN 1 ELSE 0
          /\ retryList'[m][f] = 0
    BY <1>1, <1>2, <1>3, <2>1, <2>2, <2>4
  <2>6. NodesOnce(t)'
    <3>1. \A m \in Nodes, f \in AttemptsOf(t) : On(m, f)' => m = n /\ f = e
      BY <2>5 DEF On
    <3>2. \A m \in Nodes, f \in AttemptsOf(t) : running'[m][f] + retryList'[m][f] <= 1
      BY <2>5
    <3>. QED  BY <1>1, <3>1, <3>2 DEF Sole, NodesOnce, AttemptsOf
  <2>7. Apart(t)'
    BY <1>4, <2>3 DEF Apart
  <2>8. InOrder(t)'
    <3>1. e # First(t)
      BY <1>1, <1>2 DEF Sole, InOrder
    <3>2. \A m \in Nodes : ~Fresh(m, t)'
      <4>1. \A m \in Nodes : inflight'[m][t] = 0
        BY <1>1, <1>2, <2>3 DEF ToNode
      <4>. QED  BY <1>3, <2>5, <3>1, <4>1 DEF Fresh, First
    <3>3. \A m \in Nodes : retryList'[m][First(t)] = 0
      BY <1>3, <2>5
    <3>4. \A m \in Nodes \ up' :
            inflight'[m][t] = 0 /\ \A f \in AttemptsOf(t) : running'[m][f] = 0
      BY <1>1, <2>5 DEF Sole, InOrder
    <3>. QED  BY <1>1, <1>4, <2>3, <3>2, <3>3, <3>4 DEF InOrder, First, AttemptsOf
  <2>. QED  BY <1>4, <2>6, <2>7, <2>8 DEF Sole
<1>6. CASE e.task # t
  <2>1. \A m \in Nodes, f \in AttemptsOf(t) :
          running'[m][f] = running[m][f] /\ retryList'[m][f] = retryList[m][f]
    <3>1. \A f \in AttemptsOf(t) : f # e
      BY <1>6 DEF AttemptsOf
    <3>. QED  BY <1>1, <1>2, <1>3, <3>1
  <2>2. /\ \A m \in Nodes : inflight'[m][t] <= inflight[m][t]
        /\ \A m \in Nodes, f \in AttemptsOf(t) :
             running'[m][f] <= running[m][f] /\ retryList'[m][f] <= retryList[m][f]
    BY <1>1, <1>2, <1>3, <2>1
  <2>. QED  BY <1>1, <1>4, <2>2, FewerOnNodes
<1>. QED  BY <1>5, <1>6

\* Every task has one place, whatever happens.
LEMMA StepSole ==
  ASSUME NEW t \in Tasks, TypeInv, TypeInv', WindowClosed, Sole(t), [Next]_vars
  PROVE  Sole(t)'
<1>. USE DEF queueVars, mapVars, nodeVars, resVars, envVars
<1>t. pending \in Seq(Entry) /\ Id(t) \in Entry /\ results \in Seq(Result)
  BY DEF TypeInv, TypeOK, Entry, Id
<1>s. ListOnce(t) /\ BatchOnce(t)
  BY DEF Sole
<1>l. pending' = pending => ListOnce(t)' /\ (OnList(t)' => OnList(t))
  BY <1>s DEF ListOnce, ListAt, OnList
<1>b. UNCHANGED distVars => BatchOnce(t)' /\ (InBatch(t)' => InBatch(t))
  BY <1>s DEF distVars, BatchOnce, BatchAt, InBatch, Unsent
<1>r. UNCHANGED <<results, inHand>> => (Reported(t)' => Reported(t))
  BY DEF Reported, InResults, Handled
<1>i. ASSUME NEW u \in Tasks, pending' = Append(pending, Id(u))
      PROVE  ListOnce(t)' /\ (OnList(t)' => OnList(t))
  <2>1. Id(u) \in Entry /\ Id(u) # Data(t)
    BY DEF Id, Data, Entry
  <2>. QED  BY <1>t, <1>s, <1>i, <2>1, ListAppend
<1>1. CASE UNCHANGED vars
  BY <1>1, <1>l, <1>b, <1>r, FewerQueued DEF vars
<1>2. CASE Fetch
  <2>1. BatchOnce(t)' /\ ~InBatch(t)'
    BY <1>2 DEF Fetch, BatchOnce, BatchAt, InBatch, Unsent
  <2>. QED  BY <1>2, <1>l, <1>r, <2>1, FewerQueued DEF Fetch
<1>3. CASE SkipUndecodable \/ Record
  <2>1. /\ distPC \in {"assign", "record"} /\ Advance
        /\ UNCHANGED <<pending, submitted, inflight, running, retryList, results, inHand, up>>
    BY <1>3 DEF SkipUndecodable, Record
  <2>2. BatchOnce(t)' /\ (InBatch(t)' => InBatch(t))
    BY <1>s, <2>1, AdvanceShrinks
  <2>. QED  BY <1>l, <1>r, <2>1, <2>2, FewerQueued
<1>4. CASE TakeResult
  <2>1. results # <<>> /\ results' = Tail(results) /\ inHand' = <<Head(results)>>
    BY <1>4 DEF TakeResult, Take
  <2>2. InResults(t)' => InResults(t)
    <3>. SUFFICES ASSUME NEW i \in DOMAIN results', results'[i].task = t PROVE InResults(t)
      BY DEF InResults
    <3>1. i + 1 \in DOMAIN results /\ results'[i] = results[i + 1]
      BY <1>t, <2>1
    <3>. QED  BY <3>1 DEF InResults
  <2>3. Handled(t)' => InResults(t)
    BY <1>t, <2>1 DEF Handled, InResults
  <2>4. Reported(t)' => Reported(t)
    BY <2>2, <2>3 DEF Reported
  <2>5. UNCHANGED <<pending, distVars, submitted, inflight, running, retryList, up>>
    BY <1>4 DEF TakeResult, Take
  <2>. QED  BY <1>l, <1>b, <2>4, <2>5, FewerQueued
<1>5. CASE FinishResult
  <2>1. /\ UNCHANGED <<distVars, submitted, results, inflight, running, retryList, up>>
        /\ inHand' = NoResult
    BY <1>5 DEF FinishResult
  <2>2. Reported(t)' => Reported(t)
    BY <2>1 DEF Reported, InResults, Handled
  <2>3. ListOnce(t)' /\ (OnList(t)' => OnList(t))
    <3>1. pending' = pending \/ \E u \in Tasks : pending' = Append(pending, Id(u))
      BY <1>5, FailureCases
    <3>. QED  BY <1>l, <1>i, <3>1
  <2>. QED  BY <1>b, <2>1, <2>2, <2>3, FewerQueued
<1>6. CASE CollectDead
  BY <1>6, <1>l, <1>b, <1>r, FewerQueued DEF CollectDead
<1>7. ASSUME NEW u \in Tasks, RequeueDead(u) PROVE Sole(t)'
  <2>1. ListOnce(t)' /\ (OnList(t)' => OnList(t))
    BY <1>7, <1>i DEF RequeueDead
  <2>. QED  BY <1>7, <1>b, <1>r, <2>1, FewerQueued DEF RequeueDead
<1>8. ASSUME NEW n \in Nodes, Pause(n) \/ Resume(n) \/ GrowOld(n) \/ Evict(n) \/ Rejoin(n)
      PROVE  Sole(t)'
  BY <1>8, <1>l, <1>b, <1>r, FewerQueued DEF Pause, Resume, GrowOld, Evict, Rejoin
<1>9. ASSUME NEW n \in Nodes, Crash(n) PROVE Sole(t)'
  <2>1. /\ up' = up \ {n}
        /\ inflight' = [inflight EXCEPT ![n] = NoTasks]
        /\ running' = [running EXCEPT ![n] = NoAttempts]
        /\ UNCHANGED <<pending, distVars, submitted, retryList, results, inHand>>
    BY <1>9 DEF Crash
  <2>2. /\ inflight \in [Nodes -> [Tasks -> Nat]]
        /\ running \in [Nodes -> [Attempt -> Nat]] /\ retryList \in [Nodes -> [Attempt -> Nat]]
    BY DEF TypeInv, TypeOK
  <2>3. AttemptsOf(t) \subseteq Attempt
    BY AttemptTyped
  <2>4. ASSUME NEW m \in Nodes
        PROVE  IF m = n THEN inflight'[m][t] = 0 /\ \A e \in AttemptsOf(t) : running'[m][e] = 0
                        ELSE inflight'[m] = inflight[m] /\ running'[m] = running[m]
    BY <2>1, <2>2, <2>3 DEF NoTasks, NoAttempts
  <2>5. /\ \A m \in Nodes : inflight[m][t] \in Nat
        /\ \A m \in Nodes, e \in AttemptsOf(t) : running[m][e] \in Nat /\ retryList[m][e] \in Nat
    BY <2>2, <2>3
  <2>6. /\ \A m \in Nodes : inflight'[m][t] <= inflight[m][t]
        /\ \A m \in Nodes, e \in AttemptsOf(t) :
             running'[m][e] <= running[m][e] /\ retryList'[m][e] <= retryList[m][e]
    BY <2>1, <2>4, <2>5
  <2>7. \A m \in Nodes \ up' :
          m \notin up \/ (inflight'[m][t] = 0 /\ \A e \in AttemptsOf(t) : running'[m][e] = 0)
    BY <2>1, <2>4
  <2>8. Reported(t)' => Reported(t)
    BY <1>r, <2>1
  <2>. QED  BY <2>1, <2>6, <2>7, <2>8, FewerOnNodes
<1>10. CASE HubRestart
  <2>1. /\ distPC' = "idle" /\ inflight' = [n \in Nodes |-> NoTasks]
        /\ results' = <<>> /\ inHand' = NoResult
        /\ UNCHANGED <<pending, submitted, running, retryList, up>>
    BY <1>10 DEF HubRestart
  <2>2. BatchOnce(t)' /\ ~InBatch(t)' /\ ~Reported(t)'
    BY <2>1 DEF BatchOnce, BatchAt, InBatch, Unsent, Reported, InResults, Handled
  <2>3. /\ inflight \in [Nodes -> [Tasks -> Nat]]
        /\ running \in [Nodes -> [Attempt -> Nat]] /\ retryList \in [Nodes -> [Attempt -> Nat]]
    BY DEF TypeInv, TypeOK
  <2>4. AttemptsOf(t) \subseteq Attempt
    BY AttemptTyped
  <2>5. \A n \in Nodes : inflight'[n][t] = 0 /\ inflight'[n][t] <= inflight[n][t]
    BY <2>1, <2>3 DEF NoTasks
  <2>6. \A n \in Nodes, e \in AttemptsOf(t) :
          running'[n][e] <= running[n][e] /\ retryList'[n][e] <= retryList[n][e]
    BY <2>1, <2>3, <2>4
  <2>. QED  BY <1>l, <2>1, <2>2, <2>5, <2>6, Fewer
<1>11. CASE \E u \in Tasks : Submit(u)
  BY <1>11, SoleSubmit
<1>12. CASE Distributor
  BY <1>2, <1>3, <1>12, SoleTrim, SoleSend, SoleSendFails DEF Distributor
<1>13. CASE NodeStep
  BY <1>13, SoleDeliver, SoleFinish, SoleRefetch DEF NodeStep
<1>14. CASE ResultLoop \/ Reassigner
  BY <1>4, <1>5, <1>6, <1>7, <1>14 DEF ResultLoop, Reassigner
<1>15. CASE Environment
  BY <1>8, <1>9, <1>10, <1>15 DEF Environment
<1>. QED  BY <1>1, <1>11, <1>12, <1>13, <1>14, <1>15 DEF Next

\* The nodes' steps make nothing fresh: a delivery takes the task on where it was sent, and
\* a second attempt is no first one.
LEMMA NodesFresh ==
  ASSUME NEW t \in Tasks, TypeInv, Sole(t), NodeStep, NEW m \in Nodes, Fresh(m, t)'
  PROVE  Fresh(m, t)
<1>1. /\ inflight \in [Nodes -> [Tasks -> Nat]]
      /\ running \in [Nodes -> [Attempt -> Nat]] /\ retryList \in [Nodes -> [Attempt -> Nat]]
  BY DEF TypeInv, TypeOK
<1>2. First(t) \in Attempt /\ \A u \in Tasks : First(u) = First(t) => u = t
  BY FirstIsAttempt DEF First
<1>3. inflight'[m][t] > 0 \/ running'[m][First(t)] > 0
  BY DEF Fresh, First
<1>4. ASSUME NEW n \in Nodes, NEW u \in Tasks, Deliver(n, u) PROVE Fresh(m, t)
  <2>1. /\ inflight[n][u] > 0 /\ inflight' = [inflight EXCEPT ![n][u] = @ - 1]
        /\ running' = running \/ running' = [running EXCEPT ![n][First(u)] = @ + 1]
    BY <1>4 DEF Deliver
  <2>2. CASE m = n /\ u = t
    BY <2>1, <2>2 DEF Fresh
  <2>3. CASE ~(m = n /\ u = t)
    <3>1. inflight'[m][t] = inflight[m][t]
      BY <1>1, <2>1, <2>3
    <3>2. running'[m][First(t)] = running[m][First(t)]
      <4>1. First(u) \in Attempt /\ ~(m = n /\ First(u) = First(t))
        BY <1>2, <2>3, FirstIsAttempt
      <4>. QED  BY <1>1, <1>2, <2>1, <4>1
    <3>. QED  BY <1>3, <3>1, <3>2 DEF Fresh
  <2>. QED  BY <2>2, <2>3
<1>5. ASSUME NEW n \in Nodes, NEW e \in Attempt, NEW ok \in BOOLEAN, NodeFinish(n, e, ok)
      PROVE  Fresh(m, t)
  <2>1. /\ inflight' = inflight /\ running[n][e] > 0
        /\ running' = [running EXCEPT ![n][e] = @ - 1]
    BY <1>5 DEF NodeFinish, Publish
  <2>2. running'[m][First(t)] > 0 => running[m][First(t)] > 0
    BY <1>1, <1>2, <2>1
  <2>. QED  BY <1>3, <2>1, <2>2 DEF Fresh
<1>6. ASSUME NEW n \in Nodes, NEW e \in Attempt, Refetch(n, e) PROVE Fresh(m, t)
  <2>1. /\ inflight' = inflight /\ retryList[n][e] > 0
        /\ running' = [running EXCEPT ![n][e] = @ + 1]
    BY <1>6 DEF Refetch, nodeVars
  <2>2. e # First(t)
    BY <1>1, <2>1 DEF Sole, InOrder
  <2>3. running'[m][First(t)] = running[m][First(t)]
    BY <1>1, <1>2, <2>1, <2>2
  <2>. QED  BY <1>3, <2>1, <2>3 DEF Fresh
<1>. QED  BY <1>4, <1>5, <1>6 DEF NodeStep

\* A fresh task stays recorded: Send makes it fresh at the target only, Record writes the
\* target down, and no handler takes the assignment of a fresh task away.
LEMMA StepRecorded ==
  ASSUME NEW t \in Tasks, TypeInv, TypeInv', DeadAreDown, Sole(t), Recorded(t), [Next]_vars,
         restarts' = restarts
  PROVE  Recorded(t)'
<1>. USE DEF distVars, mapVars, nodeVars, resVars, envVars
<1>1. ASSUME UNCHANGED <<inflight, running>>
      PROVE  \A n \in Nodes : Fresh(n, t)' => Fresh(n, t)
  BY <1>1 DEF Fresh
<1>2. CASE UNCHANGED vars
  BY <1>1, <1>2, RecordedKept DEF vars
<1>3. CASE \E u \in Tasks : Submit(u)
  BY <1>1, <1>3, RecordedKept DEF Submit
<1>4. CASE Fetch \/ Trim
  BY <1>1, <1>4, RecordedKept DEF Fetch, Trim, LTrim
<1>5. CASE SkipUndecodable \/ SendFails
  <2>1. distPC = "assign" /\ Advance /\ UNCHANGED <<inflight, running, taskAssignments>>
    BY <1>5 DEF SkipUndecodable, SendFails, Unsendable
  <2>2. distPC' # "record"
    BY <2>1, AdvanceTyped
  <2>. QED  BY <1>1, <2>1, <2>2, RecordedKept
<1>6. CASE Send
  <2>1. /\ distPC = "assign" /\ distPC' = "record" /\ UNCHANGED <<batch, next, targets>>
        /\ Current.kind = "data" /\ UNCHANGED <<running, taskAssignments>>
        /\ inflight' = [inflight EXCEPT ![Target][Current.task] = @ + 1]
    BY <1>6 DEF Send
  <2>2. Current' = Current /\ Target' = Target
    BY <2>1 DEF Current, Target
  <2>3. Current \in Entry /\ Target \in Nodes
    BY <2>1, CurrentTyped
  <2>4. Current = Data(Current.task) /\ Current.task \in Tasks
    BY <2>1, <2>3 DEF Entry, Data
  <2>5. inflight \in [Nodes -> [Tasks -> Nat]]
    BY DEF TypeInv, TypeOK
  <2>6. ASSUME NEW n \in Nodes, Fresh(n, t)', ~(n = Target /\ Current.task = t)
        PROVE  Fresh(n, t)
    <3>1. inflight'[n][t] = inflight[n][t]
      BY <2>1, <2>3, <2>4, <2>5, <2>6
    <3>. QED  BY <2>1, <2>6, <3>1 DEF Fresh
  <2>7. CASE Current.task = t
    <3>1. ~ToNode(t) /\ ~AtNode(t)
      BY <2>1, <2>4, <2>7, CurrentIsSole
    <3>2. \A n \in Nodes : ~Fresh(n, t)
      BY <3>1, FirstIsAttempt DEF ToNode, AtNode, Fresh, First
    <3>. QED  BY <2>1, <2>2, <2>4, <2>6, <2>7, <3>2 DEF Recorded, Data
  <2>8. CASE Current.task # t
    <3>1. Current # Data(t)
      BY <2>8 DEF Data
    <3>. QED  BY <2>1, <2>2, <2>6, <2>8, <3>1 DEF Recorded, Data
  <2>. QED  BY <2>7, <2>8
<1>7. CASE Record
  <2>1. /\ distPC = "record" /\ Advance /\ UNCHANGED <<inflight, running>>
        /\ taskAssignments' = [taskAssignments EXCEPT ![Current.task] = Target]
    BY <1>7 DEF Record
  <2>2. distPC' # "record"
    BY <2>1, AdvanceTyped
  <2>3. Current \in Entry /\ Current.kind = "data"
    BY <2>1, CurrentTyped DEF TypeInv, BatchOK
  <2>4. Current = Data(Current.task) /\ Current.task \in Tasks
    BY <2>3 DEF Entry, Data
  <2>5. taskAssignments'[t] = IF Current.task = t THEN Target ELSE taskAssignments[t]
    BY <2>1, <2>4 DEF TypeInv, TypeOK
  <2>6. Current = Data(t) <=> Current.task = t
    BY <2>4 DEF Data
  <2>. QED  BY <1>1, <2>1, <2>2, <2>5, <2>6 DEF Recorded
<1>8. CASE NodeStep
  <2>1. UNCHANGED <<distVars, taskAssignments>>
    BY <1>8 DEF NodeStep, Deliver, NodeFinish, Publish, Refetch
  <2>. QED  BY <1>8, <2>1, NodesFresh, RecordedKept
<1>9. CASE TakeResult
  <2>1. /\ results # <<>> /\ UNCHANGED <<distVars, inflight, running>>
        /\ taskAssignments' = [taskAssignments EXCEPT ![Head(results).task] = NoNode]
    BY <1>9 DEF TakeResult, Take
  <2>2. taskAssignments \in [Tasks -> Nodes \union {NoNode}] /\ results \in Seq(Result)
    BY DEF TypeInv, TypeOK
  <2>3. CASE Head(results).task = t
    <3>1. InResults(t)
      BY <2>1, <2>2, <2>3 DEF InResults
    <3>2. \A n \in Nodes : ~Fresh(n, t)
      BY <3>1 DEF Sole, InOrder, Reported
    <3>. QED  BY <1>1, <2>1, <3>2 DEF Recorded
  <2>4. CASE Head(results).task # t
    <3>1. taskAssignments'[t] = taskAssignments[t]
      BY <2>1, <2>2, <2>4
    <3>. QED  BY <1>1, <2>1, <3>1, RecordedKept
  <2>. QED  BY <2>3, <2>4
<1>10. CASE FinishResult \/ \E u \in Tasks : RequeueDead(u)
  <2>1. UNCHANGED <<distVars, inflight, running, taskAssignments>>
    BY <1>10 DEF FinishResult, RequeueDead
  <2>. QED  BY <1>1, <2>1, RecordedKept
<1>11. CASE CollectDead
  <2>1. /\ UNCHANGED <<distVars, inflight, running>>
        /\ taskAssignments' = [u \in Tasks |-> IF u \in OnDeadNode THEN NoNode
                                               ELSE taskAssignments[u]]
    BY <1>11 DEF CollectDead
  <2>2. CASE t \in OnDeadNode
    <3>1. taskAssignments[t] \in Nodes /\ view[taskAssignments[t]] = "dead"
      BY <2>2 DEF OnDeadNode, TypeInv, TypeOK
    <3>2. ~Fresh(taskAssignments[t], t)
      <4>1. taskAssignments[t] \in Nodes \ up
        BY <3>1 DEF DeadAreDown
      <4>2. /\ inflight[taskAssignments[t]][t] = 0
            /\ running[taskAssignments[t]][First(t)] = 0
        BY <4>1, AttemptTyped DEF Sole, InOrder
      <4>. QED  BY <4>2 DEF Fresh
    <3>3. ASSUME NEW n \in Nodes, Fresh(n, t)'
          PROVE  distPC = "record" /\ Current = Data(t) /\ Target = n
      BY <1>1, <2>1, <3>2, <3>3 DEF Recorded
    <3>. QED  BY <2>1, <3>3 DEF Recorded, Current, Target, Data
  <2>3. CASE t \notin OnDeadNode
    <3>1. taskAssignments'[t] = taskAssignments[t]
      BY <2>1, <2>3
    <3>. QED  BY <1>1, <2>1, <3>1, RecordedKept
  <2>. QED  BY <2>2, <2>3
<1>12. CASE Environment
  <2>1. ~HubRestart
    BY BoundsAssumption DEF HubRestart, TypeInv, TypeOK
  <2>2. ASSUME NEW n \in Nodes, Crash(n) PROVE Recorded(t)'
    <3>1. /\ inflight' = [inflight EXCEPT ![n] = NoTasks]
          /\ running' = [running EXCEPT ![n] = NoAttempts]
          /\ UNCHANGED <<distVars, taskAssignments>>
      BY <2>2 DEF Crash
    <3>2. ASSUME NEW m \in Nodes, Fresh(m, t)' PROVE Fresh(m, t)
      <4>1. First(t) \in Attempt
        BY FirstIsAttempt
      <4>2. CASE m = n
        <5>1. inflight'[m][t] = 0 /\ running'[m][First(t)] = 0
          BY <3>1, <4>1, <4>2 DEF TypeInv, TypeOK, NoTasks, NoAttempts
        <5>. QED  BY <3>2, <5>1 DEF Fresh, First
      <4>3. CASE m # n
        <5>1. inflight'[m] = inflight[m] /\ running'[m] = running[m]
          BY <3>1, <4>3 DEF TypeInv, TypeOK
        <5>. QED  BY <3>2, <5>1 DEF Fresh
      <4>. QED  BY <4>2, <4>3
    <3>. QED  BY <3>1, <3>2, RecordedKept
  <2>3. ASSUME NEW n \in Nodes, Pause(n) \/ Resume(n) \/ GrowOld(n) \/ Evict(n) \/ Rejoin(n)
        PROVE  Recorded(t)'
    BY <1>1, <2>3, RecordedKept DEF Pause, Resume, GrowOld, Evict, Rejoin
  <2>. QED  BY <1>12, <2>1, <2>2, <2>3 DEF Environment
<1>. QED  BY <1>2, <1>3, <1>4, <1>5, <1>6, <1>7, <1>8, <1>9, <1>10, <1>11, <1>12
          DEF Next, Distributor, ResultLoop, Reassigner

\* Only a node that went away is taken for dead.
LEMMA StepDead ==
  ASSUME TypeInv, DeadAreDown, [Next]_vars
  PROVE  DeadAreDown'
<1>. USE DEF envVars
<1>1. view \in [Nodes -> Views]
  BY DEF TypeInv, TypeOK
<1>2. CASE UNCHANGED <<up, view>>
  BY <1>2 DEF DeadAreDown
<1>3. CASE HubRestart
  BY <1>2, <1>3 DEF HubRestart
<1>4. ASSUME NEW n \in Nodes, Crash(n) PROVE DeadAreDown'
  BY <1>4 DEF Crash, DeadAreDown
<1>5. ASSUME NEW n \in Nodes, Pause(n) \/ Resume(n) \/ GrowOld(n) \/ Evict(n) \/ Rejoin(n)
      PROVE  DeadAreDown'
  <2>1. \/ /\ up' = up /\ n \notin up
           /\ \E v \in Views : view' = [view EXCEPT ![n] = v]
        \/ /\ up' \subseteq up \union {n}
           /\ \E v \in {"active", "inactive"} : view' = [view EXCEPT ![n] = v]
    BY <1>5 DEF Pause, Resume, GrowOld, Evict, Rejoin, Views
  <2>2. ASSUME NEW m \in Nodes, view'[m] = "dead" PROVE m \notin up'
    <3>1. CASE m = n
      BY <1>1, <2>1, <2>2, <3>1
    <3>2. CASE m # n
      BY <1>1, <2>1, <2>2, <3>2 DEF DeadAreDown
    <3>. QED  BY <3>1, <3>2
  <2>. QED  BY <2>2 DEF DeadAreDown
<1>6. CASE Environment
  BY <1>3, <1>4, <1>5, <1>6 DEF Environment
<1>7. CASE NodeStep
  BY <1>2, <1>7 DEF NodeStep, Deliver, NodeFinish, Publish, Refetch
<1>8. CASE Distributor
  BY <1>2, <1>8 DEF Distributor, Fetch, Trim, LTrim, SkipUndecodable, Send, SendFails, Unsendable,
                    Record
<1>9. CASE ResultLoop \/ Reassigner \/ \E t \in Tasks : Submit(t)
  BY <1>2, <1>9 DEF ResultLoop, Reassigner, TakeResult, Take, FinishResult, CollectDead,
                    RequeueDead, Submit
<1>10. CASE UNCHANGED vars
  BY <1>2, <1>10 DEF vars
<1>. QED  BY <1>6, <1>7, <1>8, <1>9, <1>10 DEF Next


LEMMA InitRecordInv == Init => RecordInv
<1>. SUFFICES ASSUME Init PROVE RecordInv
  OBVIOUS
<1>1. TypeInv /\ WindowClosed /\ DeadAreDown
  BY InitTypeInv DEF Init, WindowClosed, DeadAreDown
<1>2. ASSUME NEW t \in Tasks PROVE Sole(t) /\ Recorded(t)
  <2>1. AttemptsOf(t) \subseteq Attempt /\ First(t) \in AttemptsOf(t)
    BY AttemptTyped
  <2>2. /\ \A n \in Nodes : inflight[n][t] = 0
        /\ \A n \in Nodes, e \in AttemptsOf(t) : running[n][e] = 0 /\ retryList[n][e] = 0
    BY <2>1 DEF Init, NoTasks, NoAttempts
  <2>3. ~OnList(t) /\ ~InBatch(t) /\ ~Reported(t) /\ \A i : ~ListAt(t, i) /\ ~BatchAt(t, i)
    BY DEF Init, OnList, InBatch, Reported, InResults, Handled, Unsent, ListAt, BatchAt
  <2>4. ~ToNode(t) /\ ~AtNode(t) /\ \A n \in Nodes : ~Fresh(n, t)
    BY <2>1, <2>2 DEF ToNode, AtNode, Fresh, AttemptsOf
  <2>5. ListOnce(t) /\ BatchOnce(t) /\ Apart(t)
    BY <2>3, <2>4 DEF ListOnce, BatchOnce, Apart
  <2>6. NodesOnce(t)
    BY <2>2 DEF NodesOnce, On
  <2>7. InOrder(t)
    BY <2>1, <2>2, <2>3, <2>4 DEF InOrder
  <2>. QED  BY <2>4, <2>5, <2>6, <2>7 DEF Sole, Recorded
<1>. QED  BY <1>1, <1>2 DEF RecordInv

LEMMA StepRecordInv ==
  ASSUME PushInWindow = FALSE, RecordInv, [Next]_vars
  PROVE  RecordInv'
<1>1. TypeInv /\ WindowClosed /\ DeadAreDown
  BY DEF RecordInv
<1>2. TypeInv' /\ WindowClosed' /\ DeadAreDown'
  BY <1>1, StepTypeInv, StepWindow, StepDead
<1>3. ASSUME NEW t \in Tasks PROVE Sole(t)' /\ (restarts' = 0 => Recorded(t)')
  <2>1. restarts' = 0 => restarts = 0
    BY <1>1, StepCounters
  <2>2. Sole(t) /\ (restarts = 0 => Recorded(t))
    BY DEF RecordInv
  <2>3. Sole(t)'
    BY <1>1, <1>2, <2>2, StepSole
  <2>4. ASSUME restarts' = 0 PROVE Recorded(t)'
    BY <1>1, <1>2, <2>1, <2>2, <2>4, StepRecorded
  <2>. QED  BY <2>3, <2>4
<1>. QED  BY <1>2, <1>3 DEF RecordInv

\* Without a push between LRANGE and LTRIM, whatever crashes, pauses, evictions, rejoins
\* and restarts of the hub happen, a task is in at most one place and there once: on the
\* list, in the batch, on its way to a node, or on one node as one attempt. What goes back
\* to the list on a failed send (coordinator.go:229) is the only copy, and what the failure
\* and reassignment handlers push (543, 654) is not a task.
THEOREM TasksHaveOneCopy ==
  ASSUME PushInWindow = FALSE
  PROVE  Spec => [](\A t \in Tasks : ListOnce(t) /\ BatchOnce(t) /\ NodesOnce(t) /\ Apart(t))
<1>1. RecordInv => \A t \in Tasks : ListOnce(t) /\ BatchOnce(t) /\ NodesOnce(t) /\ Apart(t)
  BY DEF RecordInv, Sole
<1>. QED  BY <1>1, InitRecordInv, StepRecordInv, PTL DEF Spec

\* Without a push between LRANGE and LTRIM, and until the hub restarts, a task that is on its
\* way to a node or on it for the first time is assigned to that node in the hub's maps, or
\* about to be (coordinator.go:357-365): whatever crashes, pauses, evictions and rejoins
\* happen, the reassignment loop finds the tasks of a dead node.
THEOREM WorkIsAlwaysRecorded ==
  ASSUME PushInWindow = FALSE
  PROVE  Spec => []WorkIsRecorded
<1>1. RecordInv => WorkIsRecorded
  <2>. SUFFICES ASSUME RecordInv, restarts = 0, NEW n \in Nodes, NEW t \in Tasks,
                       inflight[n][t] + running[n][First(t)] > 0
                PROVE  \/ taskAssignments[t] = n
                       \/ distPC = "record" /\ Current.task = t /\ Target = n
    BY DEF WorkIsRecorded
  <2>1. TypeInv /\ Recorded(t)
    BY DEF RecordInv
  <2>2. inflight[n][t] \in Nat /\ running[n][First(t)] \in Nat
    BY <2>1, FirstIsAttempt DEF TypeInv, TypeOK
  <2>3. Fresh(n, t)
    BY <2>2 DEF Fresh
  <2>. QED  BY <2>1, <2>3 DEF Recorded, Data
<1>. QED  BY <1>1, InitRecordInv, StepRecordInv, PTL DEF Spec

-----------------------------------------------------------------------------
(* Counting the copies of a task and its results.                          *)

\* A set whose elements are all one has at most one.
LEMMA CountOfOne ==
  ASSUME NEW S, \A x, y \in S : x = y
  PROVE  IsFiniteSet(S) /\ Cardinality(S) = IF S = {} THEN 0 ELSE 1
<1>1. CASE S = {}
  BY <1>1, FS_EmptySet
<1>2. ASSUME NEW x \in S PROVE IsFiniteSet(S) /\ Cardinality(S) = 1
  <2>1. S = {x}
    OBVIOUS
  <2>. QED  BY <2>1, FS_Singleton
<1>. QED  BY <1>1, <1>2

\* A task in at most one place, there once, is counted once or not at all.
LEMMA LiveIsOne ==
  ASSUME TypeInv, NEW t \in Tasks, Sole(t)
  PROVE  /\ Queued(t) = IF OnList(t) \/ InBatch(t) \/ ToNode(t) THEN 1 ELSE 0
         /\ Live(t) = IF OnList(t) \/ InBatch(t) \/ ToNode(t) \/ AtNode(t) THEN 1 ELSE 0
<1>1. Cardinality(OnTheList(t)) = IF OnList(t) THEN 1 ELSE 0
  <2>1. \A i, j \in OnTheList(t) : i = j
    BY DEF OnTheList, Sole, ListOnce, ListAt
  <2>2. OnTheList(t) = {} <=> ~OnList(t)
    BY DEF OnTheList, OnList
  <2>. QED  BY <2>1, <2>2, CountOfOne
<1>2. Cardinality(InTheBatch(t)) = IF InBatch(t) THEN 1 ELSE 0
  <2>1. \A i, j \in InTheBatch(t) : i = j
    BY DEF InTheBatch, Sole, BatchOnce, BatchAt
  <2>2. InTheBatch(t) = {} <=> ~InBatch(t)
    BY DEF InTheBatch, InBatch
  <2>. QED  BY <2>1, <2>2, CountOfOne
<1>3. Cardinality(Messages(t)) = IF ToNode(t) THEN 1 ELSE 0
  <2>1. \A n \in Nodes : inflight[n][t] \in Nat /\ inflight[n][t] <= 1
    BY DEF TypeInv, TypeOK, Sole, NodesOnce
  <2>2. \A x \in Messages(t) : \E n \in Nodes : inflight[n][t] > 0 /\ x = <<n, 1>>
    <3> SUFFICES ASSUME NEW n \in Nodes, NEW k \in 1..inflight[n][t]
                 PROVE  inflight[n][t] > 0 /\ <<n, k>> = <<n, 1>>
      BY DEF Messages
    <3>. QED  BY <2>1
  <2>3. \A n \in Nodes : inflight[n][t] > 0 => <<n, 1>> \in Messages(t)
    <3> SUFFICES ASSUME NEW n \in Nodes, inflight[n][t] > 0 PROVE <<n, 1>> \in Messages(t)
      OBVIOUS
    <3>1. 1 \in 1..inflight[n][t]
      BY <2>1
    <3>. QED  BY <3>1 DEF Messages
  <2>4. \A x, y \in Messages(t) : x = y
    BY <2>2 DEF Sole, NodesOnce
  <2>5. Messages(t) = {} <=> ~ToNode(t)
    BY <2>2, <2>3 DEF ToNode
  <2>. QED  BY <2>4, <2>5, CountOfOne
<1>4. Cardinality(AttemptsAlive(t)) = IF AtNode(t) THEN 1 ELSE 0
  <2>0. AttemptsAlive(t) = UNION {UNION {AttemptsAt(n, e) : e \in AttemptsOf(t)} : n \in Nodes}
    BY DEF AttemptsAlive, AttemptsOf
  <2>1. \A n \in Nodes, e \in AttemptsOf(t) :
          /\ running[n][e] \in Nat /\ retryList[n][e] \in Nat
          /\ running[n][e] + retryList[n][e] <= 1
    BY AttemptTyped DEF TypeInv, TypeOK, Sole, NodesOnce
  <2>2. ASSUME NEW n \in Nodes, NEW e \in AttemptsOf(t), NEW x \in AttemptsAt(n, e)
        PROVE  On(n, e) /\ x = IF running[n][e] > 0 THEN <<n, e, "worker", 1>> ELSE <<n, e, "list", 1>>
    <3>1. \/ \E k \in 1..running[n][e] : x = <<n, e, "worker", k>>
          \/ \E k \in 1..retryList[n][e] : x = <<n, e, "list", k>>
      BY <2>2 DEF AttemptsAt
    <3>2. CASE \E k \in 1..running[n][e] : x = <<n, e, "worker", k>>
      <4>1. running[n][e] = 1
        BY <2>1, <3>2
      <4>. QED  BY <3>2, <4>1 DEF On
    <3>3. CASE \E k \in 1..retryList[n][e] : x = <<n, e, "list", k>>
      <4>1. retryList[n][e] = 1 /\ running[n][e] = 0
        BY <2>1, <3>3
      <4>. QED  BY <3>3, <4>1 DEF On
    <3>. QED  BY <3>1, <3>2, <3>3
  <2>3. ASSUME NEW n \in Nodes, NEW e \in AttemptsOf(t), On(n, e)
        PROVE  AttemptsAt(n, e) # {}
    <3>1. 1 \in 1..running[n][e] \/ 1 \in 1..retryList[n][e]
      BY <2>1, <2>3 DEF On
    <3>2. <<n, e, "worker", 1>> \in AttemptsAt(n, e) \/ <<n, e, "list", 1>> \in AttemptsAt(n, e)
      BY <3>1 DEF AttemptsAt
    <3>. QED  BY <3>2
  <2>4. ASSUME NEW x \in AttemptsAlive(t), NEW y \in AttemptsAlive(t) PROVE x = y
    <3>1. PICK n \in Nodes, e \in AttemptsOf(t) : x \in AttemptsAt(n, e)
      BY <2>0
    <3>2. PICK m \in Nodes, f \in AttemptsOf(t) : y \in AttemptsAt(m, f)
      BY <2>0
    <3>3. n = m /\ e = f
      BY <2>2, <3>1, <3>2 DEF Sole, NodesOnce
    <3>. QED  BY <2>2, <3>1, <3>2, <3>3
  <2>5. AttemptsAlive(t) = {} <=> ~AtNode(t)
    <3>1. AtNode(t) <=> \E n \in Nodes, e \in AttemptsOf(t) : On(n, e)
      BY DEF AtNode, AttemptsOf, On
    <3>. QED  BY <2>0, <2>2, <2>3, <3>1
  <2>. QED  BY <2>4, <2>5, CountOfOne
<1>. QED  BY <1>1, <1>2, <1>3, <1>4 DEF Queued, Live, Sole, Apart

\* Results in a list of them, and what an append and the removal of the head change.
CountOf(s, t) == Cardinality({i \in DOMAIN s : s[i].task = t})

LEMMA CountTyped ==
  ASSUME NEW s \in Seq(Result), NEW t
  PROVE  /\ IsFiniteSet({i \in DOMAIN s : s[i].task = t})
         /\ CountOf(s, t) \in Nat
         /\ CountOf(s, t) = 0 <=> ~\E i \in DOMAIN s : s[i].task = t
<1>1. IsFiniteSet(1..Len(s))
  BY FS_Interval
<1>2. IsFiniteSet({i \in DOMAIN s : s[i].task = t})
  BY <1>1, FS_Subset
<1>. QED  BY <1>2, FS_CardinalityType, FS_EmptySet DEF CountOf

LEMMA CountAppend ==
  ASSUME NEW s \in Seq(Result), NEW r \in Result, NEW t
  PROVE  CountOf(Append(s, r), t) = IF r.task = t THEN CountOf(s, t) + 1 ELSE CountOf(s, t)
<1> DEFINE A == {i \in DOMAIN s : s[i].task = t}
           B == {i \in DOMAIN Append(s, r) : Append(s, r)[i].task = t}
<1>1. IsFiniteSet(A) /\ Cardinality(A) \in Nat
  BY CountTyped DEF CountOf
<1>2. Len(s) + 1 \notin A
  OBVIOUS
<1>3. B = IF r.task = t THEN A \union {Len(s) + 1} ELSE A
  <2>1. /\ DOMAIN Append(s, r) = (DOMAIN s) \union {Len(s) + 1}
        /\ Append(s, r)[Len(s) + 1] = r
        /\ \A i \in DOMAIN s : Append(s, r)[i] = s[i]
    OBVIOUS
  <2>2. CASE r.task = t
    <3>1. \A i : i \in B <=> i \in A \/ i = Len(s) + 1
      BY <2>1, <2>2
    <3>. QED  BY <2>2, <3>1
  <2>3. CASE r.task # t
    <3>1. \A i : i \in B <=> i \in A
      BY <2>1, <2>3
    <3>. QED  BY <2>3, <3>1
  <2>. QED  BY <2>2, <2>3
<1>4. Cardinality(A \union {Len(s) + 1}) = Cardinality(A) + 1
  BY <1>1, <1>2, FS_AddElement
<1>5. CountOf(s, t) = Cardinality(A) /\ CountOf(Append(s, r), t) = Cardinality(B)
  BY DEF CountOf
<1> HIDE DEF A, B
<1>6. CASE r.task = t
  BY <1>1, <1>3, <1>4, <1>5, <1>6
<1>7. CASE r.task # t
  BY <1>3, <1>5, <1>7
<1>. QED  BY <1>6, <1>7

LEMMA CountTail ==
  ASSUME NEW s \in Seq(Result), s # <<>>, NEW t
  PROVE  CountOf(s, t) = IF Head(s).task = t THEN CountOf(Tail(s), t) + 1 ELSE CountOf(Tail(s), t)
<1> DEFINE A == {i \in DOMAIN s : s[i].task = t}
           B == {i \in DOMAIN Tail(s) : Tail(s)[i].task = t}
           C == A \ {1}
           f == [i \in B |-> i + 1]
<1>1. IsFiniteSet(A) /\ IsFiniteSet(B) /\ Cardinality(A) \in Nat
  <2>1. Tail(s) \in Seq(Result)
    OBVIOUS
  <2>. QED  BY <2>1, CountTyped DEF CountOf
<1>2. f \in Bijection(B, C)
  <2>1. \A i \in B : i \in Nat /\ i + 1 \in C
    OBVIOUS
  <2>2. \A j \in C : j - 1 \in B /\ f[j - 1] = j
    OBVIOUS
  <2>3. f \in [B -> C]
    BY <2>1
  <2>4. \A i, j \in B : f[i] = f[j] => i = j
    BY <2>1
  <2>5. \A j \in C : \E i \in B : f[i] = j
    BY <2>2
  <2> HIDE DEF f, B, C
  <2>6. DOMAIN f = B
    BY <2>3
  <2>. QED  BY <2>3, <2>4, <2>5, <2>6 DEF Bijection, Injection, Surjection, IsInjective
<1>3. Cardinality(C) = Cardinality(B)
  BY <1>1, <1>2, FS_Bijection DEF ExistsBijection
<1>4. Cardinality(C) = IF 1 \in A THEN Cardinality(A) - 1 ELSE Cardinality(A)
  BY <1>1, FS_RemoveElement
<1>5. 1 \in A <=> Head(s).task = t
  OBVIOUS
<1>6. CountOf(s, t) = Cardinality(A) /\ CountOf(Tail(s), t) = Cardinality(B)
  BY DEF CountOf
<1> HIDE DEF A, B, C, f
<1>7. CASE Head(s).task = t
  BY <1>1, <1>3, <1>4, <1>5, <1>6, <1>7
<1>8. CASE Head(s).task # t
  BY <1>1, <1>3, <1>4, <1>5, <1>6, <1>8
<1>. QED  BY <1>7, <1>8

-----------------------------------------------------------------------------
(* A task is reported once per attempt.                                    *)

\* What has been reported of a task that waits, and of one on a node: each of the earlier
\* attempts, unless a restart of the hub lost some of those results.
Counted(t) ==
  /\ Reports(t) <= MaxRetries + 1
  /\ OnList(t) \/ InBatch(t) \/ ToNode(t) \/ t \notin submitted => Reports(t) = 0
  /\ \A n \in Nodes, e \in AttemptsOf(t) :
       On(n, e) => Reports(t) <= e.retry /\ (restarts = 0 => Reports(t) = e.retry)

LEMMA ReportsTyped ==
  ASSUME TypeInv, NEW t \in Tasks
  PROVE  /\ Reports(t) \in Nat
         /\ Reports(t) = CountOf(results, t) + (IF Handled(t) THEN 1 ELSE 0) + notified[t]
         /\ CountOf(results, t) \in Nat /\ notified[t] \in Nat
         /\ Reports(t) > 0 <=> Reported(t) \/ notified[t] > 0
<1>1. notified[t] \in Nat /\ results \in Seq(Result)
  BY DEF TypeInv, TypeOK
<1>2. CountOf(results, t) \in Nat /\ (CountOf(results, t) = 0 <=> ~InResults(t))
  BY <1>1, CountTyped DEF InResults
<1>3. Reports(t) = CountOf(results, t) + (IF Handled(t) THEN 1 ELSE 0) + notified[t]
  BY DEF Reports, CountOf, Handled
<1>4. CASE Handled(t)
  BY <1>1, <1>2, <1>3, <1>4 DEF Reported
<1>5. CASE ~Handled(t)
  BY <1>1, <1>2, <1>3, <1>5 DEF Reported
<1>. QED  BY <1>4, <1>5

LEMMA ReportsTypedNext ==
  ASSUME TypeInv', NEW t \in Tasks
  PROVE  /\ Reports(t)' \in Nat
         /\ Reports(t)' = CountOf(results', t) + (IF Handled(t)' THEN 1 ELSE 0) + notified'[t]
         /\ CountOf(results', t) \in Nat /\ notified'[t] \in Nat
         /\ Reports(t)' > 0 <=> Reported(t)' \/ notified'[t] > 0
<1>1. notified'[t] \in Nat /\ results' \in Seq(Result)
  BY DEF TypeInv, TypeOK
<1>2. CountOf(results', t) \in Nat /\ (CountOf(results', t) = 0 <=> ~InResults(t)')
  BY <1>1, CountTyped DEF InResults
<1>3. Reports(t)' = CountOf(results', t) + (IF Handled(t)' THEN 1 ELSE 0) + notified'[t]
  BY DEF Reports, CountOf, Handled
<1>4. CASE Handled(t)'
  BY <1>1, <1>2, <1>3, <1>4 DEF Reported
<1>5. CASE ~Handled(t)'
  BY <1>1, <1>2, <1>3, <1>5 DEF Reported
<1>. QED  BY <1>4, <1>5

\* A task that waits has not been on a node yet.
Waits(t) == OnList(t) \/ InBatch(t) \/ ToNode(t) \/ t \notin submitted

\* Nothing that has left for a node comes back to the list or the batch.
LEMMA StepWaits ==
  ASSUME NEW t \in Tasks, TypeInv, WindowClosed, [Next]_vars, Waits(t)'
  PROVE  Waits(t)
<1>. USE DEF queueVars, mapVars, nodeVars, resVars, envVars
<1>t. pending \in Seq(Entry) /\ batch \in Seq(Entry) /\ inflight \in [Nodes -> [Tasks -> Nat]]
  BY DEF TypeInv, TypeOK
<1>l. pending' = pending => (OnList(t)' => OnList(t))
  BY DEF OnList
<1>b. UNCHANGED distVars => (InBatch(t)' => InBatch(t))
  BY DEF distVars, InBatch, Unsent
<1>c. inflight' = inflight => (ToNode(t)' => ToNode(t))
  BY DEF ToNode
<1>i. ASSUME NEW e \in Entry, pending' = Append(pending, e), OnList(t)'
      PROVE  OnList(t) \/ e = Data(t)
  <2>1. PICK i \in DOMAIN pending' : pending'[i] = Data(t)
    BY <1>i DEF OnList
  <2>2. \/ i \in DOMAIN pending /\ pending'[i] = pending[i]
        \/ pending'[i] = e
    BY <1>t, <1>i, <2>1
  <2>. QED  BY <2>1, <2>2 DEF OnList
<1>d. \A u \in Tasks : Id(u) \in Entry /\ Id(u) # Data(t)
  BY DEF Id, Data, Entry
<1>a. ASSUME Advance, distPC \in {"assign", "record"}, InBatch(t)' PROVE InBatch(t)
  <2>1. PICK i \in Unsent' : batch'[i] = Data(t)
    BY <1>a DEF InBatch
  <2>2. next < Len(batch) /\ distPC' = "assign" /\ next' = next + 1 /\ batch' = batch
    BY <1>a, <2>1 DEF Advance, Unsent
  <2>3. next \in Nat /\ Len(batch) \in Nat
    BY <1>t DEF TypeInv, TypeOK
  <2>4. i \in Unsent /\ batch[i] = Data(t)
    BY <1>a, <2>1, <2>2, <2>3 DEF Unsent
  <2>. QED  BY <2>4 DEF InBatch
<1>1. CASE UNCHANGED vars
  BY <1>1, <1>l, <1>b, <1>c DEF vars, Waits
<1>2. ASSUME NEW u \in Tasks, Submit(u) PROVE Waits(t)
  <2>1. CASE u = t
    BY <1>2, <2>1 DEF Submit, Waits
  <2>2. CASE u # t
    <3>1. /\ pending' = <<Data(u)>> \o pending /\ submitted' = submitted \union {u}
          /\ UNCHANGED <<distVars, inflight>>
      BY <1>2 DEF Submit
    <3>2. OnList(t)' => OnList(t)
      <4>1. Data(u) \in Entry /\ Data(u) # Data(t)
        BY <2>2 DEF Data, Entry
      <4>2. ASSUME NEW i \in DOMAIN pending', pending'[i] = Data(t)
            PROVE  i - 1 \in DOMAIN pending /\ pending[i - 1] = Data(t)
        BY <1>t, <3>1, <4>1, <4>2
      <4>. QED  BY <4>2 DEF OnList
    <3>. QED  BY <1>b, <1>c, <2>2, <3>1, <3>2 DEF Waits
  <2>. QED  BY <2>1, <2>2
<1>3. CASE Fetch
  <2>1. ~InBatch(t)'
    BY <1>3 DEF Fetch, InBatch, Unsent
  <2>. QED  BY <1>3, <1>l, <1>c, <2>1 DEF Fetch, Waits
<1>4. CASE Trim
  <2>1. /\ distPC' = "assign" /\ UNCHANGED <<batch, next, inflight, submitted>>
        /\ pending' = SubSeq(pending, Len(batch) + 1, Len(pending))
        /\ next = 1 /\ Len(batch) <= Len(pending) /\ \A j \in 1..Len(batch) : pending[j] = batch[j]
    BY <1>4 DEF Trim, LTrim, TypeInv, BatchOK, WindowClosed
  <2>2. ASSUME NEW i \in DOMAIN pending', pending'[i] = Data(t)
        PROVE  i + Len(batch) \in DOMAIN pending /\ pending[i + Len(batch)] = Data(t)
    BY <1>t, <2>1, <2>2
  <2>3. ASSUME NEW i \in Unsent', batch'[i] = Data(t)
        PROVE  i \in DOMAIN pending /\ pending[i] = Data(t)
    BY <1>t, <2>1, <2>3 DEF Unsent
  <2>. QED  BY <1>c, <2>1, <2>2, <2>3 DEF Waits, OnList, InBatch
<1>5. CASE SkipUndecodable \/ Record
  BY <1>5, <1>l, <1>a, <1>c DEF SkipUndecodable, Record, Waits
<1>6. CASE Send
  <2>1. /\ distPC = "assign" /\ distPC' = "record" /\ UNCHANGED <<batch, next, pending, submitted>>
        /\ Current.kind = "data"
        /\ inflight' = [inflight EXCEPT ![Target][Current.task] = @ + 1]
    BY <1>6 DEF Send
  <2>2. Current \in Entry /\ Target \in Nodes /\ next \in 1..Len(batch)
    <3>1. distPC # "idle"
      BY <2>1
    <3>2. next \in 1..Len(batch)
      BY <3>1 DEF TypeInv, BatchOK
    <3>. QED  BY <3>1, <3>2, CurrentTyped
  <2>3. Current = Data(Current.task) /\ Current.task \in Tasks
    BY <2>1, <2>2 DEF Entry, Data
  <2>4. CASE Current.task = t
    <3>1. next \in Unsent /\ batch[next] = Data(t)
      BY <1>t, <2>1, <2>2, <2>3, <2>4 DEF Unsent, Current
    <3>. QED  BY <3>1 DEF Waits, InBatch
  <2>5. CASE Current.task # t
    <3>1. ToNode(t)' => ToNode(t)
      BY <1>t, <2>1, <2>2, <2>3, <2>5 DEF ToNode
    <3>2. InBatch(t)' => InBatch(t)
      <4>1. \A i \in Unsent' : i \in Unsent
        BY <1>t, <2>1, <2>2 DEF Unsent
      <4>. QED  BY <2>1, <4>1 DEF InBatch
    <3>. QED  BY <1>l, <2>1, <3>1, <3>2 DEF Waits
  <2>. QED  BY <2>4, <2>5
<1>7. CASE SendFails
  <2>1. /\ distPC = "assign" /\ Current.kind = "data" /\ Advance
        /\ pending' = Append(pending, Current) /\ UNCHANGED <<submitted, inflight>>
    BY <1>7 DEF SendFails, Unsendable
  <2>2. Current \in Entry /\ next \in Unsent
    <3>1. distPC # "idle"
      BY <2>1
    <3>2. next \in Unsent
      BY <1>t, <2>1, <3>1 DEF TypeInv, BatchOK, Unsent
    <3>. QED  BY <3>1, <3>2, CurrentTyped
  <2>3. Current = Data(t) => InBatch(t)
    BY <2>2 DEF InBatch, Current
  <2>. QED  BY <1>a, <1>c, <1>i, <2>1, <2>2, <2>3 DEF Waits
<1>8. ASSUME NEW n \in Nodes, NEW u \in Tasks, Deliver(n, u) PROVE Waits(t)
  <2>1. /\ UNCHANGED <<pending, distVars, submitted>> /\ inflight[n][u] > 0
        /\ inflight' = [inflight EXCEPT ![n][u] = @ - 1]
    BY <1>8 DEF Deliver
  <2>2. ToNode(t)' => ToNode(t)
    BY <1>t, <2>1 DEF ToNode
  <2>. QED  BY <1>l, <1>b, <2>1, <2>2 DEF Waits
<1>9. CASE /\ pending' = pending \/ \E u \in Tasks : pending' = Append(pending, Id(u))
           /\ UNCHANGED <<submitted, distVars, inflight>>
  BY <1>9, <1>l, <1>b, <1>c, <1>i, <1>d DEF Waits
<1>10. CASE FinishResult
  BY <1>9, <1>10, FailureCases DEF FinishResult
<1>11. ASSUME NEW n \in Nodes, Crash(n) PROVE Waits(t)
  <2>1. ToNode(t)' => ToNode(t)
    BY <1>t, <1>11 DEF Crash, NoTasks, ToNode
  <2>. QED  BY <1>11, <1>l, <1>b, <2>1 DEF Crash, Waits
<1>12. CASE HubRestart
  <2>1. ~ToNode(t)' /\ ~InBatch(t)'
    BY <1>12 DEF HubRestart, NoTasks, ToNode, InBatch, Unsent
  <2>. QED  BY <1>12, <1>l, <2>1 DEF HubRestart, Waits
<1>13. CASE NodeStep
  <2>1. ASSUME NEW n \in Nodes, NEW e \in Attempt, NEW ok \in BOOLEAN, NodeFinish(n, e, ok)
        PROVE  Waits(t)
    BY <1>9, <2>1 DEF NodeFinish, Publish
  <2>2. ASSUME NEW n \in Nodes, NEW e \in Attempt, Refetch(n, e) PROVE Waits(t)
    BY <1>9, <2>2 DEF Refetch
  <2>. QED  BY <1>8, <1>13, <2>1, <2>2 DEF NodeStep
<1>14. CASE TakeResult \/ CollectDead \/ \E u \in Tasks : RequeueDead(u)
  BY <1>9, <1>14 DEF TakeResult, Take, CollectDead, RequeueDead
<1>15. ASSUME NEW n \in Nodes, Pause(n) \/ Resume(n) \/ GrowOld(n) \/ Evict(n) \/ Rejoin(n)
       PROVE  Waits(t)
  BY <1>9, <1>15 DEF Pause, Resume, GrowOld, Evict, Rejoin
<1>. QED  BY <1>1, <1>2, <1>3, <1>4, <1>5, <1>6, <1>7, <1>10, <1>11, <1>12, <1>13, <1>14, <1>15
          DEF Next, Distributor, ResultLoop, Reassigner, Environment

\* The results of a task stay what they are in number while they travel from the channel to
\* the scheduler (coordinator.go:460-517); one more is published at the end of an attempt, and
\* the restart of the hub loses those under way.
LEMMA ReportsKept ==
  ASSUME TypeInv, NEW t \in Tasks, UNCHANGED <<results, inHand, notified>>
  PROVE  Reports(t)' = Reports(t)
  BY DEF Reports

LEMMA ReportsTaken ==
  ASSUME TypeInv, TypeInv', NEW t \in Tasks, TakeResult
  PROVE  Reports(t)' = Reports(t)
<1>1. /\ results # <<>> /\ results' = Tail(results) /\ inHand = NoResult
      /\ inHand' = <<Head(results)>> /\ notified' = notified /\ results \in Seq(Result)
  BY DEF TakeResult, Take, TypeInv, TypeOK
<1>2. Handled(t)' <=> Head(results).task = t
  BY <1>1 DEF Handled, NoResult
<1>3. ~Handled(t)
  BY <1>1 DEF Handled
<1>4. CountOf(results, t) = IF Head(results).task = t THEN CountOf(results', t) + 1 ELSE CountOf(results', t)
  BY <1>1, CountTail
<1>5. /\ Reports(t) = CountOf(results, t) + 0 + notified[t]
      /\ CountOf(results, t) \in Nat /\ CountOf(results', t) \in Nat /\ notified[t] \in Nat
      /\ Reports(t)' = CountOf(results', t) + (IF Handled(t)' THEN 1 ELSE 0) + notified'[t]
  BY <1>3, ReportsTyped, ReportsTypedNext
<1>6. CASE Head(results).task = t
  BY <1>1, <1>2, <1>4, <1>5, <1>6
<1>7. CASE Head(results).task # t
  BY <1>1, <1>2, <1>4, <1>5, <1>7
<1>. QED  BY <1>6, <1>7

LEMMA ReportsFinished ==
  ASSUME TypeInv, TypeInv', NEW t \in Tasks, FinishResult
  PROVE  Reports(t)' = Reports(t)
<1>1. PICK r \in Result : inHand = <<r>>
  BY DEF FinishResult, TypeInv, TypeOK
<1>2. /\ inHand # NoResult /\ inHand' = NoResult /\ results' = results
      /\ notified' = [notified EXCEPT ![r.task] = @ + 1] /\ notified \in [Tasks -> Nat]
  BY <1>1 DEF FinishResult, TypeInv, TypeOK
<1>3. ~Handled(t)' /\ (Handled(t) <=> r.task = t)
  BY <1>1, <1>2 DEF Handled, NoResult
<1>4. /\ Reports(t) = CountOf(results, t) + (IF Handled(t) THEN 1 ELSE 0) + notified[t]
      /\ Reports(t)' = CountOf(results, t) + 0 + notified'[t]
      /\ CountOf(results, t) \in Nat /\ notified[t] \in Nat
  BY <1>2, <1>3, ReportsTyped, ReportsTypedNext
<1>5. CASE r.task = t
  <2>1. notified'[t] = notified[t] + 1
    BY <1>2, <1>5
  <2>. QED  BY <1>3, <1>4, <1>5, <2>1
<1>6. CASE r.task # t
  <2>1. notified'[t] = notified[t]
    BY <1>2, <1>6
  <2>. QED  BY <1>3, <1>4, <1>6, <2>1
<1>. QED  BY <1>5, <1>6

LEMMA ReportsPublished ==
  ASSUME TypeInv, TypeInv', NEW t \in Tasks, NEW n \in Nodes, NEW e \in Attempt, NEW ok \in BOOLEAN,
         NodeFinish(n, e, ok)
  PROVE  Reports(t)' = IF e.task = t THEN Reports(t) + 1 ELSE Reports(t)
<1>1. /\ results' = Append(results, [task |-> e.task, ok |-> ok]) /\ results \in Seq(Result)
      /\ UNCHANGED <<inHand, notified>>
  BY DEF NodeFinish, Publish, TypeInv, TypeOK
<1>2. [task |-> e.task, ok |-> ok] \in Result
  BY DEF Attempt, Result
<1>3. CountOf(results', t) = IF e.task = t THEN CountOf(results, t) + 1 ELSE CountOf(results, t)
  BY <1>1, <1>2, CountAppend
<1>4. Handled(t)' <=> Handled(t)
  BY <1>1 DEF Handled
<1>5. /\ Reports(t) = CountOf(results, t) + (IF Handled(t) THEN 1 ELSE 0) + notified[t]
      /\ Reports(t)' = CountOf(results', t) + (IF Handled(t) THEN 1 ELSE 0) + notified[t]
      /\ CountOf(results, t) \in Nat /\ CountOf(results', t) \in Nat /\ notified[t] \in Nat
  BY <1>1, <1>4, ReportsTyped, ReportsTypedNext
<1>6. CASE e.task = t
  BY <1>3, <1>5, <1>6
<1>7. CASE e.task # t
  BY <1>3, <1>5, <1>7
<1>. QED  BY <1>6, <1>7

\* A step that publishes no result and takes on no task.
LEMMA CountedKept ==
  ASSUME NEW t \in Tasks, TypeInv, TypeInv', Counted(t), Waits(t)' => Waits(t),
         Reports(t)' = Reports(t) \/ (Reports(t)' <= Reports(t) /\ restarts' # 0),
         restarts' = 0 => restarts = 0,
         \A n \in Nodes, e \in AttemptsOf(t) : On(n, e)' => On(n, e)
  PROVE  Counted(t)'
<1>1. Reports(t) \in Nat /\ Reports(t)' \in Nat
  BY ReportsTyped, ReportsTypedNext
<1>2. \A e \in AttemptsOf(t) : e.retry \in Nat
  BY MaxRetriesAssumption DEF AttemptsOf, Attempt
<1>3. Reports(t)' <= MaxRetries + 1
  BY <1>1, MaxRetriesAssumption DEF Counted
<1>4. Waits(t)' => Reports(t)' = 0
  BY <1>1 DEF Counted, Waits
<1>5. ASSUME NEW n \in Nodes, NEW e \in AttemptsOf(t), On(n, e)'
      PROVE  Reports(t)' <= e.retry /\ (restarts' = 0 => Reports(t)' = e.retry)
  <2>1. On(n, e)
    BY <1>5
  <2>2. Reports(t) <= e.retry /\ (restarts = 0 => Reports(t) = e.retry) /\ e.retry \in Nat
    BY <1>2, <2>1 DEF Counted
  <2>. QED  BY <1>1, <2>2
<1>6. \A n \in Nodes, e \in AttemptsOf(t)' :
        On(n, e)' => Reports(t)' <= e.retry /\ (restarts' = 0 => Reports(t)' = e.retry)
  BY <1>5 DEF AttemptsOf
<1>. QED  BY <1>3, <1>4, <1>6 DEF Counted, Waits

LEMMA CountedDeliver ==
  ASSUME NEW t \in Tasks, NEW n \in Nodes, NEW u \in Tasks, TypeInv, TypeInv', Sole(t), Counted(t),
         Waits(t)' => Waits(t), Deliver(n, u)
  PROVE  Counted(t)'
<1>1. /\ inflight[n][u] > 0 /\ UNCHANGED <<retryList, results, inHand, notified, restarts>>
      /\ running' = running \/ running' = [running EXCEPT ![n][First(u)] = @ + 1]
  BY DEF Deliver, resVars, envVars
<1>2. running \in [Nodes -> [Attempt -> Nat]] /\ First(u) \in Attempt /\ AttemptsOf(t) \subseteq Attempt
  BY AttemptTyped, FirstIsAttempt DEF TypeInv, TypeOK
<1>3. Reports(t)' = Reports(t)
  BY <1>1, ReportsKept
<1>4. CASE u # t
  <2>1. \A e \in AttemptsOf(t) : e # First(u)
    BY <1>4 DEF AttemptsOf, First
  <2>2. \A m \in Nodes, e \in AttemptsOf(t) : running'[m][e] = running[m][e]
    BY <1>1, <1>2, <2>1
  <2>3. \A m \in Nodes, e \in AttemptsOf(t) : On(m, e)' => On(m, e)
    BY <1>1, <2>2 DEF On
  <2>. QED  BY <1>1, <1>3, <2>3, CountedKept
<1>5. CASE u = t
  <2>1. ToNode(t)
    BY <1>1, <1>5 DEF ToNode
  <2>2. Reports(t)' = 0
    BY <1>3, <2>1 DEF Counted
  <2>3. ASSUME NEW m \in Nodes, NEW e \in AttemptsOf(t), On(m, e)' PROVE e = First(t)
    <3>1. ~On(m, e)
      BY <2>1 DEF Sole, Apart, AtNode, On, AttemptsOf
    <3>2. running'[m][e] # running[m][e]
      BY <1>1, <2>3, <3>1 DEF On
    <3>. QED  BY <1>1, <1>2, <1>5, <3>2
  <2>4. \A m \in Nodes, e \in AttemptsOf(t)' : On(m, e)' => e = First(t)
    BY <2>3 DEF AttemptsOf
  <2>5. First(t).retry = 0
    BY DEF First
  <2>. QED  BY <2>2, <2>4, <2>5, MaxRetriesAssumption DEF Counted
<1>. QED  BY <1>4, <1>5

LEMMA CountedFinish ==
  ASSUME NEW t \in Tasks, NEW n \in Nodes, NEW e \in Attempt, NEW ok \in BOOLEAN,
         TypeInv, TypeInv', Sole(t), Counted(t), Waits(t)' => Waits(t), NodeFinish(n, e, ok)
  PROVE  Counted(t)'
<1>1. /\ running[n][e] > 0 /\ running' = [running EXCEPT ![n][e] = @ - 1]
      /\ LocalRetry(n, e, ok) /\ UNCHANGED <<submitted, pending, distVars, inflight, restarts>>
  BY DEF NodeFinish, Publish, queueVars, envVars
<1>2. /\ running \in [Nodes -> [Attempt -> Nat]] /\ retryList \in [Nodes -> [Attempt -> Nat]]
      /\ AttemptsOf(t) \subseteq Attempt
  BY AttemptTyped DEF TypeInv, TypeOK
<1>3. CASE e.task # t
  <2>1. \A m \in Nodes, f \in AttemptsOf(t) : f # e /\ f.task # e.task /\ f \in Attempt
    BY <1>3 DEF AttemptsOf
  <2>2. \A m \in Nodes, f \in AttemptsOf(t) : retryList'[m][f] = retryList[m][f]
    BY <1>1, <2>1, LocalRetryTyped
  <2>3. \A m \in Nodes, f \in AttemptsOf(t) : running'[m][f] = running[m][f]
    BY <1>1, <1>2, <2>1
  <2>4. \A m \in Nodes, f \in AttemptsOf(t) : On(m, f)' => On(m, f)
    BY <2>2, <2>3 DEF On
  <2>5. Reports(t)' = Reports(t)
    BY <1>3, ReportsPublished
  <2>. QED  BY <1>1, <2>4, <2>5, CountedKept
<1>4. CASE e.task = t
  <2>. DEFINE again == [e EXCEPT !.retry = @ + 1]
  <2>1. e \in AttemptsOf(t) /\ On(n, e)
    BY <1>1, <1>4 DEF AttemptsOf, On
  <2>2. /\ running[n][e] + retryList[n][e] = 1 /\ AtNode(t)
        /\ \A m \in Nodes, f \in AttemptsOf(t) :
             ~(m = n /\ f = e) => running[m][f] = 0 /\ retryList[m][f] = 0
    BY <2>1, OneAttempt DEF Sole
  <2>3. running[n][e] = 1 /\ retryList[n][e] = 0
    <3>1. running[n][e] \in Nat /\ retryList[n][e] \in Nat
      BY <1>2
    <3>. QED  BY <1>1, <2>2, <3>1
  <2>4. \A m \in Nodes, f \in AttemptsOf(t) : running'[m][f] = 0 /\ retryList[m][f] = 0
    BY <1>1, <1>2, <2>1, <2>2, <2>3
  <2>5. e.retry \in Nat /\ e.retry <= MaxRetries /\ again.retry = e.retry + 1
    BY MaxRetriesAssumption DEF Attempt
  <2>6. ASSUME NEW m \in Nodes, NEW f \in AttemptsOf(t), On(m, f)' PROVE f = again
    <3>1. retryList'[m][f] # retryList[m][f]
      BY <2>4, <2>6 DEF On
    <3>2. CASE ~ok /\ e.retry < MaxRetries
      <4>1. again \in Attempt /\ retryList' = [retryList EXCEPT ![n][again] = @ + 1]
        BY <1>1, <3>2, RetryIsAttempt DEF LocalRetry
      <4>. HIDE DEF again
      <4>. QED  BY <1>2, <3>1, <4>1
    <3>3. CASE ~(~ok /\ e.retry < MaxRetries)
      BY <1>1, <3>1, <3>3 DEF LocalRetry
    <3>. QED  BY <3>2, <3>3
  <2>7. Reports(t) \in Nat /\ Reports(t)' = Reports(t) + 1
    BY <1>4, ReportsTyped, ReportsPublished
  <2>8. Reports(t) <= e.retry /\ (restarts = 0 => Reports(t) = e.retry)
    BY <2>1 DEF Counted
  <2>9. ~Waits(t)'
    <3>1. ~Waits(t)
      BY <2>2 DEF Sole, Apart, InOrder, Waits
    <3>. QED  BY <3>1
  <2>10. \A m \in Nodes, f \in AttemptsOf(t)' : On(m, f)' => f = again
    BY <2>6 DEF AttemptsOf
  <2>. HIDE DEF again
  <2>11. Reports(t)' <= MaxRetries + 1
    BY <2>5, <2>7, <2>8, MaxRetriesAssumption
  <2>12. Reports(t)' <= again.retry /\ (restarts' = 0 => Reports(t)' = again.retry)
    BY <1>1, <2>5, <2>7, <2>8
  <2>. QED  BY <2>9, <2>10, <2>11, <2>12 DEF Counted, Waits
<1>. QED  BY <1>3, <1>4

LEMMA CountedRefetch ==
  ASSUME NEW t \in Tasks, NEW n \in Nodes, NEW e \in Attempt, TypeInv, TypeInv', Counted(t),
         Waits(t)' => Waits(t), Refetch(n, e)
  PROVE  Counted(t)'
<1>1. /\ retryList[n][e] > 0 /\ UNCHANGED <<results, inHand, notified, restarts>>
      /\ running' = [running EXCEPT ![n][e] = @ + 1]
      /\ retryList' = [retryList EXCEPT ![n][e] = @ - 1]
  BY DEF Refetch, resVars, envVars
<1>2. /\ running \in [Nodes -> [Attempt -> Nat]] /\ retryList \in [Nodes -> [Attempt -> Nat]]
      /\ AttemptsOf(t) \subseteq Attempt
  BY AttemptTyped DEF TypeInv, TypeOK
<1>3. ASSUME NEW m \in Nodes, NEW f \in AttemptsOf(t), On(m, f)' PROVE On(m, f)
  <2>1. CASE m = n /\ f = e
    BY <1>1, <2>1 DEF On
  <2>2. CASE ~(m = n /\ f = e)
    <3>1. running'[m][f] = running[m][f] /\ retryList'[m][f] = retryList[m][f]
      BY <1>1, <1>2, <2>2
    <3>. QED  BY <1>3, <3>1 DEF On
  <2>. QED  BY <2>1, <2>2
<1>. QED  BY <1>1, <1>3, ReportsKept, CountedKept

LEMMA StepCounted ==
  ASSUME NEW t \in Tasks, TypeInv, TypeInv', WindowClosed, Sole(t), Counted(t), [Next]_vars
  PROVE  Counted(t)'
<1>. USE DEF queueVars, mapVars, nodeVars, resVars, envVars
<1>1. Waits(t)' => Waits(t)
  BY StepWaits
<1>2. restarts' = 0 => restarts = 0
  BY StepCounters
<1>n. UNCHANGED <<running, retryList>>
        => \A n \in Nodes, e \in AttemptsOf(t) : On(n, e)' => On(n, e)
  BY DEF On
<1>3. CASE UNCHANGED <<running, retryList, results, inHand, notified>>
  BY <1>1, <1>2, <1>3, <1>n, ReportsKept, CountedKept
<1>4. CASE TakeResult
  BY <1>1, <1>2, <1>4, <1>n, ReportsTaken, CountedKept DEF TakeResult, Take
<1>5. CASE FinishResult
  BY <1>1, <1>2, <1>5, <1>n, ReportsFinished, CountedKept DEF FinishResult
<1>6. CASE NodeStep
  BY <1>1, <1>6, CountedDeliver, CountedFinish, CountedRefetch DEF NodeStep
<1>7. CASE HubRestart
  <2>1. /\ results' = <<>> /\ inHand' = NoResult /\ restarts' = restarts + 1 /\ restarts \in Nat
        /\ UNCHANGED <<running, retryList, notified>>
    BY <1>7, BoundsAssumption DEF HubRestart, TypeInv, TypeOK
  <2>2. CountOf(results', t) = 0
    <3>1. results' \in Seq(Result) /\ ~\E i \in DOMAIN results' : results'[i].task = t
      BY <2>1 DEF TypeInv, TypeOK
    <3>. QED  BY <3>1, CountTyped
  <2>3. /\ Reports(t) = CountOf(results, t) + (IF Handled(t) THEN 1 ELSE 0) + notified[t]
        /\ Reports(t)' = CountOf(results', t) + (IF Handled(t)' THEN 1 ELSE 0) + notified'[t]
        /\ CountOf(results, t) \in Nat /\ notified[t] \in Nat
    BY ReportsTyped, ReportsTypedNext
  <2>4. ~Handled(t)'
    BY <2>1 DEF Handled
  <2>5. Reports(t)' <= Reports(t)
    BY <2>1, <2>2, <2>3, <2>4
  <2>. QED  BY <1>1, <1>n, <2>1, <2>5, CountedKept
<1>8. ASSUME NEW n \in Nodes, Crash(n) PROVE Counted(t)'
  <2>1. /\ running' = [running EXCEPT ![n] = NoAttempts] /\ running \in [Nodes -> [Attempt -> Nat]]
        /\ AttemptsOf(t) \subseteq Attempt /\ UNCHANGED <<retryList, results, inHand, notified>>
    BY <1>8, AttemptTyped DEF Crash, TypeInv, TypeOK
  <2>2. \A m \in Nodes, e \in AttemptsOf(t) : running'[m][e] > 0 => running[m][e] > 0
    BY <2>1 DEF NoAttempts
  <2>3. \A m \in Nodes, e \in AttemptsOf(t) : On(m, e)' => On(m, e)
    BY <2>1, <2>2 DEF On
  <2>. QED  BY <1>1, <1>2, <2>1, <2>3, ReportsKept, CountedKept
<1>9. CASE Environment
  BY <1>3, <1>7, <1>8, <1>9 DEF Environment, Pause, Resume, GrowOld, Evict, Rejoin
<1>10. CASE Distributor \/ Reassigner \/ \E u \in Tasks : Submit(u)
  BY <1>3, <1>10 DEF Distributor, Fetch, Trim, LTrim, SkipUndecodable, Send, SendFails, Unsendable,
                     Record, Reassigner, CollectDead, RequeueDead, Submit
<1>11. CASE UNCHANGED vars
  BY <1>3, <1>11 DEF vars
<1>. QED  BY <1>4, <1>5, <1>6, <1>9, <1>10, <1>11 DEF Next, ResultLoop

ReportInv == RecordInv /\ NoLoss /\ \A t \in Tasks : Counted(t)

LEMMA InitReportInv == Init => ReportInv
<1>. SUFFICES ASSUME Init PROVE ReportInv
  OBVIOUS
<1>1. RecordInv /\ NoLoss
  BY InitRecordInv DEF Init, NoLoss
<1>2. ASSUME NEW t \in Tasks PROVE Counted(t)
  <2>1. TypeInv
    BY InitTypeInv
  <2>2. Reports(t) = 0
    <3>1. ~Reported(t) /\ notified[t] = 0
      BY DEF Init, Reported, InResults, Handled, NoTasks
    <3>. QED  BY <2>1, <3>1, ReportsTyped
  <2>3. \A n \in Nodes, e \in AttemptsOf(t) : ~On(n, e)
    BY AttemptTyped DEF Init, NoAttempts, On
  <2>. QED  BY <2>2, <2>3, MaxRetriesAssumption DEF Counted
<1>. QED  BY <1>1, <1>2 DEF ReportInv

LEMMA StepReportInv ==
  ASSUME PushInWindow = FALSE, ReportInv, [Next]_vars
  PROVE  ReportInv'
<1>1. RecordInv /\ TypeInv /\ WindowClosed /\ NoLoss
  BY DEF ReportInv, RecordInv
<1>2. RecordInv' /\ TypeInv'
  BY <1>1, StepRecordInv DEF RecordInv
<1>3. NoLoss'
  BY <1>1, StepNoLoss DEF LossInv
<1>4. ASSUME NEW t \in Tasks PROVE Counted(t)'
  <2>1. Sole(t) /\ Counted(t)
    BY DEF ReportInv, RecordInv
  <2>. QED  BY <1>1, <1>2, <2>1, StepCounted
<1>. QED  BY <1>2, <1>3, <1>4 DEF ReportInv

\* Without a push between LRANGE and LTRIM, whatever crashes, evictions, reassignments and
\* restarts of the hub happen, no task has two copies, and none is reported more often than it
\* may be attempted (coordinator.go:229, 543, 654; node.go:693-750).
THEOREM NoCopyNoExtraReport ==
  ASSUME PushInWindow = FALSE
  PROVE  Spec => []AtMostOnce
<1>1. ReportInv => AtMostOnce
  <2>. SUFFICES ASSUME ReportInv, NEW t \in Tasks PROVE Live(t) <= 1 /\ Reports(t) <= MaxRetries + 1
    BY DEF AtMostOnce
  <2>1. TypeInv /\ Sole(t) /\ Counted(t)
    BY DEF ReportInv, RecordInv
  <2>2. Live(t) \in {0, 1}
    BY <2>1, LiveIsOne
  <2>. QED  BY <2>1, <2>2 DEF Counted
<1>. QED  BY <1>1, InitReportInv, StepReportInv, PTL DEF Spec

\* Without a push between LRANGE and LTRIM and without faults, a submitted task that no full
\* node turned away is in one place or over, a task that waits has not been reported, and every
\* attempt at one on a node but the present has been reported once (coordinator.go:177-232,
\* 460-517, node.go:693-750).
THEOREM ReportedExactlyOnce ==
  ASSUME PushInWindow = FALSE
  PROVE  Spec => []ExactlyOnce
<1>1. ReportInv => ExactlyOnce
  <2>. SUFFICES ASSUME ReportInv, faults = 0, restarts = 0, NEW t \in Tasks, t \notin rejected
                PROVE  /\ Live(t) <= 1
                       /\ t \in submitted <=> Live(t) = 1 \/ Reports(t) > 0
                       /\ Queued(t) > 0 => Reports(t) = 0
                       /\ \A n \in Nodes, e \in Attempt :
                            e.task = t /\ running[n][e] + retryList[n][e] > 0
                              => Reports(t) = e.retry
                       /\ Reports(t) <= MaxRetries + 1
    BY DEF ExactlyOnce
  <2>1. TypeInv /\ Sole(t) /\ Counted(t) /\ NoLoss
    BY DEF ReportInv, RecordInv
  <2>2. /\ Queued(t) = IF OnList(t) \/ InBatch(t) \/ ToNode(t) THEN 1 ELSE 0
        /\ Live(t) = IF OnList(t) \/ InBatch(t) \/ ToNode(t) \/ AtNode(t) THEN 1 ELSE 0
    BY <2>1, LiveIsOne
  <2>3. Reports(t) \in Nat /\ (Reports(t) > 0 <=> InResults(t) \/ Handled(t) \/ notified[t] > 0)
    BY <2>1, ReportsTyped DEF Reported
  <2>4. ASSUME t \in submitted PROVE Live(t) = 1 \/ Reports(t) > 0
    <3>1. Held(t)
      BY <2>1, <2>4 DEF NoLoss
    <3>. QED  BY <2>2, <2>3, <3>1, HeldPlaces
  <2>5. ASSUME t \notin submitted PROVE Live(t) = 0 /\ Reports(t) = 0
    <3>1. ~OnList(t) /\ ~InBatch(t) /\ ~ToNode(t) /\ ~AtNode(t)
      BY <2>1, <2>5 DEF Sole, InOrder
    <3>. QED  BY <2>1, <2>2, <2>5, <3>1 DEF Counted
  <2>6. Queued(t) > 0 => Reports(t) = 0
    BY <2>1, <2>2 DEF Counted
  <2>7. ASSUME NEW n \in Nodes, NEW e \in Attempt, e.task = t,
               running[n][e] + retryList[n][e] > 0
        PROVE  Reports(t) = e.retry
    <3>1. running[n][e] \in Nat /\ retryList[n][e] \in Nat /\ e \in AttemptsOf(t)
      BY <2>1, <2>7 DEF TypeInv, TypeOK, AttemptsOf
    <3>2. On(n, e)
      BY <2>7, <3>1 DEF On
    <3>. QED  BY <2>1, <3>1, <3>2 DEF Counted
  <2>8. Live(t) <= 1
    BY <2>2
  <2>9. Reports(t) <= MaxRetries + 1
    BY <2>1 DEF Counted
  <2>10. t \in submitted <=> Live(t) = 1 \/ Reports(t) > 0
    BY <2>3, <2>4, <2>5
  <2>. QED  BY <2>6, <2>7, <2>8, <2>9, <2>10
<1>. QED  BY <1>1, InitReportInv, StepReportInv, PTL DEF Spec
=============================================================================
