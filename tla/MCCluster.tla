----------------------------- MODULE MCCluster -----------------------------
(***************************************************************************)
(* Components around the nodes, checked in one run. They share no state,   *)
(* so that a behaviour of all of them together is a behaviour of each; the *)
(* run explores them one at a time: part says which one moves.             *)
(***************************************************************************)
EXTENDS Integers, Sequences, FiniteSets

CONSTANTS Members, NoRecord, MaxStalls, MaxLates, MaxLives
CONSTANTS Events, StreamSize, BatchLimit, MaxBusFaults
CONSTANTS Tasks, Workers, None, QueueSize, ResultSize, FetchMax, MaxRetries, Pauses, Stops
CONSTANTS Jobs, Nodes, NoNode, BatchSize, NodeCapacity, SendBuffer, PushInWindow, MaxFaults,
          MaxRestarts

VARIABLES
  part,
  life, lives, record, activeSet, capable, beat, got, monitor, listed, cmNodes,
  suspects, clusterStatus, stalls, lates,
  running, busStopped, loops, eventStream, emitted, toRedis, echoes, batch, handled,
  echoed, history, overflowed, unsaved, unsent, panicked, busFaults,
  status, closed, taskQueue, store, pending, fetching, fetched, fetcher, pc, held,
  result, resultQueue, publisher, given, refused, attempts, outcome, published,
  dropped, taskStatus,
  submitted, jobQueue, distPC, jobBatch, next, targets, taskAssignments, pendingTasks,
  inflight, onNode, retryList, rejected, results, inHand, notified, failed, toReassign,
  up, view, faults, restarts

viewPart == <<life, lives, record, activeSet, capable, beat, got, monitor, listed, cmNodes,
  suspects, clusterStatus, stalls, lates>>
busPart == <<running, busStopped, loops, eventStream, emitted, toRedis, echoes, batch, handled,
  echoed, history, overflowed, unsaved, unsent, panicked, busFaults>>
workerPart == <<status, closed, taskQueue, store, pending, fetching, fetched, fetcher, pc, held,
  result, resultQueue, publisher, given, refused, attempts, outcome, published,
  dropped, taskStatus>>
coordPart == <<submitted, jobQueue, distPC, jobBatch, next, targets, taskAssignments,
  pendingTasks, inflight, onNode, retryList, rejected, results, inHand, notified, failed,
  toReassign, up, view, faults, restarts>>
all == <<part, viewPart, busPart, workerPart, coordPart>>

View == INSTANCE ClusterView
Bus == INSTANCE EventBus
Worker == INSTANCE NodeWorkers
Coord == INSTANCE Coordinator WITH Tasks <- Jobs, pending <- jobQueue, batch <- jobBatch,
                                   running <- onNode

Init == /\ part \in {"view", "bus", "worker", "coordinator"}
        /\ View!Init /\ Bus!Init /\ Worker!Init /\ Coord!Init

\* The part that moves, and everything else as it is.
Still(p, itsVars) == IF part = p THEN TRUE ELSE UNCHANGED itsVars
Frame == /\ UNCHANGED part
         /\ Still("view", viewPart) /\ Still("bus", busPart)
         /\ Still("worker", workerPart) /\ Still("coordinator", coordPart)

Next == \/ part = "view" /\ Frame /\ View!Next
        \/ part = "bus" /\ Frame /\ Bus!Next
        \/ part = "worker" /\ Frame /\ Worker!Next
        \/ part = "coordinator" /\ Frame /\ Coord!Next

\* The fairness of the components, while they are the part that moves; of the
\* coordinator's FairSpec a weaker form: some node goes on, not each of them.
Fairness ==
  /\ WF_viewPart(part = "view" /\ View!Monitor)
  /\ \A n \in Members : /\ WF_viewPart(part = "view" /\ View!NodeStep(n))
                        /\ WF_viewPart(part = "view" /\ View!Ages(n))
                        /\ WF_viewPart(part = "view" /\ View!Beats(n))
  /\ WF_busPart(part = "bus" /\ Bus!RedisSide) /\ WF_busPart(part = "bus" /\ Bus!ProcessLocal)
  /\ WF_busPart(part = "bus" /\ Bus!Persist) /\ WF_busPart(part = "bus" /\ Bus!PersistTick)
  /\ \A l \in {"local", "redis", "persist"} : WF_busPart(part = "bus" /\ Bus!EndLoop(l))
  /\ WF_workerPart(part = "worker" /\ Worker!Fetch) /\ WF_workerPart(part = "worker" /\ Worker!HandleResult)
  /\ WF_workerPart(part = "worker" /\ Worker!Resume)
  /\ \A w \in Workers : WF_workerPart(part = "worker" /\ Worker!Work(w))
  /\ WF_coordPart(part = "coordinator" /\ Coord!Distributor)
  /\ WF_coordPart(part = "coordinator" /\ \E n \in Nodes, t \in Jobs : Coord!Deliver(n, t))
  /\ WF_coordPart(part = "coordinator" /\ \E n \in Nodes, e \in Coord!Attempt, ok \in BOOLEAN :
                                             Coord!NodeFinish(n, e, ok))
  /\ WF_coordPart(part = "coordinator" /\ \E n \in Nodes, e \in Coord!Attempt : Coord!Refetch(n, e))
  /\ WF_coordPart(part = "coordinator" /\ Coord!ResultLoop)
  /\ WF_coordPart(part = "coordinator" /\ Coord!Reassigner)

Spec == Init /\ [][Next]_all /\ Fairness

-----------------------------------------------------------------------------
\* The types of the states of the component that moves; the others are as they began.
TypesOK == CASE part = "view"   -> View!ClusterTypeOK
             [] part = "bus"    -> Bus!BusTypeOK
             [] part = "worker" -> Worker!TypeOK
             [] part = "coordinator" -> Coord!TypeOK

\* See the modules for what these say.
EventFate         == part = "bus" => Bus!EventFate
ViewSettles       == part = "view" => View!ViewSettles
Delivered         == part = "bus" => Bus!Delivered
EveryTaskReported == part = "coordinator" => Coord!EveryTaskReported
EventuallySettled == part = "worker" => Worker!EventuallySettled
=============================================================================
