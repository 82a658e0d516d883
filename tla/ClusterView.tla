---------------------------- MODULE ClusterView ----------------------------
(***************************************************************************)
(* The node registry in Redis (crawler/distributed/registry.go) and the    *)
(* cluster manager that watches it (cluster.go). A node writes its own     *)
(* record; the manager reads it, and removes it when it has grown old. No  *)
(* transaction joins their commands: the mutex of a Registry is that of    *)
(* one process. A step is one Redis command, or a pipeline.                *)
(*                                                                         *)
(* Leader election and rebalancing have no configuration that switches     *)
(* them on, and are left out.                                              *)
(***************************************************************************)
EXTENDS Naturals, FiniteSets

CONSTANTS
  Members,    \* nodes
  NoRecord,   \* there is no record
  MaxStalls,  \* bound on heartbeats that come too late although the node lives
  MaxLates,   \* bound on status updates of a node after its Stop
  MaxLives    \* bound on starts of a node

Record == [status : {"starting", "active"}, old : BOOLEAN, named : BOOLEAN]

VARIABLES
  life,           \* where each node is: starting, up, stopping or gone
  lives,          \* how often it has started
  record,         \* key node:<id>; named: with capabilities and address
  activeSet,      \* sorted set nodes:active
  capable,        \* sets capability:<c>
  beat,           \* where its UpdateHeartbeat is
  got,            \* the record UpdateHeartbeat has read
  monitor,        \* where monitorNodes is
  listed,         \* IDs ListNodes has read
  cmNodes,        \* ClusterManager.nodes, as loaded
  suspects,       \* nodes checkNodeHealth is about to remove
  clusterStatus,  \* ClusterManager.status
  stalls, lates

nodeSide    == <<life, lives, beat, got>>
managerSide == <<monitor, listed, cmNodes, suspects, clusterStatus>>
redisSide   == <<record, activeSet, capable>>
clusterVars == <<nodeSide, managerSide, redisSide, stalls, lates>>

Init ==
  /\ life = [n \in Members |-> "off"] /\ lives = [n \in Members |-> 0]
  /\ record = [n \in Members |-> NoRecord]
  /\ activeSet = {} /\ capable = {}
  /\ beat = [n \in Members |-> "idle"] /\ got = [n \in Members |-> NoRecord]
  /\ monitor = "idle" /\ listed = {} /\ suspects = {}
  /\ cmNodes = [n \in Members |-> NoRecord]
  /\ clusterStatus = "running"
  /\ stalls = 0 /\ lates = 0

Move(n, from, to) == life[n] = from /\ life' = [life EXCEPT ![n] = to]

-----------------------------------------------------------------------------
(* The node: Start registers it twice, first as starting, then as active.  *)

StartMember(n) ==
  /\ lives[n] < MaxLives
  /\ life[n] \in {"off", "down", "crashed"} /\ beat[n] = "idle"
  /\ life' = [life EXCEPT ![n] = "register"]
  /\ lives' = [lives EXCEPT ![n] = @ + 1]
  /\ UNCHANGED <<beat, got, managerSide, redisSide, stalls, lates>>

\* RegisterNode's SET of the whole record, then its ZADD and SADD.
RegisterSet(n) ==
  /\ \/ Move(n, "register", "added")
     \/ Move(n, "confirm", "confirmed")
  /\ record' = [record EXCEPT ![n] =
       [status |-> IF life[n] = "register" THEN "starting" ELSE "active",
        old |-> FALSE, named |-> TRUE]]
  /\ UNCHANGED <<lives, beat, got, managerSide, activeSet, capable, stalls, lates>>
RegisterAdd(n) ==
  /\ \/ Move(n, "added", "confirm")
     \/ Move(n, "confirmed", "up")
  /\ activeSet' = activeSet \union {n}
  /\ capable' = capable \union {n}
  /\ UNCHANGED <<lives, beat, got, managerSide, record, stalls, lates>>

\* UpdateHeartbeat: a pipeline, then GET and SET of the record, which is made
\* up anew, without capabilities and address, if it is not there. The loop waits
\* for Start and ends with Stop, which hold the node; a reconnect to the hub may
\* call it once more after Stop.
BeatPipe(n) ==
  /\ beat[n] = "idle"
  /\ \/ life[n] = "up" /\ UNCHANGED lates
     \/ life[n] = "down" /\ lates < MaxLates /\ lates' = lates + 1
  /\ beat' = [beat EXCEPT ![n] = "piped"]
  /\ activeSet' = activeSet \union {n}
  /\ UNCHANGED <<life, lives, got, managerSide, record, capable, stalls>>
BeatGet(n) ==
  /\ beat[n] = "piped"
  /\ beat' = [beat EXCEPT ![n] = "read"]
  /\ got' = [got EXCEPT ![n] = record[n]]
  /\ UNCHANGED <<life, lives, managerSide, redisSide, stalls, lates>>
KeepsGone(n) ==  \* bug: a record that is gone is not made up anew
  record' = IF got[n] = NoRecord THEN record
            ELSE [record EXCEPT ![n] = [got[n] EXCEPT !.status = "active", !.old = FALSE]]
Refreshed(n) ==
  record' = [record EXCEPT ![n] =
    [status |-> "active", old |-> FALSE,
     named |-> IF got[n] = NoRecord THEN FALSE ELSE got[n].named]]
BeatSet(n) ==
  /\ beat[n] = "read"
  /\ beat' = [beat EXCEPT ![n] = "idle"]
  /\ Refreshed(n)
  /\ got' = [got EXCEPT ![n] = NoRecord]
  /\ UNCHANGED <<life, lives, managerSide, activeSet, capable, stalls, lates>>

\* Stop: UnregisterNode deletes the record, then takes the node off the sets.
StopMember(n) ==
  /\ Move(n, "up", "stopping")
  /\ UNCHANGED <<lives, beat, got, managerSide, redisSide, stalls, lates>>
StopDel(n) ==
  /\ Move(n, "stopping", "removing")
  /\ record' = [record EXCEPT ![n] = NoRecord]
  /\ UNCHANGED <<lives, beat, got, managerSide, activeSet, capable, stalls, lates>>
StopRem(n) ==
  /\ Move(n, "removing", "down")
  /\ activeSet' = activeSet \ {n} /\ capable' = capable \ {n}
  /\ UNCHANGED <<lives, beat, got, managerSide, record, stalls, lates>>

\* The process ends wherever it is.
CrashMember(n) ==
  /\ life[n] \notin {"off", "down", "crashed"}
  /\ life' = [life EXCEPT ![n] = "crashed"]
  /\ beat' = [beat EXCEPT ![n] = "idle"]
  /\ got' = [got EXCEPT ![n] = NoRecord]
  /\ UNCHANGED <<lives, managerSide, redisSide, stalls, lates>>

\* UpdatedAt gets older than HeartbeatTimeout: of a living node only if its
\* heartbeats stall.
GrowsOld(n) ==
  /\ record[n] # NoRecord /\ ~record[n].old
  /\ IF life[n] \in {"down", "crashed"} THEN UNCHANGED stalls
     ELSE stalls < MaxStalls /\ stalls' = stalls + 1
  /\ record' = [record EXCEPT ![n].old = TRUE]
  /\ UNCHANGED <<nodeSide, managerSide, activeSet, capable, lates>>

-----------------------------------------------------------------------------
(* The manager: updateNodeList, checkNodeHealth, updateClusterStatus.      *)

ListIDs ==
  /\ monitor = "idle"
  /\ monitor' = "load" /\ listed' = activeSet
  /\ UNCHANGED <<nodeSide, redisSide, cmNodes, suspects, clusterStatus, stalls, lates>>

\* ListNodes skips an ID without a record; the map is built anew.
LoadNodes ==
  /\ monitor = "load"
  /\ monitor' = "check"
  /\ cmNodes' = [n \in Members |-> IF n \in listed THEN record[n] ELSE NoRecord]
  /\ listed' = {}
  /\ UNCHANGED <<nodeSide, redisSide, suspects, clusterStatus, stalls, lates>>

OnlyActive == {n \in Members : cmNodes[n] # NoRecord /\ cmNodes[n].old
                               /\ cmNodes[n].status = "active"}  \* bug
Overdue    == {n \in Members : cmNodes[n] # NoRecord /\ cmNodes[n].old}
CheckNodeHealth ==
  /\ monitor = "check"
  /\ monitor' = "remove" /\ suspects' = Overdue
  /\ UNCHANGED <<nodeSide, redisSide, listed, cmNodes, clusterStatus, stalls, lates>>

\* handleNodeFailure: UnregisterNode of a record read before, then the map. The
\* capability sets are cleaned by the capabilities of that record.
FailureDel(n) ==
  /\ monitor = "remove" /\ n \in suspects
  /\ record' = [record EXCEPT ![n] = NoRecord]
  /\ monitor' = "removed" /\ suspects' = (suspects \ {n}) /\ listed' = {n}
  /\ UNCHANGED <<nodeSide, activeSet, capable, cmNodes, clusterStatus, stalls, lates>>
FailureRem(n) ==
  /\ monitor = "removed" /\ n \in listed
  /\ activeSet' = activeSet \ {n}
  /\ capable' = IF cmNodes[n].named THEN capable \ {n} ELSE capable
  /\ cmNodes' = [cmNodes EXCEPT ![n] = NoRecord]
  /\ monitor' = "remove" /\ listed' = {}
  /\ UNCHANGED <<nodeSide, record, suspects, clusterStatus, stalls, lates>>

UpdateClusterStatus ==
  /\ monitor = "remove" /\ suspects = {}
  /\ monitor' = "idle"
  /\ clusterStatus' =
       IF \E n \in Members : cmNodes[n] # NoRecord /\ cmNodes[n].status = "active"
       THEN "running" ELSE "stopped"  \* MinNodes is 1
  /\ UNCHANGED <<nodeSide, redisSide, listed, cmNodes, suspects, stalls, lates>>

-----------------------------------------------------------------------------
NodeStep(n) == \/ RegisterSet(n) \/ RegisterAdd(n) \/ StopDel(n) \/ StopRem(n)
               \/ BeatGet(n) \/ BeatSet(n)
Monitor     == \/ ListIDs \/ LoadNodes \/ CheckNodeHealth \/ UpdateClusterStatus
               \/ \E n \in Members : FailureDel(n) \/ FailureRem(n)
Ages(n)     == life[n] \in {"down", "crashed"} /\ GrowsOld(n)
Beats(n)    == life[n] = "up" /\ BeatPipe(n)

Next ==
  \/ \E n \in Members : \/ StartMember(n) \/ NodeStep(n) \/ BeatPipe(n)
                        \/ StopMember(n) \/ CrashMember(n) \/ GrowsOld(n)
  \/ Monitor

Fairness ==
  /\ WF_clusterVars(Monitor)
  /\ \A n \in Members : WF_clusterVars(NodeStep(n)) /\ WF_clusterVars(Ages(n))
                        /\ WF_clusterVars(Beats(n))
Spec == Init /\ [][Next]_clusterVars /\ Fairness

-----------------------------------------------------------------------------
(* Properties.                                                             *)

ClusterTypeOK ==
  /\ life \in [Members -> {"off", "register", "added", "confirm", "confirmed", "up",
                           "stopping", "removing", "down", "crashed"}]
  /\ lives \in [Members -> 0..MaxLives]
  /\ record \in [Members -> Record \union {NoRecord}]
  /\ cmNodes \in [Members -> Record \union {NoRecord}]
  /\ got \in [Members -> Record \union {NoRecord}]
  /\ beat \in [Members -> {"idle", "piped", "read"}]
  /\ activeSet \subseteq Members /\ capable \subseteq Members
  /\ listed \subseteq Members /\ suspects \subseteq Members
  /\ monitor \in {"idle", "load", "check", "remove", "removed"}
  /\ clusterStatus \in {"running", "stopped"}
  /\ stalls \in 0..MaxStalls /\ lates \in 0..MaxLates

\* A node that has stopped or crashed for good ends up outside the manager's map
\* (cluster.go:188-224), although its last heartbeats may write its record again
\* after it was removed (registry.go:287-329).
DeadLeave ==
  \A n \in Members :
    <>[](life[n] \in {"down", "crashed"}) => <>[](cmNodes[n] = NoRecord)

\* A node that stays up ends up in the map for good: when it was removed because
\* of late heartbeats, or its new record by a removal meant for the old one, the
\* next heartbeats bring it back (registry.go:296-311).
LivingReturn ==
  \A n \in Members : <>[](life[n] = "up") => <>[](cmNodes[n] # NoRecord)

\* Once the nodes have settled, so does the map that distribution reads: it has
\* the nodes that are up and no others (monitorNodes).
ViewSettles == DeadLeave /\ LivingReturn
=============================================================================
