------------------------------- MODULE MCHub -------------------------------
(***************************************************************************)
(* The safety of a node's workers under pauses and stops, and of what      *)
(* joins nodes and viewers to the hub: the node's link, the calls over one *)
(* connection, the viewers, and the batch counter of the results. The      *)
(* components share no state, so that a behaviour of all of them together  *)
(* is a behaviour of each; the run explores them one at a time: part says  *)
(* which one moves. Tasks and workers are interchangeable, and nothing     *)
(* here is a liveness property.                                            *)
(***************************************************************************)
EXTENDS NodeWorkers, TLC

CONSTANTS MaxStreams, MaxLinkFaults, MaxAsks, StopsNode
CONSTANTS Callers, SendCapacity, Answers
CONSTANTS Viewers, News, ViewCapacity, MaxHubStarts
CONSTANTS BatchTasks, MaxReports

ASSUME LinkBounds == MaxStreams \in Nat /\ MaxLinkFaults \in Nat /\ MaxAsks \in Nat
\* The names of nobody are no names.
ASSUME CallBounds == SendCapacity \in Nat /\ "none" \notin Callers
ASSUME ViewBounds == /\ ViewCapacity \in Nat /\ MaxHubStarts \in Nat
                     /\ {"free", "nobody", "cleaner"} \intersect Viewers = {}
ASSUME BatchBounds == MaxReports \in Nat

VARIABLES
  part,
  nodeStatus, connected, stream, noticing, halted, dialing, opening, finishing,
  recvOn, heartbeats, wire, toHub, nodes, handler, open, stopped, expired, asked,
  linkFaults, asks,
  kind, callAt, reply, connUp, connStopped, closing, sendCh, sendLoop, streamUp, requests,
  respCh, answered, toNode, carriedOut, responses, responding, stored, reading, hubDead,
  active, at, viewLoop, handlers, eventCh, updateCh, invoked, shown, missed, viewers,
  clientsMu, cleaner, hubRunning, hubStopped, hubStarts, told,
  reports, aggregating, counted, processed, expiring, expiredOnce, completions

linkPart == <<nodeStatus, connected, stream, noticing, halted, dialing, opening, finishing,
  recvOn, heartbeats, wire, toHub, nodes, handler, open, stopped, expired, asked,
  linkFaults, asks>>
callPart == <<kind, callAt, reply, connUp, connStopped, closing, sendCh, sendLoop, streamUp,
  requests, respCh, answered, toNode, carriedOut, responses, responding, stored, reading, hubDead>>
viewerPart == <<active, at, viewLoop, handlers, eventCh, updateCh, invoked, shown, missed, viewers,
  clientsMu, cleaner, hubRunning, hubStopped, hubStarts, told>>
batchPart == <<reports, aggregating, counted, processed, expiring, expiredOnce, completions>>

Link == INSTANCE HubLink
Calls == INSTANCE Commands WITH result <- reply, connected <- connUp, stopped <- connStopped,
                                pending <- requests, toHub <- responses
\* Every viewer has an ID of its own.
Views == INSTANCE Viewers WITH IdOf <- [v \in Viewers |-> v]
Batch == INSTANCE BatchAggregator

HubInit ==
  /\ part \in {"worker", "link", "calls", "viewers", "batch"}
  /\ Init /\ Link!Init /\ Views!Init /\ Batch!Init
  /\ Calls!Init /\ (part # "calls" => kind = [c \in Callers |-> "tell"])

\* The part that moves, and everything else as it is.
Still(p, itsVars) == IF part = p THEN TRUE ELSE UNCHANGED itsVars
Frame == /\ UNCHANGED part
         /\ Still("worker", vars) /\ Still("link", linkPart) /\ Still("calls", callPart)
         /\ Still("viewers", viewerPart) /\ Still("batch", batchPart)

HubNext == \/ part = "worker" /\ Frame /\ Next
           \/ part = "link" /\ Frame /\ Link!Next
           \/ part = "calls" /\ Frame /\ Calls!Next
           \/ part = "viewers" /\ Frame /\ Views!Next
           \/ part = "batch" /\ Frame /\ Batch!Next

HubSpec == HubInit /\ [][HubNext]_<<part, vars, linkPart, callPart, viewerPart, batchPart>>

Symmetry == Permutations(Tasks) \union Permutations(Workers)

-----------------------------------------------------------------------------
\* The types of the states of the component that moves; the others are as they began.
TypesOK == CASE part = "worker"  -> TypeOK
             [] part = "link"    -> Link!LinkTypeOK
             [] part = "calls"   -> Calls!CmdTypeOK
             [] part = "viewers" -> Views!ViewTypeOK
             [] part = "batch"   -> Batch!BatchTypeOK

\* See the modules for what these say; OnePlace is NodeWorkers' own.
StreamsOwned  == part = "link" => Link!StreamsOwned
RequestsOwned == part = "calls" => Calls!RequestsOwned
NoSelfWait    == part = "viewers" => Views!NoSelfWait
OneCompletion == part = "batch" => Batch!OneCompletion
=============================================================================
