------------------------------ MODULE HubLink ------------------------------
(***************************************************************************)
(* One node's connection to the communication hub: the gRPC client of the  *)
(* node (crawler/distributed/client.go), and the connection table and      *)
(* connection handlers of the hub (crawler/communication/hub.go and        *)
(* connection.go).                                                         *)
(*                                                                         *)
(* Every stream the client opens has a number. On the node run the thread  *)
(* that dials, a receive loop and a heartbeat loop per Connect, which all  *)
(* share the fields stream and connected; on the hub one handler per       *)
(* stream, its send loop, the heartbeat checker and the cleanup task,      *)
(* which share the table. A step is what happens between two blocking      *)
(* calls or lock regions.                                                  *)
(***************************************************************************)
EXTENDS Integers, FiniteSets

CONSTANTS
  MaxStreams,     \* bound on streams the client opens
  MaxLinkFaults,  \* bound on broken streams, hub crashes and refused dials
  MaxAsks,        \* bound on commands sent with ExecuteCommand
  StopsNode       \* may the node be stopped?

VARIABLES
  nodeStatus,  \* Node.Status, as far as the link changes it
  connected,   \* NodeClient.connected
  stream,      \* NodeClient.stream, 0 before the first
  noticing,    \* handleDisconnect calls between their test and updateStatus
  halted,      \* has Node.Stop cancelled the context and closed stopChan?
  dialing,     \* dialling threads without a stream, per kind
  opening,     \* dialling threads with a stream, before register()
  finishing,   \* threads whose Connect returned, before they set the status
  recvOn,      \* receive loops blocked in Recv, per stream
  heartbeats,  \* is there a heartbeat loop? Each Connect starts one more
  wire,        \* state of each stream
  toHub,       \* streams with a message of the node on the way
  nodes,       \* hub.nodes[nodeID], 0 if there is none
  handler,     \* where the hub's handler of a stream is
  open,        \* NodeConnection.connected
  stopped,     \* streams whose connection has a closed stopCh
  expired,     \* connection checkHeartbeats is about to unregister, 0 if none
  asked,       \* connection on which ExecuteCommand waits, 0 if none
  linkFaults, asks

clientVars == <<nodeStatus, connected, stream, noticing, halted, dialing, opening,
                finishing, recvOn, heartbeats>>
hubVars    == <<nodes, handler, open, stopped, expired, asked>>
vars       == <<clientVars, wire, toHub, hubVars, linkFaults, asks>>

Streams == 1..MaxStreams
Kinds   == {"start", "reconnect"}  \* Node.Start's own Connect, and reconnect()

Init ==
  /\ nodeStatus = "starting" /\ connected = FALSE /\ stream = 0
  /\ noticing = 0 /\ halted = FALSE
  /\ dialing = [k \in Kinds |-> IF k = "start" THEN 1 ELSE 0]
  /\ opening = {} /\ finishing = [k \in Kinds |-> 0]
  /\ recvOn = [s \in Streams |-> 0] /\ heartbeats = FALSE
  /\ wire = [s \in Streams |-> "unused"] /\ toHub = {}
  /\ nodes = 0 /\ handler = [s \in Streams |-> "none"]
  /\ open = {} /\ stopped = {}
  /\ expired = 0 /\ asked = 0
  /\ linkFaults = 0 /\ asks = 0

-----------------------------------------------------------------------------
(* The client.                                                             *)

\* Connect up to the new stream; the field is overwritten, the old stream and
\* connection are left as they are.
Open(k) ==
  /\ dialing[k] > 0 /\ ~halted
  /\ stream < MaxStreams
  /\ stream' = stream + 1
  /\ wire' = [wire EXCEPT ![stream + 1] = "open"]
  /\ opening' = opening \union {[kind |-> k, on |-> stream + 1]}
  /\ dialing' = [dialing EXCEPT ![k] = @ - 1]
  /\ UNCHANGED <<nodeStatus, connected, noticing, halted, finishing, recvOn, heartbeats,
                 toHub, hubVars, linkFaults, asks>>

\* register() on the shared field, then connected, then the two loops. Nothing
\* waits for the hub's acknowledgement.
Registered(o) ==
  /\ o \in opening
  /\ wire[stream] = "open"
  /\ opening' = opening \ {o}
  /\ toHub' = toHub \union {stream}
  /\ connected' = TRUE
  /\ recvOn' = [recvOn EXCEPT ![stream] = @ + 1]
  /\ heartbeats' = TRUE
  /\ finishing' = [finishing EXCEPT ![o.kind] = @ + 1]
  /\ UNCHANGED <<nodeStatus, stream, noticing, halted, dialing, wire, hubVars,
                 linkFaults, asks>>

\* Connect returned nil: reconnect sets the status, whatever it is, and so does
\* Start.
SetActive(k) ==
  /\ finishing[k] > 0
  /\ finishing' = [finishing EXCEPT ![k] = @ - 1]
  /\ nodeStatus' = "active"
  /\ UNCHANGED <<connected, stream, noticing, halted, dialing, opening, recvOn,
                 heartbeats, wire, toHub, hubVars, linkFaults, asks>>

\* register() failed: the stream is closed. reconnect tries again; Start logs
\* the error and goes on without a hub.
RegisterFails(o) ==
  /\ o \in opening
  /\ wire[stream] = "broken"
  /\ opening' = opening \ {o}
  /\ wire' = [wire EXCEPT ![o.on] = "broken"]
  /\ IF o.kind = "reconnect"
     THEN dialing' = [dialing EXCEPT !["reconnect"] = @ + 1] /\ UNCHANGED nodeStatus
     ELSE nodeStatus' = "active" /\ UNCHANGED dialing
  /\ UNCHANGED <<connected, stream, noticing, halted, finishing, recvOn, heartbeats,
                 toHub, hubVars, linkFaults, asks>>

\* Start cannot reach the hub, and goes on without it.
StartAlone ==
  /\ linkFaults < MaxLinkFaults
  /\ dialing["start"] > 0
  /\ dialing' = [dialing EXCEPT !["start"] = @ - 1]
  /\ nodeStatus' = "active"
  /\ linkFaults' = linkFaults + 1
  /\ UNCHANGED <<connected, stream, noticing, halted, opening, finishing, recvOn,
                 heartbeats, wire, toHub, hubVars, asks>>

\* handleDisconnect, under connMu: only the caller that finds connected set goes
\* on, to updateStatus (which waits while Start holds the node) and reconnect.
NoticeAlways == connected' = FALSE /\ noticing' = noticing + 1  \* bug: no test
HandleDisconnect ==
  /\ connected' = FALSE
  /\ noticing' = IF connected THEN noticing + 1 ELSE noticing

Reconnect ==
  /\ noticing > 0 /\ nodeStatus # "starting"
  /\ noticing' = noticing - 1
  /\ nodeStatus' = "disconnected"
  /\ dialing' = [dialing EXCEPT !["reconnect"] = @ + 1]
  /\ UNCHANGED <<connected, stream, halted, opening, finishing, recvOn, heartbeats,
                 wire, toHub, hubVars, linkFaults, asks>>

\* reconnect sees stopChan closed.
ReconnectEnds ==
  /\ halted /\ dialing["reconnect"] > 0
  /\ dialing' = [dialing EXCEPT !["reconnect"] = @ - 1]
  /\ UNCHANGED <<nodeStatus, connected, stream, noticing, halted, opening, finishing,
                 recvOn, heartbeats, wire, toHub, hubVars, linkFaults, asks>>

\* Recv fails on the stream it was called on, which need not be the field's.
ReceiveFails(s) ==
  /\ recvOn[s] > 0
  /\ wire[s] = "broken"
  /\ recvOn' = [recvOn EXCEPT ![s] = @ - 1]
  /\ HandleDisconnect
  /\ UNCHANGED <<nodeStatus, stream, halted, dialing, opening, finishing, heartbeats,
                 wire, toHub, hubVars, linkFaults, asks>>

\* A message of the hub; the loop then calls Recv on the field.
Receive(s) ==
  /\ recvOn[s] > 0 /\ stream # s
  /\ wire[s] = "open" /\ s \in open /\ nodes = s
  /\ recvOn' = [[recvOn EXCEPT ![s] = @ - 1] EXCEPT ![stream] = @ + 1]
  /\ UNCHANGED <<nodeStatus, connected, stream, noticing, halted, dialing, opening,
                 finishing, heartbeats, wire, toHub, hubVars, linkFaults, asks>>

\* sendHeartbeat of any of the loops.
SendHeartbeat ==
  /\ heartbeats /\ connected
  /\ IF wire[stream] = "open"
     THEN toHub' = toHub \union {stream} /\ UNCHANGED <<connected, noticing>>
     ELSE HandleDisconnect /\ UNCHANGED toHub
  /\ UNCHANGED <<nodeStatus, stream, halted, dialing, opening, finishing, recvOn,
                 heartbeats, wire, hubVars, linkFaults, asks>>

\* Node.Stop, which holds the node: Disconnect cancels the context of every
\* stream and every loop.
StopNode ==
  /\ StopsNode
  /\ nodeStatus # "starting" /\ ~halted
  /\ nodeStatus' = "stopped" /\ halted' = TRUE
  /\ connected' = FALSE
  /\ heartbeats' = FALSE
  /\ wire' = [s \in Streams |-> IF wire[s] = "open" THEN "broken" ELSE wire[s]]
  /\ UNCHANGED <<stream, noticing, dialing, opening, finishing, recvOn, toHub, hubVars,
                 linkFaults, asks>>

-----------------------------------------------------------------------------
(* The hub.                                                                *)

\* Close: nothing unless the connection is still marked connected.
Closing(c) ==
  /\ open' = open \ {c}
  /\ stopped' = IF c \in open THEN stopped \union {c} ELSE stopped

\* unregisterNode goes by the node's ID: it takes whichever connection is there.
Unregister ==
  IF nodes = 0 THEN UNCHANGED <<nodes, open, stopped>>
               ELSE nodes' = 0 /\ Closing(nodes)

\* The registration message arrives: NewNodeConnection, then registerNode,
\* which closes the node's former connection, under the lock.
RegisterKeepsOld(s) == nodes' = s /\ open' = open \union {s} /\ UNCHANGED stopped  \* bug
RegisterNode(s) ==
  /\ nodes' = s
  /\ open' = (open \union {s}) \ {nodes}
  /\ stopped' = stopped \union ({nodes} \intersect open)
Accept(s) ==
  /\ handler[s] = "none" /\ s \in toHub
  /\ toHub' = toHub \ {s}
  /\ handler' = [handler EXCEPT ![s] = "registered"]
  /\ RegisterNode(s)
  /\ UNCHANGED <<clientVars, wire, expired, asked, linkFaults, asks>>

\* The end of Connect: its connection is forgotten, and with the return the
\* stream ends.
Ends(s) == /\ handler' = [handler EXCEPT ![s] = "gone"]
           /\ wire' = [wire EXCEPT ![s] = "broken"]
           /\ toHub' = toHub \ {s}

\* The acknowledgement is sent, or the handler unregisters the node and ends.
Acknowledge(s) ==
  /\ handler[s] = "registered"
  /\ IF wire[s] = "open"
     THEN /\ handler' = [handler EXCEPT ![s] = "serving"]
          /\ UNCHANGED <<nodes, open, stopped, wire, toHub>>
     ELSE Unregister /\ Ends(s)
  /\ UNCHANGED <<clientVars, expired, asked, linkFaults, asks>>

\* HandleMessages: it looks at stopCh and the context only before a Recv, so a
\* closed connection stays there until one more message arrives. What ends the
\* loop runs the deferred Close.
HandleMessages(s) ==
  /\ handler[s] = "serving"
  /\ \/ /\ s \in toHub
        /\ toHub' = toHub \ {s}
     \/ /\ wire[s] = "broken" /\ s \notin toHub
        /\ UNCHANGED toHub
  /\ IF s \in stopped \/ wire[s] = "broken"
     THEN handler' = [handler EXCEPT ![s] = "closing"] /\ Closing(s)
     ELSE UNCHANGED <<handler, open, stopped>>
  /\ UNCHANGED <<clientVars, wire, nodes, expired, asked, linkFaults, asks>>

\* The deferred function of Connect goes by the node's ID.
Leave(s) ==
  /\ handler[s] = "closing"
  /\ Unregister /\ Ends(s)
  /\ UNCHANGED <<clientVars, expired, asked, linkFaults, asks>>

\* sendLoop has a message for a broken stream: connected is cleared, and with
\* it Close's effect; stopCh stays open.
SendLoopFails(s) ==
  /\ s \in open /\ handler[s] = "serving"
  /\ wire[s] = "broken"
  /\ open' = open \ {s}
  /\ UNCHANGED <<clientVars, wire, toHub, nodes, handler, stopped, expired, asked,
                 linkFaults, asks>>

\* checkHeartbeats works on a copy of the table, and unregisters by node ID. A
\* heartbeat is too old when the client is not sending on that stream.
FindExpired ==
  /\ expired = 0 /\ nodes # 0 /\ nodes \notin toHub
  /\ ~(connected /\ stream = nodes)
  /\ expired' = nodes
  /\ UNCHANGED <<clientVars, wire, toHub, nodes, handler, open, stopped, asked,
                 linkFaults, asks>>
Expire ==
  /\ expired # 0
  /\ expired' = 0
  /\ Unregister
  /\ UNCHANGED <<clientVars, wire, toHub, handler, asked, linkFaults, asks>>

\* cleanup: an entry whose connection is not connected is deleted.
Cleanup ==
  /\ nodes # 0 /\ nodes \notin open
  /\ nodes' = 0
  /\ UNCHANGED <<clientVars, wire, toHub, handler, open, stopped, expired,
                 asked, linkFaults, asks>>

\* ExecuteCommand sends a request and waits. No node of this repository answers
\* a request, so the wait ends with the timeout, or because Close closed the
\* channel: then the response is nil and its use ends the process (HubDies).
Ask ==
  /\ asks < MaxAsks /\ asked = 0
  /\ nodes # 0 /\ nodes \in open
  /\ asked' = nodes /\ asks' = asks + 1
  /\ UNCHANGED <<clientVars, wire, toHub, nodes, handler, open, stopped,
                 expired, linkFaults>>
AskTimeout ==
  /\ asked # 0 /\ asked \notin stopped
  /\ asked' = 0
  /\ UNCHANGED <<clientVars, wire, toHub, nodes, handler, open, stopped,
                 expired, linkFaults, asks>>

-----------------------------------------------------------------------------
(* Faults.                                                                 *)

Break(s) ==
  /\ linkFaults < MaxLinkFaults
  /\ wire[s] = "open"
  /\ wire' = [wire EXCEPT ![s] = "broken"]
  /\ linkFaults' = linkFaults + 1
  /\ UNCHANGED <<clientVars, toHub, hubVars, asks>>

\* The hub process ends and starts again with an empty table.
HubEnds ==
  /\ wire' = [s \in Streams |-> IF wire[s] = "open" THEN "broken" ELSE wire[s]]
  /\ toHub' = {}
  /\ nodes' = 0
  /\ handler' = [s \in Streams |-> IF wire[s] = "unused" THEN "none" ELSE "gone"]
  /\ open' = {} /\ stopped' = {}
  /\ expired' = 0 /\ asked' = 0
HubCrash == /\ linkFaults < MaxLinkFaults
            /\ linkFaults' = linkFaults + 1
            /\ HubEnds
            /\ UNCHANGED <<clientVars, asks>>
HubDies  == /\ asked # 0 /\ asked \in stopped
            /\ HubEnds
            /\ UNCHANGED <<clientVars, linkFaults, asks>>

-----------------------------------------------------------------------------
\* What goes on by itself: threads that are not blocked, and time.
Client    == \/ \E k \in Kinds : Open(k) \/ SetActive(k)
             \/ \E o \in opening : Registered(o) \/ RegisterFails(o)
             \/ Reconnect \/ ReconnectEnds
             \/ \E s \in Streams : ReceiveFails(s)
Handle(s) == Accept(s) \/ Acknowledge(s) \/ HandleMessages(s) \/ Leave(s)
Checks    == FindExpired \/ Expire \/ Cleanup \/ AskTimeout \/ HubDies
             \/ \E s \in Streams : SendLoopFails(s)

Next ==
  \/ Client \/ SendHeartbeat \/ Checks
  \/ \E s \in Streams : Handle(s) \/ Receive(s) \/ Break(s)
  \/ StartAlone \/ StopNode \/ Ask \/ HubCrash

Spec == Init /\ [][Next]_vars

-----------------------------------------------------------------------------
(* Properties.                                                             *)

LinkTypeOK ==
  /\ nodeStatus \in {"starting", "active", "disconnected", "stopped"}
  /\ connected \in BOOLEAN /\ stream \in 0..MaxStreams
  /\ noticing \in Nat /\ halted \in BOOLEAN
  /\ dialing \in [Kinds -> Nat] /\ finishing \in [Kinds -> Nat]
  /\ opening \subseteq [kind : Kinds, on : Streams]
  /\ recvOn \in [Streams -> Nat] /\ heartbeats \in BOOLEAN
  /\ wire \in [Streams -> {"unused", "open", "broken"}]
  /\ handler \in [Streams -> {"none", "registered", "serving", "closing", "gone"}]
  /\ toHub \subseteq Streams /\ open \subseteq Streams /\ stopped \subseteq Streams
  /\ nodes \in 0..MaxStreams /\ expired \in 0..MaxStreams /\ asked \in 0..MaxStreams
  /\ linkFaults \in 0..MaxLinkFaults /\ asks \in 0..MaxAsks

\* The test of connected in handleDisconnect (client.go:619-622) hands the link
\* from thread to thread: stream and conn have no lock, and never two threads
\* dial; and a client that was linked once and is not now always has the thread
\* that will dial again, whichever loops noticed the break, unless it was stopped.
OneDialer ==
  LET n == noticing + dialing["start"] + dialing["reconnect"] + Cardinality(opening)
  IN  /\ n <= 1
      /\ connected => n = 0
      /\ heartbeats /\ ~connected => n = 1

\* A connection that is served and marked connected is the one the table leads
\* to: whatever handler, checker or cleanup takes a connection out of the table
\* has closed it (hub.go:321-354, 399), so no node holds a link nobody can send on.
NoOrphan == \A s \in open : handler[s] # "closing" /\ nodes = s

\* Each end of the link has one owner of its streams: the client one thread that
\* dials (client.go:619-622), the hub one connection that the table leads to
\* (hub.go:321-354).
StreamsOwned == OneDialer /\ NoOrphan
=============================================================================
