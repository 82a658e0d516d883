------------------------------ MODULE Commands ------------------------------
(***************************************************************************)
(* Commands to one node over its connection: ExecuteCommand, which waits   *)
(* for a response, and the messages that viewers and the hub only send     *)
(* (crawler/communication/hub.go, connection.go, helpers.go), the node's   *)
(* end of them (crawler/distributed/client.go), and a connection that is   *)
(* closed meanwhile. Each caller makes one call; its name is the ID of its *)
(* request.                                                                *)
(***************************************************************************)
EXTENDS Naturals, Sequences, FiniteSets

CONSTANTS
  Callers,
  SendCapacity,  \* capacity of sendCh
  Answers        \* does the program at the node's end answer requests?

VARIABLES
  kind,        \* what each caller calls: "execute" or "tell"
  callAt,      \* where its call is
  result,      \* what the call returned
  connected, stopped,  \* NodeConnection.connected; is stopCh closed?
  closing,     \* is a Close between stopCh and the pending requests?
  sendCh, sendLoop, streamUp,
  pending,     \* keys of pendingRequests
  respCh,      \* the channel each request waits on: "open", "closed"
  answered,    \* requests whose channel holds the response
  toNode,      \* messages on the stream to the node
  carriedOut,  \* calls whose command the node has carried out
  toHub,       \* responses on their way
  responding,  \* request handleResponse has looked up, "none" if none
  stored,      \* has it sent to the channel?
  reading,     \* is HandleMessages running?
  hubDead      \* has a panic ended the hub?

cmdVars == <<kind, callAt, result, connected, stopped, closing, sendCh, sendLoop, streamUp, pending,
             respCh, answered, toNode, carriedOut, toHub, responding, stored, reading, hubDead>>
conn == <<connected, stopped, closing, sendLoop, streamUp, reading>>
node == <<toNode, carriedOut, toHub>>
response == <<responding, stored>>

Init ==
  /\ kind \in [Callers -> {"execute", "tell"}]
  /\ callAt = [c \in Callers |-> "idle"]
  /\ result = [c \in Callers |-> "none"]
  /\ connected = TRUE /\ stopped = FALSE /\ closing = FALSE
  /\ sendCh = <<>> /\ sendLoop = "on" /\ streamUp = TRUE
  /\ pending = {} /\ respCh = [c \in Callers |-> "open"] /\ answered = {}
  /\ toNode = <<>> /\ carriedOut = {} /\ toHub = {}
  /\ responding = "none" /\ stored = FALSE /\ reading = TRUE /\ hubDead = FALSE

Goto(c, l) == callAt' = [callAt EXCEPT ![c] = l]
Return(c, r) == Goto(c, "done") /\ result' = [result EXCEPT ![c] = r]

-----------------------------------------------------------------------------
(* The callers.                                                            *)

\* SendWithResponse makes a request of its own, which asks for the node's status;
\* the command in msg is not part of it. The others send what they are given.
MessageOf(c) == [call |-> c, type |-> IF kind[c] = "execute" THEN "request" ELSE "command"]

Call(c) ==
  /\ callAt[c] = "idle"
  /\ \/ kind[c] = "tell" /\ Goto(c, "send") /\ UNCHANGED result
     \/ kind[c] = "execute" /\ connected /\ Goto(c, "register") /\ UNCHANGED result
     \/ kind[c] = "execute" /\ ~connected /\ Return(c, "refused")
  /\ UNCHANGED <<kind, conn, sendCh, pending, respCh, answered, node, response, hubDead>>

Register(c) ==
  /\ callAt[c] = "register"
  /\ pending' = pending \union {c}
  /\ Goto(c, "send")
  /\ UNCHANGED <<kind, result, conn, sendCh, respCh, answered, node, response, hubDead>>

\* Send: an error when the connection is down or the channel stays full for five
\* seconds. A request that could not be sent is forgotten.
NotSent(c) == IF kind[c] = "execute" THEN Goto(c, "forget") /\ UNCHANGED result
                                     ELSE Return(c, "refused")
Send(c) ==
  /\ callAt[c] = "send"
  /\ IF connected /\ Len(sendCh) < SendCapacity
     THEN /\ sendCh' = Append(sendCh, MessageOf(c))
          /\ IF kind[c] = "execute" THEN Goto(c, "wait") /\ UNCHANGED result
                                    ELSE Return(c, "sent")
     ELSE NotSent(c) /\ UNCHANGED sendCh
  /\ UNCHANGED <<kind, conn, pending, respCh, answered, node, response, hubDead>>

\* The response, or nil from a closed channel, whose fields ExecuteCommand reads.
Receive(c) ==
  /\ callAt[c] = "wait"
  /\ \/ /\ c \in answered
        /\ answered' = answered \ {c}
        /\ Return(c, "answered") /\ UNCHANGED hubDead
     \/ /\ c \notin answered /\ respCh[c] = "closed"
        /\ hubDead' = TRUE /\ UNCHANGED <<callAt, result, answered>>
  /\ UNCHANGED <<kind, conn, sendCh, pending, respCh, node, response>>

\* After ten seconds, or when the caller's context ends.
TimeOutKeeps(c) ==  \* bug: the entry stays
  /\ callAt[c] = "wait"
  /\ Return(c, "timeout")
  /\ UNCHANGED <<kind, conn, sendCh, pending, respCh, answered, node, response, hubDead>>
TimeOut(c) ==
  /\ callAt[c] = "wait"
  /\ Goto(c, "forget")
  /\ UNCHANGED <<kind, result, conn, sendCh, pending, respCh, answered, node, response, hubDead>>
Forget(c) ==
  /\ callAt[c] = "forget"
  /\ pending' = pending \ {c}
  /\ Return(c, "error")
  /\ UNCHANGED <<kind, conn, sendCh, respCh, answered, node, response, hubDead>>

-----------------------------------------------------------------------------
(* The connection's loops.                                                 *)

\* A failing stream ends the loop, which marks the connection as not connected.
SendNext ==
  /\ sendLoop = "on" /\ sendCh # <<>>
  /\ sendCh' = Tail(sendCh)
  /\ IF streamUp
     THEN toNode' = Append(toNode, Head(sendCh)) /\ UNCHANGED <<sendLoop, connected>>
     ELSE sendLoop' = "off" /\ connected' = FALSE /\ UNCHANGED toNode
  /\ UNCHANGED <<kind, callAt, result, stopped, closing, streamUp, reading, pending, respCh,
                 answered, carriedOut, toHub, response, hubDead>>
SendLoopEnds ==
  /\ sendLoop = "on" /\ stopped
  /\ sendLoop' = "off"
  /\ UNCHANGED <<kind, callAt, result, connected, stopped, closing, sendCh, streamUp, reading,
                 pending, respCh, answered, node, response, hubDead>>

\* Close, by the reader at its end, by the heartbeat checker, by a newer connection
\* of the node: nothing to do when the connection is marked as not connected.
StartClose ==
  /\ connected
  /\ connected' = FALSE /\ stopped' = TRUE /\ closing' = TRUE
  /\ UNCHANGED <<kind, callAt, result, sendCh, sendLoop, streamUp, reading, pending, respCh,
                 answered, node, response, hubDead>>
CloseRequests ==
  /\ closing
  /\ respCh' = [c \in Callers |-> IF c \in pending THEN "closed" ELSE respCh[c]]
  /\ pending' = {} /\ closing' = FALSE
  /\ UNCHANGED <<kind, callAt, result, connected, stopped, sendCh, sendLoop, streamUp, reading,
                 answered, node, response, hubDead>>

\* handleResponse: the channel is looked up under the lock and used without it.
\* A send to a closed channel panics; then the entry is deleted.
LookUp ==
  /\ reading /\ responding = "none"
  /\ \E c \in toHub :
       /\ toHub' = toHub \ {c}
       /\ responding' = (IF c \in pending THEN c ELSE "none")
  /\ UNCHANGED <<kind, callAt, result, conn, sendCh, pending, respCh, answered, toNode, carriedOut,
                 stored, hubDead>>
StoreResponse ==
  /\ responding # "none" /\ ~stored
  /\ IF respCh[responding] = "closed"
     THEN hubDead' = TRUE /\ UNCHANGED <<answered, stored>>
     ELSE answered' = answered \union {responding} /\ stored' = TRUE /\ UNCHANGED hubDead
  /\ UNCHANGED <<kind, callAt, result, conn, sendCh, pending, respCh, node, responding>>
EndResponse ==
  /\ responding # "none" /\ stored
  /\ pending' = pending \ {responding}
  /\ responding' = "none" /\ stored' = FALSE
  /\ UNCHANGED <<kind, callAt, result, conn, sendCh, respCh, answered, node, hubDead>>

\* HandleMessages: a closed connection or a broken stream ends it, with a Close.
ReaderEnds ==
  /\ reading /\ responding = "none" /\ (stopped \/ ~streamUp)
  /\ reading' = FALSE
  /\ connected' = FALSE /\ stopped' = (stopped \/ connected) /\ closing' = (closing \/ connected)
  /\ UNCHANGED <<kind, callAt, result, sendCh, sendLoop, streamUp, pending, respCh, answered, node,
                 response, hubDead>>

-----------------------------------------------------------------------------
(* The node. Each message is handled by a goroutine of its own, in no      *)
(* order. The client of the repository carries out a command, logs what it *)
(* would answer, and does not know the message of a request; another       *)
(* program could answer that.                                              *)
HandleMessage ==
  /\ \E i \in DOMAIN toNode :
       LET m == toNode[i]
       IN  /\ toNode' = SubSeq(toNode, 1, i - 1) \o SubSeq(toNode, i + 1, Len(toNode))
           /\ carriedOut' = carriedOut \union (IF m.type = "command" THEN {m.call} ELSE {})
           /\ toHub' = toHub \union (IF Answers /\ m.type = "request" THEN {m.call} ELSE {})
  /\ UNCHANGED <<kind, callAt, result, conn, sendCh, pending, respCh, answered, response, hubDead>>

Break ==
  /\ streamUp
  /\ streamUp' = FALSE /\ toNode' = <<>> /\ toHub' = {}
  /\ UNCHANGED <<kind, callAt, result, connected, stopped, closing, sendCh, sendLoop, reading,
                 pending, respCh, answered, carriedOut, response, hubDead>>

-----------------------------------------------------------------------------
Caller(c) == Call(c) \/ Register(c) \/ Send(c) \/ Receive(c) \/ TimeOut(c) \/ Forget(c)
Connection == SendNext \/ SendLoopEnds \/ StartClose \/ CloseRequests \/ LookUp \/ StoreResponse
              \/ EndResponse \/ ReaderEnds
Next == ~hubDead /\ (\/ \E c \in Callers : Caller(c)
                     \/ Connection \/ HandleMessage \/ Break)

Spec == Init /\ [][Next]_cmdVars

-----------------------------------------------------------------------------
(* Properties.                                                             *)

CmdTypeOK ==
  /\ kind \in [Callers -> {"execute", "tell"}]
  /\ callAt \in [Callers -> {"idle", "register", "send", "wait", "forget", "done"}]
  /\ result \in [Callers -> {"none", "refused", "sent", "answered", "error"}]
  /\ {connected, stopped, closing, streamUp, stored, reading, hubDead} \subseteq BOOLEAN
  /\ Len(sendCh) <= SendCapacity /\ sendLoop \in {"on", "off"}
  /\ pending \subseteq Callers /\ respCh \in [Callers -> {"open", "closed"}]
  /\ answered \subseteq Callers /\ carriedOut \subseteq Callers /\ toHub \subseteq Callers
  /\ responding \in Callers \union {"none"}

\* Whatever ends a call - a response, a timeout, a send that fails, a Close that
\* replaces the whole map while requests are registered and answered
\* (connection.go:260-267, 328-353, 477-482) - no entry of pendingRequests outlives
\* it, except while handleResponse is about to delete it; and a caller still waiting
\* on an open channel of a connection that is not being closed has its entry, so that
\* an answer finds it.
RequestsOwned ==
  /\ \A c \in pending : callAt[c] \in {"send", "wait", "forget"} \/ responding = c
  /\ \A c \in Callers :
       callAt[c] = "wait" /\ respCh[c] = "open" => c \in pending \union answered

\* "发送命令消息" (hub.go:299, "send the command message"): the message that
\* ExecuteCommand puts on the connection carries the command.
CommandIsSent == \A i \in DOMAIN toNode : toNode[i].type = "command"
=============================================================================
