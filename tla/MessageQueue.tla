---------------------------- MODULE MessageQueue ----------------------------
(***************************************************************************)
(* The RabbitMQ client: one connection that a goroutine watches and dials  *)
(* again, one channel per caller kept by name, a publisher and a consumer. *)
(* The broker keeps one queue; exchanges, options and metrics are left out. *)
(***************************************************************************)
EXTENDS Integers, FiniteSets

CONSTANTS
  Bodies,     \* messages
  MaxDials,   \* connections in a run, at most
  MaxMqFaults \* lost connections and refused declarations in a run, at most

Callers == {"publisher", "consumer", "setup"}   \* names of channels; setup declares and binds
Conns == 0 .. MaxDials                          \* 0 is no connection

VARIABLES
  rqConn, connUp,         \* RabbitMQ.conn, the last connection dialled, and whether it is open
  isConnected, watch,     \* the flag, and where handleReconnect is
  channels, shut,         \* name -> connection of the channel kept; names whose channel is closed
  calling, seen,          \* caller -> step of its GetChannel and the connection it works on
  place,                  \* message -> where the broker has it
  buffer, taken,          \* deliveries that wait at the client, the one the handler has
  loop, loopConn,         \* the consumer's goroutine and the connection of its channel
  left,                   \* connection of a consumer whose goroutine has ended
  did,                    \* messages the handler finished without an error
  mqFaults

mqVars == <<rqConn, connUp, isConnected, watch, channels, shut, calling, seen, place, buffer,
            taken, loop, loopConn, left, did, mqFaults>>
client == <<rqConn, connUp, isConnected, watch>>
kept == <<channels, shut, calling, seen>>
consuming == <<buffer, taken, loop, loopConn, left, did>>

Faulty == mqFaults < MaxMqFaults /\ mqFaults' = mqFaults + 1
IsOpen(c) == connUp /\ c = rqConn

\* connect has dialled, and started handleReconnect.
Init ==
  /\ rqConn = 1 /\ connUp = TRUE /\ isConnected = TRUE /\ watch = "started"
  /\ channels = [c \in Callers |-> 0] /\ shut = {}
  /\ calling = [c \in Callers |-> "idle"] /\ seen = [c \in Callers |-> 0]
  /\ place = [b \in Bodies |-> "new"] /\ buffer = {} /\ taken = {}
  /\ loop = "none" /\ loopConn = 0 /\ left = 0 /\ did = {} /\ mqFaults = 0

\* With the connection go the messages on their way to the broker; those it gave out and
\* that were not acknowledged return to its queue.
Disconnected ==
  /\ connUp' = FALSE
  /\ place' = [b \in Bodies |-> CASE place[b] = "wire" -> "lost"
                                  [] place[b] \in {"unacked", "stuck"} -> "queue"
                                  [] OTHER -> place[b]]

LosesConnection ==
  /\ connUp /\ Faulty /\ Disconnected
  /\ UNCHANGED <<rqConn, isConnected, watch, kept, consuming>>

\* NotifyClose on a connection that is closed already gives a closed channel: the loop ends.
NotifyClose ==
  /\ watch = "started" /\ watch' = IF connUp THEN "watching" ELSE "ended"
  /\ UNCHANGED <<rqConn, connUp, isConnected>>

SeesClose ==
  /\ watch = "watching" /\ ~connUp
  /\ isConnected' = FALSE /\ watch' = "clearing"
  /\ UNCHANGED <<rqConn, connUp>>

\* A dial that fails is tried again for ever.
Redial ==
  /\ watch = "dialing" /\ rqConn < MaxDials
  /\ rqConn' = rqConn + 1 /\ connUp' = TRUE /\ isConnected' = TRUE /\ watch' = "started"

ClearChannels == channels' = [c \in Callers |-> 0] /\ shut' = {}

HandleReconnect ==
  /\ \/ (NotifyClose \/ SeesClose \/ Redial) /\ UNCHANGED <<channels, shut>>
     \/ /\ watch = "clearing" /\ watch' = "dialing" /\ ClearChannels
        /\ UNCHANGED <<rqConn, connUp, isConnected>>
  /\ UNCHANGED <<calling, seen, place, consuming, mqFaults>>

Wants(c) == CASE c = "publisher" -> \E b \in Bodies : place[b] = "new"
              [] c = "consumer" -> loop \in {"none", "ended"}
              [] OTHER -> TRUE

\* GetChannel: the channel kept under the name is used whatever became of it. A caller
\* without one reads conn, opens a channel and keeps it under three separate locks.
GetChannel(c) ==
  /\ \/ /\ calling[c] = "idle" /\ Wants(c) /\ channels[c] # 0
        /\ calling' = [calling EXCEPT ![c] = "using"]
        /\ seen' = [seen EXCEPT ![c] = channels[c]]
        /\ UNCHANGED <<channels, shut>>
     \/ /\ calling[c] = "idle" /\ Wants(c) /\ channels[c] = 0 /\ isConnected
        /\ calling' = [calling EXCEPT ![c] = "opening"]
        /\ seen' = [seen EXCEPT ![c] = rqConn]
        /\ UNCHANGED <<channels, shut>>
     \/ /\ calling[c] = "opening"
        /\ calling' = [calling EXCEPT ![c] = IF IsOpen(seen[c]) THEN "keeping" ELSE "idle"]
        /\ UNCHANGED <<channels, shut, seen>>
     \/ /\ calling[c] = "keeping"
        /\ calling' = [calling EXCEPT ![c] = "using"]
        /\ channels' = [channels EXCEPT ![c] = seen[c]] /\ shut' = shut \ {c}
        /\ UNCHANGED seen
  /\ UNCHANGED <<client, place, consuming, mqFaults>>

\* The caller uses its channel, once.
Use(c) == calling[c] = "using" /\ calling' = [calling EXCEPT ![c] = "idle"]
Usable(c) == IsOpen(seen[c]) /\ c \notin shut

\* Publish succeeds when the message is written, not when the broker has it.
Publish(b) ==
  /\ Use("publisher") /\ place[b] = "new"
  /\ place' = IF Usable("publisher") THEN [place EXCEPT ![b] = "wire"] ELSE place
  /\ UNCHANGED <<client, channels, shut, seen, consuming, mqFaults>>

Arrives(b) ==
  /\ place[b] = "wire" /\ place' = [place EXCEPT ![b] = "queue"]
  /\ UNCHANGED <<client, kept, consuming, mqFaults>>

\* A declaration the broker refuses closes the channel, which stays under its name.
Declare ==
  /\ Use("setup")
  /\ \/ UNCHANGED <<shut, mqFaults>>
     \/ Usable("setup") /\ Faulty /\ shut' = shut \cup {"setup"}
  /\ UNCHANGED <<client, channels, seen, place, consuming>>

Consume ==
  /\ Use("consumer")
  /\ IF Usable("consumer") THEN loop' = "waiting" /\ loopConn' = seen["consumer"] /\ buffer' = {}
     ELSE UNCHANGED <<loop, loopConn, buffer>>
  /\ UNCHANGED <<client, channels, shut, seen, place, taken, left, did, mqFaults>>

\* A bug: auto-ack, the broker forgets what it gives out.
AutoAck(b) == [place EXCEPT ![b] = "gone"]

\* The broker keeps what it gives out until it is acknowledged.
GivenOut(b) == [place EXCEPT ![b] = "unacked"]

\* A consumer whose goroutine ended is never cancelled: it gets deliveries as well.
Deliver(b) ==
  /\ place[b] = "queue"
  /\ \/ /\ loop \notin {"none", "ended"} /\ IsOpen(loopConn)
        /\ place' = GivenOut(b) /\ buffer' = buffer \cup {b}
     \/ /\ IsOpen(left)
        /\ place' = [place EXCEPT ![b] = "stuck"] /\ UNCHANGED buffer
  /\ UNCHANGED <<client, kept, taken, loop, loopConn, left, did, mqFaults>>

TakeDelivery(b) ==
  /\ loop = "waiting" /\ b \in buffer
  /\ loop' = "handling" /\ taken' = {b} /\ buffer' = buffer \ {b}
  /\ UNCHANGED <<client, kept, place, loopConn, left, did, mqFaults>>

Handler ==
  /\ loop = "handling"
  /\ \/ loop' = "done" /\ did' = did \cup taken
     \/ loop' = "failed" /\ UNCHANGED did
  /\ UNCHANGED <<client, kept, place, buffer, taken, loopConn, left, mqFaults>>

\* Ack, or Nack with requeue: on a lost connection they fail, which nobody looks at.
Answer ==
  /\ loop \in {"done", "failed"} /\ loop' = "waiting" /\ taken' = {}
  /\ place' = [b \in Bodies |-> IF b \notin taken \/ ~IsOpen(loopConn) THEN place[b]
                                ELSE IF loop = "done" THEN "gone" ELSE "queue"]
  /\ UNCHANGED <<client, kept, buffer, loopConn, left, did, mqFaults>>

\* ctx.Done, or the deliveries have ended with the connection. Nothing starts the loop again.
LoopEnds ==
  /\ loop = "waiting" /\ loop' = "ended" /\ left' = loopConn /\ buffer' = {}
  /\ place' = [b \in Bodies |-> IF b \in buffer /\ place[b] = "unacked" THEN "stuck" ELSE place[b]]
  /\ UNCHANGED <<client, kept, taken, loopConn, did, mqFaults>>

\* Close does not tell handleReconnect that waits to dial.
Close ==
  /\ ClearChannels
  /\ IF connUp THEN Disconnected /\ isConnected' = FALSE
     ELSE UNCHANGED <<connUp, place, isConnected>>
  /\ watch' = IF connUp /\ watch = "watching" THEN "ended" ELSE watch
  /\ UNCHANGED <<rqConn, calling, seen, consuming, mqFaults>>

Next ==
  \/ LosesConnection \/ HandleReconnect \/ Declare \/ Consume \/ Handler \/ Answer \/ LoopEnds
  \/ Close
  \/ \E c \in Callers : GetChannel(c)
  \/ \E b \in Bodies : Publish(b) \/ Arrives(b) \/ Deliver(b) \/ TakeDelivery(b)

Spec == Init /\ [][Next]_mqVars

-----------------------------------------------------------------------------
\* The type of the state.
MqTypeOK ==
  /\ rqConn \in Conns \ {0} /\ connUp \in BOOLEAN /\ isConnected \in BOOLEAN
  /\ watch \in {"started", "watching", "clearing", "dialing", "ended"}
  /\ channels \in [Callers -> Conns] /\ shut \subseteq Callers
  /\ calling \in [Callers -> {"idle", "opening", "keeping", "using"}]
  /\ seen \in [Callers -> Conns]
  /\ place \in [Bodies -> {"new", "wire", "lost", "queue", "unacked", "stuck", "gone"}]
  /\ buffer \subseteq Bodies /\ taken \subseteq Bodies
  /\ loop \in {"none", "waiting", "handling", "done", "failed", "ended"}
  /\ loopConn \in Conns /\ left \in Conns
  /\ did \subseteq Bodies /\ mqFaults \in 0 .. MaxMqFaults

\* A message the broker has forgotten was handled without an error, and one that waits for an
\* acknowledgement is at a consumer that can still give it: across lost connections, a second
\* consumer on the same channel and handlers that fail (the loop in Consume).
NothingForgotten ==
  \A b \in Bodies :
    /\ place[b] = "gone" => b \in did
    /\ place[b] = "unacked" => IsOpen(loopConn) /\ b \in buffer \cup taken /\ loop # "ended"

=============================================================================
