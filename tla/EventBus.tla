------------------------------ MODULE EventBus -----------------------------
(***************************************************************************)
(* The event bus of the hub (crawler/communication/eventbus.go). Publish   *)
(* puts an event on a bounded channel and, in a thread of its own, on a    *)
(* Redis channel to which the bus itself subscribes. Two loops receive     *)
(* from the bounded channel: one calls the handlers, the other collects    *)
(* events for the history in Redis; each event goes to one of them. A      *)
(* third loop handles what comes back from Redis.                          *)
(***************************************************************************)
EXTENDS Naturals, Sequences, FiniteSets

CONSTANTS
  Events,         \* the events that are published, each once
  StreamSize,     \* capacity of eventStream (1000)
  BatchLimit,     \* events written to the history at a time (100)
  MaxBusFaults    \* bound on Redis commands that fail

VARIABLES
  running,      \* EventBus.running
  busStopped,   \* is stopCh closed?
  loops,        \* running loops
  eventStream,  \* the bounded channel
  emitted,      \* events published
  toRedis,      \* events whose publishToRedis thread is under way
  echoes,       \* events in the subscription's channel
  batch,        \* the persist loop's slice
  handled,      \* events given to handlers from eventStream
  echoed,       \* events given to handlers from Redis
  history,      \* events in the sorted sets
  overflowed,   \* events that found eventStream full
  unsaved,      \* events whose flush failed
  unsent,       \* events whose PUBLISH failed or had no subscriber any more
  panicked,     \* did the subscription loop use a nil message?
  busFaults

fate    == <<handled, history, overflowed, unsaved>>
busVars == <<running, busStopped, loops, eventStream, emitted, toRedis, echoes, batch,
             fate, echoed, unsent, panicked, busFaults>>

Loops == {"local", "redis", "persist"}

Init ==  \* after Start
  /\ running = TRUE /\ busStopped = FALSE /\ loops = Loops
  /\ eventStream = <<>> /\ emitted = {} /\ toRedis = {} /\ echoes = {} /\ batch = {}
  /\ handled = {} /\ history = {} /\ overflowed = {} /\ unsaved = {}
  /\ echoed = {} /\ unsent = {} /\ panicked = FALSE /\ busFaults = 0

-----------------------------------------------------------------------------
Room == Len(eventStream) < StreamSize

\* A full channel drops the event locally; Redis gets it either way.
SendsWhenKept(e) ==  \* bug: the full case returns
  toRedis' = IF Room THEN toRedis \union {e} ELSE toRedis
SendsAlways(e)   == toRedis' = toRedis \union {e}
Publish(e) ==
  /\ running /\ e \notin emitted
  /\ emitted' = emitted \union {e}
  /\ IF Room THEN eventStream' = Append(eventStream, e) /\ UNCHANGED overflowed
             ELSE overflowed' = overflowed \union {e} /\ UNCHANGED eventStream
  /\ SendsAlways(e)
  /\ UNCHANGED <<running, busStopped, loops, echoes, batch, handled, history, unsaved,
                 echoed, unsent, panicked, busFaults>>

\* publishToRedis: without a subscriber the message is gone.
PublishToRedis(e) ==
  /\ e \in toRedis
  /\ toRedis' = toRedis \ {e}
  /\ \/ /\ "redis" \in loops
        /\ echoes' = echoes \union {e} /\ UNCHANGED <<unsent, busFaults>>
     \/ /\ "redis" \notin loops
        /\ unsent' = unsent \union {e} /\ UNCHANGED <<echoes, busFaults>>
     \/ /\ busFaults < MaxBusFaults /\ busFaults' = busFaults + 1
        /\ unsent' = unsent \union {e} /\ UNCHANGED echoes
  /\ UNCHANGED <<running, busStopped, loops, eventStream, emitted, batch, fate, echoed,
                 panicked>>

ProcessLocal ==
  /\ "local" \in loops /\ eventStream # <<>>
  /\ handled' = handled \union {Head(eventStream)}
  /\ eventStream' = Tail(eventStream)
  /\ UNCHANGED <<running, busStopped, loops, emitted, toRedis, echoes, batch, history,
                 overflowed, unsaved, echoed, unsent, panicked, busFaults>>

ProcessRedis(e) ==
  /\ "redis" \in loops /\ e \in echoes
  /\ echoes' = echoes \ {e} /\ echoed' = echoed \union {e}
  /\ UNCHANGED <<running, busStopped, loops, eventStream, emitted, toRedis, batch, fate,
                 unsent, panicked, busFaults>>

\* flushEvents: one pipeline; a failure is logged, and the slice is new anyway.
KeepBatch(b)   == UNCHANGED batch  \* bug: the slice is not renewed
RenewBatch(b)  == batch' = {}
FlushEvents(b) ==
  /\ RenewBatch(b)
  /\ \/ history' = history \union b /\ UNCHANGED <<unsaved, busFaults>>
     \/ /\ busFaults < MaxBusFaults /\ busFaults' = busFaults + 1
        /\ unsaved' = unsaved \union b /\ UNCHANGED history

\* The persist loop takes an event, and writes when it has enough; and by ticker.
Persist ==
  /\ "persist" \in loops /\ eventStream # <<>>
  /\ eventStream' = Tail(eventStream)
  /\ LET b == batch \union {Head(eventStream)} IN
       IF Cardinality(b) >= BatchLimit
       THEN FlushEvents(b)
       ELSE batch' = b /\ UNCHANGED <<history, unsaved, busFaults>>
  /\ UNCHANGED <<running, busStopped, loops, emitted, toRedis, echoes, handled, overflowed,
                 echoed, unsent, panicked>>
PersistTick ==
  /\ "persist" \in loops /\ batch # {}
  /\ FlushEvents(batch)
  /\ UNCHANGED <<running, busStopped, loops, eventStream, emitted, toRedis, echoes,
                 handled, overflowed, echoed, unsent, panicked>>

\* Stop closes stopCh and the subscription. A loop that sees stopCh and a
\* message takes either; the persist loop writes what it has, and events still
\* on the channel stay there.
StopBus ==
  /\ running
  /\ running' = FALSE /\ busStopped' = TRUE
  /\ UNCHANGED <<loops, eventStream, emitted, toRedis, echoes, batch, fate, echoed,
                 unsent, panicked, busFaults>>
EndLoop(l) ==
  /\ busStopped /\ l \in loops
  /\ loops' = loops \ {l}
  /\ IF l = "persist" /\ batch # {}
     THEN FlushEvents(batch)
     ELSE UNCHANGED <<batch, history, unsaved, busFaults>>
  /\ UNCHANGED <<running, busStopped, eventStream, emitted, toRedis, echoes, handled,
                 overflowed, echoed, unsent, panicked>>

\* The subscription's channel is closed too: the loop may take the nil message
\* of the closed channel instead of stopCh, and uses it.
NilMessage ==
  /\ busStopped /\ "redis" \in loops /\ echoes = {}
  /\ panicked' = TRUE /\ loops' = {}
  /\ UNCHANGED <<running, busStopped, eventStream, emitted, toRedis, echoes, batch, fate,
                 echoed, unsent, busFaults>>

-----------------------------------------------------------------------------
Next ==
  \/ \E e \in Events : Publish(e) \/ PublishToRedis(e) \/ ProcessRedis(e)
  \/ ProcessLocal \/ Persist \/ PersistTick \/ StopBus \/ NilMessage
  \/ \E l \in Loops : EndLoop(l)

RedisSide == \E e \in Events : PublishToRedis(e) \/ ProcessRedis(e)
Fairness  == WF_busVars(RedisSide) /\ WF_busVars(ProcessLocal) /\ WF_busVars(Persist)
             /\ WF_busVars(PersistTick) /\ \A l \in Loops : WF_busVars(EndLoop(l))
Spec      == Init /\ [][Next]_busVars /\ Fairness

-----------------------------------------------------------------------------
(* Properties.                                                             *)

OnStream == {eventStream[i] : i \in 1..Len(eventStream)}

BusTypeOK ==
  /\ running \in BOOLEAN /\ busStopped \in BOOLEAN /\ panicked \in BOOLEAN
  /\ loops \subseteq Loops
  /\ eventStream \in Seq(Events) /\ Len(eventStream) <= StreamSize
  /\ emitted \subseteq Events /\ toRedis \subseteq Events /\ echoes \subseteq Events
  /\ batch \subseteq Events /\ handled \subseteq Events /\ echoed \subseteq Events
  /\ history \subseteq Events /\ overflowed \subseteq Events
  /\ unsaved \subseteq Events /\ unsent \subseteq Events
  /\ busFaults \in 0..MaxBusFaults

\* Between the two receivers of one channel (eventbus.go:209, 319) an event has
\* exactly one fate: still queued, given to local handlers, on its way to or in
\* the history, or lost to a full channel or a failed flush; never two of them.
EventFate ==
  LET fates == <<OnStream, handled, batch, history, overflowed, unsaved>>
  IN  /\ emitted = UNION {fates[i] : i \in DOMAIN fates}
      /\ \A i, j \in DOMAIN fates : i # j => fates[i] \intersect fates[j] = {}

\* While the bus runs and Redis takes the message, every published event reaches
\* the handlers, also the one that found the channel full and the one the persist
\* loop took: by way of Redis (eventbus.go:151-186, 283-316).
Delivered ==
  \A e \in Events : e \in emitted ~> e \in echoed \union unsent \/ busStopped
=============================================================================
