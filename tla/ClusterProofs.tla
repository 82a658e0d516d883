--------------------------- MODULE ClusterProofs ---------------------------
(***************************************************************************)
(* The fate of events on the bus, for any events, channel and batch size,  *)
(* over the specification of MCCluster: a step of it is a step of the bus  *)
(* or leaves the bus alone.                                                *)
(***************************************************************************)
EXTENDS MCCluster, TLAPS

\* An event has one fate, and is on the channel once.
OneFate(e) ==
  /\ e \in emitted <=> \/ e \in Bus!OnStream \/ e \in handled \/ e \in batch
                       \/ e \in history \/ e \in overflowed \/ e \in unsaved
  /\ e \in Bus!OnStream => e \notin handled /\ e \notin batch /\ e \notin history
                       /\ e \notin overflowed /\ e \notin unsaved
  /\ e \in handled => e \notin batch /\ e \notin history /\ e \notin overflowed /\ e \notin unsaved
  /\ e \in batch => e \notin history /\ e \notin overflowed /\ e \notin unsaved
  /\ e \in history => e \notin overflowed /\ e \notin unsaved
  /\ e \in overflowed => e \notin unsaved
BusInv ==
  /\ eventStream \in Seq(Events)
  /\ \A i, j \in 1..Len(eventStream) : eventStream[i] = eventStream[j] => i = j
  /\ \A e : OneFate(e)

LEMMA FatesAreOne == ASSUME BusInv PROVE Bus!EventFate
<1> DEFINE fates == <<Bus!OnStream, handled, batch, history, overflowed, unsaved>>
<1>1. DOMAIN fates = 1..6
  OBVIOUS
<1>2. emitted = UNION {fates[i] : i \in DOMAIN fates}
  <2>1. \A e : (\E i \in 1..6 : e \in fates[i])
                 <=> \/ e \in Bus!OnStream \/ e \in handled \/ e \in batch
                     \/ e \in history \/ e \in overflowed \/ e \in unsaved
    <3> TAKE e
    <3>1. /\ fates[1] = Bus!OnStream /\ fates[2] = handled /\ fates[3] = batch
          /\ fates[4] = history /\ fates[5] = overflowed /\ fates[6] = unsaved
      OBVIOUS
    <3> HIDE DEF fates
    <3>2. \A i \in 1..6 : i = 1 \/ i = 2 \/ i = 3 \/ i = 4 \/ i = 5 \/ i = 6
      OBVIOUS
    <3>. QED  BY <3>1, <3>2
  <2>2. \A e : e \in emitted <=> \/ e \in Bus!OnStream \/ e \in handled \/ e \in batch
                                 \/ e \in history \/ e \in overflowed \/ e \in unsaved
    BY DEF BusInv, OneFate
  <2> HIDE DEF fates
  <2>. QED  BY <1>1, <2>1, <2>2
<1>3. ASSUME NEW i \in 1..6, NEW j \in 1..6, i # j PROVE fates[i] \intersect fates[j] = {}
  <2>1. SUFFICES ASSUME NEW e, e \in fates[i], e \in fates[j] PROVE FALSE
    OBVIOUS
  <2>2. OneFate(e)
    BY DEF BusInv
  <2>3. /\ fates[1] = Bus!OnStream /\ fates[2] = handled /\ fates[3] = batch
        /\ fates[4] = history /\ fates[5] = overflowed /\ fates[6] = unsaved
    OBVIOUS
  <2> HIDE DEF fates
  <2>4. i \in {1, 2, 3, 4, 5, 6} /\ j \in {1, 2, 3, 4, 5, 6}
    OBVIOUS
  <2>. QED  BY <1>3, <2>1, <2>2, <2>3, <2>4 DEF OneFate
<1> HIDE DEF fates
<1>4. Bus!EventFate <=> /\ emitted = UNION {fates[i] : i \in DOMAIN fates}
                    /\ \A i, j \in DOMAIN fates : i # j => fates[i] \intersect fates[j] = {}
  BY DEF Bus!EventFate, fates
<1>. QED  BY <1>1, <1>2, <1>3, <1>4

LEMMA BusInitially == Bus!Init => BusInv
  BY DEF Bus!Init, BusInv, OneFate, Bus!OnStream

\* One receiver takes the event at the head of the channel.
LEMMA HeadTaken ==
  ASSUME BusInv, eventStream # <<>>, eventStream' = Tail(eventStream)
  PROVE  /\ eventStream' \in Seq(Events)
         /\ \A i, j \in 1..Len(eventStream') : eventStream'[i] = eventStream'[j] => i = j
         /\ Head(eventStream) \in Bus!OnStream /\ Bus!OnStream' = Bus!OnStream \ {Head(eventStream)}
<1> DEFINE n == Len(eventStream)
<1>1. /\ eventStream \in Seq(Events) /\ n \in Nat /\ n > 0
      /\ Len(eventStream') = n - 1 /\ eventStream' \in Seq(Events)
      /\ \A i \in 1..n-1 : eventStream'[i] = eventStream[i + 1]
      /\ Head(eventStream) = eventStream[1]
  BY DEF BusInv
<1>2. \A i, j \in 1..n : eventStream[i] = eventStream[j] => i = j
  BY DEF BusInv
<1>3. Head(eventStream) \in Bus!OnStream
  BY <1>1 DEF Bus!OnStream
<1>4. Bus!OnStream' \subseteq Bus!OnStream \ {Head(eventStream)}
  <2> SUFFICES ASSUME NEW i \in 1..n-1
               PROVE  eventStream'[i] \in Bus!OnStream /\ eventStream'[i] # Head(eventStream)
    BY <1>1 DEF Bus!OnStream
  <2>1. i + 1 \in 1..n /\ 1 \in 1..n /\ i + 1 # 1
    BY <1>1
  <2>. QED  BY <1>1, <1>2, <2>1 DEF Bus!OnStream
<1>5. Bus!OnStream \ {Head(eventStream)} \subseteq Bus!OnStream'
  <2> SUFFICES ASSUME NEW i \in 1..n, i # 1
               PROVE  eventStream[i] \in Bus!OnStream'
    BY <1>1 DEF Bus!OnStream
  <2>1. i - 1 \in 1..n-1 /\ eventStream'[i - 1] = eventStream[i]
    BY <1>1
  <2>. QED  BY <1>1, <2>1 DEF Bus!OnStream
<1>6. ASSUME NEW i \in 1..n-1, NEW j \in 1..n-1, eventStream'[i] = eventStream'[j] PROVE i = j
  <2>1. i + 1 \in 1..n /\ j + 1 \in 1..n
    BY <1>1
  <2>. QED  BY <1>1, <1>2, <1>6, <2>1
<1>. QED  BY <1>1, <1>3, <1>4, <1>5, <1>6

\* A flush moves what it writes to the history or gives it up.
LEMMA Flushes ==
  ASSUME NEW b, Bus!FlushEvents(b)
  PROVE  /\ batch' = {}
         /\ \/ history' = history \union b /\ unsaved' = unsaved
            \/ unsaved' = unsaved \union b /\ history' = history
  BY DEF Bus!FlushEvents, Bus!RenewBatch

LEMMA PublishFate ==
  ASSUME BusInv, NEW e \in Events, Bus!Publish(e) PROVE BusInv'
<1> DEFINE n == Len(eventStream)
<1>1. /\ e \notin emitted /\ emitted' = emitted \union {e}
      /\ UNCHANGED <<batch, handled, history, unsaved>>
  BY DEF Bus!Publish
<1>2. OneFate(e) /\ eventStream \in Seq(Events) /\ n \in Nat
  BY DEF BusInv
<1>3. CASE Bus!Room
  <2>1. eventStream' = Append(eventStream, e) /\ overflowed' = overflowed
    BY <1>3 DEF Bus!Publish
  <2>2. /\ eventStream' \in Seq(Events) /\ Len(eventStream') = n + 1
        /\ eventStream'[n + 1] = e /\ \A i \in 1..n : eventStream'[i] = eventStream[i]
    BY <1>2, <2>1
  <2>3. Bus!OnStream' = Bus!OnStream \union {e}
    BY <1>2, <2>2 DEF Bus!OnStream
  <2>4. ASSUME NEW i \in 1..n+1, NEW j \in 1..n+1, eventStream'[i] = eventStream'[j] PROVE i = j
    <3>1. e \notin Bus!OnStream
      BY <1>1, <1>2 DEF OneFate
    <3>2. \A k \in 1..n : eventStream[k] # e
      BY <3>1 DEF Bus!OnStream
    <3>3. \A k \in 1..n+1 : k \in 1..n \/ k = n + 1
      BY <1>2
    <3>4. \A k, l \in 1..n : eventStream[k] = eventStream[l] => k = l
      BY DEF BusInv
    <3>. QED  BY <2>2, <2>4, <3>2, <3>3, <3>4
  <2>5. ASSUME NEW f PROVE OneFate(f)'
    <3>1. OneFate(f)
      BY DEF BusInv
    <3>. QED  BY <1>1, <1>2, <2>1, <2>3, <3>1 DEF OneFate
  <2>. QED  BY <2>2, <2>4, <2>5 DEF BusInv
<1>4. CASE ~Bus!Room
  <2>1. eventStream' = eventStream /\ overflowed' = overflowed \union {e}
    BY <1>4 DEF Bus!Publish
  <2>2. Bus!OnStream' = Bus!OnStream
    BY <2>1 DEF Bus!OnStream
  <2>3. ASSUME NEW f PROVE OneFate(f)'
    <3>1. OneFate(f)
      BY DEF BusInv
    <3>. QED  BY <1>1, <1>2, <2>1, <2>2, <3>1 DEF OneFate
  <2>. QED  BY <2>1, <2>3 DEF BusInv
<1>. QED  BY <1>3, <1>4

LEMMA LocalFate == ASSUME BusInv, Bus!ProcessLocal PROVE BusInv'
<1> DEFINE h == Head(eventStream)
<1>1. /\ eventStream # <<>> /\ eventStream' = Tail(eventStream) /\ handled' = handled \union {h}
      /\ UNCHANGED <<emitted, batch, history, overflowed, unsaved>>
  BY DEF Bus!ProcessLocal
<1>2. h \in Bus!OnStream /\ Bus!OnStream' = Bus!OnStream \ {h}
  BY <1>1, HeadTaken
<1>3. ASSUME NEW f PROVE OneFate(f)'
  <2>1. OneFate(f)
    BY DEF BusInv
  <2>. QED  BY <1>1, <1>2, <2>1 DEF OneFate
<1>. QED  BY <1>1, <1>3, HeadTaken DEF BusInv

LEMMA PersistFate == ASSUME BusInv, Bus!Persist PROVE BusInv'
<1> DEFINE h == Head(eventStream)
           b == batch \union {h}
<1>1. /\ eventStream # <<>> /\ eventStream' = Tail(eventStream)
      /\ UNCHANGED <<emitted, handled, overflowed>>
      /\ Bus!FlushEvents(b) \/ (batch' = b /\ UNCHANGED <<history, unsaved>>)
  BY DEF Bus!Persist
<1>2. h \in Bus!OnStream /\ Bus!OnStream' = Bus!OnStream \ {h}
  BY <1>1, HeadTaken
<1>3. \/ batch' = b /\ history' = history /\ unsaved' = unsaved
      \/ batch' = {} /\ history' = history \union b /\ unsaved' = unsaved
      \/ batch' = {} /\ unsaved' = unsaved \union b /\ history' = history
  BY <1>1, Flushes
<1>4. ASSUME NEW f PROVE OneFate(f)'
  <2>1. OneFate(f)
    BY DEF BusInv
  <2>. QED  BY <1>1, <1>2, <1>3, <2>1 DEF OneFate
<1>. QED  BY <1>1, <1>4, HeadTaken DEF BusInv

LEMMA BusStep == ASSUME BusInv, [Bus!Next]_busPart PROVE BusInv'
\* Whatever else leaves the channel alone, and flushes or leaves the fates alone.
<1>1. ASSUME UNCHANGED <<eventStream, emitted, handled, overflowed>>,
             Bus!FlushEvents(batch) \/ UNCHANGED <<batch, history, unsaved>>
      PROVE  BusInv'
  <2>1. Bus!OnStream' = Bus!OnStream
    BY <1>1 DEF Bus!OnStream
  <2>2. \/ batch' = batch /\ history' = history /\ unsaved' = unsaved
        \/ batch' = {} /\ history' = history \union batch /\ unsaved' = unsaved
        \/ batch' = {} /\ unsaved' = unsaved \union batch /\ history' = history
    BY <1>1, Flushes
  <2>3. ASSUME NEW f PROVE OneFate(f)'
    <3>1. OneFate(f)
      BY DEF BusInv
    <3>. QED  BY <1>1, <2>1, <2>2, <3>1 DEF OneFate
  <2>. QED  BY <1>1, <2>3 DEF BusInv
<1>2. ASSUME NEW e \in Events, Bus!PublishToRedis(e) \/ Bus!ProcessRedis(e) PROVE BusInv'
  BY <1>1, <1>2 DEF Bus!PublishToRedis, Bus!ProcessRedis, Bus!fate
<1>3. CASE Bus!PersistTick
  BY <1>1, <1>3 DEF Bus!PersistTick
<1>4. CASE Bus!StopBus \/ Bus!NilMessage
  BY <1>1, <1>4 DEF Bus!StopBus, Bus!NilMessage, Bus!fate
<1>5. ASSUME NEW l \in Bus!Loops, Bus!EndLoop(l) PROVE BusInv'
  BY <1>1, <1>5 DEF Bus!EndLoop
<1>6. CASE UNCHANGED busPart
  BY <1>1, <1>6 DEF busPart
<1>. QED  BY <1>2, <1>3, <1>4, <1>5, <1>6, PublishFate, LocalFate, PersistFate DEF Bus!Next

LEMMA BusMovesOrRests ==
  ASSUME [Next]_all PROVE part' = part /\ [Bus!Next]_busPart
<1>1. CASE UNCHANGED all
  BY <1>1 DEF all
<1>2. CASE Next
  BY <1>2 DEF Next, Frame, Still
<1>. QED  BY <1>1, <1>2

\* The two loops that receive from one channel, and the Publish and Stop beside them, give an
\* event one fate, whatever the size of the channel and of a batch: it is queued, handled, on its
\* way to or in the history, or lost to a full channel or a failed flush, and never two of these
\* (eventbus.go:209, 319).
THEOREM EventsHaveOneFate == Spec => []EventFate
<1>1. Init => BusInv
  BY BusInitially DEF Init
<1>2. BusInv /\ [Next]_all => BusInv'
  BY BusMovesOrRests, BusStep
<1>3. BusInv => EventFate
  BY FatesAreOne DEF EventFate
<1>. QED  BY <1>1, <1>2, <1>3, PTL DEF Spec
=============================================================================
