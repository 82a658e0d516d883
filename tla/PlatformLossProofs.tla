------------------------- MODULE PlatformLossProofs -------------------------
(***************************************************************************)
(* What the parts around the crawler must not lose - log records, audit    *)
(* entries, tracked requests, lines, messages, requests in flight, rows -  *)
(* and what the task screen acts on, for every value of the constants. As  *)
(* in PlatformProofs each component has an inductive invariant of its own. *)
(***************************************************************************)
EXTENDS PlatformProofs

-----------------------------------------------------------------------------
(* Sequences and the sets of their elements.                               *)

LEMMA AppendSet ==
  ASSUME NEW T, NEW s \in Seq(T), NEW x \in T
  PROVE  Append(s, x) \in Seq(T) /\ Logs!Range(Append(s, x)) = Logs!Range(s) \cup {x}
<1> DEFINE u == Append(s, x)
<1>1. /\ u \in Seq(T) /\ DOMAIN u = 1 .. Len(s) + 1 /\ DOMAIN s = 1 .. Len(s) /\ Len(s) \in Nat
      /\ u[Len(s) + 1] = x
  OBVIOUS
<1>2. \A i \in DOMAIN s : u[i] = s[i]
  OBVIOUS
<1> HIDE DEF u
<1>3. /\ \A i \in DOMAIN u : i \in DOMAIN s \/ i = Len(s) + 1
      /\ \A i \in DOMAIN s : i \in DOMAIN u
      /\ Len(s) + 1 \in DOMAIN u
  BY <1>1
<1>4. Logs!Range(u) \subseteq Logs!Range(s) \cup {x}
  BY <1>1, <1>2, <1>3 DEF Logs!Range
<1>5. Logs!Range(s) \cup {x} \subseteq Logs!Range(u)
  BY <1>1, <1>2, <1>3 DEF Logs!Range
<1>. QED  BY <1>1, <1>4, <1>5 DEF u

LEMMA JoinSet ==
  ASSUME NEW T, NEW s \in Seq(T), NEW t \in Seq(T)
  PROVE  s \o t \in Seq(T) /\ Logs!Range(s \o t) = Logs!Range(s) \cup Logs!Range(t)
<1> DEFINE u == s \o t
<1>1. /\ u \in Seq(T) /\ DOMAIN u = 1 .. Len(s) + Len(t) /\ DOMAIN s = 1 .. Len(s)
      /\ DOMAIN t = 1 .. Len(t) /\ Len(s) \in Nat /\ Len(t) \in Nat
  OBVIOUS
<1>2. \A i \in DOMAIN s : u[i] = s[i]
  OBVIOUS
<1>3. \A i \in DOMAIN t : u[Len(s) + i] = t[i]
  OBVIOUS
<1>4. ASSUME NEW i \in DOMAIN u, i \notin DOMAIN s
      PROVE  i - Len(s) \in DOMAIN t /\ u[i] = t[i - Len(s)]
  <2>1. i \in 1 .. Len(s) + Len(t) /\ ~(i \in 1 .. Len(s))
    BY <1>1, <1>4
  <2>2. i - Len(s) \in DOMAIN t /\ Len(s) + (i - Len(s)) = i
    BY <1>1, <2>1
  <2>. QED  BY <1>3, <2>2
<1>5. \A i \in DOMAIN t : Len(s) + i \in DOMAIN u
  BY <1>1
<1>6. \A i \in DOMAIN s : i \in DOMAIN u
  BY <1>1
<1> HIDE DEF u
<1>7. Logs!Range(u) \subseteq Logs!Range(s) \cup Logs!Range(t)
  BY <1>2, <1>4 DEF Logs!Range
<1>8. Logs!Range(s) \cup Logs!Range(t) \subseteq Logs!Range(u)
  BY <1>2, <1>3, <1>5, <1>6 DEF Logs!Range
<1>. QED  BY <1>1, <1>7, <1>8 DEF u

LEMMA SplitSet ==
  ASSUME NEW T, NEW s \in Seq(T), s # <<>>
  PROVE  /\ Head(s) \in T /\ Tail(s) \in Seq(T)
         /\ Logs!Range(s) = {Head(s)} \cup Logs!Range(Tail(s))
<1>1. /\ Head(s) \in T /\ Tail(s) \in Seq(T) /\ Head(s) = s[1] /\ Len(s) \in Nat \ {0}
      /\ DOMAIN s = 1 .. Len(s) /\ DOMAIN Tail(s) = 1 .. Len(s) - 1
  OBVIOUS
<1>2. \A i \in DOMAIN Tail(s) : Tail(s)[i] = s[i + 1] /\ i + 1 \in DOMAIN s
  OBVIOUS
<1>3. ASSUME NEW i \in DOMAIN s, i # 1
      PROVE  i - 1 \in DOMAIN Tail(s) /\ s[i] = Tail(s)[i - 1]
  <2>1. i - 1 \in DOMAIN Tail(s) /\ (i - 1) + 1 = i
    BY <1>1, <1>3
  <2>. QED  BY <1>2, <2>1
<1>4. 1 \in DOMAIN s
  BY <1>1
<1>5. ASSUME NEW i \in DOMAIN s PROVE s[i] \in {Head(s)} \cup Logs!Range(Tail(s))
  <2>1. CASE i = 1
    BY <1>1, <2>1
  <2>2. CASE i # 1
    BY <1>3, <2>2 DEF Logs!Range
  <2>. QED  BY <2>1, <2>2
<1>6. {Head(s)} \cup Logs!Range(Tail(s)) \subseteq Logs!Range(s)
  BY <1>1, <1>2, <1>4 DEF Logs!Range
<1>7. Logs!Range(s) \subseteq {Head(s)} \cup Logs!Range(Tail(s))
  BY <1>5 DEF Logs!Range
<1>. QED  BY <1>1, <1>6, <1>7

LEMMA OneSet ==
  ASSUME NEW T, NEW x \in T
  PROVE  <<x>> \in Seq(T) /\ Logs!Range(<<x>>) = {x}
BY DEF Logs!Range

LEMMA NoneSet == \A T : <<>> \in Seq(T) /\ Logs!Range(<<>>) = {}
BY DEF Logs!Range

-----------------------------------------------------------------------------
(* Log records on their way to the view.                                   *)

LogShapes ==
  /\ fwdBuffer \in Seq(LogEntries) /\ storeBuffer \in Seq(LogEntries)
  /\ storeBatch \in Seq(LogEntries) /\ logStream \in Seq(LogEntries)
  /\ pubsub \in Seq(LogEntries) /\ readLogs \in Seq(LogEntries) /\ logs \in Seq(LogEntries)
  /\ written \subseteq LogEntries
  /\ publishing # Logs!NoEntry => publishing \in LogEntries
\* A record that was in the stream and is not given up is there: what goes is given up.
InStream == written \ excused \subseteq Logs!Range(logStream)
LogsInv == LogShapes /\ InStream /\ Logs!LogSeen

LEMMA LogsInitially == Logs!Init => LogsInv
<1> SUFFICES ASSUME Logs!Init PROVE LogsInv
  OBVIOUS
<1>1. LogShapes
  BY NoneSet DEF Logs!Init, LogShapes, Logs!NoEntry
<1>. QED  BY <1>1 DEF Logs!Init, LogsInv, InStream, Logs!LogSeen

LEMMA NewestShape ==
  ASSUME NEW s \in Seq(LogEntries)
  PROVE  Logs!Newest(s) \in Seq(LogEntries)
BY LogBounds DEF Logs!Newest

LEMMA AddedIs ==
  ASSUME LogShapes, NEW es \in Seq(LogEntries), Logs!Added(es)
  PROVE  /\ logStream' \in Seq(LogEntries) /\ written' = written \cup Logs!Range(es)
         /\ Logs!Range(es) \subseteq LogEntries
<1> DEFINE t == logStream \o es
<1>1. t \in Seq(LogEntries)
  BY DEF LogShapes
<1>2. Logs!Trimmed(t) \subseteq Seq(LogEntries)
  <2>1. ASSUME Len(t) > StreamMax
        PROVE  SubSeq(t, Len(t) - StreamMax + 1, Len(t)) \in Seq(LogEntries)
    <3>1. Len(t) \in Nat /\ Len(t) - StreamMax + 1 \in 1 .. Len(t) + 1
      BY <1>1, <2>1, LogBounds
    <3>. HIDE DEF t
    <3>. QED  BY <1>1, <3>1
  <2>. HIDE DEF t
  <2>. QED  BY <1>1, <2>1 DEF Logs!Trimmed
<1>3. written' = written \cup Logs!Range(es) /\ logStream' \in Logs!Trimmed(t)
  BY DEF Logs!Added
<1>. QED  BY <1>2, <1>3 DEF Logs!Range

\* A batch that is written: nothing but the stream, the messages and what is given up changes.
LEMMA BatchKeeps ==
  ASSUME LogsInv, NEW es \in Seq(LogEntries), Logs!WritesBatch(es),
         UNCHANGED <<publishing, storeClosed, Logs!view>>
  PROVE  /\ logStream' \in Seq(LogEntries) /\ pubsub' \in Seq(LogEntries)
         /\ written' \subseteq LogEntries /\ InStream' /\ Logs!LogSeen'
<1>. USE DEF LogsInv
<1>0. UNCHANGED <<publishing, storeClosed, subscribed, loading, readLogs, logs>>
  BY DEF Logs!view
<1>1. CASE /\ Logs!Added(es) /\ pubsub' = Logs!Published(es)
           /\ excused' = excused \cup Logs!Gone \cup Logs!Unheard(es)
  <2>1. /\ logStream' \in Seq(LogEntries) /\ written' = written \cup Logs!Range(es)
        /\ written' \subseteq LogEntries
    BY <1>1, AddedIs DEF LogShapes
  <2>2. /\ pubsub' \in Seq(LogEntries) /\ Logs!Range(pubsub) \subseteq Logs!Range(pubsub')
        /\ subscribed /\ ~storeClosed => Logs!Range(es) \subseteq Logs!Range(pubsub')
    BY <1>1, JoinSet DEF Logs!Published, LogShapes
  <2>3. InStream'
    BY <1>1 DEF Logs!Gone, InStream
  <2>4. ASSUME NEW e \in written' \ excused'
        PROVE  \/ e \in Logs!Range(logs') \cup Logs!Range(pubsub') \cup Logs!Range(readLogs')
               \/ e = publishing'
               \/ loading' = "no" /\ e \in Logs!Range(logStream')
               \/ storeClosed'
    <3>1. e \in Logs!Range(logStream')
      BY <2>3, <2>4 DEF InStream
    <3>2. CASE e \in written
      BY <1>0, <1>1, <2>2, <2>4, <3>1, <3>2 DEF Logs!LogSeen
    <3>3. CASE e \in Logs!Range(es)
      BY <1>0, <1>1, <2>2, <2>4, <3>1, <3>3 DEF Logs!Unheard
    <3>. QED  BY <2>1, <2>4, <3>2, <3>3
  <2>. QED  BY <2>1, <2>2, <2>3, <2>4 DEF Logs!LogSeen
<1>2. CASE /\ Logs!Added(es) \/ Logs!Unadded
           /\ excused' = excused \cup Logs!Range(es) \cup Logs!Gone /\ UNCHANGED pubsub
  <2>1. /\ logStream' \in Seq(LogEntries) /\ written' \subseteq LogEntries
        /\ written' \subseteq written \cup Logs!Range(es)
    BY <1>2, AddedIs DEF LogShapes, Logs!Unadded
  <2>2. InStream'
    BY <1>2 DEF Logs!Gone, InStream
  <2>3. ASSUME NEW e \in written' \ excused'
        PROVE  \/ e \in Logs!Range(logs') \cup Logs!Range(pubsub') \cup Logs!Range(readLogs')
               \/ e = publishing'
               \/ loading' = "no" /\ e \in Logs!Range(logStream')
               \/ storeClosed'
    <3>1. e \in Logs!Range(logStream') /\ e \in written /\ e \notin excused
      BY <1>2, <2>1, <2>2, <2>3 DEF InStream
    <3>. QED  BY <1>0, <1>2, <3>1 DEF Logs!LogSeen
  <2>. QED  BY <1>2, <2>1, <2>2, <2>3 DEF Logs!LogSeen, LogShapes
<1>. QED  BY <1>1, <1>2 DEF Logs!WritesBatch

LEMMA ShownIs ==
  ASSUME NEW s \in Seq(LogEntries), Logs!Shows(s)
  PROVE  /\ logs' \in Seq(LogEntries)
         /\ excused \subseteq excused' /\ Logs!Range(s) \subseteq Logs!Range(logs') \cup excused'
BY NewestShape DEF Logs!Shows

LEMMA ForwarderKeeps ==
  ASSUME LogsInv, Logs!Forward \/ Logs!ForwardPublish \/ Logs!ForwarderEnds
  PROVE  LogsInv'
<1>. USE DEF LogsInv, Logs!NoEntry
<1>1. CASE Logs!Forward
  <2> DEFINE h == Head(fwdBuffer)
  <2>0. UNCHANGED <<storeBuffer, storeBatch, storeClosed, pubsub, subscribed, loading, readLogs,
                    logs>>
    BY <1>1 DEF Logs!Forward, Logs!redisStore, Logs!view
  <2>1. h \in LogEntries /\ fwdBuffer' \in Seq(LogEntries) /\ publishing = "none"
    BY <1>1, SplitSet DEF Logs!Forward, LogShapes
  <2>2. <<h>> \in Seq(LogEntries) /\ Logs!Range(<<h>>) = {h}
    BY <2>1, OneSet
  <2>3. /\ excused \cup Logs!Gone \subseteq excused'
        /\ Logs!Added(<<h>>) \/ Logs!Unadded
        /\ publishing' = h \/ (h \in excused' /\ publishing' = publishing)
    <3>1. \/ Logs!Added(<<h>>) /\ publishing' = h /\ excused' = excused \cup Logs!Gone
          \/ /\ Logs!Added(<<h>>) \/ Logs!Unadded
             /\ excused' = excused \cup {h} \cup Logs!Gone /\ publishing' = publishing
      BY <1>1 DEF Logs!Forward
    <3>. HIDE DEF h
    <3>. QED  BY <3>1
  <2>. HIDE DEF h
  <2>4. /\ logStream' \in Seq(LogEntries) /\ written' \subseteq LogEntries
        /\ written' \subseteq written \cup {h}
    BY <2>2, <2>3, AddedIs DEF LogShapes, Logs!Unadded
  <2>5. InStream'
    BY <2>3 DEF Logs!Gone, InStream
  <2>6. ASSUME NEW e \in written' \ excused'
        PROVE  \/ e \in Logs!Range(logs') \cup Logs!Range(pubsub') \cup Logs!Range(readLogs')
               \/ e = publishing'
               \/ loading' = "no" /\ e \in Logs!Range(logStream')
               \/ storeClosed'
    <3>1. e \in Logs!Range(logStream') /\ e \notin excused /\ e \in LogEntries
      BY <2>3, <2>4, <2>5, <2>6 DEF InStream
    <3>2. CASE e = h
      BY <2>3, <2>6, <3>2
    <3>3. CASE e \in written
      BY <2>0, <2>1, <3>1, <3>3, LogBounds DEF Logs!LogSeen
    <3>. QED  BY <2>4, <2>6, <3>2, <3>3
  <2>7. LogShapes'
    BY <2>0, <2>1, <2>3, <2>4 DEF LogShapes
  <2>. QED  BY <2>5, <2>6, <2>7 DEF Logs!LogSeen
<1>2. CASE Logs!ForwardPublish
  <2> DEFINE h == publishing
  <2>0. /\ UNCHANGED <<fwdBuffer, storeBuffer, storeBatch, storeClosed, subscribed, loading,
                       readLogs, logs, written, logStream>>
        /\ publishing' = "none" /\ excused \subseteq excused'
    BY <1>2 DEF Logs!ForwardPublish, Logs!redisStore, Logs!view
  <2>1. h \in LogEntries
    BY <1>2 DEF Logs!ForwardPublish, LogShapes
  <2>2. <<h>> \in Seq(LogEntries) /\ Logs!Range(<<h>>) = {h}
    BY <2>1, OneSet
  <2>3. /\ pubsub' \in Seq(LogEntries) /\ Logs!Range(pubsub) \subseteq Logs!Range(pubsub')
        /\ \/ h \in excused'
           \/ h \in Logs!Range(pubsub')
           \/ storeClosed
           \/ loading = "no"
           \/ h \in Logs!Range(readLogs) \cup Logs!Range(logs)
    <3>1. CASE pubsub' = Logs!Published(<<h>>) /\ excused' = excused \cup Logs!Unheard(<<h>>)
      <4>. HIDE DEF h
      <4>1. /\ pubsub \o <<h>> \in Seq(LogEntries)
            /\ Logs!Range(pubsub \o <<h>>) = Logs!Range(pubsub) \cup {h}
        <5> DEFINE t == <<h>>
        <5>1. t \in Seq(LogEntries) /\ pubsub \in Seq(LogEntries) /\ Logs!Range(t) = {h}
          BY <2>2 DEF LogShapes
        <5>. HIDE DEF t
        <5>2. /\ pubsub \o t \in Seq(LogEntries)
              /\ Logs!Range(pubsub \o t) = Logs!Range(pubsub) \cup {h}
          BY <5>1, JoinSet
        <5>. QED  BY <5>2 DEF t
      <4>2. CASE subscribed /\ ~storeClosed
        BY <3>1, <4>1, <4>2 DEF Logs!Published
      <4>3. CASE ~(subscribed /\ ~storeClosed)
        BY <2>2, <3>1, <4>3 DEF Logs!Published, Logs!Unheard, LogShapes
      <4>. QED  BY <4>2, <4>3
    <3>2. CASE h \in excused' /\ UNCHANGED pubsub
      BY <3>2 DEF LogShapes
    <3>. QED  BY <1>2, <3>1, <3>2 DEF Logs!ForwardPublish
  <2>4. ASSUME NEW e \in written' \ excused'
        PROVE  \/ e \in Logs!Range(logs') \cup Logs!Range(pubsub') \cup Logs!Range(readLogs')
               \/ e = publishing'
               \/ loading' = "no" /\ e \in Logs!Range(logStream')
               \/ storeClosed'
    <3>1. e \in written /\ e \notin excused /\ e \in Logs!Range(logStream)
      BY <2>0, <2>4 DEF InStream
    <3>2. CASE e = h
      BY <2>0, <2>3, <2>4, <3>1, <3>2
    <3>3. CASE e # h
      BY <2>0, <2>3, <3>1, <3>3 DEF Logs!LogSeen
    <3>. QED  BY <3>2, <3>3
  <2>5. LogShapes'
    BY <2>0, <2>3 DEF LogShapes
  <2>. QED  BY <2>0, <2>4, <2>5 DEF InStream, Logs!LogSeen
<1>3. CASE Logs!ForwarderEnds
  <2>1. /\ UNCHANGED <<storeBuffer, storeBatch, logStream, pubsub, readLogs, logs, written,
                       publishing, storeClosed, loading>>
        /\ fwdBuffer' = <<>> /\ excused \subseteq excused'
    BY <1>3 DEF Logs!ForwarderEnds, Logs!redisStore, Logs!view
  <2>. QED  BY <2>1 DEF LogShapes, InStream, Logs!LogSeen
<1>. QED  BY <1>1, <1>2, <1>3

LEMMA ViewKeeps ==
  ASSUME LogsInv,
         \/ Logs!Subscribe
         \/ Logs!ReadLogs
         \/ Logs!LoadLogs
         \/ Logs!Receive
         \/ Logs!TogglePause
         \/ Logs!ClearLogs
  PROVE  LogsInv'
<1>. USE DEF LogsInv, Logs!NoEntry
<1>1. CASE Logs!Subscribe
  <2>1. UNCHANGED <<fwdBuffer, publishing, storeBuffer, storeBatch, storeClosed, written, logStream,
                    pubsub, loading, readLogs, logs, excused>>
    BY <1>1 DEF Logs!Subscribe, Logs!forwarder, Logs!redisStore
  <2>. QED  BY <2>1 DEF LogShapes, InStream, Logs!LogSeen
<1>2. CASE Logs!ReadLogs
  <2>1. /\ UNCHANGED <<fwdBuffer, publishing, storeBuffer, storeBatch, storeClosed, written,
                       logStream, pubsub, logs>>
        /\ excused \subseteq excused'
        /\ \/ readLogs' = Logs!Newest(logStream)
              /\ Logs!Range(logStream) \subseteq Logs!Range(readLogs') \cup excused'
           \/ readLogs' = readLogs /\ Logs!Range(logStream) \subseteq excused'
    BY <1>2 DEF Logs!ReadLogs, Logs!forwarder, Logs!redisStore
  <2>2. LogShapes'
    BY <2>1, NewestShape DEF LogShapes
  <2>. QED  BY <2>1, <2>2 DEF InStream, Logs!LogSeen
<1>3. CASE Logs!LoadLogs
  <2>1. /\ UNCHANGED <<fwdBuffer, publishing, storeBuffer, storeBatch, storeClosed, written,
                       logStream, pubsub>>
        /\ readLogs' = <<>> /\ loading = "read" /\ Logs!Shows(logs \o readLogs)
    BY <1>3 DEF Logs!LoadLogs, Logs!forwarder, Logs!redisStore, Logs!Loaded
  <2>2. /\ logs \o readLogs \in Seq(LogEntries)
        /\ Logs!Range(logs \o readLogs) = Logs!Range(logs) \cup Logs!Range(readLogs)
    BY JoinSet DEF LogShapes
  <2>3. /\ logs' \in Seq(LogEntries) /\ excused \subseteq excused'
        /\ Logs!Range(logs) \cup Logs!Range(readLogs) \subseteq Logs!Range(logs') \cup excused'
    BY <2>1, <2>2, ShownIs
  <2>4. LogShapes'
    BY <2>1, <2>3 DEF LogShapes
  <2>. QED  BY <2>1, <2>3, <2>4 DEF InStream, Logs!LogSeen
<1>4. CASE Logs!Receive
  <2>1. /\ UNCHANGED <<fwdBuffer, publishing, storeBuffer, storeBatch, storeClosed, written,
                       logStream, loading, readLogs>>
        /\ pubsub # <<>> /\ pubsub' = Tail(pubsub)
    BY <1>4 DEF Logs!Receive, Logs!forwarder, Logs!redisStore
  <2>2. /\ Head(pubsub) \in LogEntries /\ pubsub' \in Seq(LogEntries)
        /\ Logs!Range(pubsub) = {Head(pubsub)} \cup Logs!Range(pubsub')
    BY <2>1, SplitSet DEF LogShapes
  <2>3. /\ logs' \in Seq(LogEntries) /\ excused \subseteq excused'
        /\ Logs!Range(logs) \cup {Head(pubsub)} \subseteq Logs!Range(logs') \cup excused'
    <3>1. CASE excused' = excused \cup {Head(pubsub)} /\ UNCHANGED logs
      BY <3>1 DEF LogShapes
    <3>2. CASE Logs!Shows(Append(logs, Head(pubsub)))
      <4>1. /\ Append(logs, Head(pubsub)) \in Seq(LogEntries)
            /\ Logs!Range(Append(logs, Head(pubsub))) = Logs!Range(logs) \cup {Head(pubsub)}
        BY <2>2, AppendSet DEF LogShapes
      <4>. QED  BY <3>2, <4>1, ShownIs
    <3>. QED  BY <1>4, <3>1, <3>2 DEF Logs!Receive
  <2>4. LogShapes'
    BY <2>1, <2>2, <2>3 DEF LogShapes
  <2>. QED  BY <2>1, <2>2, <2>3, <2>4 DEF InStream, Logs!LogSeen
<1>5. CASE Logs!TogglePause
  <2>1. UNCHANGED <<fwdBuffer, publishing, storeBuffer, storeBatch, storeClosed, written, logStream,
                    pubsub, loading, readLogs, logs, excused>>
    BY <1>5 DEF Logs!TogglePause, Logs!forwarder, Logs!redisStore
  <2>. QED  BY <2>1 DEF LogShapes, InStream, Logs!LogSeen
<1>6. CASE Logs!ClearLogs
  <2>1. /\ UNCHANGED <<fwdBuffer, publishing, storeBuffer, storeBatch, storeClosed, written,
                       logStream, pubsub, loading, readLogs>>
        /\ logs' = <<>> /\ excused' = excused \cup Logs!Range(logs)
    BY <1>6 DEF Logs!ClearLogs, Logs!forwarder, Logs!redisStore
  <2>2. LogShapes'
    BY <2>1 DEF LogShapes
  <2>. QED  BY <2>1, <2>2 DEF InStream, Logs!LogSeen
<1>. QED  BY <1>1, <1>2, <1>3, <1>4, <1>5, <1>6

LEMMA LogsStep == LogsInv /\ [Logs!Next]_logPart => LogsInv'
<1> SUFFICES ASSUME LogsInv, [Logs!Next]_logPart PROVE LogsInv'
  OBVIOUS
<1>. USE DEF LogsInv, Logs!NoEntry
<1>1. CASE UNCHANGED logPart
  BY <1>1 DEF logPart, LogShapes, InStream, Logs!LogSeen
<1>2. ASSUME NEW e \in LogEntries, Logs!Log(e) PROVE LogsInv'
  <2>1. /\ UNCHANGED <<storeBuffer, storeBatch, logStream, pubsub, readLogs, logs, written,
                       publishing, storeClosed, loading>>
        /\ fwdBuffer' \in Seq(LogEntries) /\ excused \subseteq excused'
    <3>1. Append(fwdBuffer, e) \in Seq(LogEntries) /\ fwdBuffer \in Seq(LogEntries)
      BY AppendSet DEF LogShapes
    <3>2. fwdBuffer' = Append(fwdBuffer, e) \/ fwdBuffer' = fwdBuffer
      BY <1>2 DEF Logs!Log
    <3>3. excused \subseteq excused'
      BY <1>2 DEF Logs!Log
    <3>. QED  BY <1>2, <3>1, <3>2, <3>3 DEF Logs!Log, Logs!redisStore, Logs!view
  <2>. QED  BY <2>1 DEF LogShapes, InStream, Logs!LogSeen
<1>3. ASSUME NEW e \in LogEntries, Logs!Write(e) PROVE LogsInv'
  <2>0. /\ UNCHANGED <<storeBatch, storeClosed, fwdBuffer, publishing, readLogs, logs, loading>>
        /\ UNCHANGED Logs!view
    BY <1>3 DEF Logs!Write, Logs!forwarder, Logs!view
  <2>1. CASE Logs!Idle /\ storeBuffer' = Append(storeBuffer, e)
    <3>1. storeBuffer' \in Seq(LogEntries)
      BY <2>1, AppendSet DEF LogShapes
    <3>. QED  BY <2>0, <2>1, <3>1 DEF Logs!Idle, LogShapes, InStream, Logs!LogSeen
  <2>2. CASE Logs!WritesBatch(<<e>>) /\ UNCHANGED storeBuffer
    <3>1. <<e>> \in Seq(LogEntries)
      OBVIOUS
    <3>2. /\ logStream' \in Seq(LogEntries) /\ pubsub' \in Seq(LogEntries)
          /\ written' \subseteq LogEntries /\ InStream' /\ Logs!LogSeen'
      BY <2>0, <2>2, <3>1, BatchKeeps DEF Logs!view
    <3>. QED  BY <2>0, <2>2, <3>2 DEF LogShapes
  <2>. QED  BY <1>3, <2>1, <2>2 DEF Logs!Write
<1>4. CASE Logs!StoreTakes
  <2>0. /\ UNCHANGED <<storeClosed, fwdBuffer, publishing, readLogs, logs, loading>>
        /\ UNCHANGED Logs!view
    BY <1>4 DEF Logs!StoreTakes, Logs!forwarder, Logs!view
  <2>1. Head(storeBuffer) \in LogEntries /\ storeBuffer' \in Seq(LogEntries)
    BY <1>4, SplitSet DEF Logs!StoreTakes, LogShapes
  <2> DEFINE b == Append(storeBatch, Head(storeBuffer))
  <2>2. b \in Seq(LogEntries) /\ <<>> \in Seq(LogEntries)
    BY <2>1, AppendSet DEF LogShapes
  <2>3. CASE Logs!Idle /\ storeBatch' = b
    BY <2>0, <2>1, <2>2, <2>3 DEF Logs!Idle, LogShapes, InStream, Logs!LogSeen
  <2>4. CASE Logs!WritesBatch(b) /\ storeBatch' = <<>>
    <3>. HIDE DEF b
    <3>2. /\ logStream' \in Seq(LogEntries) /\ pubsub' \in Seq(LogEntries)
          /\ written' \subseteq LogEntries /\ InStream' /\ Logs!LogSeen'
      BY <2>0, <2>2, <2>4, BatchKeeps DEF Logs!view
    <3>. QED  BY <2>0, <2>1, <2>2, <2>4, <3>2 DEF LogShapes
  <2>. QED  BY <1>4, <2>3, <2>4 DEF Logs!StoreTakes
<1>5. CASE Logs!StoreTick
  <2>0. /\ UNCHANGED <<storeBuffer, storeClosed, fwdBuffer, publishing, readLogs, logs, loading>>
        /\ UNCHANGED Logs!view /\ storeBatch' = <<>> /\ Logs!WritesBatch(storeBatch)
    BY <1>5 DEF Logs!StoreTick, Logs!forwarder, Logs!view
  <2>1. storeBatch \in Seq(LogEntries) /\ storeBatch' \in Seq(LogEntries)
    BY <2>0 DEF LogShapes
  <2>2. /\ logStream' \in Seq(LogEntries) /\ pubsub' \in Seq(LogEntries)
        /\ written' \subseteq LogEntries /\ InStream' /\ Logs!LogSeen'
    BY <2>0, <2>1, BatchKeeps DEF Logs!view
  <2>. QED  BY <2>0, <2>1, <2>2 DEF LogShapes
<1>6. CASE Logs!StoreClose
  <2>1. /\ UNCHANGED <<storeBatch, logStream, readLogs, logs, written, publishing, fwdBuffer>>
        /\ storeClosed' = TRUE /\ storeBuffer' = <<>> /\ pubsub' = <<>>
        /\ excused \subseteq excused'
    BY <1>6 DEF Logs!StoreClose, Logs!forwarder, Logs!view
  <2>. QED  BY <2>1 DEF LogShapes, InStream, Logs!LogSeen
<1>. QED  BY <1>1, <1>2, <1>3, <1>4, <1>5, <1>6, ForwarderKeeps, ViewKeeps DEF Logs!Next

-----------------------------------------------------------------------------
(* The audit trail.                                                        *)

LEMMA KindFacts ==
  \A k \in Trail!KeyKinds :
    /\ Trail!Adds[k] \in {"add log", "add user", "add action"}
    /\ Trail!Expires[k] \in {"expire log", "expire user", "expire action"}
    /\ k = "log" <=> Trail!Adds[k] = "add log"
    /\ k = "log" <=> Trail!Expires[k] = "expire log"
    /\ \A j \in Trail!KeyKinds : Trail!Expires[j] = Trail!Expires[k] => j = k
    /\ \A e : Trail!AfterExpire(e, k) \in {"add user", "add action", "done"}
<1>1. /\ Trail!Adds["log"] = "add log" /\ Trail!Adds["user"] = "add user"
      /\ Trail!Adds["action"] = "add action"
  BY DEF Trail!Adds
<1>2. /\ Trail!Expires["log"] = "expire log" /\ Trail!Expires["user"] = "expire user"
      /\ Trail!Expires["action"] = "expire action"
  BY DEF Trail!Expires
<1>3. \A k \in Trail!KeyKinds : \A e : Trail!AfterExpire(e, k) \in {"add user", "add action", "done"}
  BY DEF Trail!AfterExpire, Trail!KeyKinds
<1>. QED  BY <1>1, <1>2, <1>3 DEF Trail!KeyKinds

LEMMA AuditDays == /\ Trail!Never \in Nat /\ \A d \in Trail!Days : d \in Nat /\ d <= MaxDay
                   /\ \A d \in Trail!Days : d + RetentionDays < Trail!Never /\ d # Trail!Never
BY AuditBounds DEF Trail!Never, Trail!Days

Stages == {"idle", "done", "failed", "add log", "add user", "add action", "expire log",
           "expire user", "expire action"}
AuditShapes ==
  /\ today \in Trail!Days /\ day \in [Audited -> Trail!Days]
  /\ addedOn \in [Audited -> Trail!Days \cup {Trail!Never}]
  /\ auditAt \in [Audited -> Stages]
  /\ kept \in [Trail!AuditKeys -> SUBSET Audited]
  /\ expiry \in [Trail!AuditKeys -> Nat]
\* The request goes on within MaxTaking days of its begin; one that has not begun has no entry.
TakingInv ==
  \A e \in Audited :
    /\ Trail!UnderWay(e) => day[e] <= today /\ today <= day[e] + MaxTaking
    /\ auditAt[e] = "idle" => addedOn[e] = Trail!Never /\ e \notin unexpired
    /\ addedOn[e] # Trail!Never => addedOn[e] <= today
\* The expiry of a day's key is counted from that day or a later one.
ExpiryInv ==
  \A k \in Trail!KeyKinds, d \in Trail!Days :
    expiry[<<k, d>>] # Trail!Never => d + RetentionDays <= expiry[<<k, d>>]
\* The entry of a request is there, with an expiry that is late enough or to be renewed by
\* the request itself, until its time is over.
EntryInv ==
  \A e \in Audited \ unexpired :
    addedOn[e] # Trail!Never =>
      \/ addedOn[e] + RetentionDays <= today
      \/ /\ e \in kept[<<"log", day[e]>>]
         /\ \/ expiry[<<"log", day[e]>>] >= addedOn[e] + RetentionDays
            \/ auditAt[e] = "expire log"
\* A key without an expiry has a writer who is about to set it, or failed to.
WriterInv ==
  \A k \in Trail!KeyKinds, d \in Trail!Days :
    kept[<<k, d>>] # {} /\ expiry[<<k, d>>] = Trail!Never =>
      \E e \in Audited : day[e] = d /\ (auditAt[e] = Trail!Expires[k] \/ e \in unexpired)
AuditInv == AuditShapes /\ TakingInv /\ ExpiryInv /\ EntryInv /\ WriterInv

LEMMA AuditUse == AuditInv => Trail!AuditKept
<1> SUFFICES ASSUME AuditInv PROVE Trail!AuditKept
  OBVIOUS
<1>1. ASSUME NEW e \in Audited \ unexpired, addedOn[e] <= today, today < addedOn[e] + RetentionDays
      PROVE  e \in Trail!QueryAuditLogs("log", day[e])
  <2>1. today \in Trail!Days /\ addedOn[e] \in Trail!Days \cup {Trail!Never}
    BY DEF AuditInv, AuditShapes
  <2>2. addedOn[e] # Trail!Never /\ ~(addedOn[e] + RetentionDays <= today)
    BY <1>1, <2>1, AuditDays, AuditBounds
  <2>. QED  BY <2>2 DEF AuditInv, EntryInv, Trail!QueryAuditLogs
<1>. QED  BY <1>1 DEF AuditInv, WriterInv, Trail!AuditKept

LEMMA AuditInitially == Trail!AuditInit => AuditInv
<1> SUFFICES ASSUME Trail!AuditInit PROVE AuditInv
  OBVIOUS
<1>0. /\ today = 0 /\ unexpired = {} /\ auditAt = [e \in Audited |-> "idle"]
      /\ day = [e \in Audited |-> 0] /\ addedOn = [e \in Audited |-> Trail!Never]
      /\ kept = [k \in Trail!AuditKeys |-> {}] /\ expiry = [k \in Trail!AuditKeys |-> Trail!Never]
  BY DEF Trail!AuditInit
<1>1. AuditShapes
  BY <1>0, AuditDays, AuditBounds DEF AuditShapes, Stages, Trail!Days
<1>2. \A k \in Trail!KeyKinds, d \in Trail!Days : <<k, d>> \in Trail!AuditKeys
  BY DEF Trail!AuditKeys
<1>. QED  BY <1>0, <1>1, <1>2 DEF AuditInv, TakingInv, ExpiryInv, EntryInv, WriterInv, Trail!UnderWay

\* A command that adds nothing and sets no expiry, or its failure.
LEMMA QuietCommandsKeep ==
  ASSUME AuditInv, NEW e \in Audited, NEW stage \in Stages,
         UNCHANGED <<today, day, addedOn, kept, expiry>>,
         auditAt' = [auditAt EXCEPT ![e] = stage], Trail!UnderWay(e),
         stage # "idle",
         \/ unexpired' = unexpired \cup {e}
         \/ unexpired' = unexpired /\ \A k \in Trail!KeyKinds : auditAt[e] # Trail!Expires[k]
  PROVE  AuditInv'
<1>1. /\ \A f \in Audited : f # e => auditAt'[f] = auditAt[f]
      /\ auditAt'[e] = stage /\ AuditShapes' /\ unexpired \subseteq unexpired'
  BY DEF AuditInv, AuditShapes
<1>2. TakingInv'
  BY <1>1 DEF AuditInv, TakingInv, Trail!UnderWay
<1>3. ExpiryInv'
  BY DEF AuditInv, ExpiryInv
<1>4. EntryInv'
  BY <1>1, KindFacts DEF AuditInv, EntryInv, Trail!KeyKinds
<1>5. WriterInv'
  <2> SUFFICES ASSUME NEW k \in Trail!KeyKinds, NEW d \in Trail!Days,
                      kept'[<<k, d>>] # {}, expiry'[<<k, d>>] = Trail!Never
               PROVE  \E f \in Audited : day'[f] = d
                        /\ (auditAt'[f] = Trail!Expires[k] \/ f \in unexpired')
    BY DEF WriterInv
  <2>1. PICK f \in Audited : day[f] = d /\ (auditAt[f] = Trail!Expires[k] \/ f \in unexpired)
    BY DEF AuditInv, WriterInv
  <2>2. day'[f] = d /\ (auditAt'[f] = Trail!Expires[k] \/ f \in unexpired')
    BY <1>1, <2>1
  <2>. QED  BY <2>2
<1>. QED  BY <1>1, <1>2, <1>3, <1>4, <1>5 DEF AuditInv

LEMMA AuditBeginsKeep ==
  ASSUME AuditInv, NEW e \in Audited, Trail!BeginRequest(e)
  PROVE  AuditInv'
<1>1. /\ UNCHANGED <<today, addedOn, kept, expiry, unexpired>> /\ auditAt[e] = "idle"
      /\ day' = [day EXCEPT ![e] = today] /\ auditAt' = [auditAt EXCEPT ![e] = "add log"]
  BY DEF Trail!BeginRequest
<1>2. /\ \A f \in Audited : f # e => auditAt'[f] = auditAt[f] /\ day'[f] = day[f]
      /\ auditAt'[e] = "add log" /\ day'[e] = today /\ AuditShapes'
  BY <1>1 DEF AuditInv, AuditShapes, Stages
<1>3. addedOn[e] = Trail!Never /\ e \notin unexpired /\ today \in Nat
  BY <1>1, AuditDays DEF AuditInv, TakingInv, AuditShapes
<1>4. TakingInv'
  <2>1. today <= today /\ today <= today + MaxTaking
    BY <1>3, AuditBounds
  <2>. QED  BY <1>1, <1>2, <1>3, <2>1 DEF AuditInv, TakingInv, Trail!UnderWay
<1>5. ExpiryInv'
  BY <1>1 DEF AuditInv, ExpiryInv
<1>6. EntryInv'
  BY <1>1, <1>2, <1>3 DEF AuditInv, EntryInv
<1>7. WriterInv'
  <2> SUFFICES ASSUME NEW k \in Trail!KeyKinds, NEW d \in Trail!Days,
                      kept'[<<k, d>>] # {}, expiry'[<<k, d>>] = Trail!Never
               PROVE  \E f \in Audited : day'[f] = d
                        /\ (auditAt'[f] = Trail!Expires[k] \/ f \in unexpired')
    BY DEF WriterInv
  <2>1. PICK f \in Audited : day[f] = d /\ (auditAt[f] = Trail!Expires[k] \/ f \in unexpired)
    BY <1>1 DEF AuditInv, WriterInv
  <2>2. f # e
    BY <1>1, <1>3, <2>1, KindFacts
  <2>. QED  BY <1>1, <1>2, <2>1, <2>2
<1>. QED  BY <1>2, <1>4, <1>5, <1>6, <1>7 DEF AuditInv

LEMMA EntriesKeep ==
  ASSUME AuditInv, NEW e \in Audited, NEW k \in Trail!KeyKinds, Trail!ZAdd(e, k)
  PROVE  AuditInv'
<1>1. /\ UNCHANGED <<today, day, expiry, unexpired>> /\ auditAt[e] = Trail!Adds[k]
      /\ kept' = [kept EXCEPT ![<<k, day[e]>>] = @ \cup {e}]
      /\ addedOn' = IF k = "log" THEN [addedOn EXCEPT ![e] = today] ELSE addedOn
      /\ auditAt' = [auditAt EXCEPT ![e] = Trail!Expires[k]]
  BY DEF Trail!ZAdd
<1>2. /\ day[e] \in Trail!Days /\ today \in Trail!Days /\ <<k, day[e]>> \in Trail!AuditKeys
      /\ Trail!Expires[k] \in Stages /\ Trail!Expires[k] \notin {"idle", "done", "failed"}
      /\ Trail!UnderWay(e)
  BY <1>1, KindFacts DEF AuditInv, AuditShapes, Stages, Trail!AuditKeys, Trail!UnderWay
<1>3. /\ \A f \in Audited : f # e => auditAt'[f] = auditAt[f] /\ addedOn'[f] = addedOn[f]
      /\ auditAt'[e] = Trail!Expires[k]
      /\ k # "log" => addedOn'[e] = addedOn[e]
      /\ k = "log" => addedOn'[e] = today
      /\ \A x \in Trail!AuditKeys : x # <<k, day[e]>> => kept'[x] = kept[x]
      /\ kept'[<<k, day[e]>>] = kept[<<k, day[e]>>] \cup {e}
      /\ AuditShapes'
  BY <1>1, <1>2 DEF AuditInv, AuditShapes
<1>4. TakingInv'
  <2>1. today <= today
    BY <1>2, AuditDays
  <2>. QED  BY <1>1, <1>2, <1>3, <2>1 DEF AuditInv, TakingInv, Trail!UnderWay
<1>5. ExpiryInv'
  BY <1>1 DEF AuditInv, ExpiryInv
<1>6. EntryInv'
  <2> SUFFICES ASSUME NEW f \in Audited \ unexpired', addedOn'[f] # Trail!Never
               PROVE  \/ addedOn'[f] + RetentionDays <= today'
                      \/ /\ f \in kept'[<<"log", day'[f]>>]
                         /\ \/ expiry'[<<"log", day'[f]>>] >= addedOn'[f] + RetentionDays
                            \/ auditAt'[f] = "expire log"
    BY DEF EntryInv
  <2>0. <<"log", day[f]>> \in Trail!AuditKeys /\ f \in Audited /\ f \notin unexpired
    <3>1. day[f] \in Trail!Days
      BY DEF AuditInv, AuditShapes
    <3>. QED  BY <1>1, <3>1 DEF Trail!AuditKeys, Trail!KeyKinds
  <2>1. CASE f = e /\ k = "log"
    BY <1>1, <1>3, <2>1, KindFacts
  <2>2. CASE ~(f = e /\ k = "log")
    <3>1. addedOn'[f] = addedOn[f] /\ kept[<<"log", day[f]>>] \subseteq kept'[<<"log", day[f]>>]
      <4>1. addedOn'[f] = addedOn[f]
        BY <1>3, <2>0, <2>2
      <4>2. \A z \in Trail!AuditKeys : kept[z] \subseteq kept'[z]
        BY <1>3
      <4>. QED  BY <2>0, <4>1, <4>2
    <3>2. auditAt[f] = "expire log" => auditAt'[f] = "expire log"
      BY <1>1, <1>3, <2>2, KindFacts
    <3>. QED  BY <1>1, <2>0, <3>1, <3>2 DEF AuditInv, EntryInv
  <2>. QED  BY <2>1, <2>2
<1>7. WriterInv'
  <2> SUFFICES ASSUME NEW j \in Trail!KeyKinds, NEW d \in Trail!Days,
                      kept'[<<j, d>>] # {}, expiry'[<<j, d>>] = Trail!Never
               PROVE  \E f \in Audited : day'[f] = d
                        /\ (auditAt'[f] = Trail!Expires[j] \/ f \in unexpired')
    BY DEF WriterInv
  <2>1. CASE j = k /\ d = day[e]
    <3>1. day'[e] = d /\ auditAt'[e] = Trail!Expires[j]
      BY <1>1, <1>3, <2>1
    <3>. QED  BY <3>1
  <2>2. CASE ~(j = k /\ d = day[e])
    <3>1. kept'[<<j, d>>] = kept[<<j, d>>]
      BY <1>3, <2>2 DEF Trail!AuditKeys
    <3>2. PICK f \in Audited : day[f] = d /\ (auditAt[f] = Trail!Expires[j] \/ f \in unexpired)
      BY <1>1, <3>1 DEF AuditInv, WriterInv
    <3>3. CASE f \in unexpired
      BY <1>1, <3>2, <3>3
    <3>4. CASE auditAt[f] = Trail!Expires[j]
      <4>1. auditAt[f] # auditAt[e]
        BY <1>1, <3>4, KindFacts
      <4>. QED  BY <1>1, <1>3, <3>2, <3>4, <4>1
    <3>. QED  BY <3>2, <3>3, <3>4
  <2>. QED  BY <2>1, <2>2
<1>. QED  BY <1>3, <1>4, <1>5, <1>6, <1>7 DEF AuditInv

LEMMA ExpiriesKeep ==
  ASSUME AuditInv, NEW e \in Audited, NEW k \in Trail!KeyKinds, Trail!Expire(e, k)
  PROVE  AuditInv'
<1> DEFINE x == <<k, day[e]>>
           until == today + RetentionDays
<1>1. /\ UNCHANGED <<today, day, addedOn, kept, unexpired>> /\ auditAt[e] = Trail!Expires[k]
      /\ expiry' = IF kept[x] = {} THEN expiry ELSE [expiry EXCEPT ![x] = until]
      /\ auditAt' = [auditAt EXCEPT ![e] = Trail!AfterExpire(e, k)]
  BY DEF Trail!Expire, Trail!NewExpiry
<1>2. /\ day[e] \in Trail!Days /\ today \in Trail!Days /\ x \in Trail!AuditKeys
      /\ Trail!AfterExpire(e, k) \in Stages \ {"idle"}
      /\ day[e] \in Nat /\ today \in Nat /\ until \in Nat /\ until # Trail!Never
      /\ day[e] <= today /\ today <= day[e] + MaxTaking /\ Trail!UnderWay(e)
  <2>1. Trail!UnderWay(e)
    BY <1>1, KindFacts DEF Trail!UnderWay
  <2>2. day[e] \in Trail!Days /\ today \in Trail!Days
    BY DEF AuditInv, AuditShapes
  <2>3. day[e] \in Nat /\ today \in Nat /\ until \in Nat /\ until # Trail!Never
    BY <2>2, AuditDays, AuditBounds
  <2>. QED  BY <2>1, <2>2, <2>3, KindFacts DEF AuditInv, TakingInv, Stages, Trail!AuditKeys
<1>3. /\ \A f \in Audited : f # e => auditAt'[f] = auditAt[f]
      /\ auditAt'[e] = Trail!AfterExpire(e, k)
      /\ \A y \in Trail!AuditKeys : y # x => expiry'[y] = expiry[y]
      /\ expiry'[x] = IF kept[x] = {} THEN expiry[x] ELSE until
      /\ AuditShapes'
  BY <1>1, <1>2 DEF AuditInv, AuditShapes
<1>4. TakingInv'
  BY <1>1, <1>2, <1>3 DEF AuditInv, TakingInv, Trail!UnderWay
<1>5. ExpiryInv'
  <2> SUFFICES ASSUME NEW j \in Trail!KeyKinds,
                      NEW d \in Trail!Days, expiry'[<<j, d>>] # Trail!Never
               PROVE  d + RetentionDays <= expiry'[<<j, d>>]
    BY DEF ExpiryInv
  <2>1. CASE j = k /\ d = day[e] /\ kept[x] # {}
    BY <1>2, <1>3, <2>1, AuditBounds
  <2>2. CASE ~(j = k /\ d = day[e] /\ kept[x] # {})
    <3>1. expiry'[<<j, d>>] = expiry[<<j, d>>]
      BY <1>3, <2>2 DEF Trail!AuditKeys
    <3>. QED  BY <3>1 DEF AuditInv, ExpiryInv
  <2>. QED  BY <2>1, <2>2
<1>6. EntryInv'
  <2> SUFFICES ASSUME NEW f \in Audited \ unexpired', addedOn'[f] # Trail!Never
               PROVE  \/ addedOn'[f] + RetentionDays <= today'
                      \/ /\ f \in kept'[<<"log", day'[f]>>]
                         /\ \/ expiry'[<<"log", day'[f]>>] >= addedOn'[f] + RetentionDays
                            \/ auditAt'[f] = "expire log"
    BY DEF EntryInv
  <2> DEFINE y == <<"log", day[f]>>
  <2>0. y \in Trail!AuditKeys /\ f \in Audited /\ f \notin unexpired /\ addedOn[f] \in Trail!Days
    BY <1>1 DEF AuditInv, AuditShapes, Trail!AuditKeys, Trail!KeyKinds
  <2>1. \/ addedOn[f] + RetentionDays <= today
        \/ /\ f \in kept[y]
           /\ expiry[y] >= addedOn[f] + RetentionDays \/ auditAt[f] = "expire log"
    BY <1>1, <2>0 DEF AuditInv, EntryInv
  <2>2. addedOn[f] <= today /\ addedOn[f] \in Nat
    BY <1>1, <2>0, AuditDays DEF AuditInv, TakingInv
  <2>3. CASE addedOn[f] + RetentionDays <= today
    BY <1>1, <2>3
  <2>4. CASE f \in kept[y] /\ y = x
    <3>1. expiry'[y] = until
      BY <1>3, <2>4
    <3>2. until >= addedOn[f] + RetentionDays
      BY <1>2, <2>2, AuditBounds
    <3>. QED  BY <1>1, <2>4, <3>1, <3>2
  <2>5. CASE f \in kept[y] /\ y # x
    <3>1. expiry'[y] = expiry[y]
      BY <1>3, <2>0, <2>5
    <3>2. auditAt[f] = "expire log" => f # e
      BY <1>1, <2>5, KindFacts
    <3>. QED  BY <1>1, <1>3, <2>1, <2>5, <3>1, <3>2
  <2>. QED  BY <2>1, <2>3, <2>4, <2>5
<1>7. WriterInv'
  <2> SUFFICES ASSUME NEW j \in Trail!KeyKinds, NEW d \in Trail!Days,
                      kept'[<<j, d>>] # {}, expiry'[<<j, d>>] = Trail!Never
               PROVE  \E f \in Audited : day'[f] = d
                        /\ (auditAt'[f] = Trail!Expires[j] \/ f \in unexpired')
    BY DEF WriterInv
  <2>1. CASE j = k /\ d = day[e]
    BY <1>1, <1>2, <1>3, <2>1
  <2>2. CASE ~(j = k /\ d = day[e])
    <3>1. expiry'[<<j, d>>] = expiry[<<j, d>>]
      BY <1>3, <2>2 DEF Trail!AuditKeys
    <3>2. PICK f \in Audited : day[f] = d /\ (auditAt[f] = Trail!Expires[j] \/ f \in unexpired)
      BY <1>1, <3>1 DEF AuditInv, WriterInv
    <3>3. CASE f \in unexpired
      BY <1>1, <3>2, <3>3
    <3>4. CASE auditAt[f] = Trail!Expires[j]
      <4>1. f # e
        <5> SUFFICES ASSUME f = e PROVE FALSE
          OBVIOUS
        <5>1. Trail!Expires[j] = Trail!Expires[k]
          BY <1>1, <3>4
        <5>. QED  BY <2>2, <3>2, <5>1, KindFacts
      <4>. QED  BY <1>1, <1>3, <3>2, <3>4, <4>1
    <3>. QED  BY <3>2, <3>3, <3>4
  <2>. QED  BY <2>1, <2>2
<1>. QED  BY <1>3, <1>4, <1>5, <1>6, <1>7 DEF AuditInv
LEMMA NextDayKeeps ==
  ASSUME AuditInv, Trail!NextDay
  PROVE  AuditInv'
<1>1. /\ UNCHANGED <<auditAt, day, addedOn, unexpired>> /\ today < MaxDay /\ today' = today + 1
      /\ \A e \in Audited : Trail!UnderWay(e) => today < day[e] + MaxTaking
      /\ kept' = [k \in Trail!AuditKeys |-> IF expiry[k] <= today' THEN {} ELSE kept[k]]
      /\ expiry' = [k \in Trail!AuditKeys |-> IF expiry[k] <= today' THEN Trail!Never ELSE expiry[k]]
  BY DEF Trail!NextDay
<1>2. today \in Nat /\ today' \in Trail!Days /\ today' \in Nat
  BY <1>1, AuditBounds DEF AuditInv, AuditShapes, Trail!Days
<1>3. AuditShapes'
  BY <1>1, <1>2, AuditDays DEF AuditInv, AuditShapes
<1>4. ASSUME NEW e \in Audited
      PROVE  day[e] \in Nat /\ (addedOn[e] # Trail!Never => addedOn[e] \in Nat)
  BY AuditDays DEF AuditInv, AuditShapes
<1>5. TakingInv'
  BY <1>1, <1>2, <1>4, AuditBounds DEF AuditInv, TakingInv, Trail!UnderWay
<1>6. ExpiryInv'
  BY <1>1 DEF AuditInv, ExpiryInv, Trail!AuditKeys
<1>7. EntryInv'
  <2> SUFFICES ASSUME NEW f \in Audited \ unexpired, addedOn[f] # Trail!Never
               PROVE  \/ addedOn[f] + RetentionDays <= today'
                      \/ /\ f \in kept'[<<"log", day[f]>>]
                         /\ \/ expiry'[<<"log", day[f]>>] >= addedOn[f] + RetentionDays
                            \/ auditAt[f] = "expire log"
    BY <1>1 DEF EntryInv
  <2> DEFINE y == <<"log", day[f]>>
  <2>0. y \in Trail!AuditKeys /\ expiry[y] \in Nat /\ day[f] \in Trail!Days
          /\ "log" \in Trail!KeyKinds
        /\ day[f] \in Nat /\ addedOn[f] \in Nat
    BY <1>4 DEF AuditInv, AuditShapes, Trail!AuditKeys, Trail!KeyKinds
  <2>1. \/ addedOn[f] + RetentionDays <= today
        \/ f \in kept[y] /\ expiry[y] >= addedOn[f] + RetentionDays
        \/ f \in kept[y] /\ auditAt[f] = "expire log"
    BY DEF AuditInv, EntryInv
  <2>2. CASE expiry[y] <= today'
    <3>1. ASSUME auditAt[f] = "expire log" PROVE FALSE
      <4>1. today < day[f] + MaxTaking
        BY <1>1, <3>1 DEF Trail!UnderWay
      <4>2. CASE expiry[y] # Trail!Never
        <5>1. day[f] + RetentionDays <= expiry[y]
          BY <2>0, <4>2 DEF AuditInv, ExpiryInv
        <5>. QED  BY <1>1, <1>2, <2>0, <2>2, <4>1, <5>1, AuditBounds
      <4>3. CASE expiry[y] = Trail!Never
        <5>1. today' + RetentionDays < Trail!Never
          BY <1>2, AuditDays
        <5>. QED  BY <1>2, <2>0, <2>2, <4>3, <5>1, AuditBounds
      <4>. QED  BY <4>2, <4>3
    <3>2. addedOn[f] + RetentionDays <= today'
      <4>1. CASE addedOn[f] + RetentionDays <= today
        BY <1>1, <1>2, <2>0, <4>1, AuditBounds
      <4>2. CASE expiry[y] >= addedOn[f] + RetentionDays
        BY <1>2, <2>0, <2>2, <4>2, AuditBounds
      <4>. QED  BY <2>1, <3>1, <4>1, <4>2
    <3>. QED  BY <3>2
  <2>3. CASE ~(expiry[y] <= today')
    <3>1. kept'[y] = kept[y] /\ expiry'[y] = expiry[y]
      BY <1>1, <2>0, <2>3
    <3>2. addedOn[f] + RetentionDays <= today => addedOn[f] + RetentionDays <= today'
      BY <1>1, <1>2, <2>0, AuditBounds
    <3>. QED  BY <2>1, <3>1, <3>2
  <2>. QED  BY <2>2, <2>3
<1>8. WriterInv'
  <2> SUFFICES ASSUME NEW j \in Trail!KeyKinds, NEW d \in Trail!Days,
                      kept'[<<j, d>>] # {}, expiry'[<<j, d>>] = Trail!Never
               PROVE  \E f \in Audited : day[f] = d
                        /\ (auditAt[f] = Trail!Expires[j] \/ f \in unexpired)
    BY <1>1 DEF WriterInv
  <2>1. <<j, d>> \in Trail!AuditKeys
    BY DEF Trail!AuditKeys
  <2>2. kept[<<j, d>>] # {} /\ expiry[<<j, d>>] = Trail!Never
    BY <1>1, <2>1
  <2>. QED  BY <2>2 DEF AuditInv, WriterInv
<1>. QED  BY <1>3, <1>5, <1>6, <1>7, <1>8 DEF AuditInv

LEMMA AuditStep == AuditInv /\ [Trail!AuditNext]_auditPart => AuditInv'
<1> SUFFICES ASSUME AuditInv, [Trail!AuditNext]_auditPart PROVE AuditInv'
  OBVIOUS
<1>1. CASE UNCHANGED auditPart
  <2>1. UNCHANGED <<today, auditAt, day, addedOn, kept, expiry, unexpired>>
    BY <1>1 DEF auditPart
  <2>2. AuditShapes' /\ TakingInv' /\ ExpiryInv'
    BY <2>1 DEF AuditInv, AuditShapes, TakingInv, ExpiryInv, Trail!UnderWay
  <2>3. EntryInv'
    BY <2>1 DEF AuditInv, EntryInv
  <2>4. WriterInv'
    BY <2>1 DEF AuditInv, WriterInv
  <2>. QED  BY <2>2, <2>3, <2>4 DEF AuditInv
<1>2. ASSUME NEW e \in Audited, Trail!Crash(e) PROVE AuditInv'
  <2>1. /\ UNCHANGED <<today, day, addedOn, kept, expiry>> /\ Trail!UnderWay(e)
        /\ auditAt' = [auditAt EXCEPT ![e] = "failed"] /\ unexpired' = unexpired \cup {e}
    BY <1>2 DEF Trail!Crash, Trail!UnderWay
  <2>2. "failed" \in Stages /\ "failed" # "idle"
    BY DEF Stages
  <2>. QED  BY <2>1, <2>2, QuietCommandsKeep
<1>3. ASSUME NEW e \in Audited, NEW k \in Trail!KeyKinds, Trail!ZAddFails(e, k) PROVE AuditInv'
  <2> DEFINE stage == IF k = "log" THEN "failed" ELSE Trail!Expires[k]
  <2>1. /\ UNCHANGED <<today, day, addedOn, kept, expiry, unexpired>>
        /\ auditAt[e] = Trail!Adds[k] /\ auditAt' = [auditAt EXCEPT ![e] = stage]
    BY <1>3 DEF Trail!ZAddFails
  <2>2. stage \in Stages /\ stage # "idle"
    BY KindFacts DEF Stages
  <2>3. Trail!UnderWay(e) /\ \A j \in Trail!KeyKinds : auditAt[e] # Trail!Expires[j]
    BY <2>1, KindFacts DEF Trail!UnderWay
  <2>. HIDE DEF stage
  <2>. QED  BY <2>1, <2>2, <2>3, QuietCommandsKeep
<1>4. ASSUME NEW e \in Audited, NEW k \in Trail!KeyKinds, Trail!ExpireFails(e, k) PROVE AuditInv'
  <2> DEFINE stage == Trail!AfterExpire(e, k)
  <2>1. /\ UNCHANGED <<today, day, addedOn, kept, expiry>> /\ unexpired' = unexpired \cup {e}
        /\ auditAt[e] = Trail!Expires[k] /\ auditAt' = [auditAt EXCEPT ![e] = stage]
    BY <1>4 DEF Trail!ExpireFails
  <2>2. stage \in Stages /\ stage # "idle" /\ Trail!UnderWay(e)
    BY <2>1, KindFacts DEF Stages, Trail!UnderWay
  <2>. HIDE DEF stage
  <2>. QED  BY <2>1, <2>2, QuietCommandsKeep
<1>. QED  BY <1>1, <1>2, <1>3, <1>4, NextDayKeeps, AuditBeginsKeep, EntriesKeep, ExpiriesKeep DEF Trail!AuditNext

-----------------------------------------------------------------------------
(* Log files by day.                                                       *)

LEMMA Halves == \A n \in Nat : n \div 2 \in Nat /\ 2 * (n \div 2) <= n /\ n <= 2 * (n \div 2) + 1
OBVIOUS

FileShapes ==
  /\ half \in 0 .. MaxHalf /\ began \in Nat
  /\ fileOf \in Logs!Dates /\ currentDate = fileOf
  /\ wroteOn \in [Lines -> Nat \cup {Logs!None}]
  /\ files \in [Logs!Dates -> SUBSET Lines]
  /\ writer # "none" => line \in Lines
\* A write is over within half a day, and goes to the file of the day it began or a later one.
WriteInv ==
  /\ writer # "none" => began <= half /\ half <= began + 1
  /\ writer \in {"link", "write"} => began \div 2 <= fileOf
CleanInv == toCheck # {} => MaxAge > 0 /\ cutoffHalf \in Nat /\ cutoffHalf <= half
Over(d) == MaxAge > 0 /\ 2 * d < half - 2 * MaxAge
OpenInv == fileOf \in there \/ Over(fileOf)
LineInv ==
  \A l \in Lines :
    wroteOn[l] # Logs!None =>
      \/ Over(wroteOn[l])
      \/ \E d \in there : d \in Logs!Dates /\ wroteOn[l] <= d /\ l \in files[d]
LinkInv == writer # "link" /\ ~linkFailed => link = fileOf
FilesInv == FileShapes /\ WriteInv /\ CleanInv /\ OpenInv /\ LineInv /\ LinkInv

LEMMA DatesAre == \A n \in 0 .. MaxHalf : n \div 2 \in Logs!Dates /\ n \in Nat
<1> SUFFICES ASSUME NEW n \in 0 .. MaxHalf PROVE n \div 2 \in Logs!Dates /\ n \in Nat
  OBVIOUS
<1>1. /\ n \in Nat /\ n \div 2 \in Nat /\ 2 * (n \div 2) <= n /\ n <= MaxHalf
      /\ MaxHalf \div 2 \in Nat /\ MaxHalf <= 2 * (MaxHalf \div 2) + 1
  BY Halves, FileBounds
<1> DEFINE a == n \div 2
           b == MaxHalf \div 2
<1>2. a \in Nat /\ b \in Nat /\ 2 * a <= n /\ MaxHalf <= 2 * b + 1
  BY <1>1
<1>. HIDE DEF a, b
<1>3. a \in 0 .. b
  BY <1>1, <1>2, FileBounds
<1>. QED  BY <1>1, <1>3 DEF Logs!Dates, a, b

LEMMA DatesNat == \A d \in Logs!Dates : d \in Nat
BY DEF Logs!Dates

LEMMA OverIs == half \in Nat => \A m, n \in Nat : m <= n /\ Over(n) => Over(m)
<1> SUFFICES ASSUME half \in Nat, NEW m \in Nat, NEW n \in Nat, m <= n, Over(n) PROVE Over(m)
  OBVIOUS
<1>1. MaxAge > 0 /\ 2 * n < half - 2 * MaxAge
  BY DEF Over
<1>2. 2 * m <= 2 * n
  OBVIOUS
<1>3. 2 * m < half - 2 * MaxAge
  BY <1>1, <1>2, FileBounds
<1>. QED  BY <1>1, <1>3 DEF Over

LEMMA FilesUse == FilesInv => Logs!LinesKept
<1> SUFFICES ASSUME FilesInv PROVE Logs!LinesKept
  OBVIOUS
<1>1. ASSUME NEW l \in Lines, wroteOn[l] # Logs!None,
             MaxAge = 0 \/ half <= 2 * (wroteOn[l] + MaxAge)
      PROVE  \E d \in there : l \in files[d]
  <2>1. wroteOn[l] \in Nat /\ half \in Nat
    BY <1>1, DatesAre DEF FilesInv, FileShapes
  <2>2. ~Over(wroteOn[l])
    BY <1>1, <2>1, FileBounds DEF Over
  <2>. QED  BY <1>1, <2>2 DEF FilesInv, LineInv
<1>2. writer = "none" /\ ~linkFailed => link = fileOf
  BY DEF FilesInv, LinkInv
<1>. QED  BY <1>1, <1>2 DEF Logs!LinesKept

LEMMA FilesInitially == Logs!RotatorInit => FilesInv
<1> SUFFICES ASSUME Logs!RotatorInit PROVE FilesInv
  OBVIOUS
<1>1. 0 \div 2 \in Logs!Dates /\ 0 \div 2 = 0
  BY DatesAre, FileBounds
<1>. QED
  BY <1>1, FileBounds DEF Logs!RotatorInit, FilesInv, FileShapes, WriteInv, CleanInv, OpenInv,
     LineInv, LinkInv, Logs!None

LEMMA RotationsKeep ==
  ASSUME FilesInv,
         \/ Logs!Rotate
         \/ Logs!RotateFails
         \/ \E ok \in BOOLEAN : Logs!Symlink(ok)
  PROVE  FilesInv'
<1>1. CASE Logs!Rotate
  <2>1. /\ UNCHANGED <<half, files, line, began, wroteOn, toCheck, cutoffHalf, linkFailed>>
        /\ there' = there \cup {half \div 2} /\ fileOf' = half \div 2 /\ currentDate' = fileOf'
        /\ writer = "rotate" /\ writer' = "link"
    BY <1>1 DEF Logs!Rotate, Logs!cleaning, Logs!Date
  <2>2. half \div 2 \in Logs!Dates /\ half \in Nat /\ began \in Nat /\ began <= half
    BY <2>1, DatesAre DEF FilesInv, FileShapes, WriteInv
  <2>3. began \div 2 <= half \div 2
    BY <2>2
  <2>4. FileShapes'
    BY <2>1, <2>2 DEF FilesInv, FileShapes
  <2>5. WriteInv' /\ CleanInv' /\ OpenInv' /\ LinkInv'
    BY <2>1, <2>3 DEF FilesInv, WriteInv, CleanInv, OpenInv, LinkInv
  <2>6. LineInv'
    BY <2>1 DEF FilesInv, LineInv, Over
  <2>. QED  BY <2>4, <2>5, <2>6 DEF FilesInv
<1>2. CASE Logs!RotateFails
  <2>1. /\ UNCHANGED <<half, files, there, fileOf, currentDate, link, began, wroteOn, toCheck,
                       cutoffHalf, linkFailed>>
        /\ writer = "rotate" /\ writer' = "none"
    BY <1>2 DEF Logs!RotateFails, Logs!cleaning, Logs!dir
  <2>2. FileShapes' /\ WriteInv' /\ CleanInv' /\ LinkInv'
    BY <2>1 DEF FilesInv, FileShapes, WriteInv, CleanInv, LinkInv
  <2>. QED  BY <2>1, <2>2 DEF FilesInv, OpenInv, LineInv, Over
<1>3. ASSUME NEW ok \in BOOLEAN, Logs!Symlink(ok) PROVE FilesInv'
  <2>1. /\ UNCHANGED <<half, files, there, fileOf, currentDate, line, began, wroteOn, toCheck,
                       cutoffHalf>>
        /\ writer = "link" /\ writer' = "write"
        /\ link' = fileOf \/ linkFailed'
    BY <1>3 DEF Logs!Symlink, Logs!cleaning, Logs!dir, Logs!fileVars
  <2>2. FileShapes' /\ WriteInv' /\ CleanInv' /\ LinkInv'
    BY <2>1 DEF FilesInv, FileShapes, WriteInv, CleanInv, LinkInv
  <2>. QED  BY <2>1, <2>2 DEF FilesInv, OpenInv, LineInv, Over
<1>. QED  BY <1>1, <1>2, <1>3

LEMMA WritesKeep ==
  ASSUME FilesInv, Logs!WriteLine \/ \E l \in Lines : Logs!RotatorWrite(l)
  PROVE  FilesInv'
<1>1. ASSUME NEW l \in Lines, Logs!RotatorWrite(l) PROVE FilesInv'
  <2>1. /\ UNCHANGED <<half, files, there, fileOf, currentDate, link, wroteOn, toCheck, cutoffHalf,
                       linkFailed>>
        /\ line' = l /\ began' = half /\ writer = "none"
        /\ \/ writer' = "rotate"
           \/ writer' = "write" /\ half \div 2 = currentDate
    BY <1>1 DEF Logs!RotatorWrite, Logs!cleaning, Logs!dir, Logs!fileVars, Logs!NeedsRotate, Logs!Date
  <2>2. half \in Nat /\ half <= half + 1 /\ half <= half /\ fileOf \in Nat /\ fileOf <= fileOf
    BY DatesAre, DatesNat DEF FilesInv, FileShapes
  <2>3. FileShapes' /\ WriteInv' /\ CleanInv' /\ LinkInv'
    BY <2>1, <2>2 DEF FilesInv, FileShapes, WriteInv, CleanInv, LinkInv
  <2>. QED  BY <2>1, <2>3 DEF FilesInv, OpenInv, LineInv, Over
<1>2. CASE Logs!WriteLine
  <2> DEFINE on == began \div 2
  <2>1. /\ UNCHANGED <<half, there, fileOf, currentDate, link, began, toCheck, cutoffHalf,
                       linkFailed>>
        /\ writer = "write" /\ writer' = "none"
        /\ wroteOn' = IF isOpen THEN [wroteOn EXCEPT ![line] = on] ELSE wroteOn
        /\ files' = IF isOpen /\ fileOf \in there THEN [files EXCEPT ![fileOf] = @ \cup {line}]
                    ELSE files
    BY <1>2 DEF Logs!WriteLine, Logs!cleaning, Logs!fileVars
  <2>2. /\ line \in Lines /\ fileOf \in Logs!Dates /\ on \in Nat /\ on <= fileOf /\ fileOf \in Nat
        /\ half \in Nat /\ began \in Nat /\ half <= began + 1 /\ began <= 2 * on + 1
    BY <2>1, Halves, DatesAre, DatesNat DEF FilesInv, FileShapes, WriteInv
  <2>3. fileOf \in there
    <3>1. ~Over(fileOf)
      BY <2>2, FileBounds DEF Over
    <3>. QED  BY <3>1 DEF FilesInv, OpenInv
  <2>. HIDE DEF on
  <2>4. /\ \A l \in Lines : l # line => wroteOn'[l] = wroteOn[l]
        /\ isOpen => wroteOn'[line] = on
        /\ ~isOpen => wroteOn'[line] = wroteOn[line]
        /\ \A d \in Logs!Dates : files[d] \subseteq files'[d]
        /\ isOpen => line \in files'[fileOf]
        /\ FileShapes'
    BY <2>1, <2>2, <2>3 DEF FilesInv, FileShapes
  <2>5. LineInv'
    <3> SUFFICES ASSUME NEW l \in Lines, wroteOn'[l] # Logs!None
                 PROVE  \/ Over(wroteOn'[l])
                        \/ \E d \in there : d \in Logs!Dates /\ wroteOn'[l] <= d /\ l \in files'[d]
      BY <2>1 DEF LineInv, Over
    <3>1. CASE l = line /\ isOpen
      BY <2>2, <2>3, <2>4, <3>1
    <3>2. CASE ~(l = line /\ isOpen)
      <4>1. wroteOn'[l] = wroteOn[l]
        BY <2>4, <3>2
      <4>2. CASE Over(wroteOn[l])
        BY <4>1, <4>2
      <4>3. CASE \E d \in there : d \in Logs!Dates /\ wroteOn[l] <= d /\ l \in files[d]
        BY <2>4, <4>1, <4>3
      <4>. QED  BY <4>1, <4>2, <4>3 DEF FilesInv, LineInv
    <3>. QED  BY <3>1, <3>2
  <2>6. WriteInv' /\ CleanInv' /\ LinkInv' /\ OpenInv'
    BY <2>1, <2>3 DEF FilesInv, WriteInv, CleanInv, LinkInv, OpenInv
  <2>. QED  BY <2>4, <2>5, <2>6 DEF FilesInv
<1>. QED  BY <1>1, <1>2

LEMMA FileTimesKeep ==
  ASSUME FilesInv,
         \/ Logs!Close
         \/ Logs!StartCleanup
         \/ Logs!HalfDayPasses
         \/ \E d \in Logs!Dates : Logs!CheckFile(d)
  PROVE  FilesInv'
<1>0. half \in Nat /\ fileOf \in Nat /\ half <= half
  BY DatesAre, DatesNat DEF FilesInv, FileShapes
<1>1. CASE Logs!Close
  <2>1. UNCHANGED <<half, files, there, fileOf, currentDate, link, writer, line, began, wroteOn,
                    toCheck, cutoffHalf, linkFailed>>
    BY <1>1 DEF Logs!Close, Logs!cleaning, Logs!dir, Logs!writing
  <2>2. FileShapes' /\ WriteInv' /\ CleanInv' /\ LinkInv'
    BY <2>1 DEF FilesInv, FileShapes, WriteInv, CleanInv, LinkInv
  <2>. QED  BY <2>1, <2>2 DEF FilesInv, OpenInv, LineInv, Over
<1>2. CASE Logs!StartCleanup
  <2>1. /\ UNCHANGED <<half, files, there, fileOf, currentDate, link, writer, line, began, wroteOn,
                       linkFailed>>
        /\ MaxAge > 0 /\ cutoffHalf' = half
    BY <1>2 DEF Logs!StartCleanup, Logs!dir, Logs!fileVars, Logs!writing
  <2>2. FileShapes' /\ WriteInv' /\ CleanInv' /\ LinkInv'
    BY <1>0, <2>1 DEF FilesInv, FileShapes, WriteInv, CleanInv, LinkInv
  <2>. QED  BY <2>1, <2>2 DEF FilesInv, OpenInv, LineInv, Over
<1>3. CASE Logs!HalfDayPasses
  <2>1. /\ UNCHANGED <<files, there, fileOf, currentDate, link, writer, line, began, wroteOn,
                       toCheck, cutoffHalf, linkFailed>>
        /\ half' = half + 1 /\ half < MaxHalf
        /\ writer # "none" => half = began
        /\ toCheck # {} => half = cutoffHalf
    BY <1>3 DEF Logs!HalfDayPasses, Logs!dir, Logs!fileVars, Logs!writing, Logs!cleaning
  <2>2. FileShapes'
    BY <1>0, <2>1, FileBounds DEF FilesInv, FileShapes
  <2>3. WriteInv' /\ CleanInv'
    BY <1>0, <2>1, FileBounds DEF FilesInv, WriteInv, CleanInv
  <2>4. \A d \in Nat : Over(d) => MaxAge > 0 /\ 2 * d < half' - 2 * MaxAge
    BY <1>0, <2>1, FileBounds DEF Over
  <2>5. OpenInv'
    BY <1>0, <2>1, <2>4 DEF FilesInv, OpenInv, Over
  <2>6. LineInv'
    <3>1. \A l \in Lines : wroteOn[l] # Logs!None => wroteOn[l] \in Nat
      BY DEF FilesInv, FileShapes
    <3>. QED  BY <2>1, <2>4, <3>1 DEF FilesInv, LineInv, Over
  <2>. QED  BY <2>1, <2>2, <2>3, <2>5, <2>6 DEF FilesInv, LinkInv
<1>4. ASSUME NEW d \in Logs!Dates, Logs!CheckFile(d) PROVE FilesInv'
  <2>1. /\ UNCHANGED <<half, fileOf, currentDate, link, writer, line, began, wroteOn, cutoffHalf,
                       linkFailed>>
        /\ d \in toCheck /\ toCheck' \subseteq toCheck
    BY <1>4 DEF Logs!CheckFile, Logs!fileVars, Logs!writing
  <2>2. \/ there' = there /\ files' = files
        \/ there' = there \ {d} /\ files' = [files EXCEPT ![d] = {}] /\ Over(d)
    <3>1. MaxAge > 0 /\ cutoffHalf \in Nat /\ cutoffHalf <= half /\ d \in Nat
      BY <2>1, DatesNat DEF FilesInv, CleanInv
    <3>2. Logs!TooOld(d) => Over(d)
      BY <1>0, <3>1, FileBounds DEF Logs!TooOld, Over
    <3>. QED  BY <1>4, <3>2 DEF Logs!CheckFile
  <2>3. /\ \A c \in Logs!Dates : c # d => files'[c] = files[c] /\ (c \in there => c \in there')
        /\ FileShapes'
    BY <2>1, <2>2 DEF FilesInv, FileShapes
  <2>4. WriteInv' /\ CleanInv' /\ LinkInv'
    BY <2>1 DEF FilesInv, WriteInv, CleanInv, LinkInv
  <2>5. OpenInv'
    BY <2>1, <2>2 DEF FilesInv, OpenInv, Over
  <2>6. LineInv'
    <3> SUFFICES ASSUME NEW l \in Lines, wroteOn[l] # Logs!None
                 PROVE  \/ Over(wroteOn[l])
                        \/ \E c \in there' : c \in Logs!Dates /\ wroteOn[l] <= c /\ l \in files'[c]
      BY <2>1 DEF LineInv, Over
    <3>1. CASE there' = there /\ files' = files
      BY <3>1 DEF FilesInv, LineInv
    <3>2. CASE Over(d)
      <4> SUFFICES ASSUME NEW c \in there, c \in Logs!Dates, wroteOn[l] <= c, l \in files[c]
                   PROVE  Over(wroteOn[l]) \/ (c \in there' /\ l \in files'[c])
        BY DEF FilesInv, LineInv
      <4>1. CASE c = d
        <5>1. wroteOn[l] \in Nat /\ d \in Nat
          BY DatesNat DEF FilesInv, FileShapes
        <5>2. wroteOn[l] <= d
          BY <4>1
        <5>. QED  BY <3>2, <5>1, <5>2, OverIs, <1>0
      <4>2. CASE c # d
        BY <2>3, <4>2
      <4>. QED  BY <4>1, <4>2
    <3>. QED  BY <2>2, <3>1, <3>2
  <2>. QED  BY <2>3, <2>4, <2>5, <2>6 DEF FilesInv
<1>. QED  BY <1>1, <1>2, <1>3, <1>4

LEMMA FilesStep == FilesInv /\ [Logs!RotatorNext]_filePart => FilesInv'
<1> SUFFICES ASSUME FilesInv, [Logs!RotatorNext]_filePart PROVE FilesInv'
  OBVIOUS
<1>1. CASE UNCHANGED filePart
  <2>1. UNCHANGED <<half, files, there, fileOf, currentDate, link, writer, line, began, wroteOn,
                    toCheck, cutoffHalf, linkFailed>>
    BY <1>1 DEF filePart
  <2>2. FileShapes' /\ WriteInv' /\ CleanInv' /\ LinkInv'
    BY <2>1 DEF FilesInv, FileShapes, WriteInv, CleanInv, LinkInv
  <2>. QED  BY <2>1, <2>2 DEF FilesInv, OpenInv, LineInv, Over
<1>. QED  BY <1>1, RotationsKeep, WritesKeep, FileTimesKeep DEF Logs!RotatorNext

-----------------------------------------------------------------------------
(* The tracker of requests.                                                *)

\* An entry that has not ended is of a request that has its ID: else the marking of one ID
\* could leave the entry of another behind.
OwnID ==
  \A i \in Trail!RequestIDs : tracked[i] # Trail!Absent /\ ~tracked[i].ended
    => idOf[tracked[i].of] = i
HasID == \A r \in WebRequests : webAt[r] \in {"track", "finish", "sweep"}
           => idOf[r] \in Trail!RequestIDs
TrackerInv == Trail!TrackerTypeOK /\ OwnID /\ HasID /\ Trail!EntriesEnd

\* An entry that has not ended is of a request.
LEMMA UnendedIsOf ==
  ASSUME Trail!TrackerTypeOK, NEW i \in Trail!RequestIDs, tracked[i] # Trail!Absent,
         ~tracked[i].ended
  PROVE  tracked[i].of \in WebRequests
<1>1. tracked[i] \in [of : WebRequests \union {"none"}, ended : BOOLEAN]
  BY DEF Trail!TrackerTypeOK
<1>2. tracked[i] = [of |-> tracked[i].of, ended |-> FALSE]
  BY <1>1
<1>. QED  BY <1>1, <1>2 DEF Trail!Absent

\* The invariant holds at first and every step keeps it, whatever IDs callers send
\* (request_id.go:245-279).
LEMMA TrackerInitially == Trail!TrackerInit => TrackerInv
<1> SUFFICES ASSUME Trail!TrackerInit PROVE TrackerInv
  OBVIOUS
<1>1. Trail!Absent \in [of : WebRequests \union {"none"}, ended : BOOLEAN]
  BY DEF Trail!Absent
<1>2. Trail!TrackerTypeOK
  BY <1>1 DEF Trail!TrackerInit, Trail!TrackerTypeOK
<1>3. OwnID /\ HasID /\ Trail!EntriesEnd
  BY DEF Trail!TrackerInit, OwnID, HasID, Trail!EntriesEnd
<1>. QED  BY <1>2, <1>3 DEF TrackerInv

LEMMA TrackerStep == TrackerInv /\ [Trail!TrackerNext]_trackPart => TrackerInv'
<1> SUFFICES ASSUME TrackerInv, [Trail!TrackerNext]_trackPart PROVE TrackerInv'
  OBVIOUS
<1> USE DEF TrackerInv
<1>1. ASSUME NEW r \in WebRequests, Trail!RequestIDMiddleware(r) PROVE TrackerInv'
  <2>1. PICK i \in Trail!Sent \union {Trail!Generated(r), Trail!NoID} : idOf' = [idOf EXCEPT ![r] = i]
    BY <1>1 DEF Trail!RequestIDMiddleware
  <2>2. i \in Trail!RequestIDs \union {Trail!NoID}
    BY DEF Trail!RequestIDs
  <2>3. Trail!TrackerTypeOK'
    BY <1>1, <2>1, <2>2 DEF Trail!RequestIDMiddleware, Trail!GoesTo, Trail!TrackerTypeOK
  <2>4. \A q \in WebRequests : webAt[q] # "idle" => idOf'[q] = idOf[q] /\ webAt'[q] = webAt[q]
    BY <1>1, <2>1 DEF Trail!RequestIDMiddleware, Trail!GoesTo, Trail!TrackerTypeOK
  <2>5. webAt'[r] = "handling" /\ tracked' = tracked
    BY <1>1 DEF Trail!RequestIDMiddleware, Trail!GoesTo, Trail!TrackerTypeOK
  <2>6. \A q \in WebRequests : webAt'[q] # "handling" /\ webAt'[q] # "idle" => q # r
          /\ webAt[q] # "idle"
    BY <1>1, <2>5 DEF Trail!RequestIDMiddleware, Trail!GoesTo, Trail!TrackerTypeOK
  <2>7. OwnID'
    BY <2>4, <2>5, UnendedIsOf DEF OwnID, Trail!EntriesEnd
  <2>8. HasID'
    BY <2>4, <2>6 DEF HasID
  <2>9. Trail!EntriesEnd'
    BY <2>4, <2>5, UnendedIsOf DEF Trail!EntriesEnd
  <2>. QED  BY <2>3, <2>7, <2>8, <2>9
<1>2. ASSUME NEW r \in WebRequests, Trail!HandlersReturn(r) PROVE TrackerInv'
  <2>1. Trail!TrackerTypeOK' /\ HasID'
    BY <1>2 DEF Trail!HandlersReturn, Trail!GoesTo, Trail!TrackerTypeOK, HasID
  <2>2. tracked' = tracked /\ idOf' = idOf
        /\ \A q \in WebRequests : webAt[q] # "handling" => webAt'[q] = webAt[q]
    BY <1>2 DEF Trail!HandlersReturn, Trail!GoesTo, Trail!TrackerTypeOK
  <2>3. OwnID'
    BY <2>2 DEF OwnID
  <2>4. Trail!EntriesEnd'
    BY <2>2, UnendedIsOf DEF Trail!EntriesEnd
  <2>. QED  BY <2>1, <2>3, <2>4
<1>3. ASSUME NEW r \in WebRequests, Trail!TrackRequest(r) PROVE TrackerInv'
  <2> DEFINE entry == [of |-> r, ended |-> FALSE]
  <2>1. idOf[r] \in Trail!RequestIDs /\ webAt[r] = "track" /\ idOf' = idOf
    BY <1>3 DEF Trail!TrackRequest, HasID
  <2>2. Trail!TrackerTypeOK' /\ HasID'
    BY <1>3, <2>1 DEF Trail!TrackRequest, Trail!GoesTo, Trail!TrackerTypeOK, HasID
  <2>3. /\ tracked'[idOf[r]] = entry
        /\ \A i \in Trail!RequestIDs : i # idOf[r] => tracked'[i] = tracked[i]
    BY <1>3, <2>1 DEF Trail!TrackRequest, Trail!TrackerTypeOK
  <2>4. webAt'[r] = "finish" /\ \A q \in WebRequests : q # r => webAt'[q] = webAt[q]
    BY <1>3 DEF Trail!TrackRequest, Trail!GoesTo, Trail!TrackerTypeOK
  <2>5. OwnID'
    BY <2>1, <2>3 DEF OwnID
  <2>6. Trail!EntriesEnd'
    <3> SUFFICES ASSUME NEW i \in Trail!RequestIDs, tracked'[i] # Trail!Absent
                 PROVE  IF tracked'[i].ended
                        THEN \E q \in WebRequests : idOf[q] = i /\ webAt'[q] = "sweep"
                        ELSE webAt'[tracked'[i].of] = "finish"
      BY <2>1 DEF Trail!EntriesEnd
    <3>1. CASE i = idOf[r]
      BY <3>1, <2>3, <2>4
    <3>2. CASE i # idOf[r] /\ tracked[i].ended
      BY <3>2, <2>1, <2>3, <2>4 DEF Trail!EntriesEnd
    <3>3. CASE i # idOf[r] /\ ~tracked[i].ended
      BY <3>3, <2>1, <2>3, <2>4, UnendedIsOf DEF Trail!EntriesEnd
    <3>. QED  BY <3>1, <3>2, <3>3
  <2>. QED  BY <2>2, <2>5, <2>6
<1>4. ASSUME NEW r \in WebRequests, Trail!FinishRequest(r) PROVE TrackerInv'
  <2>1. idOf[r] \in Trail!RequestIDs /\ webAt[r] = "finish" /\ idOf' = idOf
    BY <1>4 DEF Trail!FinishRequest, HasID
  <2>2. CASE tracked[idOf[r]] = Trail!Absent
    <3>1. tracked' = tracked /\ webAt'[r] = "over"
          /\ \A q \in WebRequests : q # r => webAt'[q] = webAt[q]
      BY <1>4, <2>2 DEF Trail!FinishRequest, Trail!GoesTo, Trail!TrackerTypeOK
    <3>2. Trail!TrackerTypeOK' /\ HasID'
      BY <1>4, <2>2 DEF Trail!FinishRequest, Trail!GoesTo, Trail!TrackerTypeOK, HasID
    <3>3. OwnID'
      BY <2>1, <3>1 DEF OwnID
    <3>4. \A i \in Trail!RequestIDs : tracked[i] # Trail!Absent /\ ~tracked[i].ended
            => tracked[i].of # r
      BY <2>2 DEF OwnID
    <3>5. Trail!EntriesEnd'
      BY <2>1, <3>1, <3>4, UnendedIsOf DEF Trail!EntriesEnd
    <3>. QED  BY <3>2, <3>3, <3>5
  <2>3. CASE tracked[idOf[r]] # Trail!Absent
    <3>1. webAt'[r] = "sweep" /\ \A q \in WebRequests : q # r => webAt'[q] = webAt[q]
      BY <1>4, <2>3 DEF Trail!FinishRequest, Trail!GoesTo, Trail!TrackerTypeOK
    <3>2. /\ tracked'[idOf[r]] = [of |-> tracked[idOf[r]].of, ended |-> TRUE]
          /\ \A i \in Trail!RequestIDs : i # idOf[r] => tracked'[i] = tracked[i]
      BY <1>4, <2>1, <2>3 DEF Trail!FinishRequest, Trail!TrackerTypeOK
    <3>3. tracked' \in [Trail!RequestIDs -> [of : WebRequests \union {"none"}, ended : BOOLEAN]]
      <4>1. tracked' = [tracked EXCEPT ![idOf[r]] = tracked'[idOf[r]]]
        BY <1>4, <2>1, <2>3 DEF Trail!FinishRequest, Trail!TrackerTypeOK
      <4>2. tracked'[idOf[r]] \in [of : WebRequests \union {"none"}, ended : BOOLEAN]
        BY <2>1, <3>2 DEF Trail!TrackerTypeOK
      <4>. QED  BY <4>1, <4>2 DEF Trail!TrackerTypeOK
    <3>4. Trail!TrackerTypeOK' /\ HasID'
      BY <1>4, <2>1, <2>3, <3>3 DEF Trail!FinishRequest, Trail!GoesTo, Trail!TrackerTypeOK, HasID
    <3>5. OwnID'
      BY <2>1, <3>2 DEF OwnID
    <3>6. Trail!EntriesEnd'
      <4> SUFFICES ASSUME NEW i \in Trail!RequestIDs, tracked'[i] # Trail!Absent
                   PROVE  IF tracked'[i].ended
                          THEN \E q \in WebRequests : idOf[q] = i /\ webAt'[q] = "sweep"
                          ELSE webAt'[tracked'[i].of] = "finish"
        BY <2>1 DEF Trail!EntriesEnd
      <4>1. CASE i = idOf[r]
        BY <4>1, <3>1, <3>2
      <4>2. CASE i # idOf[r] /\ tracked[i].ended
        BY <4>2, <2>1, <3>1, <3>2 DEF Trail!EntriesEnd
      <4>3. CASE i # idOf[r] /\ ~tracked[i].ended
        <5>1. tracked[i].of \in WebRequests /\ tracked[i].of # r
          BY <4>3, <3>2, UnendedIsOf DEF OwnID
        <5>. QED  BY <4>3, <5>1, <3>1, <3>2 DEF Trail!EntriesEnd
      <4>. QED  BY <4>1, <4>2, <4>3
    <3>. QED  BY <3>4, <3>5, <3>6
  <2>. QED  BY <2>2, <2>3
<1>5. ASSUME NEW r \in WebRequests, Trail!Sweep(r) PROVE TrackerInv'
  <2>1. idOf[r] \in Trail!RequestIDs /\ webAt[r] = "sweep" /\ idOf' = idOf
    BY <1>5 DEF Trail!Sweep, HasID
  <2>2. Trail!TrackerTypeOK' /\ HasID'
    BY <1>5, <2>1 DEF Trail!Sweep, Trail!GoesTo, Trail!TrackerTypeOK, HasID, Trail!Absent
  <2>3. /\ tracked'[idOf[r]] = Trail!Absent
        /\ \A i \in Trail!RequestIDs : i # idOf[r] => tracked'[i] = tracked[i]
    BY <1>5, <2>1 DEF Trail!Sweep, Trail!TrackerTypeOK
  <2>4. \A q \in WebRequests : q # r => webAt'[q] = webAt[q]
    BY <1>5 DEF Trail!Sweep, Trail!GoesTo, Trail!TrackerTypeOK
  <2>5. OwnID'
    BY <2>1, <2>3 DEF OwnID
  <2>6. Trail!EntriesEnd'
    <3> SUFFICES ASSUME NEW i \in Trail!RequestIDs, tracked'[i] # Trail!Absent
                 PROVE  IF tracked'[i].ended
                        THEN \E q \in WebRequests : idOf[q] = i /\ webAt'[q] = "sweep"
                        ELSE webAt'[tracked'[i].of] = "finish"
      BY <2>1 DEF Trail!EntriesEnd
    <3>1. i # idOf[r] /\ tracked'[i] = tracked[i]
      BY <2>3
    <3>2. CASE tracked[i].ended
      BY <3>1, <3>2, <2>4 DEF Trail!EntriesEnd
    <3>3. CASE ~tracked[i].ended
      BY <3>1, <3>3, <2>1, <2>4, UnendedIsOf DEF Trail!EntriesEnd
    <3>. QED  BY <3>2, <3>3
  <2>. QED  BY <2>2, <2>5, <2>6
<1>6. CASE Trail!ConcurrentMapWrites \/ UNCHANGED trackPart
  BY <1>6 DEF Trail!ConcurrentMapWrites, trackPart, Trail!TrackerTypeOK, OwnID, HasID, Trail!EntriesEnd
<1>. QED  BY <1>1, <1>2, <1>3, <1>4, <1>5, <1>6 DEF Trail!TrackerNext

-----------------------------------------------------------------------------
(* The task screen.                                                        *)

\* What the keys act on is what the user sees, or a refresh has put it there: a row and
\* v.tasks, the details and currentTask, the dialog and currentTask.
RowsAgree == \A i \in DOMAIN rows : i \in DOMAIN docList => docList[i] = rows[i]
               \/ docList[i] \in late
DetailAgrees == page = "detail" => current = shown \/ current \in late
DialogAgrees == named # 0 => current = named \/ current \in late
ScreenInv == RowsAgree /\ DetailAgrees /\ DialogAgrees /\ Screen!ActsOnChosen

LEMMA ScreenInitially == Screen!Init => ScreenInv
BY DEF Screen!Init, ScreenInv, RowsAgree, DetailAgrees, DialogAgrees, Screen!ActsOnChosen, Screen!Nil

LEMMA ListKeysKeep ==
  ASSUME ScreenInv, NEW i \in DOMAIN rows,
         \/ Screen!EnterKey(i)
         \/ Screen!OnList(i) /\ Screen!DeleteKey(Screen!Pick(i), listedOn[Screen!Pick(i)])
         \/ Screen!OnList(i) /\ Screen!ToggleKey(Screen!Pick(i), listedOn[Screen!Pick(i)], rows[i])
         \/ Screen!OnList(i) /\ Screen!FormKey(Screen!Pick(i), listedOn[Screen!Pick(i)])
  PROVE  ScreenInv'
<1>1. CASE Screen!EnterKey(i)
  BY <1>1 DEF Screen!EnterKey, Screen!Shows, Screen!database, Screen!lists, Screen!goroutines,
     Screen!marks, Screen!Nil, ScreenInv, RowsAgree, DetailAgrees, DialogAgrees, Screen!ActsOnChosen
<1>2. CASE Screen!OnList(i) /\ Screen!DeleteKey(Screen!Pick(i), listedOn[Screen!Pick(i)])
  BY <1>2 DEF Screen!OnList, Screen!DeleteKey, Screen!database, Screen!lists, Screen!goroutines,
     Screen!marks, Screen!Nil, ScreenInv, RowsAgree, DetailAgrees, DialogAgrees, Screen!ActsOnChosen
<1>3. CASE Screen!OnList(i) /\ Screen!ToggleKey(Screen!Pick(i), listedOn[Screen!Pick(i)], rows[i])
  <2>1. /\ docList[i] = rows[i] \/ docList[i] \in late
        /\ stray' = IF docList[i] = rows[i] THEN stray ELSE stray \cup {docList[i]}
        /\ late' = late /\ docList' = rows' /\ page' = "list" /\ named' = 0
    BY <1>3 DEF Screen!OnList, Screen!ToggleKey, Screen!Pick, Screen!Acts, Screen!ListShown,
       Screen!Nil, ScreenInv, RowsAgree
  <2>. QED  BY <2>1 DEF ScreenInv, RowsAgree, DetailAgrees, DialogAgrees, Screen!ActsOnChosen
<1>4. CASE Screen!OnList(i) /\ Screen!FormKey(Screen!Pick(i), listedOn[Screen!Pick(i)])
  BY <1>4 DEF Screen!FormKey, Screen!Shows, Screen!database, Screen!lists, Screen!goroutines,
     Screen!marks, Screen!Nil, ScreenInv, RowsAgree, DetailAgrees, DialogAgrees, Screen!ActsOnChosen
<1>. QED  BY <1>1, <1>2, <1>3, <1>4

LEMMA DetailKeysKeep ==
  ASSUME ScreenInv, Screen!OnDetail,
         \/ Screen!DeleteKey(current, currentOn)
         \/ Screen!ToggleKey(current, currentOn, shown)
         \/ Screen!FormKey(current, currentOn)
  PROVE  ScreenInv'
<1>1. CASE Screen!DeleteKey(current, currentOn)
  BY <1>1 DEF Screen!DeleteKey, Screen!database, Screen!lists, Screen!goroutines,
     Screen!marks, Screen!Nil, ScreenInv, RowsAgree, DetailAgrees, DialogAgrees, Screen!ActsOnChosen
<1>2. CASE Screen!ToggleKey(current, currentOn, shown)
  <2>1. /\ current = shown \/ current \in late
        /\ stray' = IF current = shown THEN stray ELSE stray \cup {current}
        /\ late' = late /\ docList' = rows' /\ page' = page /\ named' = 0
        /\ current' = current /\ shown' = shown
    BY <1>2 DEF Screen!OnDetail, Screen!ToggleKey, Screen!Acts, Screen!ListShown,
       Screen!Nil, ScreenInv, DetailAgrees
  <2>. QED  BY <2>1 DEF ScreenInv, RowsAgree, DetailAgrees, DialogAgrees, Screen!ActsOnChosen
<1>3. CASE Screen!FormKey(current, currentOn)
  BY <1>3 DEF Screen!FormKey, Screen!Shows, Screen!database, Screen!lists, Screen!goroutines,
     Screen!marks, Screen!Nil, ScreenInv, RowsAgree, DetailAgrees, DialogAgrees, Screen!ActsOnChosen
<1>. QED  BY <1>1, <1>2, <1>3

LEMMA OtherKeysKeep ==
  ASSUME ScreenInv,
         \/ Screen!FormKey(0, TRUE)
         \/ Screen!Confirm
         \/ Screen!Cancel
         \/ Screen!RunKey
         \/ Screen!BackKey
         \/ Screen!RefreshKey
         \/ Screen!Quit
  PROVE  ScreenInv'
<1>1. CASE Screen!FormKey(0, TRUE)
  BY <1>1 DEF Screen!FormKey, Screen!Shows, Screen!database, Screen!lists, Screen!goroutines,
     Screen!marks, Screen!Nil, ScreenInv, RowsAgree, DetailAgrees, DialogAgrees, Screen!ActsOnChosen
<1>2. CASE Screen!Confirm
  <2>1. /\ current = named \/ current \in late
        /\ late' = late /\ named' = 0 /\ shown' = shown
        /\ \/ /\ stray' = IF current = named THEN stray ELSE stray \cup {current}
              /\ docList' = rows' /\ page' = "list"
           \/ UNCHANGED <<stray, current, page, docList, rows>>
    BY <1>2 DEF Screen!Confirm, Screen!Acts, Screen!ListShown, Screen!Shows, Screen!lists,
       Screen!Nil, ScreenInv, DialogAgrees
  <2>. QED  BY <2>1 DEF ScreenInv, RowsAgree, DetailAgrees, DialogAgrees, Screen!ActsOnChosen
<1>3. CASE Screen!Cancel
  BY <1>3 DEF Screen!Cancel, Screen!database, Screen!lists, Screen!details, Screen!goroutines,
     Screen!marks, Screen!Nil, ScreenInv, RowsAgree, DetailAgrees, DialogAgrees, Screen!ActsOnChosen
<1>4. CASE Screen!RunKey
  <2>1. /\ current = shown \/ current \in late
        /\ UNCHANGED <<late, page, named, docList, rows, current, shown>>
        /\ \/ stray' = IF current = shown THEN stray ELSE stray \cup {current}
           \/ stray' = stray
    BY <1>4 DEF Screen!RunKey, Screen!OnDetail, Screen!Acts, Screen!lists, ScreenInv, DetailAgrees
  <2>. QED  BY <2>1 DEF ScreenInv, RowsAgree, DetailAgrees, DialogAgrees, Screen!ActsOnChosen
<1>5. CASE Screen!BackKey \/ Screen!RefreshKey
  <2>1. UNCHANGED <<late, stray>> /\ docList' = rows' /\ page' = "list" /\ named' = 0
    BY <1>5 DEF Screen!BackKey, Screen!RefreshKey, Screen!ListShown, Screen!Shows, Screen!marks,
       Screen!Nil
  <2>. QED  BY <2>1 DEF ScreenInv, RowsAgree, DetailAgrees, DialogAgrees, Screen!ActsOnChosen
<1>6. CASE Screen!Quit
  <2>1. UNCHANGED <<late, stray>> /\ docList' = rows' /\ page' = "list" /\ named' = 0
    BY <1>6 DEF Screen!Quit, Screen!ListShown, Screen!Shows, Screen!marks, Screen!Nil
  <2>. QED  BY <2>1 DEF ScreenInv, RowsAgree, DetailAgrees, DialogAgrees, Screen!ActsOnChosen
<1>. QED  BY <1>1, <1>2, <1>3, <1>4, <1>5, <1>6

LEMMA RefreshesKeep ==
  ASSUME ScreenInv, NEW r \in Refreshes, Screen!Refreshed(r)
  PROVE  ScreenInv'
<1>1. CASE Screen!RefreshReads(r)
  <2>1. UNCHANGED <<docList, rows, late, stray, page, current, shown, named>>
    BY <1>1 DEF Screen!RefreshReads, Screen!lists, Screen!details, Screen!marks
  <2>. QED  BY <2>1 DEF ScreenInv, RowsAgree, DetailAgrees, DialogAgrees, Screen!ActsOnChosen
<1>2. CASE Screen!RefreshAssigns(r)
  <2>1. /\ UNCHANGED <<rows, stray, page, current, shown, named>> /\ late \subseteq late'
        /\ docList' = rows' \/ \A i \in DOMAIN docList' : docList'[i] \in late'
    BY <1>2 DEF Screen!RefreshAssigns, Screen!details, Screen!Range
  <2>. QED  BY <2>1 DEF ScreenInv, RowsAgree, DetailAgrees, DialogAgrees, Screen!ActsOnChosen
<1>3. CASE Screen!RefreshDraws(r)
  <2>1. /\ UNCHANGED <<docList, stray, page, current, shown, named>> /\ late \subseteq late'
        /\ docList' = rows' \/ \A i \in DOMAIN docList' : docList'[i] \in late'
    BY <1>3 DEF Screen!RefreshDraws, Screen!details, Screen!Range
  <2>. QED  BY <2>1 DEF ScreenInv, RowsAgree, DetailAgrees, DialogAgrees, Screen!ActsOnChosen
<1>4. CASE Screen!RefreshReplaces(r)
  <2>1. /\ UNCHANGED <<docList, rows, stray, page, shown, named>> /\ late \subseteq late'
        /\ current' = current \/ current' \in late'
    BY <1>4 DEF Screen!RefreshReplaces, Screen!lists
  <2>. QED  BY <2>1 DEF ScreenInv, RowsAgree, DetailAgrees, DialogAgrees, Screen!ActsOnChosen
<1>5. CASE Screen!RefreshShows(r)
  <2>1. UNCHANGED <<docList, rows, late, stray, current>>
    BY <1>5 DEF Screen!RefreshShows, Screen!lists, Screen!marks
  <2>2. CASE current = Screen!Nil
    <3>1. UNCHANGED <<page, named, shown>>
      BY <1>5, <2>2 DEF Screen!RefreshShows
    <3>. QED  BY <2>1, <3>1 DEF ScreenInv, RowsAgree, DetailAgrees, DialogAgrees, Screen!ActsOnChosen
  <2>3. CASE current # Screen!Nil
    <3>1. named' = Screen!Nil /\ shown' = current'
      BY <1>5, <2>1, <2>3 DEF Screen!RefreshShows, Screen!Shows
    <3>. QED
      BY <2>1, <3>1 DEF ScreenInv, RowsAgree, DetailAgrees, DialogAgrees, Screen!ActsOnChosen,
         Screen!Nil
  <2>. QED  BY <2>2, <2>3
<1>. QED  BY <1>1, <1>2, <1>3, <1>4, <1>5 DEF Screen!Refreshed

LEMMA ScreenStep == ScreenInv /\ [Screen!Next]_screenPart => ScreenInv'
<1> SUFFICES ASSUME ScreenInv, [Screen!Next]_screenPart PROVE ScreenInv'
  OBVIOUS
<1>1. CASE UNCHANGED screenPart
  BY <1>1 DEF screenPart, ScreenInv, RowsAgree, DetailAgrees, DialogAgrees, Screen!ActsOnChosen
<1>2. CASE Screen!DeletedElsewhere
  <2>1. UNCHANGED <<docList, rows, late, stray, page, current, shown, named>>
    BY <1>2 DEF Screen!DeletedElsewhere, Screen!lists, Screen!details, Screen!marks
  <2>. QED  BY <2>1 DEF ScreenInv, RowsAgree, DetailAgrees, DialogAgrees, Screen!ActsOnChosen
<1>3. CASE Screen!KeyPressed
  BY <1>3, ListKeysKeep, DetailKeysKeep, OtherKeysKeep DEF Screen!KeyPressed, Screen!Nil
<1>. QED  BY <1>1, <1>2, <1>3, RefreshesKeep DEF Screen!Next

-----------------------------------------------------------------------------
(* The message queue.                                                      *)

Places == {"new", "wire", "lost", "queue", "unacked", "stuck", "gone"}
CallSteps == {"idle", "opening", "keeping", "using"}
MqShapes == /\ place \in [Bodies -> Places] /\ calling \in [Mq!Callers -> CallSteps]
            /\ loop \in {"none", "waiting", "handling", "done", "failed", "ended"}
\* The connection is dialled again only when it is down, and there is one consumer: a second
\* one is asked for when there is none, or its goroutine has ended.
DialInv == watch \in {"clearing", "dialing"} => ~connUp
ConsumerInv == calling["consumer"] # "idle" => loop \in {"none", "ended"}
\* What the handler has, and what it has done with it.
TakenInv == /\ loop \in {"none", "waiting", "ended"} => taken = {}
            /\ loop = "done" => taken \subseteq did
            /\ loop = "none" => buffer = {}
MqInv == MqShapes /\ DialInv /\ ConsumerInv /\ TakenInv /\ Mq!NothingForgotten

LEMMA MqInitially == Mq!Init => MqInv
<1> SUFFICES ASSUME Mq!Init PROVE MqInv
  OBVIOUS
<1>1. /\ place = [b \in Bodies |-> "new"] /\ calling = [c \in Mq!Callers |-> "idle"]
      /\ loop = "none" /\ taken = {} /\ buffer = {} /\ watch = "started"
  BY DEF Mq!Init
<1>. QED
  BY <1>1 DEF MqInv, MqShapes, Places, CallSteps, DialInv, ConsumerInv, TakenInv, Mq!NothingForgotten,
     Mq!Callers

LEMMA ConnectionsKeep ==
  ASSUME MqInv,
         \/ Mq!LosesConnection
         \/ Mq!HandleReconnect
         \/ Mq!Close
  PROVE  MqInv'
<1>1. CASE Mq!LosesConnection \/ (Mq!Close /\ connUp)
  <2>1. /\ connUp' = FALSE
        /\ place' = [b \in Bodies |-> CASE place[b] = "wire" -> "lost"
                                        [] place[b] \in {"unacked", "stuck"} -> "queue"
                                        [] OTHER -> place[b]]
        /\ UNCHANGED <<calling, buffer, taken, loop, did>>
    BY <1>1 DEF Mq!LosesConnection, Mq!Close, Mq!Disconnected, Mq!kept, Mq!consuming
  <2>2. ASSUME NEW b \in Bodies
        PROVE  /\ place'[b] \in Places /\ place'[b] # "unacked"
               /\ place'[b] = "gone" => place[b] = "gone"
    BY <2>1 DEF MqInv, MqShapes, Places
  <2>3. MqShapes'
    BY <2>1, <2>2 DEF MqInv, MqShapes
  <2>4. DialInv' /\ ConsumerInv' /\ TakenInv'
    BY <2>1 DEF MqInv, DialInv, ConsumerInv, TakenInv
  <2>. QED  BY <2>1, <2>2, <2>3, <2>4 DEF MqInv, Mq!NothingForgotten
<1>2. CASE Mq!Close /\ ~connUp
  <2>1. /\ UNCHANGED <<rqConn, connUp, place, calling, buffer, taken, loop, loopConn, did>>
    BY <1>2 DEF Mq!Close, Mq!consuming
  <2>. QED
    BY <1>2, <2>1 DEF MqInv, MqShapes, DialInv, ConsumerInv, TakenInv, Mq!NothingForgotten, Mq!IsOpen
<1>3. CASE Mq!HandleReconnect
  <2>1. UNCHANGED <<place, calling, buffer, taken, loop, loopConn, did>>
    BY <1>3 DEF Mq!HandleReconnect, Mq!consuming
  <2>2. \/ rqConn' = rqConn /\ connUp' = connUp
        \/ ~connUp
    BY <1>3 DEF Mq!HandleReconnect, Mq!NotifyClose, Mq!SeesClose, Mq!Redial, MqInv, DialInv
  <2>3. DialInv'
    BY <1>3 DEF Mq!HandleReconnect, Mq!NotifyClose, Mq!SeesClose, Mq!Redial, MqInv, DialInv
  <2>4. Mq!NothingForgotten'
    <3>1. CASE rqConn' = rqConn /\ connUp' = connUp
      BY <2>1, <3>1 DEF MqInv, Mq!NothingForgotten, Mq!IsOpen
    <3>2. CASE ~connUp
      <4>1. \A b \in Bodies : place'[b] # "unacked"
        BY <2>1, <3>2 DEF MqInv, Mq!NothingForgotten, Mq!IsOpen
      <4>. QED  BY <2>1, <4>1 DEF MqInv, Mq!NothingForgotten
    <3>. QED  BY <2>2, <3>1, <3>2
  <2>. QED  BY <2>1, <2>3, <2>4 DEF MqInv, MqShapes, ConsumerInv, TakenInv
<1>. QED  BY <1>1, <1>2, <1>3

LEMMA CallsKeep ==
  ASSUME MqInv,
         \/ \E c \in Mq!Callers : Mq!GetChannel(c)
         \/ \E b \in Bodies : Mq!Publish(b) \/ Mq!Arrives(b)
         \/ Mq!Declare
         \/ Mq!Consume
  PROVE  MqInv'
<1>1. ASSUME NEW c \in Mq!Callers, Mq!GetChannel(c) PROVE MqInv'
  <2>1. /\ UNCHANGED <<rqConn, connUp, watch, place, buffer, taken, loop, loopConn, did>>
        /\ \E s \in CallSteps : calling' = [calling EXCEPT ![c] = s]
        /\ calling[c] # "idle" \/ Mq!Wants(c)
    BY <1>1 DEF Mq!GetChannel, Mq!client, Mq!consuming, CallSteps
  <2>2. MqShapes'
    BY <2>1 DEF MqInv, MqShapes
  <2>3. ConsumerInv'
    BY <2>1 DEF MqInv, MqShapes, ConsumerInv, Mq!Wants, Mq!Callers
  <2>. QED  BY <2>1, <2>2, <2>3 DEF MqInv, DialInv, TakenInv, Mq!NothingForgotten, Mq!IsOpen
<1>2. ASSUME NEW b \in Bodies, Mq!Publish(b) PROVE MqInv'
  <2>1. /\ UNCHANGED <<rqConn, connUp, watch, buffer, taken, loop, loopConn, did>>
        /\ calling' = [calling EXCEPT !["publisher"] = "idle"]
        /\ place' = [place EXCEPT ![b] = "wire"] \/ place' = place
    BY <1>2 DEF Mq!Publish, Mq!Use, Mq!client, Mq!consuming
  <2>2. MqShapes' /\ ConsumerInv'
    BY <2>1 DEF MqInv, MqShapes, Places, CallSteps, ConsumerInv, Mq!Callers
  <2>3. Mq!NothingForgotten'
    BY <2>1 DEF MqInv, MqShapes, Mq!NothingForgotten, Mq!IsOpen
  <2>. QED  BY <2>1, <2>2, <2>3 DEF MqInv, DialInv, TakenInv
<1>3. ASSUME NEW b \in Bodies, Mq!Arrives(b) PROVE MqInv'
  <2>1. /\ UNCHANGED <<rqConn, connUp, watch, calling, buffer, taken, loop, loopConn, did>>
        /\ place' = [place EXCEPT ![b] = "queue"]
    BY <1>3 DEF Mq!Arrives, Mq!client, Mq!kept, Mq!consuming
  <2>2. MqShapes'
    BY <2>1 DEF MqInv, MqShapes, Places
  <2>3. Mq!NothingForgotten'
    BY <2>1 DEF MqInv, MqShapes, Mq!NothingForgotten, Mq!IsOpen
  <2>. QED  BY <2>1, <2>2, <2>3 DEF MqInv, DialInv, ConsumerInv, TakenInv
<1>4. CASE Mq!Declare
  <2>1. /\ UNCHANGED <<rqConn, connUp, watch, place, buffer, taken, loop, loopConn, did>>
        /\ calling' = [calling EXCEPT !["setup"] = "idle"]
    BY <1>4 DEF Mq!Declare, Mq!Use, Mq!client, Mq!consuming
  <2>2. MqShapes' /\ ConsumerInv'
    BY <2>1 DEF MqInv, MqShapes, CallSteps, ConsumerInv, Mq!Callers
  <2>. QED  BY <2>1, <2>2 DEF MqInv, DialInv, TakenInv, Mq!NothingForgotten, Mq!IsOpen
<1>5. CASE Mq!Consume
  <2>1. /\ UNCHANGED <<rqConn, connUp, watch, place, taken, did>>
        /\ calling["consumer"] = "using" /\ calling' = [calling EXCEPT !["consumer"] = "idle"]
        /\ \/ loop' = "waiting" /\ buffer' = {} /\ loopConn' = seen["consumer"]
           \/ UNCHANGED <<loop, loopConn, buffer>>
    BY <1>5 DEF Mq!Consume, Mq!Use, Mq!client
  <2>2. loop \in {"none", "ended"} /\ taken = {} /\ (loop = "none" => buffer = {})
    BY <2>1 DEF MqInv, ConsumerInv, TakenInv
  <2>3. calling' \in [Mq!Callers -> CallSteps] /\ calling'["consumer"] = "idle"
    BY <2>1 DEF MqInv, MqShapes, CallSteps, Mq!Callers
  <2>4. MqShapes' /\ ConsumerInv'
    BY <2>1, <2>3 DEF MqInv, MqShapes, ConsumerInv
  <2>5. \A b \in Bodies : place[b] # "unacked"
    BY <2>2 DEF MqInv, Mq!NothingForgotten
  <2>6. Mq!NothingForgotten'
    BY <2>1, <2>5 DEF MqInv, Mq!NothingForgotten
  <2>7. TakenInv'
    BY <2>1, <2>2 DEF TakenInv
  <2>. QED  BY <2>1, <2>4, <2>6, <2>7 DEF MqInv, DialInv
<1>. QED  BY <1>1, <1>2, <1>3, <1>4, <1>5

LEMMA DeliveriesKeep ==
  ASSUME MqInv,
         \/ \E b \in Bodies : Mq!Deliver(b) \/ Mq!TakeDelivery(b)
         \/ Mq!Handler
         \/ Mq!Answer
         \/ Mq!LoopEnds
  PROVE  MqInv'
<1>1. ASSUME NEW b \in Bodies, Mq!Deliver(b) PROVE MqInv'
  <2>1. /\ UNCHANGED <<rqConn, connUp, watch, calling, taken, loop, loopConn, did>>
        /\ \/ /\ loop \notin {"none", "ended"} /\ Mq!IsOpen(loopConn)
              /\ place' = [place EXCEPT ![b] = "unacked"] /\ buffer' = buffer \cup {b}
           \/ place' = [place EXCEPT ![b] = "stuck"] /\ UNCHANGED buffer
    BY <1>1 DEF Mq!Deliver, Mq!GivenOut, Mq!client, Mq!kept
  <2>2. MqShapes'
    BY <2>1 DEF MqInv, MqShapes, Places
  <2>3. Mq!NothingForgotten'
    BY <2>1 DEF MqInv, MqShapes, Mq!NothingForgotten, Mq!IsOpen
  <2>. QED  BY <2>1, <2>2, <2>3 DEF MqInv, DialInv, ConsumerInv, TakenInv
<1>2. ASSUME NEW b \in Bodies, Mq!TakeDelivery(b) PROVE MqInv'
  <2>1. /\ UNCHANGED <<rqConn, connUp, watch, calling, place, loopConn, did>>
        /\ loop = "waiting" /\ loop' = "handling" /\ taken' = {b} /\ buffer' = buffer \ {b}
    BY <1>2 DEF Mq!TakeDelivery, Mq!client, Mq!kept
  <2>2. taken = {} /\ calling["consumer"] = "idle"
    BY <2>1 DEF MqInv, TakenInv, ConsumerInv
  <2>3. Mq!NothingForgotten'
    BY <2>1, <2>2 DEF MqInv, Mq!NothingForgotten, Mq!IsOpen
  <2>. QED  BY <2>1, <2>2, <2>3 DEF MqInv, MqShapes, DialInv, ConsumerInv, TakenInv
<1>3. CASE Mq!Handler
  <2>1. /\ UNCHANGED <<rqConn, connUp, watch, calling, place, buffer, taken, loopConn>>
        /\ loop = "handling"
        /\ \/ loop' = "done" /\ did' = did \cup taken
           \/ loop' = "failed" /\ did' = did
    BY <1>3 DEF Mq!Handler, Mq!client, Mq!kept
  <2>2. calling["consumer"] = "idle"
    BY <2>1 DEF MqInv, ConsumerInv
  <2>3. Mq!NothingForgotten'
    BY <2>1 DEF MqInv, Mq!NothingForgotten, Mq!IsOpen
  <2>. QED  BY <2>1, <2>2, <2>3 DEF MqInv, MqShapes, DialInv, ConsumerInv, TakenInv
<1>4. CASE Mq!Answer
  <2>1. /\ UNCHANGED <<rqConn, connUp, watch, calling, buffer, loopConn, did>>
        /\ loop \in {"done", "failed"} /\ loop' = "waiting" /\ taken' = {}
        /\ place' = [b \in Bodies |-> IF b \notin taken \/ ~Mq!IsOpen(loopConn) THEN place[b]
                                      ELSE IF loop = "done" THEN "gone" ELSE "queue"]
    BY <1>4 DEF Mq!Answer, Mq!client, Mq!kept
  <2>2. calling["consumer"] = "idle"
    BY <2>1 DEF MqInv, ConsumerInv
  <2>3. MqShapes'
    BY <2>1 DEF MqInv, MqShapes, Places
  <2>4. ASSUME NEW b \in Bodies
        PROVE  /\ place'[b] = "gone" => b \in did
               /\ place'[b] = "unacked" => Mq!IsOpen(loopConn) /\ b \in buffer
    <3>1. CASE b \notin taken \/ ~Mq!IsOpen(loopConn)
      BY <2>1, <3>1 DEF MqInv, Mq!NothingForgotten
    <3>2. CASE ~(b \notin taken \/ ~Mq!IsOpen(loopConn))
      BY <2>1, <3>2 DEF MqInv, TakenInv
    <3>. QED  BY <3>1, <3>2
  <2>5. Mq!NothingForgotten'
    BY <2>1, <2>4 DEF Mq!NothingForgotten, Mq!IsOpen
  <2>. QED  BY <2>1, <2>2, <2>3, <2>5 DEF MqInv, DialInv, ConsumerInv, TakenInv
<1>5. CASE Mq!LoopEnds
  <2>1. /\ UNCHANGED <<rqConn, connUp, watch, calling, taken, loopConn, did>>
        /\ loop = "waiting" /\ loop' = "ended" /\ buffer' = {}
        /\ place' = [b \in Bodies |-> IF b \in buffer /\ place[b] = "unacked" THEN "stuck"
                                      ELSE place[b]]
    BY <1>5 DEF Mq!LoopEnds, Mq!client, Mq!kept
  <2>2. calling["consumer"] = "idle" /\ taken = {}
    BY <2>1 DEF MqInv, ConsumerInv, TakenInv
  <2>3. MqShapes'
    BY <2>1 DEF MqInv, MqShapes, Places
  <2>4. Mq!NothingForgotten'
    BY <2>1, <2>2 DEF MqInv, Mq!NothingForgotten
  <2>. QED  BY <2>1, <2>2, <2>3, <2>4 DEF MqInv, DialInv, ConsumerInv, TakenInv
<1>. QED  BY <1>1, <1>2, <1>3, <1>4, <1>5

LEMMA MqStep == MqInv /\ [Mq!Next]_mqPart => MqInv'
<1> SUFFICES ASSUME MqInv, [Mq!Next]_mqPart PROVE MqInv'
  OBVIOUS
<1>1. CASE UNCHANGED mqPart
  <2>1. UNCHANGED <<rqConn, connUp, watch, calling, place, buffer, taken, loop, loopConn, did>>
    BY <1>1 DEF mqPart
  <2>. QED
    BY <2>1 DEF MqInv, MqShapes, DialInv, ConsumerInv, TakenInv, Mq!NothingForgotten, Mq!IsOpen
<1>. QED  BY <1>1, ConnectionsKeep, CallsKeep, DeliveriesKeep DEF Mq!Next

-----------------------------------------------------------------------------
(* The HTTP servers.                                                       *)

ServerShapes ==
  /\ toStart \in Seq(Server!Ids) /\ toStop \in Seq(Server!Ids)
  /\ serverAt \in [Server!Ids -> {"new", "starting", "listening", "closed"}]
  /\ requestAt \in [HttpRequests -> 0 .. NumServers + 2]
  /\ managed \in BOOLEAN
  /\ process \in {"starting", "waiting", "stopping"} \cup Server!Ended
\* Without a manager there is the first server only.
OneServerInv == ~managed => /\ Logs!Range(toStart) \cup Logs!Range(toStop) \subseteq {1}
                        /\ \A i \in Server!Ids : i # 1 => serverAt[i] = "new"
\* Whoever shuts down has closed a server or will; a request in flight is at a server that is
\* still waited for, or the deadline is over.
StopInv ==
  process = "stopping" =>
    /\ \A i \in Server!Ids : serverAt[i] \in {"closed", "new"} \/ i \in Logs!Range(toStop)
    /\ \A r \in HttpRequests :
         requestAt[r] \in Server!Ids =>
           requestAt[r] \in Logs!Range(toStop) \/ (timeLeft = 0 /\ failedStop)
RequestInv == /\ \A r \in HttpRequests : requestAt[r] \in Server!Ids
                   => serverAt[requestAt[r]] # "new"
              /\ Server!Running => \A r \in HttpRequests : requestAt[r] # Server!Cut
ServersInv == ServerShapes /\ OneServerInv /\ StopInv /\ RequestInv /\ Server!GracefulEnd

LEMMA IdsAre == /\ 1 \in Server!Ids /\ 0 \notin Server!Ids /\ Server!Served \notin Server!Ids
                /\ Server!Cut \notin Server!Ids /\ Server!Served # Server!Cut /\ 0 # Server!Cut
                /\ {0, Server!Served, Server!Cut} \subseteq 0 .. NumServers + 2
                /\ Server!Ids \subseteq 0 .. NumServers + 2
BY ServerBounds DEF Server!Ids, Server!Served, Server!Cut

\* The order of the servers, all of them or the one there is.
LEMMA OrderIs ==
  ASSUME NEW s, s = IF managed THEN [i \in Server!Ids |-> i] ELSE << 1 >>
  PROVE  /\ s \in Seq(Server!Ids)
         /\ Logs!Range(s) = IF managed THEN Server!Ids ELSE {1}
<1>1. CASE managed
  <2>1. s = [i \in 1 .. NumServers |-> i] /\ NumServers \in Nat
    BY <1>1, ServerBounds DEF Server!Ids
  <2>2. s \in Seq(1 .. NumServers) /\ DOMAIN s = 1 .. NumServers /\ \A i \in DOMAIN s : s[i] = i
    BY <2>1
  <2>. QED  BY <1>1, <2>2 DEF Server!Ids, Logs!Range
<1>2. CASE ~managed
  BY <1>2, IdsAre, OneSet
<1>. QED  BY <1>1, <1>2

LEMMA ServersInitially == Server!ServersInit => ServersInv
<1> SUFFICES ASSUME Server!ServersInit PROVE ServersInv
  OBVIOUS
<1>1. /\ toStart \in Seq(Server!Ids)
      /\ Logs!Range(toStart) = IF managed THEN Server!Ids ELSE {1}
  BY OrderIs DEF Server!ServersInit
<1>2. ServerShapes
  BY <1>1, IdsAre, NoneSet DEF Server!ServersInit, ServerShapes, Server!NotSent
<1>3. OneServerInv
  BY <1>1, NoneSet DEF Server!ServersInit, OneServerInv
<1>4. RequestInv
  BY IdsAre DEF Server!ServersInit, RequestInv, Server!NotSent
<1>. QED  BY <1>2, <1>3, <1>4 DEF Server!ServersInit, ServersInv, StopInv, Server!GracefulEnd

\* The end of the process leaves requests where they were, or cuts them.
LEMMA EndsIs ==
  ASSUME ServersInv, NEW how \in Server!Ended, Server!Ends(how), Server!Running,
         UNCHANGED <<managed, toStart, serverAt, timeLeft, toStop>>,
         failedStop => failedStop',
         how = "exit 0" => process = "stopping" /\ toStop = <<>>
  PROVE  ServersInv'
<1>1. /\ process' = how /\ how \in {"exit 0", "exit 1", "killed"}
      /\ requestAt' = [r \in HttpRequests |-> IF requestAt[r] \in Server!Ids THEN Server!Cut
                                             ELSE requestAt[r]]
  BY DEF Server!Ends, Server!Ended
<1>2. ASSUME NEW r \in HttpRequests
      PROVE  /\ requestAt'[r] \in 0 .. NumServers + 2 /\ requestAt'[r] \notin Server!Ids
             /\ requestAt'[r] = Server!Cut => requestAt[r] \in Server!Ids
  BY <1>1, IdsAre DEF ServersInv, ServerShapes, RequestInv
<1>3. ServerShapes'
  BY <1>1, <1>2 DEF ServersInv, ServerShapes, Server!Ended
<1>4. OneServerInv' /\ StopInv' /\ RequestInv'
  BY <1>1, <1>2 DEF ServersInv, OneServerInv, StopInv, RequestInv, Server!Running, Server!Ended
<1>5. Server!GracefulEnd'
  <2> SUFFICES ASSUME how = "exit 0"
               PROVE  /\ \A i \in Server!Ids : serverAt[i] \in {"closed", "new"}
                      /\ (\E r \in HttpRequests : requestAt'[r] = Server!Cut) => timeLeft = 0
                           /\ failedStop'
    BY <1>1 DEF Server!GracefulEnd
  <2>1. process = "stopping" /\ Logs!Range(toStop) = {}
    BY NoneSet
  <2>2. \A i \in Server!Ids : serverAt[i] \in {"closed", "new"}
    BY <2>1 DEF ServersInv, StopInv
  <2>3. ASSUME NEW r \in HttpRequests, requestAt'[r] = Server!Cut PROVE timeLeft = 0 /\ failedStop'
    BY <1>2, <2>1, <2>3 DEF ServersInv, StopInv
  <2>. QED  BY <2>2, <2>3
<1>. QED  BY <1>3, <1>4, <1>5 DEF ServersInv

LEMMA StartsKeep ==
  ASSUME ServersInv, Server!Start \/ Server!Wait \/ Server!Signal
  PROVE  ServersInv'
<1>1. CASE Server!Start
  <2>1. /\ UNCHANGED <<managed, process, requestAt, toStop, timeLeft, failedStop>>
        /\ process = "starting" /\ toStart # <<>> /\ toStart' = Tail(toStart)
        /\ serverAt' = [serverAt EXCEPT ![Head(toStart)] = "starting"]
    BY <1>1 DEF Server!Start
  <2>2. /\ Head(toStart) \in Server!Ids /\ toStart' \in Seq(Server!Ids)
        /\ Logs!Range(toStart) = {Head(toStart)} \cup Logs!Range(toStart')
    BY <2>1, SplitSet DEF ServersInv, ServerShapes
  <2>3. ServerShapes'
    BY <2>1, <2>2 DEF ServersInv, ServerShapes
  <2>4. OneServerInv'
    BY <2>1, <2>2 DEF ServersInv, ServerShapes, OneServerInv
  <2>5. RequestInv'
    BY <2>1, <2>2 DEF ServersInv, ServerShapes, RequestInv, Server!Running, Server!Ended
  <2>. QED  BY <2>1, <2>3, <2>4, <2>5 DEF ServersInv, StopInv, Server!GracefulEnd
<1>2. CASE Server!Wait
  <2>1. /\ UNCHANGED <<managed, toStart, serverAt, requestAt, toStop, timeLeft, failedStop>>
        /\ process = "starting" /\ process' = "waiting"
    BY <1>2 DEF Server!Wait
  <2>2. ServerShapes' /\ OneServerInv' /\ RequestInv'
    BY <2>1 DEF ServersInv, ServerShapes, OneServerInv, RequestInv, Server!Running, Server!Ended
  <2>. QED  BY <2>1, <2>2 DEF ServersInv, StopInv, Server!GracefulEnd
<1>3. CASE Server!Signal
  <2>1. CASE /\ process = "starting" /\ Server!Ends("killed")
             /\ UNCHANGED <<managed, toStart, serverAt, toStop, timeLeft, failedStop>>
    BY <2>1, EndsIs DEF Server!Running, Server!Ended
  <2>2. CASE /\ process = "waiting" /\ process' = "stopping"
             /\ toStop' = IF managed THEN [i \in Server!Ids |-> i] ELSE <<1>>
             /\ UNCHANGED <<managed, toStart, serverAt, requestAt, timeLeft, failedStop>>
    <3>1. PICK s : s = IF managed THEN [i \in Server!Ids |-> i] ELSE <<1>>
      OBVIOUS
    <3>2. /\ toStop' = s /\ s \in Seq(Server!Ids)
          /\ Logs!Range(s) = IF managed THEN Server!Ids ELSE {1}
      BY <2>2, <3>1, OrderIs
    <3>3. ServerShapes' /\ OneServerInv' /\ RequestInv'
      BY <2>2, <3>2 DEF ServersInv, ServerShapes, OneServerInv, RequestInv, Server!Running, Server!Ended
    <3>4. StopInv'
      BY <2>2, <3>2 DEF ServersInv, OneServerInv, RequestInv, StopInv
    <3>. QED  BY <2>2, <3>3, <3>4 DEF ServersInv, Server!GracefulEnd
  <2>. QED  BY <1>3, <2>1, <2>2 DEF Server!Signal
<1>. QED  BY <1>1, <1>2, <1>3

LEMMA RequestsKeep ==
  ASSUME ServersInv,
         \/ \E i \in Server!Ids :
              \/ Server!Listen(i)
              \/ Server!ListenFails(i)
              \/ \E r \in HttpRequests : Server!Accept(r, i)
         \/ \E r \in HttpRequests : Server!Answer(r)
  PROVE  ServersInv'
<1>1. ASSUME NEW i \in Server!Ids, Server!Listen(i) PROVE ServersInv'
  <2>1. /\ UNCHANGED <<managed, process, toStart, requestAt, toStop, timeLeft, failedStop>>
        /\ Server!Running /\ serverAt[i] = "starting"
        /\ serverAt' = [serverAt EXCEPT ![i] = "listening"]
    BY <1>1 DEF Server!Listen
  <2>2. /\ serverAt'[i] = "listening" /\ ServerShapes'
        /\ \A j \in Server!Ids : j # i => serverAt'[j] = serverAt[j]
    BY <2>1 DEF ServersInv, ServerShapes
  <2>3. OneServerInv' /\ RequestInv' /\ StopInv'
    BY <2>1, <2>2 DEF ServersInv, OneServerInv, RequestInv, StopInv, Server!Running
  <2>4. process' # "exit 0"
    BY <2>1 DEF Server!Running, Server!Ended
  <2>. QED  BY <2>2, <2>3, <2>4 DEF ServersInv, Server!GracefulEnd
<1>2. ASSUME NEW i \in Server!Ids, Server!ListenFails(i) PROVE ServersInv'
  BY <1>2, EndsIs DEF Server!ListenFails, Server!Ended
<1>3. ASSUME NEW i \in Server!Ids, NEW r \in HttpRequests, Server!Accept(r, i) PROVE ServersInv'
  <2>1. /\ UNCHANGED <<managed, process, toStart, serverAt, toStop, timeLeft, failedStop>>
        /\ Server!Running /\ serverAt[i] = "listening"
        /\ requestAt' = [requestAt EXCEPT ![r] = i]
    BY <1>3 DEF Server!Accept
  <2>2. /\ requestAt'[r] = i /\ ServerShapes'
        /\ \A q \in HttpRequests : q # r => requestAt'[q] = requestAt[q]
    BY <2>1, IdsAre DEF ServersInv, ServerShapes
  <2>3. OneServerInv' /\ RequestInv' /\ StopInv'
    BY <2>1, <2>2, IdsAre DEF ServersInv, OneServerInv, RequestInv, StopInv, Server!Running
  <2>4. process' # "exit 0"
    BY <2>1 DEF Server!Running, Server!Ended
  <2>. QED  BY <2>2, <2>3, <2>4 DEF ServersInv, Server!GracefulEnd
<1>4. ASSUME NEW r \in HttpRequests, Server!Answer(r) PROVE ServersInv'
  <2>1. /\ UNCHANGED <<managed, process, toStart, serverAt, toStop, timeLeft, failedStop>>
        /\ Server!Running /\ requestAt' = [requestAt EXCEPT ![r] = Server!Served]
    BY <1>4 DEF Server!Answer
  <2>2. /\ requestAt'[r] = Server!Served /\ ServerShapes'
        /\ \A q \in HttpRequests : q # r => requestAt'[q] = requestAt[q]
    BY <2>1, IdsAre DEF ServersInv, ServerShapes
  <2>3. OneServerInv' /\ RequestInv' /\ StopInv'
    BY <2>1, <2>2, IdsAre DEF ServersInv, OneServerInv, RequestInv, StopInv, Server!Running
  <2>4. process' # "exit 0"
    BY <2>1 DEF Server!Running, Server!Ended
  <2>. QED  BY <2>2, <2>3, <2>4 DEF ServersInv, Server!GracefulEnd
<1>. QED  BY <1>1, <1>2, <1>3, <1>4

LEMMA StopsKeep ==
  ASSUME ServersInv,
         \/ Server!CloseListener
         \/ Server!ShutdownReturns
         \/ Server!DeadlinePasses
         \/ Server!Exit
         \/ Server!Tick
  PROVE  ServersInv'
<1>1. CASE Server!CloseListener
  <2> DEFINE h == Head(toStop)
  <2>1. /\ UNCHANGED <<managed, process, toStart, requestAt, toStop, timeLeft, failedStop>>
        /\ process = "stopping" /\ toStop # <<>> /\ serverAt' = [serverAt EXCEPT ![h] = "closed"]
    BY <1>1 DEF Server!CloseListener
  <2>2. h \in Server!Ids
    BY <2>1, SplitSet DEF ServersInv, ServerShapes
  <2>. HIDE DEF h
  <2>3. /\ serverAt'[h] = "closed" /\ ServerShapes'
        /\ \A j \in Server!Ids : j # h => serverAt'[j] = serverAt[j]
    BY <2>1, <2>2 DEF ServersInv, ServerShapes
  <2>4. RequestInv' /\ StopInv'
    BY <2>1, <2>2, <2>3 DEF ServersInv, RequestInv, StopInv, Server!Running
  <2>5. h \in Logs!Range(toStop)
    BY <2>1, SplitSet DEF ServersInv, ServerShapes, h
  <2>6. OneServerInv'
    BY <2>1, <2>3, <2>5 DEF ServersInv, OneServerInv
  <2>. QED  BY <2>1, <2>3, <2>4, <2>6 DEF ServersInv, Server!GracefulEnd
<1>2. ASSUME toStop # <<>>, process = "stopping", serverAt[Head(toStop)] = "closed",
             toStop' = Tail(toStop), failedStop => failedStop',
             UNCHANGED <<managed, process, toStart, serverAt, requestAt, timeLeft>>,
             \/ ~Server!Active(Head(toStop))
             \/ timeLeft = 0 /\ failedStop'
      PROVE  ServersInv'
  <2>1. /\ Head(toStop) \in Server!Ids /\ toStop' \in Seq(Server!Ids)
        /\ Logs!Range(toStop) = {Head(toStop)} \cup Logs!Range(toStop')
    BY <1>2, SplitSet DEF ServersInv, ServerShapes
  <2>2. ServerShapes' /\ OneServerInv' /\ RequestInv'
    BY <1>2, <2>1 DEF ServersInv, ServerShapes, OneServerInv, RequestInv, Server!Running
  <2>3. StopInv'
    BY <1>2, <2>1 DEF ServersInv, StopInv, Server!Active
  <2>. QED  BY <1>2, <2>2, <2>3 DEF ServersInv, Server!GracefulEnd
<1>3. CASE Server!ShutdownReturns
  BY <1>2, <1>3 DEF Server!ShutdownReturns, Server!Drained
<1>4. CASE Server!DeadlinePasses
  <2>1. CASE managed
    BY <1>2, <1>4, <2>1 DEF Server!DeadlinePasses, Server!StopsOthers
  <2>2. CASE ~managed
    BY <1>4, <2>2, EndsIs DEF Server!DeadlinePasses, Server!Ended, Server!Running
  <2>. QED  BY <2>1, <2>2
<1>5. CASE Server!Exit
  BY <1>5, EndsIs DEF Server!Exit, Server!Ended, Server!Running
<1>6. CASE Server!Tick
  <2>1. /\ UNCHANGED <<managed, process, toStart, serverAt, requestAt, toStop, failedStop>>
        /\ process = "stopping" /\ timeLeft # 0
    BY <1>6 DEF Server!Tick
  <2>2. ServerShapes' /\ OneServerInv' /\ RequestInv'
    BY <2>1 DEF ServersInv, ServerShapes, OneServerInv, RequestInv, Server!Running
  <2>. QED  BY <2>1, <2>2 DEF ServersInv, StopInv, Server!GracefulEnd
<1>. QED  BY <1>1, <1>3, <1>4, <1>5, <1>6

LEMMA ServersStep == ServersInv /\ [Server!Next]_serverPart => ServersInv'
<1> SUFFICES ASSUME ServersInv, [Server!Next]_serverPart PROVE ServersInv'
  OBVIOUS
<1>1. CASE UNCHANGED serverPart
  BY <1>1 DEF serverPart, ServersInv, ServerShapes, OneServerInv, RequestInv, StopInv, Server!Running,
     Server!GracefulEnd
<1>. QED  BY <1>1, StartsKeep, RequestsKeep, StopsKeep DEF Server!Next

-----------------------------------------------------------------------------
(* The walk through a table.                                               *)

LEMMA Products ==
  /\ \A p \in Nat \ {0}, s \in Nat : (p - 1) * s + s = p * s /\ p * s \in Nat /\ (p - 1) * s \in Nat
  /\ \A p, q, s \in Nat : q <= p => q * s <= p * s
OBVIOUS

LEMMA Quotient ==
  ASSUME NEW n \in Nat, NEW s \in Nat \ {0}, NEW p \in Nat, Pages!PagesOf(n, s) <= p
  PROVE  n <= p * s
<1> DEFINE k == n + s - 1
           q == k \div s
<1>1. k \in Nat
  OBVIOUS
<1>. HIDE DEF k
<1>2. k < s * q + s /\ q \in Nat
  BY <1>1
<1>3. q <= p
  BY DEF k, Pages!PagesOf
<1>. HIDE DEF q
<1>4. q * s <= p * s /\ q * s \in Nat /\ p * s \in Nat /\ s * q = q * s
  BY <1>2, <1>3, Products
<1>5. k = n + s - 1
  BY DEF k
<1>. QED  BY <1>2, <1>4, <1>5

Sizes == {<<>>} \cup {<<n>> : n \in Int}
Askings == [page : {<<>>} \cup {<<n>> : n \in Nat}, perPage : Sizes, offset : {<<>>, <<-1>>}]
Page == Pages!Params(asking).page
Size == Pages!Params(asking).perPage
Before == (Page - 1) * Size

LEMMA ParamsAre ==
  ASSUME NEW q \in Askings
  PROVE  /\ Pages!Params(q).page \in Nat \ {0} /\ Pages!Params(q).perPage \in Nat \ {0}
         /\ Pages!Params(q).offset = (Pages!Params(q).page - 1) * Pages!Params(q).perPage
         /\ q.page # <<>> /\ q.page[1] >= 1 => Pages!Params(q).page = q.page[1]
<1> DEFINE number  == Pages!GetIntParam(q.page, 1)
           page0   == IF number < 1 THEN 1 ELSE number
           size    == Pages!GetIntParam(q.perPage, DefaultPerPage)
           perPage == CASE size < 1 -> DefaultPerPage [] size > MaxPerPage -> MaxPerPage
                        [] OTHER -> size
           offset  == Pages!GetIntParam(q.offset, 0)
           params  == [page |-> page0, perPage |-> perPage,
                       offset |-> IF offset > 0 THEN offset ELSE (page0 - 1) * perPage]
<1>1. Pages!Params(q) = params
  BY DEF Pages!Params
<1>2. number \in Nat /\ (q.page # <<>> => number = q.page[1])
  BY DEF Askings, Pages!GetIntParam
<1>3. size \in Int
  BY PageBounds DEF Askings, Sizes, Pages!GetIntParam
<1>4. offset \in {0, -1}
  BY DEF Askings, Pages!GetIntParam
<1>. HIDE DEF number, size, offset
<1>5. page0 \in Nat \ {0} /\ (number >= 1 => page0 = number)
  BY <1>2
<1>6. perPage \in Nat \ {0}
  BY <1>3, PageBounds
<1>7. ~(offset > 0)
  BY <1>4
<1>. HIDE DEF page0, perPage
<1>8. /\ params.page = page0 /\ params.perPage = perPage
      /\ params.offset = (page0 - 1) * perPage
  BY <1>7
<1>. HIDE DEF params
<1>. QED  BY <1>1, <1>2, <1>5, <1>6, <1>8

\* The rows are asked for, those of the page have been read.
Read == (handlerAt = "halfway" /\ ~countFirst) \/ handlerAt \in {"answered", "over"}
Passed == IF Read THEN Page * Size ELSE Before
PageShapes == /\ asking \in Askings /\ countFirst \in BOOLEAN /\ removed \in BOOLEAN
              /\ between \in BOOLEAN /\ handlerAt \in {"asked", "halfway", "answered", "over"}
              /\ ~removed => table \in Seq(TableRows) /\ total \in Nat
\* While no row is deleted, the reader has seen the old rows of the pages that are behind.
RowsInv == ~removed => /\ original \subseteq Pages!Range(table)
                       /\ \A i \in DOMAIN table :
                            i <= Passed /\ table[i] \in original => table[i] \in rowsSeen
TotalInv ==
  ~removed /\ ~between =>
    /\ countFirst /\ handlerAt = "halfway" => total = Len(table)
    /\ handlerAt = "answered" /\ total <= Page * Size => original \subseteq rowsSeen
PagesInv == PageShapes /\ RowsInv /\ TotalInv /\ Pages!NoRowMissed

LEMMA ListingIs ==
  ASSUME NEW S, IsFiniteSet(S)
  PROVE  Pages!Listing(S) \in Seq(S)
<1> DEFINE n == Cardinality(S)
<1>1. Pages!Listing(S) = CHOOSE f \in [1 .. n -> S] : Pages!IsInjective(f)
  BY DEF Pages!Listing, Pages!Cardinality, Cardinality
<1>2. n \in Nat /\ ExistsBijection(1 .. n, S)
  BY FS_CardinalityType
<1>3. PICK g \in [1 .. n -> S] : \A a, b \in 1 .. n : g[a] = g[b] => a = b
  BY <1>2 DEF ExistsBijection, Bijection, Injection, IsInjective
<1>4. \E f \in [1 .. n -> S] : Pages!IsInjective(f)
  BY <1>3 DEF Pages!IsInjective
<1>. HIDE DEF n
<1>5. Pages!Listing(S) \in [1 .. n -> S]
  BY <1>1, <1>4
<1>. QED  BY <1>2, <1>5

LEMMA PagesInitially == Pages!PagesInit => PagesInv
<1> SUFFICES ASSUME Pages!PagesInit PROVE PagesInv
  OBVIOUS
<1>1. table \in Seq(TableRows)
  <2>1. PICK S \in SUBSET TableRows : table = Pages!Listing(S)
    BY DEF Pages!PagesInit
  <2>2. IsFiniteSet(S)
    BY FS_Subset, PageBounds
  <2>3. table \in Seq(S)
    BY <2>1, <2>2, ListingIs
  <2>. QED  BY <2>3
<1>2. asking \in Askings
  BY PageBounds DEF Pages!PagesInit, Askings, Sizes
<1>3. Page = 1 /\ Size \in Nat \ {0} /\ Before = 0
  <2>1. Page = 1
    BY DEF Page, Pages!Params, Pages!PagesInit, Pages!GetIntParam
  <2>2. Size \in Nat \ {0}
    BY <1>2, ParamsAre DEF Size
  <2>. QED  BY <2>1, <2>2 DEF Before
<1>4. RowsInv
  <2>1. handlerAt = "asked" /\ ~Read /\ original = Pages!Range(table) /\ Passed = 0
    BY <1>3 DEF Read, Passed, Pages!PagesInit
  <2>2. \A i \in DOMAIN table : ~(i <= 0)
    BY <1>1
  <2>. QED  BY <2>1, <2>2 DEF RowsInv
<1>. QED  BY <1>1, <1>2, <1>4 DEF Pages!PagesInit, PagesInv, PageShapes, TotalInv, Pages!NoRowMissed

LEMMA SizesAre ==
  ASSUME PageShapes
  PROVE  /\ Page \in Nat \ {0} /\ Size \in Nat \ {0}
         /\ Page * Size \in Nat /\ Before \in Nat /\ Before + Size = Page * Size
         /\ Pages!Params(asking).offset = Before
<1>1. asking \in Askings
  BY DEF PageShapes
<1>2. /\ Page \in Nat \ {0} /\ Size \in Nat \ {0}
      /\ Pages!Params(asking).offset = Before
  BY <1>1, ParamsAre DEF Page, Size, Before
<1>. QED  BY <1>2, Products DEF Before

LEMMA SelectKeeps ==
  ASSUME PagesInv, Pages!Select
  PROVE  PagesInv'
<1>1. /\ UNCHANGED <<table, original, asking, countFirst, total, removed, between>>
      /\ handlerAt = IF countFirst THEN "halfway" ELSE "asked"
      /\ handlerAt' = IF countFirst THEN "answered" ELSE "halfway"
      /\ rowsSeen' = rowsSeen \cup
           {table[i] : i \in {j \in DOMAIN table : j > Before /\ j <= Before + Size}}
  BY SizesAre DEF Pages!Select, PagesInv, Size
<1>2. UNCHANGED <<Page, Size, Before>>
  BY <1>1 DEF Page, Size, Before
<1>3. /\ Page \in Nat /\ Size \in Nat /\ Before \in Nat /\ Before + Size = Page * Size
      /\ Passed = Before /\ Passed' = Page * Size
  BY <1>1, <1>2, SizesAre DEF PagesInv, PageShapes, Passed, Read
<1>4. RowsInv'
  <2> SUFFICES ASSUME ~removed
               PROVE  /\ original \subseteq Pages!Range(table)
                      /\ \A i \in DOMAIN table :
                           i <= Page * Size /\ table[i] \in original => table[i] \in rowsSeen'
    BY <1>1, <1>3 DEF RowsInv
  <2>1. ASSUME NEW i \in DOMAIN table, i <= Page * Size, table[i] \in original
        PROVE  table[i] \in rowsSeen'
    <3>1. i \in Nat
      BY DEF PagesInv, PageShapes
    <3>2. CASE i <= Before
      BY <1>1, <1>3, <2>1, <3>2 DEF PagesInv, RowsInv
    <3>3. CASE i > Before
      BY <1>1, <1>3, <2>1, <3>3
    <3>. QED  BY <1>3, <3>1, <3>2, <3>3
  <2>. QED  BY <2>1 DEF PagesInv, RowsInv
<1>5. TotalInv'
  <2> SUFFICES ASSUME ~removed, ~between, countFirst, total <= Page * Size
               PROVE  original \subseteq rowsSeen'
    BY <1>1, <1>2 DEF TotalInv, PagesInv, PageShapes
  <2>1. total = Len(table) /\ table \in Seq(TableRows)
    BY <1>1 DEF PagesInv, PageShapes, TotalInv
  <2>2. \A i \in DOMAIN table : i <= Page * Size
    BY <1>3, <2>1
  <2>3. \A i \in DOMAIN table : table[i] \in original => table[i] \in rowsSeen'
    BY <1>1, <1>3, <1>4, <2>2 DEF RowsInv
  <2>. QED  BY <2>3 DEF PagesInv, RowsInv, Pages!Range
<1>6. PageShapes' /\ Pages!NoRowMissed'
  BY <1>1 DEF PagesInv, PageShapes, Pages!NoRowMissed
<1>. QED  BY <1>4, <1>5, <1>6 DEF PagesInv

LEMMA TotalKeeps ==
  ASSUME PagesInv, Pages!Count
  PROVE  PagesInv'
<1>1. /\ UNCHANGED <<table, original, asking, countFirst, rowsSeen, removed, between>>
      /\ handlerAt = IF countFirst THEN "asked" ELSE "halfway"
      /\ handlerAt' = IF countFirst THEN "halfway" ELSE "answered"
      /\ total' = Len(table)
  BY DEF Pages!Count
<1>2. UNCHANGED <<Page, Size, Before>>
  BY <1>1 DEF Page, Size, Before
<1>3. Passed' = Passed /\ (~countFirst => Passed = Page * Size) /\ Page * Size \in Nat
  BY <1>1, <1>2, SizesAre DEF PagesInv, PageShapes, Passed, Read
<1>4. RowsInv'
  BY <1>1, <1>3 DEF PagesInv, RowsInv
<1>5. TotalInv'
  <2>1. CASE countFirst
    BY <1>1, <2>1 DEF TotalInv
  <2>2. CASE ~countFirst
    <3> SUFFICES ASSUME ~removed, ~between, Len(table) <= Page * Size
                 PROVE  original \subseteq rowsSeen
      BY <1>1, <1>2, <2>2 DEF TotalInv
    <3>1. table \in Seq(TableRows)
      BY DEF PagesInv, PageShapes
    <3>2. \A i \in DOMAIN table : i <= Page * Size
      BY <1>3, <3>1
    <3>. QED  BY <1>3, <2>2, <3>2 DEF PagesInv, RowsInv, Pages!Range
  <2>. QED  BY <2>1, <2>2
<1>6. PageShapes' /\ Pages!NoRowMissed'
  BY <1>1 DEF PagesInv, PageShapes, Pages!NoRowMissed
<1>. QED  BY <1>4, <1>5, <1>6 DEF PagesInv

LEMMA FollowKeeps ==
  ASSUME PagesInv, Pages!Follow
  PROVE  PagesInv'
<1> DEFINE next == [asking EXCEPT !.page = <<Page + 1>>]
<1>1. /\ UNCHANGED <<table, original, countFirst, total, rowsSeen, removed, between>>
      /\ handlerAt = "answered"
      /\ \/ Pages!HasNext(Pages!Params(asking), total) /\ asking' = next /\ handlerAt' = "asked"
         \/ ~Pages!HasNext(Pages!Params(asking), total) /\ asking' = asking /\ handlerAt' = "over"
  BY DEF Pages!Follow, Page
<1>2. /\ Page \in Nat \ {0} /\ Size \in Nat \ {0} /\ Passed = Page * Size /\ Page * Size \in Nat
  BY <1>1, SizesAre DEF PagesInv, PageShapes, Passed, Read
<1>3. CASE asking' = next /\ handlerAt' = "asked"
  <2>1. /\ asking \in Askings /\ next \in Askings /\ next.perPage = asking.perPage
        /\ next.offset = asking.offset /\ next.page = <<Page + 1>> /\ Page + 1 >= 1
    BY <1>2 DEF PagesInv, PageShapes, Askings
  <2>2. Page' = Page + 1
    <3>1. <<Page + 1>> # <<>> /\ <<Page + 1>>[1] = Page + 1
      OBVIOUS
    <3>. QED  BY <1>3, <2>1, <3>1, ParamsAre DEF Page
  <2>3. Size' = Size
    BY <1>3, <2>1 DEF Size, Pages!Params
  <2>4. Passed' = Passed
    BY <1>2, <1>3, <2>2, <2>3 DEF Passed, Before, Read
  <2>5. RowsInv'
    BY <1>1, <2>4 DEF PagesInv, RowsInv
  <2>6. PageShapes' /\ TotalInv' /\ Pages!NoRowMissed'
    BY <1>1, <1>3, <2>1 DEF PagesInv, PageShapes, TotalInv, Pages!NoRowMissed
  <2>. QED  BY <2>5, <2>6 DEF PagesInv
<1>4. CASE /\ ~Pages!HasNext(Pages!Params(asking), total) /\ asking' = asking
           /\ handlerAt' = "over"
  <2>1. UNCHANGED <<Page, Size, Before>>
    BY <1>4 DEF Page, Size, Before
  <2>2. Passed' = Passed
    BY <1>2, <1>4, <2>1 DEF Passed, Read
  <2>3. RowsInv'
    BY <1>1, <2>2 DEF PagesInv, RowsInv
  <2>4. ASSUME ~removed, ~between PROVE original \subseteq rowsSeen
    <3>1. total \in Nat
      BY <2>4 DEF PagesInv, PageShapes
    <3>2. Pages!PagesOf(total, Size) <= Page
      <4> DEFINE n == Pages!PagesOf(total, Size)
      <4>1. ~(Page < (IF n < 1 THEN 1 ELSE n))
        BY <1>4 DEF Pages!HasNext, Page, Size
      <4>2. n \in Int
        BY <1>2, <3>1 DEF Pages!PagesOf
      <4>. HIDE DEF n
      <4>3. n <= Page
        BY <1>2, <4>1, <4>2
      <4>. QED  BY <4>3 DEF n
    <3>3. total <= Page * Size
      BY <1>2, <3>1, <3>2, Quotient
    <3>. QED  BY <1>1, <2>4, <3>3 DEF PagesInv, TotalInv
  <2>5. PageShapes' /\ TotalInv' /\ Pages!NoRowMissed'
    BY <1>1, <1>4, <2>4 DEF PagesInv, PageShapes, TotalInv, Pages!NoRowMissed
  <2>. QED  BY <2>3, <2>5 DEF PagesInv
<1>. QED  BY <1>1, <1>3, <1>4

LEMMA InsertKeeps ==
  ASSUME PagesInv, NEW r \in TableRows, Pages!Insert(r)
  PROVE  PagesInv'
<1>1. /\ UNCHANGED <<original, asking, handlerAt, countFirst, total, rowsSeen, removed>>
      /\ handlerAt # "over" /\ r \notin original
      /\ table' = <<r>> \o table
      /\ between' = (between \/ (handlerAt = "halfway" /\ countFirst))
  BY DEF Pages!Insert
<1>2. UNCHANGED <<Page, Size, Before>>
  BY <1>1 DEF Page, Size, Before
<1>3. Passed' = Passed /\ Passed \in Nat
  BY <1>1, <1>2, SizesAre DEF PagesInv, Passed, Read
<1>4. ASSUME ~removed
      PROVE  /\ table' \in Seq(TableRows) /\ DOMAIN table = 1 .. Len(table) /\ Len(table) \in Nat
             /\ DOMAIN table' = 1 .. Len(table) + 1 /\ table'[1] = r
             /\ \A i \in 1 .. Len(table) : table'[i + 1] = table[i]
  <2>1. table \in Seq(TableRows)
    BY <1>4 DEF PagesInv, PageShapes
  <2>. DEFINE u == <<r>>
  <2>2. u \in Seq(TableRows) /\ Len(u) = 1 /\ u[1] = r
    OBVIOUS
  <2>. HIDE DEF u
  <2>3. /\ u \o table \in Seq(TableRows) /\ DOMAIN (u \o table) = 1 .. Len(table) + 1
        /\ DOMAIN table = 1 .. Len(table) /\ Len(table) \in Nat
        /\ (u \o table)[1] = r
    BY <2>1, <2>2, ConcatProperties
  <2>4. ASSUME NEW i \in 1 .. Len(table) PROVE (u \o table)[i + 1] = table[i]
    <3>1. /\ i + 1 \in 1 .. Len(u) + Len(table) /\ ~(i + 1 <= Len(u))
          /\ (i + 1) - Len(u) = i
      BY <2>2, <2>3
    <3>2. \A j \in 1 .. Len(u) + Len(table) :
            (u \o table)[j] = IF j <= Len(u) THEN u[j] ELSE table[j - Len(u)]
      BY <2>1, <2>2, ConcatProperties
    <3>3. (u \o table)[i + 1] = table[(i + 1) - Len(u)]
      BY <3>1, <3>2
    <3>. QED  BY <3>1, <3>3
  <2>. QED  BY <1>1, <2>3, <2>4 DEF u
<1>5. RowsInv'
  <2> SUFFICES ASSUME ~removed
               PROVE  /\ original \subseteq Pages!Range(table')
                      /\ \A i \in DOMAIN table' :
                           i <= Passed /\ table'[i] \in original => table'[i] \in rowsSeen
    BY <1>1, <1>3 DEF RowsInv, Pages!Range
  <2>1. ASSUME NEW x \in original PROVE x \in Pages!Range(table')
    <3>1. PICK i \in DOMAIN table : x = table[i]
      BY DEF PagesInv, RowsInv, Pages!Range
    <3>2. i + 1 \in DOMAIN table' /\ table'[i + 1] = x
      BY <1>4, <3>1
    <3>. QED  BY <3>2 DEF Pages!Range
  <2>2. ASSUME NEW i \in DOMAIN table', i <= Passed, table'[i] \in original
        PROVE  table'[i] \in rowsSeen
    <3>1. i \in 1 .. Len(table) + 1 /\ i # 1
      BY <1>1, <1>4, <2>2
    <3>2. i - 1 \in 1 .. Len(table) /\ (i - 1) + 1 = i /\ i - 1 <= Passed
      BY <1>3, <1>4, <2>2, <3>1
    <3>3. table'[i] = table[i - 1]
      BY <1>4, <3>2
    <3>. QED  BY <1>4, <2>2, <3>2, <3>3 DEF PagesInv, RowsInv
  <2>. QED  BY <2>1, <2>2
<1>6. PageShapes' /\ TotalInv' /\ Pages!NoRowMissed'
  BY <1>1, <1>2, <1>4 DEF PagesInv, PageShapes, TotalInv, Pages!NoRowMissed
<1>. QED  BY <1>5, <1>6 DEF PagesInv

LEMMA PagesStep == PagesInv /\ [Pages!Next]_pagePart => PagesInv'
<1> SUFFICES ASSUME PagesInv, [Pages!Next]_pagePart PROVE PagesInv'
  OBVIOUS
<1>1. CASE UNCHANGED pagePart
  <2>1. UNCHANGED <<table, original, asking, handlerAt, countFirst, total, rowsSeen, removed,
                    between>>
    BY <1>1 DEF pagePart
  <2>2. UNCHANGED Passed /\ UNCHANGED <<Page, Size>>
    BY <2>1 DEF Passed, Read, Page, Size, Before
  <2>. QED  BY <2>1, <2>2 DEF PagesInv, PageShapes, RowsInv, TotalInv, Pages!NoRowMissed
<1>2. ASSUME NEW i \in DOMAIN table, Pages!Delete(i) PROVE PagesInv'
  <2>1. /\ UNCHANGED <<original, asking, handlerAt, countFirst, total, rowsSeen, between>>
        /\ removed' = TRUE
    BY <1>2 DEF Pages!Delete
  <2>. QED  BY <2>1 DEF PagesInv, PageShapes, RowsInv, TotalInv, Pages!NoRowMissed
<1>. QED  BY <1>1, <1>2, SelectKeeps, TotalKeeps, FollowKeeps, InsertKeeps DEF Pages!Next

-----------------------------------------------------------------------------
(* The types of what these components keep, and of the batch of fetches.   *)

\* The log pipeline.
\* The sequences hold records that were logged, and the buffers are bounded.
LogsIn(T) ==
  /\ fwdBuffer \in Seq(T) /\ storeBuffer \in Seq(T) /\ storeBatch \in Seq(T)
  /\ logStream \in Seq(T) /\ pubsub \in Seq(T) /\ readLogs \in Seq(T) /\ logs \in Seq(T)
  /\ written \subseteq T /\ excused \subseteq T /\ publishing \in T \cup {"none"}
LogSizes ==
  /\ Len(fwdBuffer) <= BufferSize /\ Len(storeBuffer) <= BufferSize
  /\ Len(storeBatch) < StoreBatch /\ Len(logs) <= MaxLogs
  /\ fwdEnded \in BOOLEAN /\ storeClosed \in BOOLEAN /\ subscribed \in BOOLEAN /\ paused \in BOOLEAN
  /\ loading \in {"no", "read", "done"} /\ logFaults \in 0 .. MaxLogFaults
LogTypes == logged \subseteq LogEntries /\ LogsIn(logged) /\ LogSizes

LEMMA SetOfSeq == ASSUME NEW T, NEW s \in Seq(T) PROVE Logs!Range(s) \subseteq T
BY DEF Logs!Range

LEMMA SeqGrows == ASSUME NEW S, NEW T, S \subseteq T, NEW s \in Seq(S) PROVE s \in Seq(T)
<1>1. s \in [1 .. Len(s) -> S] /\ Len(s) \in Nat
  OBVIOUS
<1>2. s \in [1 .. Len(s) -> T]
  BY <1>1
<1>. QED  BY <1>1, <1>2

LEMMA NewestIs ==
  ASSUME NEW T, NEW s \in Seq(T)
  PROVE  /\ Logs!Newest(s) \in Seq(T) /\ Len(Logs!Newest(s)) <= MaxLogs
BY LogBounds DEF Logs!Newest

LEMMA TailShorter ==
  ASSUME NEW T, NEW s \in Seq(T), s # <<>>
  PROVE  Head(s) \in T /\ Tail(s) \in Seq(T) /\ Len(Tail(s)) <= Len(s)
OBVIOUS

LEMMA StreamAdds ==
  ASSUME NEW T, LogsIn(T), NEW es \in Seq(T), Logs!Added(es)
  PROVE  logStream' \in Seq(T) /\ written' \subseteq T
<1> DEFINE t == logStream \o es
<1>1. t \in Seq(T)
  BY DEF LogsIn
<1>2. Logs!Trimmed(t) \subseteq Seq(T)
  <2>1. ASSUME Len(t) > StreamMax
        PROVE  SubSeq(t, Len(t) - StreamMax + 1, Len(t)) \in Seq(T)
    <3>1. Len(t) \in Nat /\ Len(t) - StreamMax + 1 \in 1 .. Len(t) + 1
      BY <1>1, <2>1, LogBounds
    <3>. HIDE DEF t
    <3>. QED  BY <1>1, <3>1
  <2>. HIDE DEF t
  <2>. QED  BY <1>1, <2>1 DEF Logs!Trimmed
<1>3. written' = written \cup Logs!Range(es) /\ logStream' \in Logs!Trimmed(t)
  BY DEF Logs!Added
<1>. QED  BY <1>2, <1>3, SetOfSeq DEF LogsIn

LEMMA BatchTyped ==
  ASSUME NEW T, LogsIn(T), NEW es \in Seq(T), Logs!WritesBatch(es), logFaults \in 0 .. MaxLogFaults
  PROVE  /\ logStream' \in Seq(T) /\ pubsub' \in Seq(T) /\ written' \subseteq T
         /\ excused' \subseteq T /\ logFaults' \in 0 .. MaxLogFaults
<1>1. logStream' \in Seq(T) /\ written' \subseteq T
  BY StreamAdds DEF Logs!WritesBatch, Logs!Unadded, LogsIn
<1>2. pubsub' \in Seq(T)
  <2>1. pubsub \in Seq(T) /\ pubsub \o es \in Seq(T)
    BY DEF LogsIn
  <2>. QED  BY <2>1 DEF Logs!WritesBatch, Logs!Published
<1>3. excused' \subseteq T
  <2>1. Logs!Range(es) \subseteq T /\ Logs!Range(logStream) \subseteq T
    BY SetOfSeq DEF LogsIn
  <2>. QED  BY <1>1, <2>1 DEF LogsIn, Logs!WritesBatch, Logs!Gone, Logs!Unheard
<1>4. logFaults' \in 0 .. MaxLogFaults
  BY LogBounds DEF Logs!WritesBatch, Logs!LogFault
<1>. QED  BY <1>1, <1>2, <1>3, <1>4

LEMMA ForwarderTyped ==
  ASSUME NEW T, LogsIn(T), LogSizes,
         Logs!Forward \/ Logs!ForwardPublish \/ Logs!ForwarderEnds
  PROVE  LogsIn(T)' /\ LogSizes'
<1>0. /\ Logs!Range(fwdBuffer) \subseteq T /\ Logs!Range(logStream) \subseteq T
  BY SetOfSeq DEF LogsIn
<1>1. CASE Logs!Forward
  <2>0. UNCHANGED <<storeBuffer, storeBatch, storeClosed, pubsub, subscribed, loading, readLogs,
                    logs, paused, fwdEnded>>
    BY <1>1 DEF Logs!Forward, Logs!redisStore, Logs!view
  <2> DEFINE h == Head(fwdBuffer)
  <2>1. /\ h \in T /\ fwdBuffer' \in Seq(T) /\ Len(fwdBuffer') <= Len(fwdBuffer)
        /\ Len(fwdBuffer') \in Nat /\ Len(fwdBuffer) \in Nat
    BY <1>1, TailShorter DEF Logs!Forward, LogsIn
  <2>2. /\ Logs!Added(<<h>>) \/ Logs!Unadded
        /\ publishing' \in {h, publishing}
        /\ excused' \subseteq excused \cup {h} \cup Logs!Gone
        /\ logFaults' = logFaults \/ Logs!LogFault
    BY <1>1 DEF Logs!Forward
  <2>. HIDE DEF h
  <2>3. logStream' \in Seq(T) /\ written' \subseteq T
    <3>1. <<h>> \in Seq(T)
      BY <2>1
    <3>. QED  BY <2>2, <3>1, StreamAdds DEF Logs!Unadded, LogsIn
  <2>4. excused' \subseteq T /\ publishing' \in T \cup {"none"}
    BY <1>0, <2>1, <2>2, <2>3 DEF LogsIn, Logs!Gone
  <2>5. logFaults' \in 0 .. MaxLogFaults
    BY <2>2, LogBounds DEF LogSizes, Logs!LogFault
  <2>6. Len(fwdBuffer') <= BufferSize
    BY <2>1, LogBounds DEF LogSizes
  <2>. QED  BY <2>0, <2>1, <2>3, <2>4, <2>5, <2>6 DEF LogsIn, LogSizes
<1>2. CASE Logs!ForwardPublish
  <2>0. /\ UNCHANGED <<fwdBuffer, storeBuffer, storeBatch, storeClosed, subscribed, loading,
                       readLogs, logs, written, logStream, paused, fwdEnded>>
        /\ publishing' = "none"
    BY <1>2 DEF Logs!ForwardPublish, Logs!redisStore, Logs!view, Logs!NoEntry
  <2>1. publishing \in T
    BY <1>2 DEF Logs!ForwardPublish, Logs!NoEntry, LogsIn
  <2> DEFINE h == << publishing >>
  <2>2. h \in Seq(T)
    BY <2>1
  <2>3. /\ pubsub' = Logs!Published(h) \/ pubsub' = pubsub
        /\ excused' \subseteq excused \cup {publishing} \cup Logs!Range(h)
        /\ logFaults' = logFaults \/ Logs!LogFault
    BY <1>2 DEF Logs!ForwardPublish, Logs!Unheard
  <2>. HIDE DEF h
  <2>4. pubsub' \in Seq(T) /\ excused' \subseteq T
    <3>1. pubsub \in Seq(T) /\ pubsub \o h \in Seq(T) /\ Logs!Range(h) \subseteq T
      BY <2>2, SetOfSeq DEF LogsIn
    <3>. QED  BY <2>1, <2>3, <3>1 DEF Logs!Published, LogsIn
  <2>5. logFaults' \in 0 .. MaxLogFaults
    BY <2>3, LogBounds DEF LogSizes, Logs!LogFault
  <2>. QED  BY <2>0, <2>4, <2>5 DEF LogsIn, LogSizes
<1>3. CASE Logs!ForwarderEnds
  <2>1. /\ UNCHANGED <<storeBuffer, storeBatch, storeClosed, pubsub, subscribed, loading, readLogs,
                       logs, paused, publishing, written, logStream, logFaults>>
        /\ fwdBuffer' = <<>> /\ fwdEnded' = TRUE /\ excused' = excused \cup Logs!Range(fwdBuffer)
    BY <1>3 DEF Logs!ForwarderEnds, Logs!redisStore, Logs!view
  <2>. QED  BY <1>0, <2>1, LogBounds DEF LogsIn, LogSizes
<1>. QED  BY <1>1, <1>2, <1>3

LEMMA StoreTyped ==
  ASSUME NEW T, LogsIn(T), LogSizes,
         Logs!StoreTakes \/ Logs!StoreTick \/ Logs!StoreClose
  PROVE  LogsIn(T)' /\ LogSizes'
<1>1. CASE Logs!StoreTakes
  <2>0. UNCHANGED <<storeClosed, fwdBuffer, publishing, readLogs, logs, loading, fwdEnded,
                    subscribed, paused>>
    BY <1>1 DEF Logs!StoreTakes, Logs!forwarder, Logs!view
  <2> DEFINE b == Append(storeBatch, Head(storeBuffer))
  <2>1. /\ storeBuffer' \in Seq(T) /\ Len(storeBuffer') <= Len(storeBuffer)
             /\ Head(storeBuffer) \in T
        /\ Len(storeBuffer') \in Nat /\ Len(storeBuffer) \in Nat
    BY <1>1, TailShorter DEF Logs!StoreTakes, LogsIn
  <2>2. b \in Seq(T) /\ Len(b) \in Nat
    BY <2>1 DEF LogsIn
  <2>3. \/ Len(b) >= StoreBatch /\ Logs!WritesBatch(b) /\ storeBatch' = <<>>
        \/ ~(Len(b) >= StoreBatch) /\ storeBatch' = b /\ Logs!Idle
    BY <1>1 DEF Logs!StoreTakes
  <2>. HIDE DEF b
  <2>4. /\ logStream' \in Seq(T) /\ pubsub' \in Seq(T) /\ written' \subseteq T
        /\ excused' \subseteq T /\ logFaults' \in 0 .. MaxLogFaults
    <3>1. logFaults \in 0 .. MaxLogFaults
      BY DEF LogSizes
    <3>. QED  BY <2>2, <2>3, <3>1, BatchTyped DEF Logs!Idle, LogsIn, LogSizes
  <2>5. storeBatch' \in Seq(T) /\ Len(storeBatch') < StoreBatch
    <3>1. CASE storeBatch' = <<>>
      BY <3>1, LogBounds
    <3>2. CASE ~(Len(b) >= StoreBatch) /\ storeBatch' = b
      BY <2>2, <3>2, LogBounds
    <3>. QED  BY <2>3, <3>1, <3>2
  <2>6. Len(storeBuffer') <= BufferSize
    BY <2>1, LogBounds DEF LogSizes
  <2>. QED  BY <2>0, <2>1, <2>4, <2>5, <2>6 DEF LogsIn, LogSizes
<1>2. CASE Logs!StoreTick
  <2>0. /\ UNCHANGED <<storeBuffer, storeClosed, fwdBuffer, publishing, readLogs, logs, loading,
                       fwdEnded, subscribed, paused>>
        /\ storeBatch' = <<>> /\ Logs!WritesBatch(storeBatch)
    BY <1>2 DEF Logs!StoreTick, Logs!forwarder, Logs!view
  <2>1. storeBatch \in Seq(T) /\ logFaults \in 0 .. MaxLogFaults
    BY DEF LogsIn, LogSizes
  <2>2. /\ logStream' \in Seq(T) /\ pubsub' \in Seq(T) /\ written' \subseteq T
        /\ excused' \subseteq T /\ logFaults' \in 0 .. MaxLogFaults
    BY <2>0, <2>1, BatchTyped
  <2>3. Len(storeBatch') < StoreBatch
    BY <2>0, LogBounds
  <2>. QED  BY <2>0, <2>2, <2>3 DEF LogsIn, LogSizes
<1>3. CASE Logs!StoreClose
  <2>1. /\ UNCHANGED <<storeBatch, logStream, readLogs, logs, written, publishing, fwdBuffer,
                       fwdEnded, subscribed, paused, loading, logFaults>>
        /\ storeClosed' = TRUE /\ storeBuffer' = <<>> /\ pubsub' = <<>>
        /\ excused' = excused \cup Logs!Range(storeBuffer) \cup Logs!Range(pubsub)
    BY <1>3 DEF Logs!StoreClose, Logs!forwarder, Logs!view
  <2>2. Logs!Range(storeBuffer) \subseteq T /\ Logs!Range(pubsub) \subseteq T
    BY SetOfSeq DEF LogsIn
  <2>. QED  BY <2>1, <2>2, LogBounds DEF LogsIn, LogSizes
<1>. QED  BY <1>1, <1>2, <1>3

LEMMA ViewTyped ==
  ASSUME NEW T, LogsIn(T), LogSizes,
         \/ Logs!Subscribe
         \/ Logs!ReadLogs
         \/ Logs!LoadLogs
         \/ Logs!Receive
         \/ Logs!TogglePause
         \/ Logs!ClearLogs
  PROVE  LogsIn(T)' /\ LogSizes'
<1>0. /\ Logs!Range(logStream) \subseteq T /\ Logs!Range(logs) \subseteq T
  BY SetOfSeq DEF LogsIn
<1>a. ASSUME NEW s \in Seq(T), Logs!Shows(s)
      PROVE  logs' \in Seq(T) /\ Len(logs') <= MaxLogs /\ excused' \subseteq T
  BY <1>a, NewestIs, SetOfSeq DEF Logs!Shows, LogsIn
<1>1. CASE Logs!Subscribe
  BY <1>1 DEF Logs!Subscribe, Logs!forwarder, Logs!redisStore, LogsIn, LogSizes
<1>2. CASE Logs!ReadLogs
  <2>1. /\ UNCHANGED <<fwdBuffer, publishing, storeBuffer, storeBatch, storeClosed, written,
                       logStream, pubsub, logs, fwdEnded, subscribed, paused>>
        /\ excused' \subseteq excused \cup Logs!Range(logStream)
        /\ loading' \in {"read", "done"}
        /\ readLogs' = Logs!Newest(logStream) \/ readLogs' = readLogs
        /\ logFaults' = logFaults \/ Logs!LogFault
    BY <1>2 DEF Logs!ReadLogs, Logs!forwarder, Logs!redisStore
  <2>2. readLogs' \in Seq(T)
    BY <2>1, NewestIs DEF LogsIn
  <2>3. logFaults' \in 0 .. MaxLogFaults
    BY <2>1, LogBounds DEF LogSizes, Logs!LogFault
  <2>. QED  BY <1>0, <2>1, <2>2, <2>3 DEF LogsIn, LogSizes
<1>3. CASE Logs!LoadLogs
  <2>1. /\ UNCHANGED <<fwdBuffer, publishing, storeBuffer, storeBatch, storeClosed, written,
                       logStream, pubsub, fwdEnded, subscribed, paused, logFaults>>
        /\ readLogs' = <<>> /\ loading' = "done" /\ Logs!Shows(logs \o readLogs)
    BY <1>3 DEF Logs!LoadLogs, Logs!forwarder, Logs!redisStore, Logs!Loaded
  <2>2. logs \o readLogs \in Seq(T)
    BY DEF LogsIn
  <2>3. logs' \in Seq(T) /\ Len(logs') <= MaxLogs /\ excused' \subseteq T
    BY <1>a, <2>1, <2>2
  <2>. QED  BY <2>1, <2>3 DEF LogsIn, LogSizes
<1>4. CASE Logs!Receive
  <2>1. /\ UNCHANGED <<fwdBuffer, publishing, storeBuffer, storeBatch, storeClosed, written,
                       logStream, loading, readLogs, fwdEnded, subscribed, paused, logFaults>>
        /\ pubsub # <<>> /\ pubsub' = Tail(pubsub)
        /\ \/ excused' = excused \cup {Head(pubsub)} /\ logs' = logs
           \/ Logs!Shows(Append(logs, Head(pubsub)))
    BY <1>4 DEF Logs!Receive, Logs!forwarder, Logs!redisStore
  <2>2. Head(pubsub) \in T /\ pubsub' \in Seq(T)
    BY <2>1, TailShorter DEF LogsIn
  <2>3. Append(logs, Head(pubsub)) \in Seq(T)
    BY <2>2 DEF LogsIn
  <2>4. logs' \in Seq(T) /\ Len(logs') <= MaxLogs /\ excused' \subseteq T
    BY <1>a, <2>1, <2>2, <2>3 DEF LogsIn, LogSizes
  <2>. QED  BY <2>1, <2>2, <2>4 DEF LogsIn, LogSizes
<1>5. CASE Logs!TogglePause
  BY <1>5 DEF Logs!TogglePause, Logs!forwarder, Logs!redisStore, LogsIn, LogSizes
<1>6. CASE Logs!ClearLogs
  <2>1. /\ UNCHANGED <<fwdBuffer, publishing, storeBuffer, storeBatch, storeClosed, written,
                       logStream, pubsub, loading, readLogs, fwdEnded, subscribed, paused,
                       logFaults>>
        /\ logs' = <<>> /\ excused' = excused \cup Logs!Range(logs)
    BY <1>6 DEF Logs!ClearLogs, Logs!forwarder, Logs!redisStore
  <2>. QED  BY <1>0, <2>1, LogBounds DEF LogsIn, LogSizes
<1>. QED  BY <1>1, <1>2, <1>3, <1>4, <1>5, <1>6

LEMMA LoggingTyped ==
  ASSUME NEW T, LogsIn(T), LogSizes, NEW e \in T, Logs!Log(e) \/ Logs!Write(e)
  PROVE  LogsIn(T)' /\ LogSizes'
<1>1. CASE Logs!Log(e)
  <2>1. /\ UNCHANGED <<storeBuffer, storeBatch, logStream, pubsub, readLogs, logs, written,
                       publishing, storeClosed, loading, fwdEnded, subscribed, paused, logFaults>>
        /\ \/ Len(fwdBuffer) < BufferSize /\ fwdBuffer' = Append(fwdBuffer, e)
           \/ fwdBuffer' = fwdBuffer
        /\ excused' \subseteq excused \cup {e}
    BY <1>1 DEF Logs!Log, Logs!redisStore, Logs!view
  <2>2. /\ Append(fwdBuffer, e) \in Seq(T) /\ Len(Append(fwdBuffer, e)) = Len(fwdBuffer) + 1
        /\ Len(fwdBuffer) \in Nat
    BY DEF LogsIn
  <2>3. fwdBuffer' \in Seq(T) /\ Len(fwdBuffer') <= BufferSize
    <3>1. CASE Len(fwdBuffer) < BufferSize /\ fwdBuffer' = Append(fwdBuffer, e)
      <4> DEFINE t == Append(fwdBuffer, e)
      <4>1. t \in Seq(T) /\ Len(t) = Len(fwdBuffer) + 1 /\ fwdBuffer' = t
        BY <2>2, <3>1
      <4>. HIDE DEF t
      <4>. QED  BY <2>2, <3>1, <4>1, LogBounds
    <3>2. CASE fwdBuffer' = fwdBuffer
      BY <3>2 DEF LogsIn, LogSizes
    <3>. QED  BY <2>1, <3>1, <3>2
  <2>. QED  BY <2>1, <2>3 DEF LogsIn, LogSizes
<1>2. CASE Logs!Write(e)
  <2>1. /\ UNCHANGED <<storeBatch, storeClosed, fwdBuffer, publishing, readLogs, logs, loading,
                       fwdEnded, subscribed, paused>>
        /\ \/ Len(storeBuffer) < BufferSize /\ storeBuffer' = Append(storeBuffer, e) /\ Logs!Idle
           \/ Logs!WritesBatch(<<e>>) /\ storeBuffer' = storeBuffer
    BY <1>2 DEF Logs!Write, Logs!forwarder, Logs!view
  <2>2. /\ Append(storeBuffer, e) \in Seq(T) /\ Len(Append(storeBuffer, e)) = Len(storeBuffer) + 1
        /\ Len(storeBuffer) \in Nat /\ <<e>> \in Seq(T)
    BY DEF LogsIn
  <2>3. storeBuffer' \in Seq(T) /\ Len(storeBuffer') <= BufferSize
    <3>1. CASE Len(storeBuffer) < BufferSize /\ storeBuffer' = Append(storeBuffer, e)
      <4> DEFINE t == Append(storeBuffer, e)
      <4>1. t \in Seq(T) /\ Len(t) = Len(storeBuffer) + 1 /\ storeBuffer' = t
        BY <2>2, <3>1
      <4>. HIDE DEF t
      <4>. QED  BY <2>2, <3>1, <4>1, LogBounds
    <3>2. CASE storeBuffer' = storeBuffer
      BY <3>2 DEF LogsIn, LogSizes
    <3>. QED  BY <2>1, <3>1, <3>2
  <2>4. /\ logStream' \in Seq(T) /\ pubsub' \in Seq(T) /\ written' \subseteq T
        /\ excused' \subseteq T /\ logFaults' \in 0 .. MaxLogFaults
    BY <2>1, <2>2, BatchTyped DEF LogsIn, LogSizes, Logs!Idle
  <2>. QED  BY <2>1, <2>3, <2>4 DEF LogsIn, LogSizes
<1>. QED  BY <1>1, <1>2

LEMMA LogTypesInitially == Logs!Init => LogTypes
<1> SUFFICES ASSUME Logs!Init PROVE LogTypes
  OBVIOUS
<1>1. LogsIn({}) /\ logged = {}
  BY DEF Logs!Init, LogsIn, Logs!NoEntry
<1>2. LogSizes
  <2>1. /\ fwdBuffer = <<>> /\ storeBuffer = <<>> /\ storeBatch = <<>> /\ logs = <<>>
        /\ fwdEnded = FALSE /\ storeClosed = FALSE /\ subscribed = FALSE /\ paused = FALSE
        /\ loading = "no" /\ logFaults = 0
    BY DEF Logs!Init
  <2>2. Len(<<>>) = 0 /\ 0 <= BufferSize /\ 0 < StoreBatch /\ 0 <= MaxLogs
          /\ 0 \in 0 .. MaxLogFaults
    BY LogBounds
  <2>. QED  BY <2>1, <2>2 DEF LogSizes
<1>. QED  BY <1>1, <1>2 DEF LogTypes

LEMMA LogTypesStep == LogTypes /\ [Logs!Next]_logPart => LogTypes'
<1> SUFFICES ASSUME LogTypes, [Logs!Next]_logPart PROVE LogTypes'
  OBVIOUS
<1>1. CASE UNCHANGED logPart
  BY <1>1 DEF logPart, LogTypes, LogsIn, LogSizes
<1>2. ASSUME NEW e \in LogEntries, Logs!Log(e) \/ Logs!Write(e) PROVE LogTypes'
  <2>1. logged' = logged \cup {e}
    BY <1>2 DEF Logs!Log, Logs!Write
  <2>2. PICK T : T = logged \cup {e}
    OBVIOUS
  <2>3. LogsIn(T)
    BY <2>2, SeqGrows DEF LogTypes, LogsIn
  <2>4. LogsIn(T)' /\ LogSizes'
    BY <1>2, <2>2, <2>3, LoggingTyped DEF LogTypes
  <2>5. LogsIn(logged)'
    BY <2>1, <2>2, <2>4 DEF LogsIn
  <2>. QED  BY <2>1, <2>4, <2>5 DEF LogTypes
<1>3. ASSUME ~(\E e \in LogEntries : Logs!Log(e) \/ Logs!Write(e)), Logs!Next PROVE LogTypes'
  <2>1. logged' = logged
    BY <1>3 DEF Logs!Next, Logs!Forward, Logs!ForwardPublish, Logs!ForwarderEnds, Logs!StoreTakes,
                Logs!StoreTick, Logs!StoreClose, Logs!Subscribe, Logs!ReadLogs, Logs!LoadLogs,
                Logs!Receive, Logs!TogglePause, Logs!ClearLogs
  <2>2. PICK T : T = logged
    OBVIOUS
  <2>3. LogsIn(T) /\ LogSizes
    BY <2>2 DEF LogTypes
  <2>4. LogsIn(T)' /\ LogSizes'
    BY <1>3, <2>3, ForwarderTyped, StoreTyped, ViewTyped DEF Logs!Next
  <2>5. LogsIn(logged)'
    BY <2>1, <2>2, <2>4 DEF LogsIn
  <2>. QED  BY <2>1, <2>4, <2>5 DEF LogTypes
<1>. QED  BY <1>1, <1>2, <1>3 DEF Logs!Next

LEMMA LogTypesUse == LogTypes => Logs!LogTypeOK
BY SetOfSeq DEF LogTypes, LogsIn, LogSizes, Logs!LogTypeOK, Logs!NoEntry

\* Audit, files, servers and messages.
AuditSizes == /\ unexpired \subseteq Audited /\ auditFaults \in 0 .. MaxAuditFaults
              /\ expiry \in [Trail!AuditKeys -> 0 .. (MaxDay + RetentionDays) \cup {Trail!Never}]
AuditTypes == AuditInv /\ AuditSizes

LEMMA AuditTypesStep == AuditTypes /\ [Trail!AuditNext]_auditPart => AuditTypes'
<1> SUFFICES ASSUME AuditTypes, [Trail!AuditNext]_auditPart PROVE AuditSizes'
  BY AuditStep DEF AuditTypes
<1>1. CASE UNCHANGED auditPart
  BY <1>1 DEF auditPart, AuditTypes, AuditSizes
<1>2. ASSUME NEW e \in Audited, Trail!BeginRequest(e) \/ Trail!Crash(e) PROVE AuditSizes'
  <2>1. /\ UNCHANGED expiry /\ unexpired' \subseteq unexpired \cup {e}
        /\ auditFaults' = auditFaults
             \/ (auditFaults < MaxAuditFaults /\ auditFaults' = auditFaults + 1)
    BY <1>2 DEF Trail!BeginRequest, Trail!Crash
  <2>2. auditFaults' \in 0 .. MaxAuditFaults
    BY <2>1, CounterTyped, AuditBounds DEF AuditTypes, AuditSizes
  <2>. QED  BY <2>1, <2>2 DEF AuditTypes, AuditSizes
<1>3. ASSUME NEW e \in Audited, NEW k \in Trail!KeyKinds,
             Trail!ZAdd(e, k) \/ Trail!ZAddFails(e, k) \/ Trail!ExpireFails(e, k)
      PROVE  AuditSizes'
  BY <1>3, AuditBounds DEF Trail!ZAdd, Trail!ZAddFails, Trail!ExpireFails, AuditTypes, AuditSizes
<1>4. ASSUME NEW e \in Audited, NEW k \in Trail!KeyKinds, Trail!Expire(e, k) PROVE AuditSizes'
  <2>1. /\ UNCHANGED <<unexpired, auditFaults>>
        /\ \/ expiry' = expiry
           \/ expiry' = [expiry EXCEPT ![<<k, day[e]>>] = today + RetentionDays]
    BY <1>4 DEF Trail!Expire, Trail!NewExpiry
  <2>2. today + RetentionDays \in 0 .. (MaxDay + RetentionDays)
    BY AuditBounds DEF AuditTypes, AuditInv, AuditShapes, Trail!Days
  <2>. QED  BY <2>1, <2>2 DEF AuditTypes, AuditSizes
<1>5. CASE Trail!NextDay
  <2>1. /\ UNCHANGED <<unexpired, auditFaults>>
        /\ expiry' = [k \in Trail!AuditKeys |->
                        IF k \in {j \in Trail!AuditKeys : expiry[j] <= today'} THEN Trail!Never
                        ELSE expiry[k]]
    BY <1>5 DEF Trail!NextDay
  <2>. QED  BY <2>1 DEF AuditTypes, AuditSizes
<1>. QED  BY <1>1, <1>2, <1>3, <1>4, <1>5 DEF Trail!AuditNext

LEMMA AuditTypesInitially == Trail!AuditInit => AuditTypes
<1> SUFFICES ASSUME Trail!AuditInit PROVE AuditSizes
  BY AuditInitially DEF AuditTypes
<1>. QED  BY AuditBounds DEF Trail!AuditInit, AuditSizes

LEMMA AuditTypesUse == AuditTypes => Trail!AuditTypeOK
<1>1. /\ Trail!Adds["log"] = "add log" /\ Trail!Adds["user"] = "add user"
      /\ Trail!Adds["action"] = "add action"
  BY DEF Trail!Adds
<1>2. /\ Trail!Expires["log"] = "expire log" /\ Trail!Expires["user"] = "expire user"
      /\ Trail!Expires["action"] = "expire action"
  BY DEF Trail!Expires
<1>3. Stages \subseteq {"idle", "done", "failed"} \cup {Trail!Adds[k] : k \in Trail!KeyKinds}
                         \cup {Trail!Expires[k] : k \in Trail!KeyKinds}
  BY <1>1, <1>2 DEF Stages, Trail!KeyKinds
<1>. QED  BY <1>3 DEF AuditTypes, AuditInv, AuditShapes, AuditSizes, Trail!AuditTypeOK

FileSizes ==
  /\ there \subseteq Logs!Dates /\ toCheck \subseteq Logs!Dates
  /\ link \in Logs!Dates \cup {Logs!None} /\ line \in Lines \cup {Logs!NoLine}
  /\ writer \in {"none", "rotate", "link", "write"}
  /\ isOpen \in BOOLEAN /\ closed \in BOOLEAN /\ linkFailed \in BOOLEAN
  /\ began \in 0 .. MaxHalf /\ cutoffHalf \in 0 .. MaxHalf /\ cleaned \in 0 .. MaxHalf
  /\ wroteOn \in [Lines -> Logs!Dates \cup {Logs!None}]
  /\ fileFaults \in 0 .. MaxFileFaults
FileTypes == FilesInv /\ FileSizes

LEMMA FileTypesStep == FileTypes /\ [Logs!RotatorNext]_filePart => FileTypes'
<1> SUFFICES ASSUME FileTypes, [Logs!RotatorNext]_filePart PROVE FileSizes'
  BY FilesStep DEF FileTypes
<1>0. half \in 0 .. MaxHalf /\ half \div 2 \in Logs!Dates /\ fileOf \in Logs!Dates
  BY DatesAre DEF FileTypes, FilesInv, FileShapes
<1>1. CASE UNCHANGED filePart
  BY <1>1 DEF filePart, FileTypes, FileSizes
<1>2. CASE Logs!Rotate
  BY <1>0, <1>2 DEF Logs!Rotate, Logs!cleaning, Logs!Date, FileTypes, FileSizes
<1>3. CASE Logs!RotateFails
  <2>1. /\ UNCHANGED <<there, toCheck, link, closed, linkFailed, began, cutoffHalf, cleaned,
                       wroteOn>>
        /\ writer' = "none" /\ line' = Logs!NoLine /\ isOpen' = FALSE
        /\ fileFaults < MaxFileFaults /\ fileFaults' = fileFaults + 1
    BY <1>3 DEF Logs!RotateFails, Logs!cleaning, Logs!dir
  <2>2. fileFaults' \in 0 .. MaxFileFaults
    BY <2>1, CounterTyped, FileBounds DEF FileTypes, FileSizes
  <2>. QED  BY <2>1, <2>2 DEF FileTypes, FileSizes
<1>4. CASE Logs!WriteLine
  <2>1. began \div 2 \in Logs!Dates
    BY DatesAre DEF FileTypes, FileSizes
  <2>2. /\ UNCHANGED <<there, toCheck, link, isOpen, closed, linkFailed, began, cutoffHalf, cleaned,
                       fileFaults>>
        /\ writer' = "none" /\ line' = Logs!NoLine
        /\ wroteOn' = [wroteOn EXCEPT ![line] = began \div 2] \/ wroteOn' = wroteOn
    BY <1>4 DEF Logs!WriteLine, Logs!cleaning, Logs!fileVars
  <2>. QED  BY <2>1, <2>2 DEF FileTypes, FileSizes
<1>5. CASE Logs!Close
  BY <1>5 DEF Logs!Close, Logs!cleaning, Logs!dir, Logs!writing, FileTypes, FileSizes
<1>6. CASE Logs!StartCleanup
  BY <1>0, <1>6 DEF Logs!StartCleanup, Logs!dir, Logs!fileVars, Logs!writing, FileTypes, FileSizes
<1>7. CASE Logs!HalfDayPasses
  BY <1>7 DEF Logs!HalfDayPasses, Logs!dir, Logs!fileVars, Logs!writing, Logs!cleaning, FileTypes,
              FileSizes
<1>8. ASSUME NEW l \in Lines, Logs!RotatorWrite(l) PROVE FileSizes'
  BY <1>0, <1>8 DEF Logs!RotatorWrite, Logs!dir, Logs!fileVars, Logs!cleaning, FileTypes, FileSizes
<1>9. ASSUME NEW ok \in BOOLEAN, Logs!Symlink(ok) PROVE FileSizes'
  <2>1. /\ UNCHANGED <<there, toCheck, isOpen, closed, began, cutoffHalf, cleaned, wroteOn, line>>
        /\ writer' = "write" /\ link' \in {fileOf, Logs!None} /\ linkFailed' \in BOOLEAN
        /\ fileFaults' = fileFaults \/ (fileFaults < MaxFileFaults /\ fileFaults' = fileFaults + 1)
    BY <1>9 DEF Logs!Symlink, Logs!dir, Logs!fileVars, Logs!cleaning
  <2>2. fileFaults' \in 0 .. MaxFileFaults
    BY <2>1, FileBounds DEF FileTypes, FileSizes
  <2>. QED  BY <1>0, <2>1, <2>2 DEF FileTypes, FileSizes
<1>10. ASSUME NEW d \in Logs!Dates, Logs!CheckFile(d) PROVE FileSizes'
  <2>1. /\ UNCHANGED <<link, line, writer, isOpen, closed, linkFailed, began, cutoffHalf, cleaned,
                       wroteOn, fileFaults>>
        /\ there' \subseteq there /\ toCheck' \subseteq toCheck
    BY <1>10 DEF Logs!CheckFile, Logs!fileVars, Logs!writing
  <2>. QED  BY <2>1 DEF FileTypes, FileSizes
<1>. QED  BY <1>1, <1>2, <1>3, <1>4, <1>5, <1>6, <1>7, <1>8, <1>9, <1>10 DEF Logs!RotatorNext

LEMMA FileTypesInitially == Logs!RotatorInit => FileTypes
<1> SUFFICES ASSUME Logs!RotatorInit PROVE FileSizes
  BY FilesInitially DEF FileTypes
<1>1. 0 \div 2 \in Logs!Dates /\ 0 \div 2 = 0 /\ 0 \in 0 .. MaxHalf /\ 0 \in 0 .. MaxFileFaults
  BY DatesAre, FileBounds
<1>. QED  BY <1>1 DEF Logs!RotatorInit, FileSizes

LEMMA FileTypesUse == FileTypes => Logs!RotatorTypeOK
BY DEF FileTypes, FilesInv, FileShapes, FileSizes, Logs!RotatorTypeOK

ServerSizes == timeLeft \in 0 .. ShutdownTime /\ failedStop \in BOOLEAN
ServerTypes == ServersInv /\ ServerSizes

LEMMA ServerTypesStep == ServerTypes /\ [Server!Next]_serverPart => ServerTypes'
<1> SUFFICES ASSUME ServerTypes, [Server!Next]_serverPart PROVE ServerSizes'
  BY ServersStep DEF ServerTypes
<1>1. UNCHANGED timeLeft \/ (timeLeft > 0 /\ timeLeft' = timeLeft - 1)
  BY DEF Server!Next, Server!Start, Server!Wait, Server!Signal, Server!CloseListener,
         Server!ShutdownReturns, Server!DeadlinePasses, Server!Exit, Server!Tick, Server!Listen,
         Server!ListenFails, Server!Accept, Server!Answer, serverPart
<1>2. UNCHANGED failedStop \/ failedStop' = TRUE
  BY DEF Server!Next, Server!Start, Server!Wait, Server!Signal, Server!CloseListener,
         Server!ShutdownReturns, Server!DeadlinePasses, Server!Exit, Server!Tick, Server!Listen,
         Server!ListenFails, Server!Accept, Server!Answer, serverPart
<1>3. timeLeft' \in 0 .. ShutdownTime
  BY <1>1, ServerBounds DEF ServerTypes, ServerSizes
<1>. QED  BY <1>2, <1>3 DEF ServerTypes, ServerSizes

LEMMA ServerTypesInitially == Server!ServersInit => ServerTypes
<1> SUFFICES ASSUME Server!ServersInit PROVE ServerSizes
  BY ServersInitially DEF ServerTypes
<1>1. timeLeft = ShutdownTime /\ failedStop = FALSE
  BY DEF Server!ServersInit
<1>2. ShutdownTime \in 0 .. ShutdownTime
  BY ServerBounds
<1>. QED  BY <1>1, <1>2 DEF ServerSizes

LEMMA ServerTypesUse == ServerTypes => Server!ServersTypeOK
BY DEF ServerTypes, ServersInv, ServerShapes, ServerSizes, Server!ServersTypeOK

MqSizes ==
  /\ rqConn \in Mq!Conns \ {0} /\ connUp \in BOOLEAN /\ isConnected \in BOOLEAN
  /\ watch \in {"started", "watching", "clearing", "dialing", "ended"}
  /\ channels \in [Mq!Callers -> Mq!Conns] /\ shut \subseteq Mq!Callers
  /\ seen \in [Mq!Callers -> Mq!Conns]
  /\ buffer \subseteq Bodies /\ taken \subseteq Bodies /\ did \subseteq Bodies
  /\ loopConn \in Mq!Conns /\ left \in Mq!Conns /\ mqFaults \in 0 .. MaxMqFaults
MqTypes == MqInv /\ MqSizes

LEMMA MqConnectionsTyped ==
  ASSUME MqTypes, Mq!LosesConnection \/ Mq!HandleReconnect \/ Mq!Close
  PROVE  MqSizes'
<1>. USE DEF MqTypes, MqSizes
<1>1. CASE Mq!LosesConnection
  <2>1. /\ UNCHANGED <<rqConn, isConnected, watch, channels, shut, calling, seen, buffer, taken,
                       loop, loopConn, left, did>>
        /\ connUp' = FALSE /\ mqFaults < MaxMqFaults /\ mqFaults' = mqFaults + 1
    BY <1>1 DEF Mq!LosesConnection, Mq!Faulty, Mq!Disconnected, Mq!kept, Mq!consuming
  <2>2. mqFaults' \in 0 .. MaxMqFaults
    BY <2>1, CounterTyped, MqBounds
  <2>. QED  BY <2>1, <2>2
<1>2. CASE Mq!HandleReconnect
  <2>1. UNCHANGED <<calling, seen, place, buffer, taken, loop, loopConn, left, did, mqFaults>>
    BY <1>2 DEF Mq!HandleReconnect, Mq!consuming
  <2>2. /\ rqConn' \in Mq!Conns \ {0} /\ connUp' \in BOOLEAN /\ isConnected' \in BOOLEAN
        /\ watch' \in {"started", "watching", "clearing", "dialing", "ended"}
    <3>1. CASE Mq!NotifyClose \/ Mq!SeesClose
      BY <3>1 DEF Mq!NotifyClose, Mq!SeesClose
    <3>2. CASE Mq!Redial
      <4>1. rqConn < MaxDials /\ rqConn' = rqConn + 1 /\ connUp' = TRUE /\ isConnected' = TRUE
            /\ watch' = "started"
        BY <3>2 DEF Mq!Redial
      <4>2. rqConn' \in Mq!Conns \ {0}
        BY <4>1, MqBounds DEF Mq!Conns
      <4>. QED  BY <4>1, <4>2
    <3>3. CASE watch' = "dialing" /\ UNCHANGED <<rqConn, connUp, isConnected>>
      BY <3>3
    <3>. QED  BY <1>2, <3>1, <3>2, <3>3 DEF Mq!HandleReconnect
  <2>3. channels' \in [Mq!Callers -> Mq!Conns] /\ shut' \subseteq Mq!Callers
    BY <1>2, MqBounds DEF Mq!HandleReconnect, Mq!ClearChannels, Mq!Conns
  <2>. QED  BY <2>1, <2>2, <2>3
<1>3. CASE Mq!Close
  <2>1. UNCHANGED <<rqConn, calling, seen, buffer, taken, loop, loopConn, left, did, mqFaults>>
    BY <1>3 DEF Mq!Close, Mq!consuming
  <2>2. /\ connUp' \in BOOLEAN /\ isConnected' \in BOOLEAN
        /\ watch' \in {"started", "watching", "clearing", "dialing", "ended"}
    BY <1>3 DEF Mq!Close, Mq!Disconnected
  <2>3. channels' \in [Mq!Callers -> Mq!Conns] /\ shut' \subseteq Mq!Callers
    BY <1>3, MqBounds DEF Mq!Close, Mq!ClearChannels, Mq!Conns
  <2>. QED  BY <2>1, <2>2, <2>3
<1>. QED  BY <1>1, <1>2, <1>3

LEMMA MqCallsTyped ==
  ASSUME MqTypes,
         \/ Mq!Declare
         \/ Mq!Consume
         \/ \E c \in Mq!Callers : Mq!GetChannel(c)
         \/ \E b \in Bodies : Mq!Publish(b)
  PROVE  MqSizes'
<1>. USE DEF MqTypes, MqSizes
<1>1. CASE Mq!Declare
  <2>1. UNCHANGED <<rqConn, connUp, isConnected, watch, channels, seen, buffer, taken, loopConn,
                    left, did>>
    BY <1>1 DEF Mq!Declare, Mq!client, Mq!consuming
  <2>2. shut' \subseteq Mq!Callers
    BY <1>1 DEF Mq!Declare, Mq!Callers
  <2>3. mqFaults' \in 0 .. MaxMqFaults
    BY <1>1, MqBounds DEF Mq!Declare, Mq!Faulty
  <2>. QED  BY <2>1, <2>2, <2>3
<1>2. CASE Mq!Consume
  <2>1. UNCHANGED <<rqConn, connUp, isConnected, watch, channels, shut, seen, taken, left, did,
                    mqFaults>>
    BY <1>2 DEF Mq!Consume, Mq!client
  <2>2. loopConn' \in {loopConn, seen["consumer"]} /\ buffer' \subseteq buffer
    BY <1>2 DEF Mq!Consume
  <2>3. seen["consumer"] \in Mq!Conns
    BY DEF Mq!Callers
  <2>. QED  BY <2>1, <2>2, <2>3
<1>3. ASSUME NEW c \in Mq!Callers, Mq!GetChannel(c) PROVE MqSizes'
  <2>1. UNCHANGED <<rqConn, connUp, isConnected, watch, buffer, taken, loopConn, left, did,
                    mqFaults>>
    BY <1>3 DEF Mq!GetChannel, Mq!client, Mq!consuming
  <2>2. shut' \subseteq shut
    BY <1>3 DEF Mq!GetChannel
  <2>3. seen' \in [Mq!Callers -> Mq!Conns] /\ channels' \in [Mq!Callers -> Mq!Conns]
    BY <1>3 DEF Mq!GetChannel
  <2>. QED  BY <2>1, <2>2, <2>3
<1>4. ASSUME NEW b \in Bodies, Mq!Publish(b) PROVE MqSizes'
  BY <1>4 DEF Mq!Publish, Mq!client, Mq!consuming
<1>. QED  BY <1>1, <1>2, <1>3, <1>4

LEMMA MqDeliveriesTyped ==
  ASSUME MqTypes,
         \/ Mq!Handler
         \/ Mq!Answer
         \/ Mq!LoopEnds
         \/ \E b \in Bodies : Mq!Arrives(b) \/ Mq!Deliver(b) \/ Mq!TakeDelivery(b)
  PROVE  MqSizes'
<1>. USE DEF MqTypes, MqSizes
<1>1. CASE Mq!Handler
  BY <1>1 DEF Mq!Handler, Mq!client, Mq!kept
<1>2. CASE Mq!Answer
  BY <1>2 DEF Mq!Answer, Mq!client, Mq!kept
<1>3. CASE Mq!LoopEnds
  BY <1>3 DEF Mq!LoopEnds, Mq!client, Mq!kept
<1>4. ASSUME NEW b \in Bodies, Mq!Arrives(b) PROVE MqSizes'
  BY <1>4 DEF Mq!Arrives, Mq!client, Mq!kept, Mq!consuming
<1>5. ASSUME NEW b \in Bodies, Mq!Deliver(b) PROVE MqSizes'
  BY <1>5 DEF Mq!Deliver, Mq!client, Mq!kept
<1>6. ASSUME NEW b \in Bodies, Mq!TakeDelivery(b) PROVE MqSizes'
  BY <1>6 DEF Mq!TakeDelivery, Mq!client, Mq!kept
<1>. QED  BY <1>1, <1>2, <1>3, <1>4, <1>5, <1>6

LEMMA MqTypesStep == MqTypes /\ [Mq!Next]_mqPart => MqTypes'
<1> SUFFICES ASSUME MqTypes, [Mq!Next]_mqPart PROVE MqSizes'
  BY MqStep DEF MqTypes
<1>1. CASE UNCHANGED mqPart
  BY <1>1 DEF mqPart, MqTypes, MqSizes
<1>. QED  BY <1>1, MqConnectionsTyped, MqCallsTyped, MqDeliveriesTyped DEF Mq!Next

LEMMA MqTypesInitially == Mq!Init => MqTypes
<1> SUFFICES ASSUME Mq!Init PROVE MqSizes
  BY MqInitially DEF MqTypes
<1>1. 0 \in Mq!Conns /\ 1 \in Mq!Conns \ {0} /\ 0 \in 0 .. MaxMqFaults
  BY MqBounds DEF Mq!Conns
<1>. QED  BY <1>1 DEF Mq!Init, MqSizes

LEMMA MqTypesUse == MqTypes => Mq!MqTypeOK
BY DEF MqTypes, MqInv, MqShapes, MqSizes, Mq!MqTypeOK, Places, CallSteps

\* The walk through a table.
NoTwice(s) == \A i, j \in DOMAIN s : s[i] = s[j] => i = j
TableTyped == table \in Seq(TableRows) /\ NoTwice(table)
PageSizes == /\ TableTyped /\ original \subseteq TableRows /\ rowsSeen \subseteq TableRows
             /\ total \in 0 .. Cardinality(TableRows) /\ changes \in 0 .. MaxTableChanges
PageTypes == PageShapes /\ PageSizes

LEMMA PageTypesUse == PageTypes => Pages!PagesTypeOK
<1>1. Pages!Cardinality(TableRows) = Cardinality(TableRows)
  BY DEF Pages!Cardinality, Cardinality
<1>. QED  BY <1>1 DEF PageTypes, PageShapes, PageSizes, TableTyped, Pages!PagesTypeOK

\* A table without twins is not longer than the rows there may be.
LEMMA TableFits ==
  ASSUME NEW S, IsFiniteSet(S), NEW s \in Seq(S), NoTwice(s)
  PROVE  Len(s) \in 0 .. Cardinality(S)
<1>1. Len(s) \in Nat /\ DOMAIN s = 1 .. Len(s) /\ s \in [1 .. Len(s) -> S]
  OBVIOUS
<1>2. s \in Injection(1 .. Len(s), S)
  BY <1>1 DEF NoTwice, Injection, IsInjective
<1>3. Cardinality(1 .. Len(s)) <= Cardinality(S)
  BY <1>2, FS_Injection
<1>4. Cardinality(1 .. Len(s)) = Len(s) /\ Cardinality(S) \in Nat
  <2>1. Cardinality(1 .. Len(s)) = IF 1 > Len(s) THEN 0 ELSE Len(s) - 1 + 1
    BY <1>1, FS_Interval
  <2>2. Cardinality(S) \in Nat
    BY FS_CardinalityType
  <2>. QED  BY <1>1, <2>1, <2>2
<1>. QED  BY <1>1, <1>3, <1>4

LEMMA ListingInjective ==
  ASSUME NEW S, IsFiniteSet(S)
  PROVE  NoTwice(Pages!Listing(S))
<1> DEFINE n == Cardinality(S)
<1>1. Pages!Listing(S) = CHOOSE f \in [1 .. n -> S] : Pages!IsInjective(f)
  BY DEF Pages!Listing, Pages!Cardinality, Cardinality
<1>2. n \in Nat /\ ExistsBijection(1 .. n, S)
  BY FS_CardinalityType
<1>3. PICK g \in [1 .. n -> S] : \A a, b \in 1 .. n : g[a] = g[b] => a = b
  BY <1>2 DEF ExistsBijection, Bijection, Injection, IsInjective
<1>4. \E f \in [1 .. n -> S] : Pages!IsInjective(f)
  BY <1>3 DEF Pages!IsInjective
<1>. HIDE DEF n
<1>5. Pages!IsInjective(Pages!Listing(S))
  BY <1>1, <1>4
<1>. QED  BY <1>5 DEF Pages!IsInjective, NoTwice

LEMMA PageTypesInitially == Pages!PagesInit => PageTypes
<1> SUFFICES ASSUME Pages!PagesInit PROVE PageTypes
  OBVIOUS
<1>1. PICK S \in SUBSET TableRows : table = Pages!Listing(S)
  BY DEF Pages!PagesInit
<1>2. IsFiniteSet(S)
  BY FS_Subset, PageBounds
<1>3. TableTyped
  <2>1. table \in Seq(S) /\ NoTwice(table)
    BY <1>1, <1>2, ListingIs, ListingInjective
  <2>. QED  BY <2>1 DEF TableTyped
<1>4. original \subseteq TableRows /\ rowsSeen = {}
  BY <1>3 DEF Pages!PagesInit, Pages!Range, TableTyped
<1>5. total \in 0 .. Cardinality(TableRows) /\ changes \in 0 .. MaxTableChanges
  <2>1. total = 0 /\ changes = 0
    BY DEF Pages!PagesInit
  <2>2. Cardinality(TableRows) \in Nat /\ MaxTableChanges \in Nat
    BY PageBounds, FS_CardinalityType
  <2>. QED  BY <2>1, <2>2
<1>6. PageShapes
  BY PagesInitially DEF PagesInv
<1>. QED  BY <1>3, <1>4, <1>5, <1>6 DEF PageTypes, PageSizes

LEMMA InsertTyped ==
  ASSUME TableTyped, NEW r \in TableRows, Pages!Insert(r)
  PROVE  TableTyped'
<1>1. table' = <<r>> \o table /\ r \notin Pages!Range(table)
  BY DEF Pages!Insert
<1>2. table \in Seq(TableRows) /\ NoTwice(table)
  BY DEF TableTyped
<1> DEFINE u == <<r>>
<1>3. u \in Seq(TableRows) /\ Len(u) = 1 /\ u[1] = r
  OBVIOUS
<1>. HIDE DEF u
<1>4. /\ u \o table \in Seq(TableRows) /\ DOMAIN (u \o table) = 1 .. Len(table) + 1
      /\ DOMAIN table = 1 .. Len(table) /\ Len(table) \in Nat
      /\ (u \o table)[1] = r
  BY <1>2, <1>3, ConcatProperties
<1>5. ASSUME NEW i \in 2 .. Len(table) + 1
      PROVE  i - 1 \in DOMAIN table /\ (u \o table)[i] = table[i - 1]
  <2>1. /\ i \in 1 .. Len(u) + Len(table) /\ ~(i <= Len(u))
        /\ i - Len(u) = i - 1 /\ i - 1 \in DOMAIN table
    BY <1>3, <1>4
  <2>2. \A j \in 1 .. Len(u) + Len(table) :
          (u \o table)[j] = IF j <= Len(u) THEN u[j] ELSE table[j - Len(u)]
    BY <1>2, <1>3, ConcatProperties
  <2>. QED  BY <2>1, <2>2
<1> DEFINE v == u \o table
<1>6. \A i \in 2 .. Len(table) + 1 : i - 1 \in DOMAIN table /\ v[i] = table[i - 1]
  BY <1>5
<1>7. v \in Seq(TableRows) /\ DOMAIN v = 1 .. Len(table) + 1 /\ v[1] = r /\ Len(table) \in Nat
  BY <1>4
<1>8. v = table'
  BY <1>1 DEF u
<1>. HIDE DEF v
<1>9. ASSUME NEW i \in DOMAIN v, NEW j \in DOMAIN v, v[i] = v[j] PROVE i = j
  <2>1. \A k \in 2 .. Len(table) + 1 : v[k] # r
    BY <1>1, <1>6 DEF Pages!Range
  <2>2. CASE i = 1 \/ j = 1
    BY <1>7, <1>9, <2>1, <2>2
  <2>3. CASE i # 1 /\ j # 1
    <3>1. i \in 2 .. Len(table) + 1 /\ j \in 2 .. Len(table) + 1
      BY <1>7, <2>3
    <3>2. /\ i - 1 \in DOMAIN table /\ j - 1 \in DOMAIN table
          /\ table[i - 1] = table[j - 1]
      BY <1>6, <1>9, <3>1
    <3>3. i - 1 = j - 1
      BY <1>2, <3>2 DEF NoTwice
    <3>. QED  BY <3>1, <3>3
  <2>. QED  BY <2>2, <2>3
<1>. QED  BY <1>7, <1>8, <1>9 DEF TableTyped, NoTwice

LEMMA DeleteTyped ==
  ASSUME TableTyped, NEW i \in DOMAIN table, Pages!Delete(i)
  PROVE  TableTyped'
<1>1. table' = SubSeq(table, 1, i - 1) \o SubSeq(table, i + 1, Len(table))
  BY DEF Pages!Delete
<1>2. table' = Pools!Without(table, i)
  BY <1>1 DEF Pools!Without
<1>3. table \in Seq(TableRows) /\ NoTwice(table) /\ i \in 1 .. Len(table)
      /\ Len(table) \in Nat /\ DOMAIN table = 1 .. Len(table)
  BY DEF TableTyped
<1>4. /\ table' \in Seq(TableRows) /\ Len(table') = Len(table) - 1
      /\ \A k \in 1 .. Len(table) - 1 : table'[k] = IF k < i THEN table[k] ELSE table[k + 1]
  BY <1>1, <1>2, <1>3, Removed
<1>5. DOMAIN table' = 1 .. Len(table) - 1
  BY <1>4
<1>6. ASSUME NEW a \in DOMAIN table', NEW b \in DOMAIN table', table'[a] = table'[b] PROVE a = b
  <2> DEFINE old(k) == IF k < i THEN k ELSE k + 1
  <2>1. a \in 1 .. Len(table) - 1 /\ b \in 1 .. Len(table) - 1
    BY <1>5
  <2>2. old(a) \in DOMAIN table /\ old(b) \in DOMAIN table
    BY <1>3, <2>1
  <2>3. table'[a] = table[old(a)] /\ table'[b] = table[old(b)]
    BY <1>4, <2>1
  <2>4. old(a) = old(b)
    BY <1>3, <1>6, <2>2, <2>3 DEF NoTwice
  <2>. QED  BY <1>3, <2>1, <2>4
<1>. QED  BY <1>4, <1>6 DEF TableTyped, NoTwice

LEMMA PageTypesStep == PagesInv /\ PageTypes /\ [Pages!Next]_pagePart => PageTypes'
<1> SUFFICES ASSUME PagesInv, PageTypes, [Pages!Next]_pagePart PROVE PageTypes'
  OBVIOUS
<1>1. PageShapes'
  BY PagesStep DEF PagesInv
<1>2. CASE Pages!Select
  <2>1. UNCHANGED <<table, original, total, changes>>
    BY <1>2 DEF Pages!Select
  <2>2. rowsSeen' \subseteq TableRows
    BY <1>2 DEF Pages!Select, PageTypes, PageSizes, TableTyped
  <2>. QED  BY <1>1, <2>1, <2>2 DEF PageTypes, PageSizes, TableTyped
<1>3. CASE Pages!Count
  <2>1. UNCHANGED <<table, original, rowsSeen, changes>> /\ total' = Len(table)
    BY <1>3 DEF Pages!Count
  <2>2. total' \in 0 .. Cardinality(TableRows)
    BY <2>1, TableFits, PageBounds DEF PageTypes, PageSizes, TableTyped
  <2>. QED  BY <1>1, <2>1, <2>2 DEF PageTypes, PageSizes, TableTyped
<1>4. CASE Pages!Follow
  <2>1. UNCHANGED <<table, original, total, changes, rowsSeen>>
    BY <1>4 DEF Pages!Follow
  <2>. QED  BY <1>1, <2>1 DEF PageTypes, PageSizes, TableTyped
<1>5. ASSUME NEW r \in TableRows, Pages!Insert(r) PROVE PageTypes'
  <2>1. UNCHANGED <<original, total,
                    rowsSeen>> /\ changes < MaxTableChanges /\ changes' = changes + 1
    BY <1>5 DEF Pages!Insert
  <2>2. TableTyped'
    BY <1>5, InsertTyped DEF PageTypes, PageSizes
  <2>3. changes' \in 0 .. MaxTableChanges
    BY <2>1, PageBounds DEF PageTypes, PageSizes
  <2>. QED  BY <1>1, <2>1, <2>2, <2>3 DEF PageTypes, PageSizes
<1>6. ASSUME NEW i \in DOMAIN table, Pages!Delete(i) PROVE PageTypes'
  <2>1. UNCHANGED <<original, total,
                    rowsSeen>> /\ changes < MaxTableChanges /\ changes' = changes + 1
    BY <1>6 DEF Pages!Delete
  <2>2. TableTyped'
    BY <1>6, DeleteTyped DEF PageTypes, PageSizes
  <2>3. changes' \in 0 .. MaxTableChanges
    BY <2>1, PageBounds DEF PageTypes, PageSizes
  <2>. QED  BY <1>1, <2>1, <2>2, <2>3 DEF PageTypes, PageSizes
<1>7. CASE UNCHANGED pagePart
  <2>1. UNCHANGED <<table, original, total, changes, rowsSeen>>
    BY <1>7 DEF pagePart
  <2>. QED  BY <1>1, <2>1 DEF PageTypes, PageSizes, TableTyped
<1>. QED  BY <1>2, <1>3, <1>4, <1>5, <1>6, <1>7 DEF Pages!Next

\* The task screen.
\* ListTasks gives every document it is asked for a place.
LEMMA ListedIs ==
  ASSUME NEW S \in SUBSET Docs
  PROVE  Screen!Listed(S) \in Seq(S)
<1> DEFINE n == Cardinality(S)
           Below(d) == {e \in S : e < d}
           rank == [d \in S |-> Cardinality(Below(d))]
<1>1. IsFiniteSet(S) /\ S \subseteq Nat
  BY ScreenBounds, FS_Subset
<1>2. n \in Nat
  BY <1>1, FS_CardinalityType
<1>3. ASSUME NEW d \in S
      PROVE  /\ IsFiniteSet(Below(d)) /\ Cardinality(Below(d)) \in Nat
             /\ Cardinality(Below(d)) < n
  <2>1. Below(d) \subseteq S /\ Below(d) # S
    BY <1>1
  <2>2. /\ IsFiniteSet(Below(d)) /\ Cardinality(Below(d)) <= n
        /\ Cardinality(Below(d)) # n
    BY <1>1, <2>1, FS_Subset
  <2>3. Cardinality(Below(d)) \in Nat
    BY <2>2, FS_CardinalityType
  <2>. HIDE DEF n, Below
  <2>. QED  BY <1>2, <2>2, <2>3
<1>4. ASSUME NEW d \in S, NEW e \in S, d < e
      PROVE  Cardinality(Below(d)) < Cardinality(Below(e))
  <2>0. /\ d \in Nat /\ ~(d < d)
        /\ \A x \in S : x < d => x < e
    BY <1>1, <1>4
  <2>1. Below(d) \subseteq Below(e) /\ d \in Below(e) /\ d \notin Below(d)
    BY <1>4, <2>0
  <2>2. IsFiniteSet(Below(e)) /\ Cardinality(Below(e)) \in Nat /\ Cardinality(Below(d)) \in Nat
    BY <1>3
  <2>3. Cardinality(Below(d)) <= Cardinality(Below(e))
        /\ Cardinality(Below(d)) # Cardinality(Below(e))
    BY <2>1, <2>2, FS_Subset
  <2>. HIDE DEF Below
  <2>. QED  BY <2>2, <2>3
<1>. HIDE DEF n, Below
<1>5. rank \in [S -> 0 .. n - 1]
  BY <1>2, <1>3
<1>6. ASSUME NEW d \in S, NEW e \in S, rank[d] = rank[e] PROVE d = e
  <2>1. rank[d] = Cardinality(Below(d)) /\ rank[e] = Cardinality(Below(e))
    OBVIOUS
  <2>2. Cardinality(Below(d)) \in Nat
    BY <1>3
  <2>3. ~(d < e) /\ ~(e < d)
    BY <1>4, <1>6, <2>1, <2>2
  <2>. QED  BY <1>1, <2>3
<1>. HIDE DEF rank
<1>7. rank \in Injection(S, 0 .. n - 1)
  BY <1>5, <1>6 DEF Injection, IsInjective
<1>8. IsFiniteSet(0 .. n - 1) /\ Cardinality(0 .. n - 1) = n
  <2>1. n - 1 \in Int
    BY <1>2
  <2>2. /\ IsFiniteSet(0 .. n - 1)
        /\ Cardinality(0 .. n - 1) = IF 0 > n - 1 THEN 0 ELSE n - 1 - 0 + 1
    BY <2>1, FS_Interval
  <2>. QED  BY <1>2, <2>2
<1>9. rank \in Surjection(S, 0 .. n - 1)
  BY <1>7, <1>8, FS_Injection DEF n
<1> DEFINE at(i) == CHOOSE d \in S : Cardinality({e \in S : e < d}) = i - 1
<1>10. ASSUME NEW i \in 1 .. n PROVE at(i) \in S
  <2>1. i - 1 \in 0 .. n - 1
    BY <1>2
  <2>2. \E d \in S : rank[d] = i - 1
    BY <1>9, <2>1 DEF Surjection
  <2>3. \E d \in S : Cardinality({e \in S : e < d}) = i - 1
    BY <2>2 DEF rank, Below
  <2>. QED  BY <2>3
<1>11. Screen!Listed(S) = [i \in 1 .. n |-> at(i)]
  BY DEF Screen!Listed, Screen!Cardinality, Cardinality, n
<1>. HIDE DEF at
<1>12. [i \in 1 .. n |-> at(i)] \in [1 .. n -> S]
  BY <1>10
<1>. QED  BY <1>2, <1>11, <1>12

ScreenPages == {"list", "detail", "form"}
RefreshSteps == {"idle", "listed", "draw", "loaded", "show"}
DatabaseTyped == stored \subseteq Docs /\ isOn \in [Docs -> BOOLEAN] /\ ran \subseteq Docs
DetailsTyped == /\ page \in ScreenPages /\ {named, current, shown} \subseteq Docs \cup {0}
                /\ buttons \in BOOLEAN /\ currentOn \in BOOLEAN
ListsTyped == docList \in Seq(Docs) /\ rows \in Seq(Docs) /\ listedOn \in [Docs -> BOOLEAN]
\* A refresh of the details has the document it read.
RefreshesTyped == /\ refresh \in [Refreshes -> RefreshSteps] /\ found \in [Refreshes -> Seq(Docs)]
                  /\ \A r \in Refreshes : refresh[r] = "loaded" => found[r] # <<>>
MarksTyped == stray \subseteq Docs /\ late \subseteq Docs
ScreenCounts == keys \in 0 .. MaxKeys /\ screenFaults \in 0 .. MaxScreenFaults
ScreenTypes == /\ DatabaseTyped /\ DetailsTyped /\ ListsTyped /\ RefreshesTyped /\ MarksTyped
               /\ ScreenCounts

LEMMA ScreenTypesInitially == Screen!Init => ScreenTypes
<1> SUFFICES ASSUME Screen!Init PROVE ScreenTypes
  OBVIOUS
<1>1. ScreenCounts
  BY ScreenBounds DEF Screen!Init, ScreenCounts
<1>2. RefreshesTyped
  BY DEF Screen!Init, RefreshesTyped, RefreshSteps
<1>3. DatabaseTyped /\ DetailsTyped /\ MarksTyped
  BY DEF Screen!Init, DatabaseTyped, DetailsTyped, MarksTyped, ScreenPages, Screen!Nil
<1>4. ListsTyped
  BY DEF Screen!Init, ListsTyped
<1>. QED  BY <1>1, <1>2, <1>3, <1>4 DEF ScreenTypes

LEMMA ScreenTypesUse == ScreenTypes => Screen!ScreenTypeOK
BY DEF ScreenTypes, DatabaseTyped, DetailsTyped, ListsTyped, RefreshesTyped, MarksTyped,
       ScreenCounts, ScreenPages, RefreshSteps, Screen!ScreenTypeOK, Screen!Nil

\* The counters of the keys and of the commands that failed.
LEMMA KeyCounts ==
  ASSUME ScreenCounts, Screen!Pressed \/ UNCHANGED keys,
         \/ UNCHANGED screenFaults
         \/ screenFaults < MaxScreenFaults /\ screenFaults' = screenFaults + 1
  PROVE  ScreenCounts'
BY ScreenBounds DEF ScreenCounts, Screen!Pressed

LEMMA ShownTyped ==
  ASSUME NEW S \in SUBSET Docs, NEW on \in [Docs -> BOOLEAN], Screen!ListShown(S, on)
  PROVE  ListsTyped'
<1>1. Screen!Listed(S) \in Seq(Docs)
  <2>1. Screen!Listed(S) \in Seq(S)
    BY ListedIs
  <2>. QED  BY <2>1
<1>. QED  BY <1>1 DEF Screen!ListShown, ListsTyped

LEMMA SelectionKeeps ==
  ASSUME ScreenTypes, NEW d \in Docs \cup {0}, NEW on \in BOOLEAN,
         Screen!DeleteKey(d, on) \/ Screen!FormKey(d, on)
  PROVE  ScreenTypes'
<1>1. /\ UNCHANGED <<stored, isOn, ran, docList, rows, listedOn, refresh, found, stray, late,
                     shown, buttons, screenFaults>>
      /\ current' = d /\ currentOn' = on /\ Screen!Pressed
      /\ page' \in {page, "form"} /\ named' \in {0, d}
  BY DEF Screen!DeleteKey, Screen!FormKey, Screen!Shows, Screen!Nil, Screen!database,
         Screen!lists, Screen!goroutines, Screen!marks
<1>2. ScreenCounts'
  BY <1>1, KeyCounts DEF ScreenTypes
<1>3. DetailsTyped'
  BY <1>1 DEF ScreenTypes, DetailsTyped, ScreenPages
<1>4. DatabaseTyped' /\ ListsTyped' /\ RefreshesTyped' /\ MarksTyped'
  BY <1>1 DEF ScreenTypes, DatabaseTyped, ListsTyped, RefreshesTyped, MarksTyped
<1>. QED  BY <1>2, <1>3, <1>4 DEF ScreenTypes

LEMMA EnterTyped ==
  ASSUME ScreenTypes, NEW i \in DOMAIN rows, Screen!EnterKey(i)
  PROVE  ScreenTypes'
<1>1. docList[i] \in Docs /\ listedOn[docList[i]] \in BOOLEAN
  BY DEF Screen!EnterKey, Screen!OnList, ScreenTypes, ListsTyped
<1>2. /\ UNCHANGED <<stored, isOn, ran, docList, rows, listedOn, refresh, found, stray, late,
                     screenFaults>>
      /\ current' = docList[i] /\ currentOn' = listedOn[docList[i]] /\ shown' = docList[i]
      /\ Screen!Pressed /\ buttons' = TRUE /\ page' = "detail" /\ named' = 0
  BY DEF Screen!EnterKey, Screen!Shows, Screen!Nil, Screen!database, Screen!Pick,
         Screen!lists, Screen!goroutines, Screen!marks
<1>3. ScreenCounts'
  BY <1>2, KeyCounts DEF ScreenTypes
<1>4. DetailsTyped'
  BY <1>1, <1>2 DEF DetailsTyped, ScreenPages
<1>5. DatabaseTyped' /\ ListsTyped' /\ RefreshesTyped' /\ MarksTyped'
  BY <1>2 DEF ScreenTypes, DatabaseTyped, ListsTyped, RefreshesTyped, MarksTyped
<1>. QED  BY <1>3, <1>4, <1>5 DEF ScreenTypes

LEMMA ToggleTyped ==
  ASSUME ScreenTypes, NEW d \in Docs, NEW on \in BOOLEAN, NEW c, Screen!ToggleKey(d, on, c)
  PROVE  ScreenTypes'
<1>1. /\ UNCHANGED <<stored, ran, page, named, shown, buttons, refresh, found, late,
                     screenFaults>>
      /\ Screen!Pressed /\ current' = d /\ currentOn' = on
      /\ isOn' = IF d \in stored THEN [isOn EXCEPT ![d] = ~on] ELSE isOn
      /\ stray' = IF d = c THEN stray ELSE stray \cup {d}
      /\ Screen!ListShown(stored, isOn')
  BY DEF Screen!ToggleKey, Screen!Acts, Screen!goroutines
<1>2. DatabaseTyped' /\ isOn' \in [Docs -> BOOLEAN]
  BY <1>1 DEF ScreenTypes, DatabaseTyped
<1>3. ListsTyped'
  BY <1>1, <1>2, ShownTyped DEF ScreenTypes, DatabaseTyped
<1>4. DetailsTyped' /\ RefreshesTyped' /\ MarksTyped'
  BY <1>1 DEF ScreenTypes, DetailsTyped, RefreshesTyped, MarksTyped
<1>5. ScreenCounts'
  BY <1>1, KeyCounts DEF ScreenTypes
<1>. QED  BY <1>2, <1>3, <1>4, <1>5 DEF ScreenTypes

LEMMA ConfirmTyped ==
  ASSUME ScreenTypes, Screen!Confirm
  PROVE  ScreenTypes'
<1>1. /\ UNCHANGED <<isOn, ran, currentOn, shown, buttons, refresh, found, late>>
      /\ Screen!Pressed
      /\ \/ /\ current \in stored /\ stored' = stored \ {current}
            /\ stray' = IF current = named THEN stray ELSE stray \cup {current}
            /\ current' = 0 /\ page' = "list" /\ named' = 0 /\ Screen!ListShown(stored', isOn)
            /\ UNCHANGED screenFaults
         \/ /\ UNCHANGED <<stored, stray, current, page, docList, rows, listedOn>>
            /\ named' = 0
            /\ \/ screenFaults < MaxScreenFaults /\ screenFaults' = screenFaults + 1
               \/ screenFaults' = screenFaults
  BY DEF Screen!Confirm, Screen!Acts, Screen!Shows, Screen!Nil, Screen!goroutines, Screen!lists
<1>2. DatabaseTyped' /\ stored' \subseteq Docs /\ isOn \in [Docs -> BOOLEAN]
  BY <1>1 DEF ScreenTypes, DatabaseTyped
<1>3. ListsTyped'
  <2>1. \/ Screen!ListShown(stored', isOn)
        \/ UNCHANGED <<docList, rows, listedOn>>
    BY <1>1
  <2>. QED  BY <1>2, <2>1, ShownTyped DEF ScreenTypes, ListsTyped
<1>4. DetailsTyped'
  BY <1>1 DEF ScreenTypes, DetailsTyped, ScreenPages
<1>5. RefreshesTyped' /\ MarksTyped'
  BY <1>1 DEF ScreenTypes, DatabaseTyped, RefreshesTyped, MarksTyped
<1>6. ScreenCounts'
  <2>1. \/ UNCHANGED screenFaults
        \/ screenFaults < MaxScreenFaults /\ screenFaults' = screenFaults + 1
    BY <1>1
  <2>. QED  BY <1>1, <2>1, KeyCounts DEF ScreenTypes
<1>. QED  BY <1>2, <1>3, <1>4, <1>5, <1>6 DEF ScreenTypes

LEMMA RunTyped ==
  ASSUME ScreenTypes, Screen!RunKey
  PROVE  ScreenTypes'
<1>1. /\ UNCHANGED <<stored, isOn, page, named, docList, rows, listedOn, current, currentOn, shown,
                     refresh, found, late>>
      /\ Screen!Pressed /\ current # 0
      /\ ran' \in {ran, ran \cup {current}} /\ stray' \in {stray, stray \cup {current}}
      /\ buttons' \in {buttons, FALSE}
      /\ \/ UNCHANGED screenFaults
         \/ screenFaults < MaxScreenFaults /\ screenFaults' = screenFaults + 1
  BY DEF Screen!RunKey, Screen!OnDetail, Screen!Acts, Screen!Nil, Screen!goroutines, Screen!lists
<1>2. current \in Docs
  BY <1>1 DEF ScreenTypes, DetailsTyped
<1>3. DatabaseTyped' /\ MarksTyped'
  BY <1>1, <1>2 DEF ScreenTypes, DatabaseTyped, MarksTyped
<1>4. DetailsTyped' /\ ListsTyped' /\ RefreshesTyped'
  BY <1>1 DEF ScreenTypes, DetailsTyped, ListsTyped, RefreshesTyped
<1>5. ScreenCounts'
  BY <1>1, KeyCounts DEF ScreenTypes
<1>. QED  BY <1>3, <1>4, <1>5 DEF ScreenTypes

\* Keys that show another page or the list again.
LEMMA PagesTyped ==
  ASSUME ScreenTypes,
         Screen!Cancel \/ Screen!BackKey \/ Screen!RefreshKey \/ Screen!Quit
  PROVE  ScreenTypes'
<1>1. /\ UNCHANGED <<stored, isOn, ran, stray, late, screenFaults>> /\ Screen!Pressed
      /\ page' \in {page, "list"} /\ named' \in {named, 0}
  BY DEF Screen!Cancel, Screen!BackKey, Screen!RefreshKey, Screen!Quit, Screen!Shows,
         Screen!Nil, Screen!database, Screen!marks
<1>2. \/ UNCHANGED <<current, currentOn, shown, buttons, refresh, found>>
      \/ /\ current' = 0 /\ currentOn' = TRUE /\ shown' = 0 /\ buttons' = TRUE
         /\ refresh' = [r \in Refreshes |-> "idle"] /\ found' = [r \in Refreshes |-> <<>>]
  BY DEF Screen!Cancel, Screen!BackKey, Screen!RefreshKey, Screen!Quit, Screen!Nil,
         Screen!details, Screen!goroutines
<1>3. \/ UNCHANGED <<docList, rows, listedOn>>
      \/ Screen!ListShown(stored, isOn) \/ Screen!ListShown({}, isOn)
  BY DEF Screen!Cancel, Screen!BackKey, Screen!RefreshKey, Screen!Quit, Screen!lists
<1>4. DatabaseTyped' /\ MarksTyped' /\ DetailsTyped'
  BY <1>1, <1>2 DEF ScreenTypes, DatabaseTyped, MarksTyped, DetailsTyped, ScreenPages
<1>5. RefreshesTyped'
  <2>1. CASE UNCHANGED <<refresh, found>>
    BY <2>1 DEF ScreenTypes, RefreshesTyped
  <2>2. CASE refresh' = [r \in Refreshes |-> "idle"] /\ found' = [r \in Refreshes |-> <<>>]
    BY <2>2 DEF RefreshesTyped, RefreshSteps
  <2>. QED  BY <1>2, <2>1, <2>2
<1>6. ListsTyped'
  <2>1. {} \in SUBSET Docs /\ stored \in SUBSET Docs /\ isOn \in [Docs -> BOOLEAN]
    BY DEF ScreenTypes, DatabaseTyped
  <2>2. CASE UNCHANGED <<docList, rows, listedOn>>
    BY <2>2 DEF ScreenTypes, ListsTyped
  <2>. QED  BY <1>3, <2>1, <2>2, ShownTyped
<1>7. ScreenCounts'
  BY <1>1, KeyCounts DEF ScreenTypes
<1>. QED  BY <1>4, <1>5, <1>6, <1>7 DEF ScreenTypes

LEMMA RefreshReadsTyped ==
  ASSUME ScreenTypes, NEW r \in Refreshes, Screen!RefreshReads(r)
  PROVE  ScreenTypes'
<1>1. UNCHANGED <<stored, isOn, ran, page, named, docList, rows, listedOn, current, currentOn,
                  shown, buttons, stray, late, keys, screenFaults>>
  BY DEF Screen!RefreshReads, Screen!database, Screen!lists, Screen!details, Screen!marks
<1>2. Screen!Listed(stored) \in Seq(Docs)
  <2>1. Screen!Listed(stored) \in Seq(stored) /\ stored \subseteq Docs
    BY ListedIs DEF ScreenTypes, DatabaseTyped
  <2>. QED  BY <2>1
<1>3. PICK to \in {"listed", "loaded"}, s \in Seq(Docs) :
        /\ refresh' = [refresh EXCEPT ![r] = to] /\ found' = [found EXCEPT ![r] = s]
        /\ to = "loaded" => s # <<>>
  <2>1. CASE found' = [found EXCEPT ![r] = Screen!Listed(stored)] /\ Screen!Goes(r, "listed")
    BY <1>2, <2>1 DEF Screen!Goes
  <2>2. CASE /\ found' = [found EXCEPT ![r] = <<current>>] /\ Screen!Goes(r, "loaded")
             /\ current \in stored
    <3>1. <<current>> \in Seq(Docs) /\ <<current>> # <<>>
      BY <2>2 DEF ScreenTypes, DatabaseTyped
    <3>. QED  BY <2>2, <3>1 DEF Screen!Goes
  <2>. QED  BY <2>1, <2>2 DEF Screen!RefreshReads
<1>4. RefreshesTyped'
  BY <1>3 DEF ScreenTypes, RefreshesTyped, RefreshSteps
<1>5. DatabaseTyped' /\ DetailsTyped' /\ ListsTyped' /\ MarksTyped' /\ ScreenCounts'
  BY <1>1 DEF ScreenTypes, DatabaseTyped, DetailsTyped, ListsTyped, MarksTyped, ScreenCounts
<1>. QED  BY <1>4, <1>5 DEF ScreenTypes

\* The sets of the documents a refresh has put behind the user's back.
LEMMA LateTyped ==
  ASSUME NEW s \in Seq(Docs)
  PROVE  Screen!Range(s) \subseteq Docs
BY DEF Screen!Range

LEMMA RefreshWritesTyped ==
  ASSUME ScreenTypes, NEW r \in Refreshes, Screen!RefreshAssigns(r) \/ Screen!RefreshDraws(r)
  PROVE  ScreenTypes'
<1>1. UNCHANGED <<stored, isOn, ran, page, named, current, currentOn, shown, buttons, stray, keys,
                  screenFaults>>
  BY DEF Screen!RefreshAssigns, Screen!RefreshDraws, Screen!database, Screen!lists,
         Screen!details, Screen!marks
<1>2. /\ docList' \in {docList, found[r]} /\ rows' \in {rows, found[r]}
      /\ listedOn' \in {listedOn, isOn}
  BY DEF Screen!RefreshAssigns, Screen!RefreshDraws
<1>3. found[r] \in Seq(Docs) /\ docList \in Seq(Docs) /\ rows \in Seq(Docs)
  BY DEF ScreenTypes, RefreshesTyped, ListsTyped
<1>4. ListsTyped'
  BY <1>2, <1>3 DEF ScreenTypes, ListsTyped, DatabaseTyped
<1>5. MarksTyped'
  <2>1. late' \in {late, late \cup Screen!Range(found[r]), late \cup Screen!Range(docList)}
    BY DEF Screen!RefreshAssigns, Screen!RefreshDraws
  <2>. QED  BY <1>1, <1>3, <2>1, LateTyped DEF ScreenTypes, MarksTyped
<1>6. RefreshesTyped'
  <2>1. CASE Screen!RefreshAssigns(r)
    <3>1. refresh' = [refresh EXCEPT ![r] = "draw"] /\ UNCHANGED found
      BY <2>1 DEF Screen!RefreshAssigns, Screen!Goes
    <3>. QED  BY <3>1 DEF ScreenTypes, RefreshesTyped, RefreshSteps
  <2>2. CASE Screen!RefreshDraws(r)
    <3>1. refresh' = [refresh EXCEPT ![r] = "idle"] /\ found' = [found EXCEPT ![r] = <<>>]
      BY <2>2 DEF Screen!RefreshDraws, Screen!Goes
    <3>. QED  BY <3>1 DEF ScreenTypes, RefreshesTyped, RefreshSteps
  <2>. QED  BY <2>1, <2>2
<1>7. DatabaseTyped' /\ DetailsTyped' /\ ScreenCounts'
  BY <1>1 DEF ScreenTypes, DatabaseTyped, DetailsTyped, ScreenCounts
<1>. QED  BY <1>4, <1>5, <1>6, <1>7 DEF ScreenTypes

LEMMA RefreshReplacesTyped ==
  ASSUME ScreenTypes, NEW r \in Refreshes, Screen!RefreshReplaces(r)
  PROVE  ScreenTypes'
<1>1. UNCHANGED <<stored, isOn, ran, page, named, docList, rows, listedOn, shown, buttons, found,
                  stray, keys, screenFaults>>
  BY DEF Screen!RefreshReplaces, Screen!database, Screen!lists
<1>2. /\ refresh[r] = "loaded" /\ refresh' = [refresh EXCEPT ![r] = "show"]
      /\ current' = found[r][1] /\ currentOn' = isOn[found[r][1]]
      /\ late' \in {late, late \cup {found[r][1]}}
  BY DEF Screen!RefreshReplaces, Screen!Goes
<1>3. found[r][1] \in Docs
  <2>1. found[r] \in Seq(Docs) /\ found[r] # <<>>
    BY <1>2 DEF ScreenTypes, RefreshesTyped
  <2>. QED  BY <2>1
<1>4. RefreshesTyped'
  BY <1>1, <1>2 DEF ScreenTypes, RefreshesTyped, RefreshSteps
<1>5. DetailsTyped' /\ MarksTyped'
  BY <1>1, <1>2, <1>3 DEF ScreenTypes, DatabaseTyped, DetailsTyped, MarksTyped
<1>6. DatabaseTyped' /\ ListsTyped' /\ ScreenCounts'
  BY <1>1 DEF ScreenTypes, DatabaseTyped, ListsTyped, ScreenCounts
<1>. QED  BY <1>4, <1>5, <1>6 DEF ScreenTypes

LEMMA RefreshShowsTyped ==
  ASSUME ScreenTypes, NEW r \in Refreshes, Screen!RefreshShows(r)
  PROVE  ScreenTypes'
<1>1. UNCHANGED <<stored, isOn, ran, docList, rows, listedOn, current, currentOn, stray, late,
                  keys, screenFaults>>
  BY DEF Screen!RefreshShows, Screen!database, Screen!lists, Screen!marks
<1>2. refresh' = [refresh EXCEPT ![r] = "idle"] /\ found' = [found EXCEPT ![r] = <<>>]
  BY DEF Screen!RefreshShows, Screen!Goes
<1>3. /\ page' \in {page, "detail"} /\ named' \in {named, 0} /\ shown' \in {shown, current}
      /\ buttons' \in {buttons, TRUE}
  BY DEF Screen!RefreshShows, Screen!Shows, Screen!Nil
<1>4. RefreshesTyped'
  BY <1>2 DEF ScreenTypes, RefreshesTyped, RefreshSteps
<1>5. DetailsTyped'
  BY <1>1, <1>3 DEF ScreenTypes, DetailsTyped, ScreenPages
<1>6. DatabaseTyped' /\ ListsTyped' /\ MarksTyped' /\ ScreenCounts'
  BY <1>1 DEF ScreenTypes, DatabaseTyped, ListsTyped, MarksTyped, ScreenCounts
<1>. QED  BY <1>4, <1>5, <1>6 DEF ScreenTypes

LEMMA ScreenTypesStep == ScreenTypes /\ [Screen!Next]_screenPart => ScreenTypes'
<1> SUFFICES ASSUME ScreenTypes, [Screen!Next]_screenPart PROVE ScreenTypes'
  OBVIOUS
<1>1. ASSUME NEW i \in DOMAIN rows, Screen!OnList(i),
             \/ Screen!DeleteKey(Screen!Pick(i), listedOn[Screen!Pick(i)])
             \/ Screen!ToggleKey(Screen!Pick(i), listedOn[Screen!Pick(i)], rows[i])
             \/ Screen!FormKey(Screen!Pick(i), listedOn[Screen!Pick(i)])
      PROVE  ScreenTypes'
  <2>1. Screen!Pick(i) \in Docs /\ listedOn[Screen!Pick(i)] \in BOOLEAN
    BY <1>1 DEF Screen!OnList, Screen!Pick, ScreenTypes, ListsTyped
  <2>. QED  BY <1>1, <2>1, SelectionKeeps, ToggleTyped
<1>2. ASSUME Screen!OnDetail,
             \/ Screen!DeleteKey(current, currentOn)
             \/ Screen!ToggleKey(current, currentOn, shown)
             \/ Screen!FormKey(current, currentOn)
      PROVE  ScreenTypes'
  <2>1. current \in Docs /\ currentOn \in BOOLEAN
    BY <1>2 DEF Screen!OnDetail, Screen!Nil, ScreenTypes, DetailsTyped
  <2>. QED  BY <1>2, <2>1, SelectionKeeps, ToggleTyped
<1>3. CASE Screen!FormKey(Screen!Nil, TRUE)
  BY <1>3, SelectionKeeps DEF Screen!Nil
<1>4. CASE Screen!KeyPressed
  <2>1. \/ \E i \in DOMAIN rows : Screen!EnterKey(i)
        \/ \E i \in DOMAIN rows : Screen!OnList(i) /\
             (\/ Screen!DeleteKey(Screen!Pick(i), listedOn[Screen!Pick(i)])
              \/ Screen!ToggleKey(Screen!Pick(i), listedOn[Screen!Pick(i)], rows[i])
              \/ Screen!FormKey(Screen!Pick(i), listedOn[Screen!Pick(i)]))
        \/ Screen!OnDetail /\ (\/ Screen!DeleteKey(current, currentOn)
                               \/ Screen!ToggleKey(current, currentOn, shown)
                               \/ Screen!FormKey(current, currentOn))
        \/ Screen!FormKey(Screen!Nil, TRUE)
        \/ Screen!Confirm \/ Screen!Cancel \/ Screen!RunKey \/ Screen!BackKey
        \/ Screen!RefreshKey \/ Screen!Quit
    BY <1>4 DEF Screen!KeyPressed
  <2>. QED  BY <1>1, <1>2, <1>3, <2>1, EnterTyped, ConfirmTyped, RunTyped, PagesTyped
<1>5. ASSUME NEW r \in Refreshes, Screen!Refreshed(r) PROVE ScreenTypes'
  BY <1>5, RefreshReadsTyped, RefreshWritesTyped, RefreshReplacesTyped, RefreshShowsTyped
  DEF Screen!Refreshed
<1>6. CASE Screen!DeletedElsewhere
  <2>1. /\ UNCHANGED <<isOn, ran, page, named, docList, rows, listedOn, current, currentOn, shown,
                       buttons, refresh, found, stray, late, keys>>
        /\ screenFaults < MaxScreenFaults /\ screenFaults' = screenFaults + 1
        /\ stored' \subseteq stored
    BY <1>6 DEF Screen!DeletedElsewhere, Screen!lists, Screen!details, Screen!goroutines,
                Screen!marks
  <2>2. ScreenCounts'
    BY <2>1, KeyCounts DEF ScreenTypes
  <2>3. DatabaseTyped' /\ DetailsTyped' /\ ListsTyped' /\ RefreshesTyped' /\ MarksTyped'
    BY <2>1 DEF ScreenTypes, DatabaseTyped, DetailsTyped, ListsTyped, RefreshesTyped, MarksTyped
  <2>. QED  BY <2>2, <2>3 DEF ScreenTypes
<1>7. CASE UNCHANGED screenPart
  BY <1>7 DEF screenPart, ScreenTypes, DatabaseTyped, DetailsTyped, ListsTyped, RefreshesTyped,
              MarksTyped, ScreenCounts
<1>. QED  BY <1>4, <1>5, <1>6, <1>7 DEF Screen!Next

\* The batch of fetches.
FetchPlaces == {"new", "limiter", "cache", "breaker", "halfOpen", "throttle", "proxy", "sent",
                "update", "retry", "finish", "done"}
Answers == Fetch!Good \cup Fetch!Bad \cup {Fetch!Refused, "none"}
\* Requests that have been counted.
EndedRequests == {f \in Fetches : fetchAt[f] = "done"}
\* What a request is before its next attempt.
TriesLeft == \A f \in Fetches :
               fetchAt[f] \in {"new", "limiter", "cache", "breaker"} => tried[f] <= Retries
CircuitTyped == /\ breaker \in {"closed", "open", "halfOpen"}
                /\ failures \in 0 .. FailureThreshold /\ successes \in 0 .. SuccessThreshold
                /\ cooled \in BOOLEAN
RequestsTyped == /\ fetchAt \in [Fetches -> FetchPlaces] /\ tried \in [Fetches -> 0 .. Retries + 1]
                 /\ answer \in [Fetches -> Answers] /\ TriesLeft
StatsTyped == /\ stats \in [ok : Nat, failed : Nat]
              /\ stats.ok + stats.failed = Cardinality(EndedRequests)
FetchTypes == /\ RequestsTyped /\ CircuitTyped /\ StatsTyped
              /\ cancelled \in [Fetches -> BOOLEAN] /\ cache \in BOOLEAN
              /\ alive \subseteq Proxies /\ clientProxy \in Proxies \cup {Fetch!NoProxy}
              /\ cancels \in 0 .. MaxCancels

LEMMA FetchTypesInitially == Fetch!Init => FetchTypes
<1> SUFFICES ASSUME Fetch!Init PROVE FetchTypes
  OBVIOUS
<1>1. RequestsTyped /\ CircuitTyped
  BY FetchBounds
  DEF Fetch!Init, RequestsTyped, CircuitTyped, FetchPlaces, Answers, TriesLeft
<1>2. StatsTyped
  <2>1. EndedRequests = {}
    BY DEF Fetch!Init, EndedRequests
  <2>2. stats = [ok |-> 0, failed |-> 0]
    BY DEF Fetch!Init
  <2>3. Cardinality({}) = 0
    BY FS_EmptySet
  <2>4. stats \in [ok : Nat, failed : Nat] /\ stats.ok + stats.failed = 0
    BY <2>2
  <2>. QED  BY <2>1, <2>3, <2>4 DEF StatsTyped
<1>3. cancels \in 0 .. MaxCancels
  BY FetchBounds DEF Fetch!Init
<1>4. /\ cancelled \in [Fetches -> BOOLEAN] /\ cache \in BOOLEAN
      /\ alive \subseteq Proxies /\ clientProxy \in Proxies \cup {Fetch!NoProxy}
  BY DEF Fetch!Init
<1>. QED  BY <1>1, <1>2, <1>3, <1>4 DEF FetchTypes

\* The numbers of a batch count the requests that have ended.
LEMMA FetchTypesUse == FetchTypes => Fetch!FetchTypeOK
<1> SUFFICES ASSUME FetchTypes PROVE Fetch!FetchTypeOK
  OBVIOUS
<1>1. stats.ok + stats.failed \in 0 .. Fetch!Cardinality(Fetches)
  <2>1. /\ Cardinality(EndedRequests) <= Cardinality(Fetches) /\ Cardinality(Fetches) \in Nat
        /\ Cardinality(EndedRequests) \in Nat
    BY FetchBounds, FS_Subset, FS_CardinalityType DEF EndedRequests
  <2>2. Fetch!Cardinality(Fetches) = Cardinality(Fetches)
    BY DEF Fetch!Cardinality, Cardinality
  <2>. QED  BY <2>1, <2>2 DEF FetchTypes, StatsTyped
<1>. QED
  BY <1>1
  DEF FetchTypes, RequestsTyped, CircuitTyped, FetchPlaces, Answers, Fetch!FetchTypeOK

\* A request that goes on without ending leaves the numbers.
LEMMA NotCounted ==
  ASSUME FetchTypes, NEW f \in Fetches, NEW w \in FetchPlaces \ {"done"}, Fetch!To(f, w),
         fetchAt[f] # "done", UNCHANGED stats
  PROVE  StatsTyped'
<1>1. EndedRequests' = EndedRequests
  BY DEF FetchTypes, RequestsTyped, Fetch!To, EndedRequests
<1>. QED  BY <1>1 DEF FetchTypes, StatsTyped

LEMMA RequestMoves ==
  ASSUME FetchTypes, NEW f \in Fetches, NEW w \in FetchPlaces, Fetch!To(f, w),
         tried' = tried,
         w \in {"new", "limiter", "cache", "breaker"} => tried[f] <= Retries,
         UNCHANGED answer \/ \E a \in Answers : Fetch!Gets(f, a)
  PROVE  RequestsTyped'
<1>1. fetchAt' \in [Fetches -> FetchPlaces]
  BY DEF FetchTypes, RequestsTyped, Fetch!To
<1>2. answer' \in [Fetches -> Answers]
  BY DEF FetchTypes, RequestsTyped, Fetch!Gets
<1>3. TriesLeft'
  BY DEF FetchTypes, RequestsTyped, Fetch!To, TriesLeft
<1>. QED  BY <1>1, <1>2, <1>3 DEF FetchTypes, RequestsTyped

\* On its way in.
LEMMA WayInKeeps ==
  ASSUME FetchTypes, NEW f \in Fetches,
         \/ Fetch!TakeConnection(f) \/ Fetch!RateLimit(f) \/ Fetch!LookUp(f)
         \/ Fetch!Throttle(f)
  PROVE  FetchTypes'
<1>1. PICK w \in FetchPlaces \ {"done"} : Fetch!To(f, w) /\ fetchAt[f] # "done"
         /\ (w \in {"new", "limiter", "cache", "breaker"}
               => fetchAt[f] \in {"new", "limiter", "cache", "breaker"})
  BY DEF Fetch!TakeConnection, Fetch!RateLimit, Fetch!LookUp, Fetch!Throttle, FetchPlaces
<1>2. UNCHANGED answer \/ \E a \in Answers : Fetch!Gets(f, a)
  BY DEF Fetch!TakeConnection, Fetch!RateLimit, Fetch!LookUp, Fetch!Throttle, Answers,
         Fetch!Good, Fetch!Bad
<1>3. UNCHANGED <<tried, cancelled, cache, breaker, failures, successes, cooled, alive,
                  clientProxy, stats, cancels>>
  BY DEF Fetch!TakeConnection, Fetch!RateLimit, Fetch!LookUp, Fetch!Throttle,
         Fetch!circuit, Fetch!proxyPool
<1>4. RequestsTyped'
  BY <1>1, <1>2, <1>3, RequestMoves DEF FetchTypes, RequestsTyped, TriesLeft
<1>5. StatsTyped'
  BY <1>1, <1>3, NotCounted
<1>. QED  BY <1>3, <1>4, <1>5 DEF FetchTypes, CircuitTyped

LEMMA PassKeeps ==
  ASSUME FetchTypes, NEW f \in Fetches, Fetch!PassBreaker(f)
  PROVE  FetchTypes'
<1>1. PICK w \in {"retry", "halfOpen", "throttle"} : Fetch!To(f, w)
  BY DEF Fetch!PassBreaker
<1>2. fetchAt[f] = "breaker" /\ tried' = [tried EXCEPT ![f] = @ + 1]
  BY DEF Fetch!PassBreaker
<1>3. UNCHANGED answer \/ Fetch!Gets(f, Fetch!Refused)
  BY DEF Fetch!PassBreaker
<1>4. UNCHANGED <<cancelled, cache, breaker, failures, successes, cooled, alive,
                  clientProxy, stats, cancels>>
  BY DEF Fetch!PassBreaker, Fetch!circuit, Fetch!proxyPool
<1>5. fetchAt' \in [Fetches -> FetchPlaces] /\ answer' \in [Fetches -> Answers]
  BY <1>1, <1>3 DEF FetchTypes, RequestsTyped, Fetch!To, Fetch!Gets, FetchPlaces, Answers
<1>6. tried' \in [Fetches -> 0 .. Retries + 1]
  <2>1. tried[f] \in 0 .. Retries
    BY <1>2, FetchBounds DEF FetchTypes, RequestsTyped, TriesLeft
  <2>. QED  BY <1>2, <2>1, FetchBounds DEF FetchTypes, RequestsTyped
<1>7. TriesLeft'
  BY <1>1, <1>2 DEF FetchTypes, RequestsTyped, TriesLeft, Fetch!To
<1>8. StatsTyped'
  BY <1>1, <1>2, <1>4, NotCounted DEF FetchPlaces
<1>. QED  BY <1>4, <1>5, <1>6, <1>7, <1>8 DEF FetchTypes, RequestsTyped, CircuitTyped

\* Through the half-open state, the pool of proxies and the client.
LEMMA SendingKeeps ==
  ASSUME FetchTypes, NEW f \in Fetches,
         \/ Fetch!HalfOpen(f) \/ Fetch!SetProxy(f) \/ Fetch!Answered(f)
  PROVE  FetchTypes'
<1>1. PICK w \in {"throttle", "sent", "update"} : Fetch!To(f, w) /\ fetchAt[f] # "done"
  BY DEF Fetch!HalfOpen, Fetch!SetProxy, Fetch!Answered
<1>2. UNCHANGED answer \/ \E a \in Answers : Fetch!Gets(f, a)
  BY DEF Fetch!HalfOpen, Fetch!SetProxy, Fetch!Answered, Answers
<1>3. UNCHANGED <<tried, cancelled, cache, failures, cooled, alive, stats, cancels>>
  BY DEF Fetch!HalfOpen, Fetch!SetProxy, Fetch!Answered, Fetch!circuit, Fetch!proxyPool
<1>4. RequestsTyped'
  BY <1>1, <1>2, <1>3, RequestMoves DEF FetchPlaces
<1>5. StatsTyped'
  BY <1>1, <1>3, NotCounted DEF FetchPlaces
<1>6. CircuitTyped'
  <2>1. \/ UNCHANGED <<breaker, successes>>
        \/ breaker' = "halfOpen" /\ successes' = 0
    BY DEF Fetch!HalfOpen, Fetch!SetProxy, Fetch!Answered, Fetch!circuit
  <2>. QED  BY <1>3, <2>1, FetchBounds DEF FetchTypes, CircuitTyped
<1>7. clientProxy' \in Proxies \cup {Fetch!NoProxy}
  BY DEF Fetch!HalfOpen, Fetch!SetProxy, Fetch!Answered, Fetch!proxyPool, FetchTypes
<1>. QED  BY <1>3, <1>4, <1>5, <1>6, <1>7 DEF FetchTypes

\* On its way back.
LEMMA UpdateKeeps ==
  ASSUME FetchTypes, NEW f \in Fetches, Fetch!UpdateCircuit(f)
  PROVE  FetchTypes'
<1>1. Fetch!To(f, "retry") /\ fetchAt[f] # "done"
  BY DEF Fetch!UpdateCircuit
<1>2. UNCHANGED <<tried, answer, cancelled, cache, alive, clientProxy, stats, cancels>>
  BY DEF Fetch!UpdateCircuit, Fetch!proxyPool
<1>3. RequestsTyped' /\ StatsTyped'
  BY <1>1, <1>2, RequestMoves, NotCounted DEF FetchPlaces
<1>4. CircuitTyped'
  <2>1. failures \in 0 .. FailureThreshold /\ successes \in 0 .. SuccessThreshold
        /\ breaker \in {"closed", "open", "halfOpen"} /\ cooled \in BOOLEAN
    BY DEF FetchTypes, CircuitTyped
  <2>2. CASE answer[f] \in Fetch!Bad
    <3>1. /\ failures' = IF failures < FailureThreshold THEN failures + 1 ELSE failures
          /\ successes' = 0 /\ cooled' = FALSE
          /\ (breaker' = "open" \/ breaker' = breaker)
      BY <2>2 DEF Fetch!UpdateCircuit
    <3>2. failures' \in 0 .. FailureThreshold
      BY <2>1, <3>1, FetchBounds
    <3>3. successes' \in 0 .. SuccessThreshold
      BY <3>1, FetchBounds
    <3>4. breaker' \in {"closed", "open", "halfOpen"} /\ cooled' \in BOOLEAN
      BY <2>1, <3>1
    <3>. QED  BY <3>2, <3>3, <3>4 DEF CircuitTyped
  <2>3. CASE answer[f] \notin Fetch!Bad
    BY <2>1, <2>3, FetchBounds DEF Fetch!UpdateCircuit, CircuitTyped
  <2>. QED  BY <2>2, <2>3
<1>. QED  BY <1>2, <1>3, <1>4 DEF FetchTypes

LEMMA RetryKeeps ==
  ASSUME FetchTypes, NEW f \in Fetches, Fetch!Retry(f)
  PROVE  FetchTypes'
<1>1. PICK w \in {"finish", "breaker"} : Fetch!To(f, w) /\ (w = "breaker" => tried[f] <= Retries)
  BY DEF Fetch!Retry
<1>2. fetchAt[f] # "done" /\ (UNCHANGED answer \/ Fetch!Gets(f, "error"))
  BY DEF Fetch!Retry
<1>3. UNCHANGED <<tried, cancelled, cache, breaker, failures, successes, cooled, alive,
                  clientProxy, stats, cancels>>
  BY DEF Fetch!Retry, Fetch!circuit, Fetch!proxyPool
<1>4. UNCHANGED answer \/ \E a \in Answers : Fetch!Gets(f, a)
  BY <1>2 DEF Answers, Fetch!Bad
<1>5. w \in FetchPlaces \ {"done"}
  BY DEF FetchPlaces
<1>6. RequestsTyped' /\ StatsTyped'
  BY <1>1, <1>2, <1>3, <1>4, <1>5, RequestMoves, NotCounted
<1>. QED  BY <1>3, <1>6 DEF FetchTypes, CircuitTyped

LEMMA FinishKeeps ==
  ASSUME FetchTypes, NEW f \in Fetches, Fetch!Finish(f)
  PROVE  FetchTypes'
<1>1. Fetch!To(f, "done") /\ fetchAt[f] = "finish"
  BY DEF Fetch!Finish
<1>2. UNCHANGED <<tried, answer, cancelled, breaker, failures, successes, cooled, alive,
                  clientProxy, cancels>>
  BY DEF Fetch!Finish, Fetch!circuit, Fetch!proxyPool
<1>3. RequestsTyped'
  BY <1>1, <1>2, RequestMoves DEF FetchPlaces
<1>4. StatsTyped'
  <2>1. /\ EndedRequests' = EndedRequests \cup {f} /\ f \notin EndedRequests
    BY <1>1 DEF Fetch!To, EndedRequests, FetchTypes, RequestsTyped
  <2>2. IsFiniteSet(EndedRequests)
    BY FetchBounds, FS_Subset DEF EndedRequests
  <2>3. Cardinality(EndedRequests') = Cardinality(EndedRequests) + 1
    BY <2>1, <2>2, FS_AddElement
  <2>4. stats \in [ok : Nat, failed : Nat] /\ stats.ok + stats.failed = Cardinality(EndedRequests)
    BY DEF FetchTypes, StatsTyped
  <2>5. \/ stats' = [stats EXCEPT !.failed = @ + 1]
        \/ stats' = [stats EXCEPT !.ok = @ + 1]
    BY DEF Fetch!Finish
  <2>6. stats' \in [ok : Nat, failed : Nat]
        /\ stats'.ok + stats'.failed = stats.ok + stats.failed + 1
    BY <2>4, <2>5
  <2>. QED  BY <2>3, <2>4, <2>6 DEF StatsTyped
<1>5. cache' \in BOOLEAN
  BY DEF Fetch!Finish, FetchTypes
<1>. QED  BY <1>2, <1>3, <1>4, <1>5 DEF FetchTypes, CircuitTyped

LEMMA FetchTypesStep == FetchTypes /\ [Fetch!Next]_fetchPart => FetchTypes'
<1> SUFFICES ASSUME FetchTypes, [Fetch!Next]_fetchPart PROVE FetchTypes'
  OBVIOUS
<1>1. ASSUME NEW f \in Fetches, Fetch!Request(f) PROVE FetchTypes'
  BY <1>1, WayInKeeps, PassKeeps, SendingKeeps, UpdateKeeps, RetryKeeps, FinishKeeps
  DEF Fetch!Request
<1>2. ASSUME NEW f \in Fetches, Fetch!Cancelled(f) PROVE FetchTypes'
  <2>1. /\ cancels' = cancels + 1 /\ cancels < MaxCancels
        /\ cancelled' = [cancelled EXCEPT ![f] = TRUE]
    BY <1>2 DEF Fetch!Cancelled
  <2>2. UNCHANGED <<fetchAt, tried, answer, cache, breaker, failures, successes, cooled, alive,
                    clientProxy, stats>>
    BY <1>2 DEF Fetch!Cancelled, Fetch!circuit, Fetch!proxyPool
  <2>3. RequestsTyped' /\ CircuitTyped' /\ StatsTyped'
    BY <2>2 DEF FetchTypes, RequestsTyped, TriesLeft, CircuitTyped, StatsTyped, EndedRequests
  <2>4. cancels' \in 0 .. MaxCancels
    BY <2>1, FetchBounds DEF FetchTypes
  <2>5. cancelled' \in [Fetches -> BOOLEAN]
    BY <2>1 DEF FetchTypes
  <2>. QED  BY <2>2, <2>3, <2>4, <2>5 DEF FetchTypes
<1>3. CASE \/ \E p \in Proxies : Fetch!ProxyChecked(p)
           \/ Fetch!CacheExpires \/ Fetch!Cools
  <2>1. UNCHANGED <<fetchAt, tried, answer, cancelled, breaker, failures, successes,
                    clientProxy, stats, cancels>>
    BY <1>3 DEF Fetch!ProxyChecked, Fetch!CacheExpires, Fetch!Cools, Fetch!circuit,
                Fetch!proxyPool
  <2>2. alive' \subseteq Proxies /\ cache' \in BOOLEAN /\ cooled' \in BOOLEAN
    BY <1>3 DEF Fetch!ProxyChecked, Fetch!CacheExpires, Fetch!Cools, Fetch!circuit,
                Fetch!proxyPool, FetchTypes, CircuitTyped
  <2>3. RequestsTyped' /\ CircuitTyped' /\ StatsTyped'
    BY <2>1, <2>2 DEF FetchTypes, RequestsTyped, TriesLeft, CircuitTyped, StatsTyped, EndedRequests
  <2>. QED  BY <2>1, <2>2, <2>3 DEF FetchTypes
<1>4. CASE UNCHANGED fetchPart
  BY <1>4 DEF fetchPart, FetchTypes, RequestsTyped, TriesLeft, CircuitTyped, StatsTyped, EndedRequests
<1>. QED  BY <1>1, <1>2, <1>3, <1>4 DEF Fetch!Next

-----------------------------------------------------------------------------
(* A step of the specification is a step of each component, or leaves it   *)
(* alone.                                                                  *)

LEMMA LossPartsStep ==
  ASSUME part \in Parts, [Next]_all
  PROVE  /\ part' = part
         /\ [Screen!Next]_screenPart
         /\ [Mq!Next]_mqPart
         /\ [Trail!AuditNext]_auditPart
         /\ [Trail!TrackerNext]_trackPart
         /\ [Logs!Next]_logPart
         /\ [Logs!RotatorNext]_filePart
         /\ [Server!Next]_serverPart
         /\ [Pages!Next]_pagePart
<1>1. CASE UNCHANGED all
  BY <1>1 DEF all
<1>2. CASE Only("logs") /\ Logs!Next
  <2>1. part' = part /\ UNCHANGED <<screenPart, mqPart, auditPart, trackPart, filePart,
                                    serverPart, pagePart>>
    BY <1>2 DEF Only
  <2>. QED  BY <1>2, <2>1
<1>3. CASE Only("tokens") /\ Tokens!Next
  <2>1. part' = part /\ UNCHANGED <<screenPart, mqPart, auditPart, trackPart, logPart,
                                    filePart, serverPart, pagePart>>
    BY <1>3 DEF Only
  <2>. QED  BY <1>3, <2>1
<1>4. CASE Only("limits") /\ Limits!Next
  <2>1. part' = part /\ UNCHANGED <<screenPart, mqPart, auditPart, trackPart, logPart,
                                    filePart, serverPart, pagePart>>
    BY <1>4 DEF Only
  <2>. QED  BY <1>4, <2>1
<1>5. CASE Only("screen") /\ Screen!Next
  <2>1. part' = part /\ UNCHANGED <<mqPart, auditPart, trackPart, logPart, filePart,
                                    serverPart, pagePart>>
    BY <1>5 DEF Only
  <2>. QED  BY <1>5, <2>1
<1>6. CASE Only("fetch") /\ Fetch!Next
  <2>1. part' = part /\ UNCHANGED <<screenPart, mqPart, auditPart, trackPart, logPart,
                                    filePart, serverPart, pagePart>>
    BY <1>6 DEF Only
  <2>. QED  BY <1>6, <2>1
<1>7. CASE Only("mq") /\ Mq!Next
  <2>1. part' = part /\ UNCHANGED <<screenPart, auditPart, trackPart, logPart, filePart,
                                    serverPart, pagePart>>
    BY <1>7 DEF Only
  <2>. QED  BY <1>7, <2>1
<1>8. CASE Only("lock") /\ Lock!Next
  <2>1. part' = part /\ UNCHANGED <<screenPart, mqPart, auditPart, trackPart, logPart,
                                    filePart, serverPart, pagePart>>
    BY <1>8 DEF Only
  <2>. QED  BY <1>8, <2>1
<1>9. CASE Only("proxies") /\ Pools!ProxyNext
  <2>1. part' = part /\ UNCHANGED <<screenPart, mqPart, auditPart, trackPart, logPart,
                                    filePart, serverPart, pagePart>>
    BY <1>9 DEF Only
  <2>. QED  BY <1>9, <2>1
<1>10. CASE Only("agents") /\ Pools!AgentsNext
  <2>1. part' = part /\ UNCHANGED <<screenPart, mqPart, auditPart, trackPart, logPart,
                                    filePart, serverPart, pagePart>>
    BY <1>10 DEF Only
  <2>. QED  BY <1>10, <2>1
<1>11. CASE Only("audit") /\ Trail!AuditNext
  <2>1. part' = part /\ UNCHANGED <<screenPart, mqPart, trackPart, logPart, filePart,
                                    serverPart, pagePart>>
    BY <1>11 DEF Only
  <2>. QED  BY <1>11, <2>1
<1>12. CASE Only("track") /\ Trail!TrackerNext
  <2>1. part' = part /\ UNCHANGED <<screenPart, mqPart, auditPart, logPart, filePart,
                                    serverPart, pagePart>>
    BY <1>12 DEF Only
  <2>. QED  BY <1>12, <2>1
<1>13. CASE Only("files") /\ Logs!RotatorNext
  <2>1. part' = part /\ UNCHANGED <<screenPart, mqPart, auditPart, trackPart, logPart,
                                    serverPart, pagePart>>
    BY <1>13 DEF Only
  <2>. QED  BY <1>13, <2>1
<1>14. CASE Only("db") /\ Db!Next
  <2>1. part' = part /\ UNCHANGED <<screenPart, mqPart, auditPart, trackPart, logPart,
                                    filePart, serverPart, pagePart>>
    BY <1>14 DEF Only
  <2>. QED  BY <1>14, <2>1
<1>15. CASE Only("servers") /\ Server!Next
  <2>1. part' = part /\ UNCHANGED <<screenPart, mqPart, auditPart, trackPart, logPart,
                                    filePart, pagePart>>
    BY <1>15 DEF Only
  <2>. QED  BY <1>15, <2>1
<1>16. CASE Only("pages") /\ Pages!Next
  <2>1. part' = part /\ UNCHANGED <<screenPart, mqPart, auditPart, trackPart, logPart,
                                    filePart, serverPart>>
    BY <1>16 DEF Only
  <2>. QED  BY <1>16, <2>1
<1>. QED  BY <1>1, <1>2, <1>3, <1>4, <1>5, <1>6, <1>7, <1>8, <1>9, <1>10, <1>11, <1>12, <1>13, <1>14,
   <1>15, <1>16 DEF Next

LEMMA ScreenInvHolds == Spec => []ScreenInv
<1>1. Init => ScreenInv
  BY ScreenInitially DEF Init
<1>2. (part \in Parts) /\ ScreenInv /\ [Next]_all => ScreenInv'
  BY ScreenStep, LossPartsStep
<1>. QED  BY <1>1, <1>2, PartsHold, PTL DEF Spec

LEMMA MqInvHolds == Spec => []MqInv
<1>1. Init => MqInv
  BY MqInitially DEF Init
<1>2. (part \in Parts) /\ MqInv /\ [Next]_all => MqInv'
  BY MqStep, LossPartsStep
<1>. QED  BY <1>1, <1>2, PartsHold, PTL DEF Spec

LEMMA AuditInvHolds == Spec => []AuditInv
<1>1. Init => AuditInv
  BY AuditInitially DEF Init
<1>2. (part \in Parts) /\ AuditInv /\ [Next]_all => AuditInv'
  BY AuditStep, LossPartsStep
<1>. QED  BY <1>1, <1>2, PartsHold, PTL DEF Spec

LEMMA TrackerInvHolds == Spec => []TrackerInv
<1>1. Init => TrackerInv
  BY TrackerInitially DEF Init
<1>2. (part \in Parts) /\ TrackerInv /\ [Next]_all => TrackerInv'
  BY TrackerStep, LossPartsStep
<1>. QED  BY <1>1, <1>2, PartsHold, PTL DEF Spec

LEMMA LogsInvHolds == Spec => []LogsInv
<1>1. Init => LogsInv
  BY LogsInitially DEF Init
<1>2. (part \in Parts) /\ LogsInv /\ [Next]_all => LogsInv'
  BY LogsStep, LossPartsStep
<1>. QED  BY <1>1, <1>2, PartsHold, PTL DEF Spec

LEMMA FilesInvHolds == Spec => []FilesInv
<1>1. Init => FilesInv
  BY FilesInitially DEF Init
<1>2. (part \in Parts) /\ FilesInv /\ [Next]_all => FilesInv'
  BY FilesStep, LossPartsStep
<1>. QED  BY <1>1, <1>2, PartsHold, PTL DEF Spec

LEMMA ServersInvHolds == Spec => []ServersInv
<1>1. Init => ServersInv
  BY ServersInitially DEF Init
<1>2. (part \in Parts) /\ ServersInv /\ [Next]_all => ServersInv'
  BY ServersStep, LossPartsStep
<1>. QED  BY <1>1, <1>2, PartsHold, PTL DEF Spec

LEMMA PagesInvHolds == Spec => []PagesInv
<1>1. Init => PagesInv
  BY PagesInitially DEF Init
<1>2. (part \in Parts) /\ PagesInv /\ [Next]_all => PagesInv'
  BY PagesStep, LossPartsStep
<1>. QED  BY <1>1, <1>2, PartsHold, PTL DEF Spec

\* The other steps leave a batch of fetches alone.
LEMMA FetchPartStep ==
  ASSUME part \in Parts, [Next]_all
  PROVE  [Fetch!Next]_fetchPart
<1>1. CASE UNCHANGED all
  BY <1>1 DEF all
<1>2. ASSUME NEW p \in Parts \ {"fetch"}, Only(p) PROVE UNCHANGED fetchPart
  BY <1>2 DEF Only
<1>3. CASE Next
  <2>1. (Only("fetch") /\ Fetch!Next) \/ \E p \in Parts \ {"fetch"} : Only(p)
    BY <1>3 DEF Next, Parts
  <2>. QED  BY <1>2, <2>1
<1>. QED  BY <1>1, <1>3

LEMMA LogTypesHold == Spec => []LogTypes
<1>1. Init => LogTypes
  BY LogTypesInitially DEF Init
<1>2. (part \in Parts) /\ LogTypes /\ [Next]_all => LogTypes'
  BY LogTypesStep, LossPartsStep
<1>. QED  BY <1>1, <1>2, PartsHold, PTL DEF Spec

LEMMA AuditTypesHold == Spec => []AuditTypes
<1>1. Init => AuditTypes
  BY AuditTypesInitially DEF Init
<1>2. (part \in Parts) /\ AuditTypes /\ [Next]_all => AuditTypes'
  BY AuditTypesStep, LossPartsStep
<1>. QED  BY <1>1, <1>2, PartsHold, PTL DEF Spec

LEMMA FileTypesHold == Spec => []FileTypes
<1>1. Init => FileTypes
  BY FileTypesInitially DEF Init
<1>2. (part \in Parts) /\ FileTypes /\ [Next]_all => FileTypes'
  BY FileTypesStep, LossPartsStep
<1>. QED  BY <1>1, <1>2, PartsHold, PTL DEF Spec

LEMMA ServerTypesHold == Spec => []ServerTypes
<1>1. Init => ServerTypes
  BY ServerTypesInitially DEF Init
<1>2. (part \in Parts) /\ ServerTypes /\ [Next]_all => ServerTypes'
  BY ServerTypesStep, LossPartsStep
<1>. QED  BY <1>1, <1>2, PartsHold, PTL DEF Spec

LEMMA MqTypesHold == Spec => []MqTypes
<1>1. Init => MqTypes
  BY MqTypesInitially DEF Init
<1>2. (part \in Parts) /\ MqTypes /\ [Next]_all => MqTypes'
  BY MqTypesStep, LossPartsStep
<1>. QED  BY <1>1, <1>2, PartsHold, PTL DEF Spec

LEMMA ScreenTypesHold == Spec => []ScreenTypes
<1>1. Init => ScreenTypes
  BY ScreenTypesInitially DEF Init
<1>2. (part \in Parts) /\ ScreenTypes /\ [Next]_all => ScreenTypes'
  BY ScreenTypesStep, LossPartsStep
<1>. QED  BY <1>1, <1>2, PartsHold, PTL DEF Spec

LEMMA PageTypesHold == Spec => []PageTypes
<1>1. Init => PageTypes
  BY PageTypesInitially DEF Init
<1>2. (part \in Parts) /\ PagesInv /\ PageTypes /\ [Next]_all => PageTypes'
  BY PageTypesStep, LossPartsStep
<1>. QED  BY <1>1, <1>2, PartsHold, PagesInvHolds, PTL DEF Spec

LEMMA FetchTypesHold == Spec => []FetchTypes
<1>1. Init => FetchTypes
  BY FetchTypesInitially DEF Init
<1>2. (part \in Parts) /\ FetchTypes /\ [Next]_all => FetchTypes'
  BY FetchTypesStep, FetchPartStep
<1>. QED  BY <1>1, <1>2, PartsHold, PTL DEF Spec

-----------------------------------------------------------------------------
(* Theorems.                                                               *)

\* A log record that reached the stream is seen or was given up (logs_enhanced.go:396), an
\* audit entry is found while it is to be kept and its keys expire (audit.go:282-323), a
\* tracked request is ended (request_id.go:245-279), a line is in a log file for MaxAge days
\* (daily_rotator.go:40-104, 117-160).
THEOREM TrailIsKept == Spec => []TrailKept
<1>1. LogsInv /\ AuditInv /\ TrackerInv /\ FilesInv => TrailKept
  BY AuditUse, FilesUse DEF TrailKept, LogsInv, TrackerInv
<1>. QED  BY <1>1, LogsInvHolds, AuditInvHolds, TrackerInvHolds, FilesInvHolds, PTL

\* However many requests share an ID: no entry of the map is left without somebody who ends or
\* sweeps it (request_id.go:245-279), whichever component moves.
THEOREM NoEntryIsLeft == Spec => []Trail!EntriesEnd
<1>1. TrackerInv => Trail!EntriesEnd
  BY DEF TrackerInv
<1>. QED  BY <1>1, TrackerInvHolds, PTL

\* A key of the task screen acts on what the user sees, unless a refresh has put another task
\* in its place (task_manager.go: Refresh writes v.tasks and v.currentTask).
THEOREM KeysActOnChosen == Spec => []ActsOnChosen
<1>1. ScreenInv => ActsOnChosen
  BY DEF ScreenInv, ActsOnChosen
<1>. QED  BY <1>1, ScreenInvHolds, PTL

\* What the broker forgot was handled and what it waits for can still be answered
\* (rabbitmq.go: Consume), a process that a signal ended has closed its servers and cut no
\* request before the deadline (server.go:102), and a reader who follows has_next misses no
\* row (pagination.go:45, 100, 112).
THEOREM NothingIsForgotten == Spec => []NothingForgotten
<1>1. MqInv /\ ServersInv /\ PagesInv => NothingForgotten
  BY DEF MqInv, ServersInv, PagesInv, NothingForgotten
<1>. QED  BY <1>1, MqInvHolds, ServersInvHolds, PagesInvHolds, PTL

\* Whichever component moves, its state keeps its shape and its bounds: no buffer, pool, set or
\* count of it grows beyond what the code allows, and nothing is in a place the code has no
\* name for.
THEOREM PlatformTypesHold == Spec => []TypesOK
<1> DEFINE Typed == /\ LogTypes /\ TokenInv /\ LimitTypes /\ ScreenTypes /\ FetchTypes
                    /\ MqTypes /\ Lock!TypeOK /\ ProxyTypes /\ AgentTypes /\ AuditTypes
                    /\ TrackerInv /\ FileTypes /\ DbTypesInv /\ ServerTypes /\ PageTypes
<1>1. Spec => []Typed
  BY LogTypesHold, TokenInvHolds, LimitTypesHold, ScreenTypesHold, FetchTypesHold, MqTypesHold,
     LockTypesHold, ProxyTypesHold, AgentTypesHold, AuditTypesHold, TrackerInvHolds,
     FileTypesHold, DbTypesHold, ServerTypesHold, PageTypesHold, PTL
<1>2. part \in Parts /\ Typed => TypesOK
  <2> SUFFICES ASSUME part \in Parts, Typed PROVE TypesOK
    OBVIOUS
  <2>1. /\ Logs!LogTypeOK /\ Tokens!TokenTypeOK /\ Limits!LimitTypeOK
        /\ Screen!ScreenTypeOK /\ Fetch!FetchTypeOK /\ Mq!MqTypeOK /\ Lock!TypeOK
    BY LogTypesUse, TokenTyped, LimitTypesUse, ScreenTypesUse, FetchTypesUse, MqTypesUse
  <2>2. /\ Pools!ProxyTypeOK /\ Pools!AgentsTypeOK /\ Trail!AuditTypeOK
        /\ Trail!TrackerTypeOK /\ Logs!RotatorTypeOK /\ Db!DbTypeOK
    BY ProxyTypesUse, AgentTypesUse, AuditTypesUse, FileTypesUse, DbTypesUse DEF TrackerInv
  <2>3. Server!ServersTypeOK /\ Pages!PagesTypeOK
    BY ServerTypesUse, PageTypesUse
  <2>. HIDE DEF Typed
  <2>. QED  BY <2>1, <2>2, <2>3 DEF TypesOK, Parts
<1>. QED  BY <1>1, <1>2, PartsHold, PTL
=============================================================================
