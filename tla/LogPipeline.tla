---------------------------- MODULE LogPipeline ----------------------------
(***************************************************************************)
(* Log records from a node, or from a program with a RedisStore, to the    *)
(* log screen: bounded buffers, a Redis stream that is trimmed, PUBLISH to *)
(* whoever listens, and a view that reads the stream once and listens from *)
(* then on - in two goroutines, in either order. Levels, filters and the   *)
(* layout of the screen are left out: they choose what is drawn of logs.   *)
(*                                                                         *)
(* And DailyRotator (logging/daily_rotator.go): a file per day that Write  *)
(* opens when the day has changed, a link to it, and a cleanup that takes  *)
(* no lock. Time passes in half days. The two share no state; Redis and    *)
(* the file system are external.                                           *)
(***************************************************************************)
EXTENDS Integers, Sequences, FiniteSets, Functions

CONSTANTS
  LogEntries,
  BufferSize,   \* of LogForwarder.buffer and RedisStore.buffer
  StoreBatch,   \* records that processLoop collects (10)
  StreamMax,    \* MaxLen of the stream
  MaxLogs,      \* of the view
  MaxLogFaults, \* bound on failed calls
  Lines,
  MaxAge,         \* maxAge, in days; 0 keeps the files for ever
  MaxHalf,        \* bound on time
  MaxFileFaults   \* bound on files and links that cannot be made

VARIABLES
  logged,      \* records that Log or Write was called for
  fwdBuffer,   \* LogForwarder.buffer
  publishing,  \* the record processLoop has added and not yet published
  fwdEnded,    \* has processLoop returned?
  storeBuffer, storeBatch, storeClosed,  \* RedisStore
  written,     \* records that were in the stream
  logStream,
  pubsub,      \* messages on the way to the view's subscription
  subscribed,
  loading,     \* loadInitialLogs: "no", "read", "done"
  readLogs,    \* what it has read
  logs, paused,
  excused,     \* records the code gives up, see below
  logFaults,
  half,        \* time in half days
  files,       \* the lines of each day's file that is there
  there,       \* days whose file is there
  fileOf,      \* day of currentFile
  isOpen,      \* currentFile has not been closed
  currentDate,
  link,        \* the day the link points at, None when there is no link
  writer,      \* what the writer that has the lock is about to do
  line,        \* its line
  began,       \* when its Write began
  wroteOn,     \* the day the Write of each line that reported success began, or None
  toCheck,     \* days the cleanup under way has listed and not checked
  cutoffHalf,  \* its time
  cleaned,     \* half day of the last cleanup
  closed,      \* has Close been called?
  linkFailed,  \* has the last link failed?
  fileFaults

logVars == <<logged, fwdBuffer, publishing, fwdEnded, storeBuffer, storeBatch, storeClosed,
             written, logStream, pubsub, subscribed, loading, readLogs, logs, paused, excused,
             logFaults>>
forwarder == <<fwdBuffer, publishing, fwdEnded>>
redisStore == <<storeBuffer, storeBatch, storeClosed>>
view == <<subscribed, loading, readLogs, logs, paused>>

NoEntry == "none"

LogTypeOK ==
  /\ logged \subseteq LogEntries /\ written \subseteq logged /\ excused \subseteq logged
  /\ Len(fwdBuffer) <= BufferSize /\ Len(storeBuffer) <= BufferSize
  /\ Len(storeBatch) < StoreBatch /\ Len(logs) <= MaxLogs
  /\ publishing \in LogEntries \cup {NoEntry}
  /\ {fwdEnded, storeClosed, subscribed, paused} \subseteq BOOLEAN
  /\ \A q \in {fwdBuffer, storeBuffer, storeBatch, logStream, pubsub, readLogs, logs} :
       Range(q) \subseteq logged
  /\ loading \in {"no", "read", "done"} /\ logFaults \in 0 .. MaxLogFaults

Init ==
  /\ logged = {} /\ written = {} /\ excused = {} /\ logFaults = 0
  /\ fwdBuffer = <<>> /\ publishing = NoEntry /\ fwdEnded = FALSE
  /\ storeBuffer = <<>> /\ storeBatch = <<>> /\ storeClosed = FALSE
  /\ logStream = <<>> /\ pubsub = <<>>
  /\ subscribed = FALSE /\ loading = "no" /\ readLogs = <<>> /\ logs = <<>> /\ paused = FALSE

LogFault == logFaults < MaxLogFaults /\ logFaults' = logFaults + 1

-----------------------------------------------------------------------------
(* Redis.                                                                  *)

\* XADD with an approximate MAXLEN: the oldest may go once there are more.
Trimmed(s) == {s} \cup (IF Len(s) > StreamMax THEN {SubSeq(s, Len(s) - StreamMax + 1, Len(s))} ELSE {})

\* What a PUBLISH to nobody leaves to the stream, unless it has been read.
Unheard(es) == IF subscribed \/ loading = "no" THEN {}
               ELSE Range(es) \ (Range(readLogs) \cup Range(logs))
Published(es) == IF subscribed /\ ~storeClosed THEN pubsub \o es ELSE pubsub

\* Add the records es to the stream, and give up those that go from it.
Added(es) ==
  \E s \in Trimmed(logStream \o es) :
    logStream' = s /\ written' = written \cup Range(es)
Unadded == UNCHANGED <<written, logStream>>
Gone == (Range(logStream) \cup written') \ Range(logStream')

-----------------------------------------------------------------------------
(* LogForwarder of a node.                                                 *)

\* Log, LogWithTask and the slog handler: a full buffer drops the record.
Log(e) ==
  /\ e \notin logged /\ logged' = logged \cup {e}
  /\ IF Len(fwdBuffer) < BufferSize /\ ~fwdEnded
     THEN fwdBuffer' = Append(fwdBuffer, e) /\ UNCHANGED excused
     ELSE excused' = excused \cup {e} /\ UNCHANGED fwdBuffer
  /\ UNCHANGED <<publishing, fwdEnded, redisStore, written, logStream, pubsub, view, logFaults>>

\* forward: XADD, and when it fails, executed or not, nothing more.
Forward ==
  /\ ~fwdEnded /\ publishing = NoEntry /\ fwdBuffer # <<>>
  /\ fwdBuffer' = Tail(fwdBuffer)
  /\ \/ /\ Added(<<Head(fwdBuffer)>>) /\ publishing' = Head(fwdBuffer)
        /\ excused' = excused \cup Gone /\ UNCHANGED logFaults
     \/ /\ LogFault /\ (Added(<<Head(fwdBuffer)>>) \/ Unadded)
        /\ excused' = excused \cup {Head(fwdBuffer)} \cup Gone /\ UNCHANGED publishing
  /\ UNCHANGED <<logged, fwdEnded, redisStore, pubsub, view>>
ForwardPublish ==
  /\ publishing # NoEntry /\ publishing' = NoEntry
  /\ \/ /\ pubsub' = Published(<<publishing>>)
        /\ excused' = excused \cup Unheard(<<publishing>>) /\ UNCHANGED logFaults
     \/ LogFault /\ excused' = excused \cup {publishing} /\ UNCHANGED pubsub
  /\ UNCHANGED <<logged, fwdBuffer, fwdEnded, redisStore, written, logStream, view>>

\* The context of the node ends, and processLoop with it. Nothing calls Stop,
\* which would flush.
ForwarderEnds ==
  /\ ~fwdEnded /\ publishing = NoEntry
  /\ fwdEnded' = TRUE /\ fwdBuffer' = <<>> /\ excused' = excused \cup Range(fwdBuffer)
  /\ UNCHANGED <<logged, publishing, redisStore, written, logStream, pubsub, view, logFaults>>

-----------------------------------------------------------------------------
(* RedisStore.                                                             *)

\* A pipeline of XADD and PUBLISH; one that fails may have been executed.
WritesBatch(es) ==
  \/ /\ Added(es) /\ pubsub' = Published(es)
     /\ excused' = excused \cup Gone \cup Unheard(es) /\ UNCHANGED logFaults
  \/ /\ LogFault /\ (Added(es) \/ Unadded)
     /\ excused' = excused \cup Range(es) \cup Gone /\ UNCHANGED pubsub
Idle == UNCHANGED <<written, logStream, pubsub, excused, logFaults>>

\* Write: a full buffer makes the caller write the record itself, before the
\* ones that wait.
Write(e) ==
  /\ e \notin logged /\ logged' = logged \cup {e} /\ ~storeClosed
  /\ IF Len(storeBuffer) < BufferSize
     THEN storeBuffer' = Append(storeBuffer, e) /\ Idle
     ELSE WritesBatch(<<e>>) /\ UNCHANGED storeBuffer
  /\ UNCHANGED <<storeBatch, storeClosed, forwarder, view>>
StoreTakes ==
  /\ ~storeClosed /\ storeBuffer # <<>> /\ storeBuffer' = Tail(storeBuffer)
  /\ LET b == Append(storeBatch, Head(storeBuffer))
     IN IF Len(b) >= StoreBatch THEN WritesBatch(b) /\ storeBatch' = <<>>
                                ELSE storeBatch' = b /\ Idle
  /\ UNCHANGED <<logged, storeClosed, forwarder, view>>
StoreTick ==
  /\ ~storeClosed /\ storeBatch # <<>>
  /\ WritesBatch(storeBatch) /\ storeBatch' = <<>>
  /\ UNCHANGED <<logged, storeBuffer, storeClosed, forwarder, view>>

\* Close, by Stop of the view: the batch is written and the buffer is not, and
\* handlePubSub ends with what is on its way.
StoreClose ==
  /\ ~storeClosed /\ storeBatch = <<>>
  /\ storeClosed' = TRUE /\ storeBuffer' = <<>> /\ pubsub' = <<>>
  /\ excused' = excused \cup Range(storeBuffer) \cup Range(pubsub)
  /\ UNCHANGED <<logged, storeBatch, forwarder, written, logStream, view, logFaults>>

-----------------------------------------------------------------------------
(* EnhancedLogsView.                                                       *)

KeepsAll(s) == s   \* a bug: the view never drops a record

\* addLog and XRevRange: no more records than the view shows.
Newest(s) == IF Len(s) > MaxLogs THEN SubSeq(s, Len(s) - MaxLogs + 1, Len(s)) ELSE s
Shows(s) == logs' = Newest(s) /\ excused' = excused \cup (Range(s) \ Range(Newest(s)))

Subscribe ==
  /\ ~subscribed /\ ~storeClosed /\ subscribed' = TRUE
  /\ UNCHANGED <<logged, forwarder, redisStore, written, logStream, pubsub, loading, readLogs,
                 logs, paused, excused, logFaults>>

\* loadInitialLogs reads the newest MaxLogs of the stream, or fails for good,
\* and appends them to what has been received by then.
ReadLogs ==
  /\ loading = "no"
  /\ \/ /\ loading' = "read" /\ readLogs' = Newest(logStream)
        /\ excused' = excused \cup (Range(logStream) \ Range(Newest(logStream))) /\ UNCHANGED logFaults
     \/ /\ loading' = "done" /\ LogFault /\ excused' = excused \cup Range(logStream)
        /\ UNCHANGED readLogs
  /\ UNCHANGED <<logged, forwarder, redisStore, written, logStream, pubsub, subscribed, logs, paused>>
Overwrites == readLogs  \* bug: as if nothing could have been received yet
Loaded == logs \o readLogs
LoadLogs ==
  /\ loading = "read" /\ loading' = "done"
  /\ Shows(Loaded) /\ readLogs' = <<>>
  /\ UNCHANGED <<logged, forwarder, redisStore, written, logStream, pubsub, subscribed, paused, logFaults>>

\* notifySubscribers: a paused view drops the record, addLog appends it.
Receive ==
  /\ pubsub # <<>> /\ ~storeClosed /\ pubsub' = Tail(pubsub)
  /\ IF paused THEN excused' = excused \cup {Head(pubsub)} /\ UNCHANGED logs
               ELSE Shows(Append(logs, Head(pubsub)))
  /\ UNCHANGED <<logged, forwarder, redisStore, written, logStream, subscribed, loading, readLogs,
                 paused, logFaults>>

TogglePause ==
  /\ paused' = ~paused
  /\ UNCHANGED <<logged, forwarder, redisStore, written, logStream, pubsub, subscribed, loading,
                 readLogs, logs, excused, logFaults>>

\* The key c, and the choice of a node, which filters nothing.
ClearLogs ==
  /\ logs # <<>> /\ logs' = <<>> /\ excused' = excused \cup Range(logs)
  /\ UNCHANGED <<logged, forwarder, redisStore, written, logStream, pubsub, subscribed, loading,
                 readLogs, paused, logFaults>>

Next ==
  \/ \E e \in LogEntries : Log(e) \/ Write(e)
  \/ Forward \/ ForwardPublish \/ ForwarderEnds
  \/ StoreTakes \/ StoreTick \/ StoreClose
  \/ Subscribe \/ ReadLogs \/ LoadLogs \/ Receive \/ TogglePause \/ ClearLogs

Spec == Init /\ [][Next]_logVars

-----------------------------------------------------------------------------
\* Between the two goroutines of the view nothing is lost but what was
\* published before one listened and after the other read. Every record that
\* reached the stream is on the screen, on its way there, still to be read, or
\* was given up: trimmed, cleared, paused over, or lost to a failed call or a
\* closed store (loadInitialLogs, startSubscription, addLog).
LogSeen ==
  \A e \in written \ excused :
    \/ e \in Range(logs) \cup Range(pubsub) \cup Range(readLogs)
    \/ e = publishing
    \/ loading = "no" /\ e \in Range(logStream)
    \/ storeClosed

-----------------------------------------------------------------------------
(* DailyRotator.                                                           *)

rotatorVars == <<half, files, there, fileOf, isOpen, currentDate, link, writer, line, began,
                 wroteOn, toCheck, cutoffHalf, cleaned, closed, linkFailed, fileFaults>>
fileVars == <<fileOf, isOpen, currentDate>>
cleaning == <<toCheck, cutoffHalf, cleaned>>
dir == <<files, there>>
writing == <<writer, line, began>>

None == -1
NoLine == "none"
Date == half \div 2
Dates == 0..(MaxHalf \div 2)

\* NewDailyRotator has opened the first file.
RotatorInit ==
  /\ half = 0
  /\ files = [d \in Dates |-> {}] /\ there = {0}
  /\ fileOf = 0 /\ isOpen = TRUE /\ currentDate = 0 /\ link = 0
  /\ writer = "none" /\ line = NoLine /\ began = 0 /\ wroteOn = [l \in Lines |-> None]
  /\ toCheck = {} /\ cutoffHalf = 0 /\ cleaned = 0
  /\ closed = FALSE /\ linkFailed = FALSE /\ fileFaults = 0

-----------------------------------------------------------------------------
(* DailyRotator.Write. A line that could not be written may be given again.  *)

NeedsRotate == Date # currentDate
RotatorWrite(l) ==
  /\ writer = "none" /\ wroteOn[l] = None
  /\ line' = l /\ began' = half
  /\ writer' = (IF NeedsRotate THEN "rotate" ELSE "write")
  /\ UNCHANGED <<half, dir, fileVars, link, wroteOn, cleaning, closed, linkFailed, fileFaults>>

\* rotate closes the current file before it opens the next, for the time it reads itself.
Rotate ==
  /\ writer = "rotate"
  /\ there' = there \union {Date}
  /\ fileOf' = Date /\ isOpen' = TRUE /\ currentDate' = Date
  /\ link' = None      \* os.Remove
  /\ writer' = "link"
  /\ UNCHANGED <<half, files, line, began, wroteOn, cleaning, closed, linkFailed, fileFaults>>

RotateFails ==
  /\ writer = "rotate" /\ fileFaults < MaxFileFaults
  /\ isOpen' = FALSE /\ fileFaults' = fileFaults + 1
  /\ writer' = "none" /\ line' = NoLine
  /\ UNCHANGED <<half, dir, fileOf, currentDate, link, began, wroteOn, cleaning, closed, linkFailed>>

Symlink(ok) ==
  /\ writer = "link" /\ (ok \/ fileFaults < MaxFileFaults)
  /\ link' = (IF ok THEN fileOf ELSE None) /\ linkFailed' = ~ok
  /\ fileFaults' = (IF ok THEN fileFaults ELSE fileFaults + 1)
  /\ writer' = "write"
  /\ UNCHANGED <<half, dir, fileVars, line, began, wroteOn, cleaning, closed>>

\* A file that was removed while it was open takes lines nobody will find.
WriteLine ==
  /\ writer = "write"
  /\ IF isOpen THEN wroteOn' = [wroteOn EXCEPT ![line] = began \div 2]
     ELSE UNCHANGED wroteOn
  /\ files' = (IF isOpen /\ fileOf \in there THEN [files EXCEPT ![fileOf] = @ \union {line}]
               ELSE files)
  /\ writer' = "none" /\ line' = NoLine
  /\ UNCHANGED <<half, there, fileVars, link, began, cleaning, closed, linkFailed, fileFaults>>

\* currentFile stays set: the next day's first Write opens a file again.
Close ==
  /\ writer = "none" /\ ~closed
  /\ closed' = TRUE /\ isOpen' = FALSE
  /\ UNCHANGED <<half, dir, fileOf, currentDate, link, writing, wroteOn, cleaning,
                 linkFailed, fileFaults>>

-----------------------------------------------------------------------------
(* cleanupRoutine, which nothing stops; it starts a cleanup each 24 hours. *)

StartCleanup ==
  /\ MaxAge > 0 /\ toCheck = {} /\ half = cleaned + 2
  /\ toCheck' = there /\ cutoffHalf' = half /\ cleaned' = half
  /\ UNCHANGED <<half, dir, fileVars, link, writing, wroteOn, closed, linkFailed, fileFaults>>

\* A file's date is the midnight that begins it.
TooOld(d) == 2 * d < cutoffHalf - 2 * MaxAge
CheckFile(d) ==
  /\ d \in toCheck
  /\ toCheck' = toCheck \ {d}
  /\ there' = (IF TooOld(d) THEN there \ {d} ELSE there)
  /\ files' = (IF TooOld(d) THEN [files EXCEPT ![d] = {}] ELSE files)
  /\ UNCHANGED <<half, fileVars, link, writing, wroteOn, cutoffHalf, cleaned, closed, linkFailed,
                 fileFaults>>

\* The ticker is on time; a write or a cleanup takes less than half a day, which may
\* hold a midnight.
HalfDayPasses ==
  /\ half < MaxHalf /\ (MaxAge > 0 => half < cleaned + 2)
  /\ (writer # "none" => half = began) /\ (toCheck # {} => half = cutoffHalf)
  /\ half' = half + 1
  /\ UNCHANGED <<dir, fileVars, link, writing, wroteOn, cleaning, closed, linkFailed, fileFaults>>

RotatorNext ==
  \/ Rotate \/ RotateFails \/ WriteLine \/ Close \/ StartCleanup \/ HalfDayPasses
  \/ \E l \in Lines : RotatorWrite(l)
  \/ \E ok \in BOOLEAN : Symlink(ok)
  \/ \E d \in Dates : CheckFile(d)

-----------------------------------------------------------------------------
(* Properties of the rotator.                                              *)

RotatorTypeOK ==
  /\ half \in 0..MaxHalf /\ files \in [Dates -> SUBSET Lines] /\ there \subseteq Dates
  /\ fileOf \in Dates /\ currentDate \in Dates /\ isOpen \in BOOLEAN
  /\ link \in Dates \union {None}
  /\ writer \in {"none", "rotate", "link", "write"} /\ line \in Lines \union {NoLine}
  /\ began \in 0..MaxHalf /\ wroteOn \in [Lines -> Dates \union {None}]
  /\ toCheck \subseteq Dates /\ cutoffHalf \in 0..MaxHalf /\ cleaned \in 0..MaxHalf
  /\ closed \in BOOLEAN /\ linkFailed \in BOOLEAN /\ fileFaults \in 0..MaxFileFaults

\* Midnight, a file that cannot be opened and a cleanup without the lock come between the
\* steps of Write (daily_rotator.go:40-104, 117-160): a line whose Write reported success
\* is in a file for MaxAge days, and the link leads to the file that is written, unless it
\* could not be made.
LinesKept ==
  /\ \A l \in Lines :
       wroteOn[l] # None /\ (MaxAge = 0 \/ half <= 2 * (wroteOn[l] + MaxAge)) =>
         \E d \in there : l \in files[d]
  /\ writer = "none" /\ ~linkFailed => link = fileOf
=============================================================================
