------------------------------ MODULE Servers ------------------------------
(***************************************************************************)
(* The HTTP servers of a process (server/server.go): one with StartAndWait *)
(* or several under a ServerManager. Start only starts a goroutine that    *)
(* listens; a signal shuts the servers down one after the other, and all   *)
(* of them share one deadline.                                             *)
(***************************************************************************)
EXTENDS Naturals, Sequences

CONSTANTS
  NumServers,       \* of the ServerManager, in the order of AddServer
  HttpRequests,
  ShutdownTime      \* 30 s, in units of the clock

VARIABLES
  managed,          \* is there a ServerManager?
  process,          \* "starting", "waiting", "stopping", or how it ended
  toStart,          \* servers that StartAll has not reached
  serverAt,         \* "new", "starting", "listening", "closed"
  requestAt,        \* server a request is at, or NotSent, Served, Cut
  toStop,           \* servers that StopAll has not done with
  timeLeft,
  failedStop        \* has a Shutdown returned an error?

serverVars == <<managed, process, toStart, serverAt, requestAt, toStop, timeLeft, failedStop>>

Ids == 1..NumServers
NotSent == 0
Served == NumServers + 1
Cut == NumServers + 2
Ended == {"exit 0", "exit 1", "killed"}
Running == process \notin Ended
Active(i) == \E r \in HttpRequests : requestAt[r] = i

\* The process ends: what is in flight is cut.
Ends(how) ==
  /\ process' = how
  /\ requestAt' = [r \in HttpRequests |-> IF requestAt[r] \in Ids THEN Cut ELSE requestAt[r]]

ServersInit ==
  /\ managed \in BOOLEAN /\ process = "starting"
  /\ toStart = IF managed THEN [i \in Ids |-> i] ELSE <<1>>
  /\ serverAt = [i \in Ids |-> "new"] /\ requestAt = [r \in HttpRequests |-> NotSent]
  /\ toStop = <<>> /\ timeLeft = ShutdownTime /\ failedStop = FALSE

-----------------------------------------------------------------------------
\* Start: go ListenAndServe, which may run at any time from now on.
Start ==
  /\ process = "starting" /\ toStart # <<>>
  /\ serverAt' = [serverAt EXCEPT ![Head(toStart)] = "starting"] /\ toStart' = Tail(toStart)
  /\ UNCHANGED <<managed, process, requestAt, toStop, timeLeft, failedStop>>
\* WaitForShutdown: signal.Notify.
Wait ==
  /\ process = "starting" /\ toStart = <<>>
  /\ process' = "waiting"
  /\ UNCHANGED <<managed, toStart, serverAt, requestAt, toStop, timeLeft, failedStop>>

\* ListenAndServe after Shutdown returns ErrServerClosed at once.
Listen(i) ==
  /\ Running /\ serverAt[i] = "starting"
  /\ serverAt' = [serverAt EXCEPT ![i] = "listening"]
  /\ UNCHANGED <<managed, process, toStart, requestAt, toStop, timeLeft, failedStop>>
\* A port in use, say: the goroutine ends the process, the other servers with it.
ListenFails(i) ==
  /\ Running /\ serverAt[i] \in {"starting", "listening"}
  /\ Ends("exit 1")
  /\ UNCHANGED <<managed, toStart, serverAt, toStop, timeLeft, failedStop>>

Accept(r, i) ==
  /\ Running /\ serverAt[i] = "listening" /\ requestAt[r] = NotSent
  /\ requestAt' = [requestAt EXCEPT ![r] = i]
  /\ UNCHANGED <<managed, process, toStart, serverAt, toStop, timeLeft, failedStop>>
Answer(r) ==
  /\ Running /\ requestAt[r] \in Ids
  /\ requestAt' = [requestAt EXCEPT ![r] = Served]
  /\ UNCHANGED <<managed, process, toStart, serverAt, toStop, timeLeft, failedStop>>

\* SIGTERM or SIGINT: before signal.Notify it kills the process.
Signal ==
  \/ /\ process = "starting" /\ Ends("killed")
     /\ UNCHANGED <<managed, toStart, serverAt, toStop, timeLeft, failedStop>>
  \/ /\ process = "waiting" /\ process' = "stopping"
     /\ toStop' = IF managed THEN [i \in Ids |-> i] ELSE <<1>>
     /\ UNCHANGED <<managed, toStart, serverAt, requestAt, timeLeft, failedStop>>

\* http.Server.Shutdown closes the listener first, ...
CloseListener ==
  /\ process = "stopping" /\ toStop # <<>> /\ serverAt[Head(toStop)] # "closed"
  /\ serverAt' = [serverAt EXCEPT ![Head(toStop)] = "closed"]
  /\ UNCHANGED <<managed, process, toStart, requestAt, toStop, timeLeft, failedStop>>
\* ... then waits until nothing is active, which it looks at before the deadline.
Drained == process = "stopping" /\ toStop # <<>> /\ serverAt[Head(toStop)] = "closed"
           /\ ~Active(Head(toStop))
ShutdownReturns ==
  /\ Drained
  /\ toStop' = Tail(toStop)
  /\ UNCHANGED <<managed, process, toStart, serverAt, requestAt, timeLeft, failedStop>>

StopsAtFirst == <<>>                 \* bug: StopAll returns the error
StopsOthers == Tail(toStop)
\* The manager logs the error and goes on to the next server; a single one exits with 1.
DeadlinePasses ==
  /\ process = "stopping" /\ toStop # <<>> /\ serverAt[Head(toStop)] = "closed"
  /\ timeLeft = 0 /\ Active(Head(toStop))
  /\ failedStop' = TRUE
  /\ IF managed THEN toStop' = StopsOthers /\ UNCHANGED <<process, requestAt>>
                ELSE Ends("exit 1") /\ UNCHANGED toStop
  /\ UNCHANGED <<managed, toStart, serverAt, timeLeft>>
Exit ==
  /\ process = "stopping" /\ toStop = <<>>
  /\ Ends("exit 0")
  /\ UNCHANGED <<managed, toStart, serverAt, toStop, timeLeft, failedStop>>

Tick ==
  /\ process = "stopping" /\ timeLeft > 0
  /\ timeLeft' = timeLeft - 1
  /\ UNCHANGED <<managed, process, toStart, serverAt, requestAt, toStop, failedStop>>

Next == \/ Start \/ Wait \/ Signal \/ CloseListener \/ ShutdownReturns \/ DeadlinePasses \/ Exit
        \/ Tick
        \/ \E i \in Ids : Listen(i) \/ ListenFails(i) \/ \E r \in HttpRequests : Accept(r, i)
        \/ \E r \in HttpRequests : Answer(r)
Spec == ServersInit /\ [][Next]_serverVars

-----------------------------------------------------------------------------
ServersTypeOK ==
  /\ managed \in BOOLEAN /\ process \in {"starting", "waiting", "stopping"} \union Ended
  /\ serverAt \in [Ids -> {"new", "starting", "listening", "closed"}]
  /\ requestAt \in [HttpRequests -> 0..NumServers + 2]
  /\ timeLeft \in 0..ShutdownTime /\ failedStop \in BOOLEAN

\* Shutdown is graceful (server.go:102): a process that its signal handler ended has
\* closed every server it started, has accepted nothing since, and has cut a request
\* only when the deadline was over.
GracefulEnd ==
  process = "exit 0" =>
    /\ \A i \in Ids : serverAt[i] \in {"closed", "new"}
    /\ (\E r \in HttpRequests : requestAt[r] = Cut) => timeLeft = 0 /\ failedStop
=============================================================================
