------------------------------- MODULE Viewers -------------------------------
(***************************************************************************)
(* The clients of the terminal interface at the hub (TUIClient in          *)
(* crawler/communication/helpers.go; hub.go): they register, subscribe to  *)
(* every event, turn events into updates, and close; the hub starts, stops *)
(* and cleans up. Events come from the event bus, whose handlers are       *)
(* goroutines.                                                             *)
(***************************************************************************)
EXTENDS Naturals, Sequences, FiniteSets

CONSTANTS
  Viewers,      \* objects made with NewTUIClient
  IdOf,         \* the ID each is made with
  News,         \* events
  ViewCapacity, \* capacity of eventCh and of updateCh
  MaxHubStarts

VARIABLES
  active,      \* TUIClient.active
  at,          \* where the call of each viewer's program is
  viewLoop,    \* processEvents of each: "none", "on", "off"
  handlers,    \* handlers at the bus, under "*", one per call of Start
  eventCh, updateCh,
  invoked,     \* handler goroutines on their way: [viewer, event]
  shown,       \* updates taken by the program
  missed,      \* events a viewer has dropped because a channel was full
  viewers,     \* CommunicationHub.tuiClients
  clientsMu,   \* who holds it
  cleaner,     \* where cleanup is
  hubRunning, hubStopped,  \* running; is stopCh closed?
  hubStarts,
  told         \* events the bus has called the handlers for

viewVars == <<active, at, viewLoop, handlers, eventCh, updateCh, invoked, shown, missed, viewers,
              clientsMu, cleaner, hubRunning, hubStopped, hubStarts, told>>
lifecycle == <<hubRunning, hubStopped, hubStarts>>
feed == <<viewLoop, handlers, eventCh, updateCh, invoked, shown, missed, told>>

Free == "free"
Nobody == "nobody"
Ids == {IdOf[v] : v \in Viewers}

Init ==
  /\ active = [v \in Viewers |-> TRUE]
  /\ at = [v \in Viewers |-> "made"]
  /\ viewLoop = [v \in Viewers |-> "none"]
  /\ handlers = {}
  /\ eventCh = [v \in Viewers |-> <<>>] /\ updateCh = [v \in Viewers |-> <<>>]
  /\ invoked = {} /\ shown = [v \in Viewers |-> {}] /\ missed = [v \in Viewers |-> {}]
  /\ viewers = [i \in Ids |-> Nobody]
  /\ clientsMu = Free /\ cleaner = "idle"
  /\ hubRunning = FALSE /\ hubStopped = FALSE /\ hubStarts = 0
  /\ told = {}

Goto(v, l) == at' = [at EXCEPT ![v] = l]

-----------------------------------------------------------------------------
(* The hub.                                                                *)

\* Start makes no new stopCh: after a Stop the loops it starts end at once, the
\* event bus among them.
StartHub ==
  /\ ~hubRunning /\ hubStarts < MaxHubStarts
  /\ hubRunning' = TRUE /\ hubStarts' = hubStarts + 1
  /\ UNCHANGED <<active, at, feed, viewers, clientsMu, cleaner, hubStopped>>
\* A second Stop would close the closed stopCh and panic: it is not made.
StopHub ==
  /\ hubRunning /\ ~hubStopped
  /\ hubRunning' = FALSE /\ hubStopped' = TRUE
  /\ UNCHANGED <<active, at, feed, viewers, clientsMu, cleaner, hubStarts>>
BusRuns == hubRunning /\ ~hubStopped

\* handleEvent of the bus starts a goroutine for each handler.
Tell(e) ==
  /\ BusRuns /\ e \notin told
  /\ told' = told \union {e}
  /\ invoked' = invoked \union {[viewer |-> v, event |-> e] : v \in handlers}
  /\ UNCHANGED <<active, at, viewLoop, handlers, eventCh, updateCh, shown, missed, viewers,
                 clientsMu, cleaner, lifecycle>>

\* cleanupTask, while the hub runs: clients that are not active.
LockCleanup ==
  /\ BusRuns /\ cleaner = "idle" /\ clientsMu = Free
  /\ cleaner' = "cleaning" /\ clientsMu' = "cleaner"
  /\ UNCHANGED <<active, at, feed, viewers, lifecycle>>
Cleanup ==
  /\ cleaner = "cleaning"
  /\ viewers' = [i \in Ids |-> IF viewers[i] # Nobody /\ ~active[viewers[i]] THEN Nobody
                               ELSE viewers[i]]
  /\ cleaner' = "idle" /\ clientsMu' = Free
  /\ UNCHANGED <<active, at, feed, lifecycle>>

-----------------------------------------------------------------------------
(* A viewer.                                                               *)

\* RegisterTUIClient replaces a client with the same ID.
RegisterTUIClient(v) ==
  /\ at[v] = "made" /\ clientsMu = Free
  /\ viewers' = [viewers EXCEPT ![IdOf[v]] = v]
  /\ Goto(v, "registered")
  /\ UNCHANGED <<active, feed, clientsMu, cleaner, lifecycle>>

Start(v) ==
  /\ at[v] = "registered"
  /\ handlers' = handlers \union {v}
  /\ viewLoop' = [viewLoop EXCEPT ![v] = "on"]
  /\ Goto(v, "started")
  /\ UNCHANGED <<active, eventCh, updateCh, invoked, shown, missed, told, viewers, clientsMu,
                 cleaner, lifecycle>>

\* Its handler stays subscribed when it is closed.
HandleEvent(x) ==
  LET v == x.viewer
      full == Len(eventCh[v]) = ViewCapacity
  IN  /\ x \in invoked
      /\ invoked' = invoked \ {x}
      /\ IF full THEN missed' = [missed EXCEPT ![v] = @ \union {x.event}] /\ UNCHANGED eventCh
                 ELSE eventCh' = [eventCh EXCEPT ![v] = Append(@, x.event)] /\ UNCHANGED missed
      /\ UNCHANGED <<active, at, viewLoop, handlers, updateCh, shown, told, viewers, clientsMu,
                     cleaner, lifecycle>>

\* processEvents picks among stopCh and the events.
Ended(v) == ~active[v]
ProcessEvent(v) ==
  /\ viewLoop[v] = "on" /\ eventCh[v] # <<>>
  /\ LET e == Head(eventCh[v])
         full == Len(updateCh[v]) = ViewCapacity
     IN  /\ eventCh' = [eventCh EXCEPT ![v] = Tail(@)]
         /\ IF full THEN missed' = [missed EXCEPT ![v] = @ \union {e}] /\ UNCHANGED updateCh
                    ELSE updateCh' = [updateCh EXCEPT ![v] = Append(@, e)] /\ UNCHANGED missed
  /\ UNCHANGED <<active, at, viewLoop, handlers, invoked, shown, told, viewers, clientsMu, cleaner,
                 lifecycle>>
EndLoop(v) ==
  /\ viewLoop[v] = "on" /\ Ended(v)
  /\ viewLoop' = [viewLoop EXCEPT ![v] = "off"]
  /\ UNCHANGED <<active, at, handlers, eventCh, updateCh, invoked, shown, missed, told, viewers,
                 clientsMu, cleaner, lifecycle>>
TakeUpdate(v) ==
  /\ updateCh[v] # <<>>
  /\ shown' = [shown EXCEPT ![v] = @ \union {Head(updateCh[v])}]
  /\ updateCh' = [updateCh EXCEPT ![v] = Tail(@)]
  /\ UNCHANGED <<active, at, viewLoop, handlers, eventCh, invoked, missed, told, viewers, clientsMu,
                 cleaner, lifecycle>>

\* Close wins the flag, closes stopCh and asks the hub to unregister its ID.
SetsFlagLater(v) == UNCHANGED active  \* bug: the flag is only tested
WinsFlag(v) == active' = [active EXCEPT ![v] = FALSE]
Close(v) ==
  /\ at[v] \in {"registered", "started"} /\ active[v]
  /\ WinsFlag(v)
  /\ Goto(v, "lock")
  /\ UNCHANGED <<feed, viewers, clientsMu, cleaner, lifecycle>>

\* UnregisterTUIClient: under the lock, the client of the ID is closed and deleted.
\* Its Close does nothing when it is not active; otherwise it unregisters in turn,
\* which takes the lock again.
Lock(v) ==
  /\ at[v] = "lock" /\ clientsMu = Free
  /\ clientsMu' = v
  /\ Goto(v, "unregister")
  /\ UNCHANGED <<active, feed, viewers, cleaner, lifecycle>>
Unregister(v) ==
  LET c == viewers[IdOf[v]]
  IN  /\ at[v] = "unregister"
      /\ IF c # Nobody /\ active[c]
         THEN /\ active' = [active EXCEPT ![c] = FALSE]
              /\ Goto(v, "lock")
              /\ UNCHANGED <<viewers, clientsMu>>
         ELSE /\ viewers' = [viewers EXCEPT ![IdOf[v]] = Nobody]
              /\ clientsMu' = Free
              /\ Goto(v, "closed")
              /\ UNCHANGED active
      /\ UNCHANGED <<feed, cleaner, lifecycle>>

-----------------------------------------------------------------------------
View(v) == \/ RegisterTUIClient(v) \/ Start(v) \/ ProcessEvent(v) \/ EndLoop(v) \/ TakeUpdate(v)
           \/ Close(v) \/ Lock(v) \/ Unregister(v)
Next == \/ StartHub \/ StopHub \/ LockCleanup \/ Cleanup
        \/ \E e \in News : Tell(e)
        \/ \E x \in invoked : HandleEvent(x)
        \/ \E v \in Viewers : View(v)

Spec == Init /\ [][Next]_viewVars

-----------------------------------------------------------------------------
(* Properties.                                                             *)

ViewTypeOK ==
  /\ active \in [Viewers -> BOOLEAN]
  /\ at \in [Viewers -> {"made", "registered", "started", "lock", "unregister", "closed"}]
  /\ viewLoop \in [Viewers -> {"none", "on", "off"}] /\ handlers \subseteq Viewers
  /\ \A v \in Viewers : Len(eventCh[v]) <= ViewCapacity /\ Len(updateCh[v]) <= ViewCapacity
  /\ invoked \subseteq [viewer : Viewers, event : News]
  /\ shown \in [Viewers -> SUBSET News] /\ missed \in [Viewers -> SUBSET News]
  /\ viewers \in [Ids -> Viewers \union {Nobody}]
  /\ clientsMu \in Viewers \union {Free, "cleaner"} /\ cleaner \in {"idle", "cleaning"}
  /\ {hubRunning, hubStopped} \subseteq BOOLEAN /\ hubStarts \in 0..MaxHubStarts
  /\ told \subseteq News

\* Close and UnregisterTUIClient call each other (helpers.go:336-342, hub.go:542-551)
\* and the mutex is not reentrant: nobody asks for clientsMu while holding it, which
\* only the order of the flag and the call ensures.
NoSelfWait == \A v \in Viewers : ~(at[v] = "lock" /\ clientsMu = v)
=============================================================================
