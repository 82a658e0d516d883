----------------------------- MODULE TaskManager ----------------------------
(***************************************************************************)
(* The task manager (crawler/task/manager.go): instances of tasks, in      *)
(* memory and in Redis, a bounded channel and a worker that allocates them *)
(* to nodes, the states nodes report, and the monitor and cleanup timers.  *)
(***************************************************************************)
EXTENDS Integers, FiniteSets, Sequences

CONSTANTS
  Instances,    \* instance IDs
  AllocNodes,   \* nodes the node manager offers
  ChanSize,     \* capacity of taskChan (100)
  MaxMgrFaults  \* bound on failed saves, failed allocations and crashes

VARIABLES
  table,      \* instances in tm.tasks
  state,      \* their State
  node,       \* their NodeID
  started,    \* those with StartedAt
  ended,      \* those with CompletedAt
  saved,      \* the state in <prefix>:instance:<id>
  savedMarks, \* which of StartedAt and CompletedAt are saved with it
  taskChan,   \* the channel
  allocating, \* what the worker has taken from it
  load,       \* load the node manager was told, per node
  counters,   \* active, completed and failed tasks
  marked,     \* starts and ends that were set in this life
  mgrFaults

mgrVars == <<table, state, node, started, ended, saved, savedMarks, taskChan, allocating,
             load, counters, marked, mgrFaults>>

NoInstance == "no instance"
NoNode     == "no node"
States     == {"none", "created", "allocated", "running", "paused", "completed", "failed",
               "cancelled", "timeout"}
Reported   == States \ {"none", "created", "allocated"}

Init ==
  /\ table = {} /\ started = {} /\ ended = {} /\ marked = {}
  /\ state = [i \in Instances |-> "none"] /\ node = [i \in Instances |-> NoNode]
  /\ saved = [i \in Instances |-> "none"] /\ savedMarks = [i \in Instances |-> {}]
  /\ taskChan = <<>> /\ allocating = NoInstance
  /\ load = [n \in AllocNodes |-> 0]
  /\ counters = [active |-> 0, completed |-> 0, failed |-> 0]
  /\ mgrFaults = 0

\* saveInstance, which may fail: what is in Redis is then what was there. An
\* instance is saved with its two times.
Save(i, s, st, en) ==
  \/ /\ saved' = [saved EXCEPT ![i] = s]
     /\ savedMarks' = [savedMarks EXCEPT ![i] =
          (IF i \in st THEN {"started"} ELSE {}) \union (IF i \in en THEN {"ended"} ELSE {})]
     /\ UNCHANGED mgrFaults
  \/ /\ mgrFaults < MaxMgrFaults
     /\ mgrFaults' = mgrFaults + 1
     /\ UNCHANGED <<saved, savedMarks>>

\* A send that does not wait: a full channel drops the instance.
Offer(i, q) == IF Len(q) < ChanSize THEN Append(q, i) ELSE q

\* CreateInstance and CreateInstanceFromTemplate.
CreateInstance(i) ==
  /\ state[i] = "none" /\ saved[i] = "none"
  /\ table' = table \union {i}
  /\ state' = [state EXCEPT ![i] = "created"]
  /\ Save(i, "created", started, ended)
  /\ taskChan' = Offer(i, taskChan)
  /\ UNCHANGED <<node, started, ended, allocating, load, counters, marked>>

\* UpdateState: the counters follow the first start and the first end; a
\* timeout counts as neither. The state is overwritten whatever it was.
CountsAgain(s, i) ==  \* bug: the ends are not told apart
  [counters EXCEPT !.completed = IF s = "completed" THEN @ + 1 ELSE @,
                   !.failed    = IF s = "failed" THEN @ + 1 ELSE @,
                   !.active    = IF s = "running" /\ i \notin started THEN @ + 1
                                 ELSE IF s \in {"completed", "failed"} THEN @ - 1 ELSE @]
Counted(s, i) ==
  LET ends == s \in {"completed", "failed"} /\ i \notin ended
  IN  [active    |-> counters.active + (IF s = "running" /\ i \notin started THEN 1 ELSE 0)
                                     - (IF ends THEN 1 ELSE 0),
       completed |-> counters.completed + (IF ends /\ s = "completed" THEN 1 ELSE 0),
       failed    |-> counters.failed + (IF ends /\ s = "failed" THEN 1 ELSE 0)]
UpdateState(i, s) ==
  LET st == IF s = "running" THEN started \union {i} ELSE started
      en == IF s \in {"completed", "failed"} THEN ended \union {i} ELSE ended
  IN  /\ i \in table
      /\ state' = [state EXCEPT ![i] = s]
      /\ started' = st /\ ended' = en
      /\ counters' = Counted(s, i)
      /\ marked' = marked \union ((st \ started) \X {"started"}) \union ((en \ ended) \X {"ended"})
      /\ Save(i, s, st, en)
      /\ UNCHANGED <<table, node, taskChan, allocating, load>>

\* The monitor, for an instance that runs too long.
TimesOut(i) == state[i] = "running" /\ i \in started /\ UpdateState(i, "timeout")

\* allocationWorker takes an instance; then AllocateTask, which sets the state
\* whatever was reported meanwhile and does not save the instance.
Take ==
  /\ allocating = NoInstance /\ taskChan # <<>>
  /\ allocating' = Head(taskChan) /\ taskChan' = Tail(taskChan)
  /\ UNCHANGED <<table, state, node, started, ended, saved, savedMarks, load, counters,
                 marked, mgrFaults>>
AllocateTask(n) ==
  LET i == allocating
  IN  /\ i \in table
      /\ node' = [node EXCEPT ![i] = n] /\ state' = [state EXCEPT ![i] = "allocated"]
      /\ load' = [load EXCEPT ![n] = @ + 1]
      /\ allocating' = NoInstance
      /\ UNCHANGED <<table, started, ended, saved, savedMarks, taskChan, counters, marked,
                     mgrFaults>>

\* No node, or no instance in memory or Redis: the worker sleeps and offers it
\* again.
AllocateFails ==
  /\ allocating # NoInstance
  /\ mgrFaults < MaxMgrFaults
  /\ mgrFaults' = mgrFaults + 1
  /\ taskChan' = Offer(allocating, taskChan)
  /\ allocating' = NoInstance
  /\ UNCHANGED <<table, state, node, started, ended, saved, savedMarks, load, counters, marked>>

\* GetInstance of an instance that is only in Redis.
GetInstance(i) ==
  /\ i \notin table /\ saved[i] # "none"
  /\ table' = table \union {i}
  /\ state' = [state EXCEPT ![i] = saved[i]]
  /\ node' = [node EXCEPT ![i] = NoNode]
  /\ started' = IF "started" \in savedMarks[i] THEN started \union {i} ELSE started
  /\ ended' = IF "ended" \in savedMarks[i] THEN ended \union {i} ELSE ended
  /\ UNCHANGED <<saved, savedMarks, taskChan, allocating, load, counters, marked, mgrFaults>>

\* Cleanup, a day after the end; Redis forgets the key by then too.
Cleanup(i) ==
  /\ i \in table \intersect ended
  /\ table' = table \ {i}
  /\ UNCHANGED <<state, node, started, ended, saved, savedMarks, taskChan, allocating, load,
                 counters, marked, mgrFaults>>

\* The process ends and starts: only running and allocated instances come back.
Restart ==
  LET back == {i \in Instances : saved[i] \in {"running", "allocated"}}
  IN  /\ mgrFaults < MaxMgrFaults
      /\ mgrFaults' = mgrFaults + 1
      /\ table' = back /\ marked' = {}
      /\ state' = [i \in Instances |-> IF i \in back THEN saved[i] ELSE "none"]
      /\ node' = [i \in Instances |-> NoNode]
      /\ started' = {i \in back : "started" \in savedMarks[i]}
      /\ ended' = {i \in back : "ended" \in savedMarks[i]}
      /\ taskChan' = <<>> /\ allocating' = NoInstance
      /\ counters' = [active |-> 0, completed |-> 0, failed |-> 0]
      /\ UNCHANGED <<saved, savedMarks, load>>

Next ==
  \/ \E i \in Instances :
       \/ CreateInstance(i) \/ TimesOut(i) \/ GetInstance(i) \/ Cleanup(i)
       \/ \E s \in Reported : UpdateState(i, s)
  \/ Take \/ AllocateFails \/ Restart
  \/ \E n \in AllocNodes : AllocateTask(n)
Spec == Init /\ [][Next]_mgrVars

-----------------------------------------------------------------------------
(* Properties.                                                             *)

MgrTypeOK ==
  /\ table \subseteq Instances /\ started \subseteq Instances /\ ended \subseteq Instances
  /\ state \in [Instances -> States] /\ saved \in [Instances -> States]
  /\ node \in [Instances -> AllocNodes \union {NoNode}]
  /\ savedMarks \in [Instances -> SUBSET {"started", "ended"}]
  /\ taskChan \in Seq(Instances) /\ Len(taskChan) <= ChanSize
  /\ allocating \in Instances \union {NoInstance}
  /\ marked \subseteq Instances \X {"started", "ended"}
  /\ mgrFaults \in 0..MaxMgrFaults

\* Whatever order states are reported in, and however often, an instance of this
\* life is counted as started once and as ended once: repeated, contradicting
\* and late reports leave the counters alone (manager.go:286-349).
CountedOnce ==
  /\ counters.completed + counters.failed = Cardinality((Instances \X {"ended"}) \intersect marked)
  /\ counters.active = Cardinality((Instances \X {"started"}) \intersect marked)
                         - counters.completed - counters.failed
=============================================================================
