----------------------------- MODULE Dispatcher -----------------------------
(***************************************************************************)
(* The task dispatcher of crawler/task/dispatcher.go on its in-memory      *)
(* PriorityQueue (crawler/task/queue.go): goroutines that submit tasks, the *)
(* dispatch loop that takes a snapshot of the available nodes, pops a      *)
(* batch and assigns it task by task, the coordinator's sync that replaces *)
(* the NodeInfo objects, and the health monitor.                           *)
(*                                                                         *)
(* The snapshot holds pointers. A sync in the middle of a batch puts a new *)
(* object in the dispatcher's map; the snapshot goes on reading the old    *)
(* one, whose load no longer changes.                                      *)
(***************************************************************************)
EXTENDS Integers, FiniteSets, SequencesExt

CONSTANTS
  Tasks,
  Nodes,
  NoNode,         \* a task's NodeID before any assignment
  Priority,       \* Task.Priority as submitted
  Seeds,          \* tasks of type "seed"
  Url,            \* Task.URL, a sequence of bytes
  HashBits,       \* width of Go's int (64)
  Capacity,       \* NodeInfo.Capacity
  QueueCapacity,  \* capacity of each MemoryQueue (1000)
  BatchSize,      \* DispatcherConfig.BatchSize
  Strategy,       \* DispatcherConfig.Strategy
  NodesFail,      \* may nodes miss heartbeats, leave or stop being active?
  MaxFails        \* bound on failed pipelines

LevelsFromNormal == 1..3  \* bug: PriorityLow missing from the list
Levels == 0..3            \* PriorityLow..PriorityUrgent
High   == 2

ASSUME TasksAssumption == IsFiniteSet(Tasks) /\ Seeds \subseteq Tasks
ASSUME NodesAssumption == IsFiniteSet(Nodes) /\ NoNode \notin Nodes
ASSUME SizesAssumption == /\ Priority \in [Tasks -> Int]
                          /\ Capacity \in [Nodes -> Nat]
                          /\ QueueCapacity \in Nat
                          /\ BatchSize \in Nat
                          /\ MaxFails \in Nat
                          /\ NodesFail \in BOOLEAN
ASSUME HashAssumption  == HashBits \in Nat \ {0} /\ Url \in [Tasks -> Seq(0..255)]
ASSUME StrategyAssumption == Strategy \in {"least_load", "round_robin", "hash", "sticky"}

VARIABLES
  queues,      \* PriorityQueue.queues
  counter,     \* PriorityQueue.counter
  fate,        \* what became of each submission
  phase,       \* where dispatchBatch is; "down" after a panic
  batch,       \* popped tasks not yet dispatched
  snapshot,    \* the nodes of this batch, in the map's iteration order
  frozen,      \* loads of the snapshot's objects that were replaced
  load,        \* CurrentLoad in Dispatcher.nodes
  status,      \* Status in Dispatcher.nodes, "none" when absent
  recent,      \* was the last heartbeat less than 30 s ago?
  nodeID,      \* Task.NodeID
  handed,      \* LPUSHes of the task on a node's list
  failures     \* pipelines that returned an error

queue    == <<queues, counter>>
dispatch == <<phase, batch, snapshot, frozen>>
registry == <<load, status, recent>>
vars     == <<queue, fate, dispatch, registry, nodeID, handed, failures>>

-----------------------------------------------------------------------------
(* Hash of a URL, in an int of HashBits bits.                              *)

Wrap(x) == LET m == x % 2^HashBits
           IN IF m >= 2^(HashBits - 1) THEN m - 2^HashBits ELSE m
Hash(url) == FoldLeft(LAMBDA h, b : Wrap(h * 31 + b), 0, url)

\* Go's %: the remainder has the sign of the dividend.
Remainder(h, n) == IF h >= 0 THEN h % n ELSE -((-h) % n)

-----------------------------------------------------------------------------
(* PriorityQueue.                                                          *)

Level(t)  == IF t \in Seeds THEN High ELSE Priority[t]
AllLevels == Levels \union {Level(t) : t \in Tasks}

Room(t) == Len(queues[Level(t)]) < QueueCapacity

PushTo(t) == IF Room(t) THEN queues' = [queues EXCEPT ![Level(t)] = Append(@, t)]
                        ELSE UNCHANGED queues

\* The counter goes up before MemoryQueue.Push may refuse.
Push(t) == counter' = counter + 1 /\ PushTo(t)

\* Pop looks at the four named levels only.
Highest(l) == /\ l \in Levels /\ queues[l] # <<>>
              /\ \A k \in Levels : k > l => queues[k] = <<>>

-----------------------------------------------------------------------------
Init ==
  /\ queues = [l \in AllLevels |-> <<>>] /\ counter = 0
  /\ fate = [t \in Tasks |-> "new"]
  /\ phase = "waiting" /\ batch = <<>> /\ snapshot = <<>> /\ frozen = <<>>
  /\ load = [n \in Nodes |-> 0]
  /\ status = [n \in Nodes |-> "none"]
  /\ recent = [n \in Nodes |-> FALSE]
  /\ nodeID = [t \in Tasks |-> NoNode]
  /\ handed = [t \in Tasks |-> 0]
  /\ failures = 0

Submit(t) ==
  /\ fate[t] = "new"
  /\ Push(t)
  /\ fate' = [fate EXCEPT ![t] = IF Room(t) THEN "accepted" ELSE "refused"]
  /\ UNCHANGED <<dispatch, registry, nodeID, handed, failures>>

\* SubmitBatch pushes one task at a time, without a lock around the loop. The
\* model has one such call at a time.
SubmitBatch(ts) ==
  /\ \A t \in Tasks : fate[t] # "submitting"
  /\ \A t \in ts : fate[t] = "new"
  /\ fate' = [t \in Tasks |-> IF t \in ts THEN "submitting" ELSE fate[t]]
  /\ UNCHANGED <<queue, dispatch, registry, nodeID, handed, failures>>

\* The first push that fails ends the loop.
PushNext(t) ==
  /\ fate[t] = "submitting"
  /\ Push(t)
  /\ fate' = IF Room(t) THEN [fate EXCEPT ![t] = "accepted"]
             ELSE [u \in Tasks |-> IF fate[u] = "submitting" THEN "refused" ELSE fate[u]]
  /\ UNCHANGED <<dispatch, registry, nodeID, handed, failures>>

-----------------------------------------------------------------------------
(* The dispatch loop.                                                      *)

AvailableAtAnyLoad ==  \* bug: the capacity is not looked at
  {n \in Nodes : status[n] = "active" /\ recent[n]}
Available == {n \in Nodes : status[n] = "active" /\ recent[n] /\ load[n] < Capacity[n]}

\* A Go map is iterated in a random order.
GetAvailableNodes ==
  /\ phase = "waiting"
  /\ Available # {}
  /\ snapshot' \in SetToSeqs(Available)
  /\ frozen' = <<>> /\ batch' = <<>>
  /\ phase' = "popping"
  /\ UNCHANGED <<queue, fate, registry, nodeID, handed, failures>>

\* One Pop of PopN; each takes the queue's lock anew.
Take(l) ==
  /\ phase = "popping" /\ Len(batch) < BatchSize
  /\ Highest(l)
  /\ counter' = counter - 1
  /\ batch' = Append(batch, Head(queues[l]))
  /\ UNCHANGED <<fate, phase, snapshot, frozen, registry, nodeID, handed, failures>>
PopPeeks(l) == Take(l) /\ UNCHANGED queues  \* bug: Peek for Pop
Pop(l) == Take(l) /\ queues' = [queues EXCEPT ![l] = Tail(@)]

\* The batch has been dealt with: its locals are gone.
Return == phase' = "waiting" /\ snapshot' = <<>> /\ frozen' = <<>>

\* No more tasks to pop: dispatch the batch, or return if it is empty.
Popped ==
  /\ phase = "popping"
  /\ Len(batch) = BatchSize \/ \A l \in Levels : queues[l] = <<>>
  /\ UNCHANGED <<queue, fate, batch, registry, nodeID, handed, failures>>
PopDoneAlways ==  \* bug: an empty batch is not looked for
  Popped /\ phase' = "dispatching" /\ UNCHANGED <<snapshot, frozen>>
PopDone ==
  /\ Popped
  /\ IF batch = <<>> THEN Return ELSE phase' = "dispatching" /\ UNCHANGED <<snapshot, frozen>>

Seen(n) == IF n \in DOMAIN frozen THEN frozen[n] ELSE load[n]

\* Indices of the snapshot among which selectLeastLoadNode looks, and the one
\* it returns: the first with the least load.
WithRoom == {i \in 1..Len(snapshot) : Seen(snapshot[i]) < Capacity[snapshot[i]]}
Least(i) == /\ i \in WithRoom
            /\ \A j \in WithRoom : \/ Seen(snapshot[i]) < Seen(snapshot[j])
                                   \/ Seen(snapshot[i]) = Seen(snapshot[j]) /\ i <= j

\* No code sets the "preferred_node" that selectStickyNode looks for: it falls
\* back to the hash.
HashIndex(t) == 1 + Remainder(Hash(Url[t]), Len(snapshot))

Selects(t, i) == CASE Strategy = "least_load"  -> Least(i)
                   [] Strategy = "round_robin" -> i \in 1..Len(snapshot)
                   [] OTHER                    -> i = HashIndex(t) /\ i > 0

\* The next task of the batch, done with.
DoneWithAll == batch' = <<>> /\ Return  \* bug: break for continue
Done == /\ batch' = Tail(batch)
        /\ IF Len(batch) = 1 THEN Return ELSE UNCHANGED <<phase, snapshot, frozen>>

\* assignTask: the pipeline succeeds, and the object now in the map counts it.
Assign(t, n) ==
  /\ Done
  /\ nodeID' = [nodeID EXCEPT ![t] = n]
  /\ handed' = [handed EXCEPT ![t] = @ + 1]
  /\ load' = IF status[n] = "none" THEN load ELSE [load EXCEPT ![n] = @ + 1]
  /\ UNCHANGED <<queue, fate, status, recent, failures>>

\* The pipeline fails, before or after the LPUSH took effect; the error of the
\* push back is ignored.
AssignFails(t, n) ==
  /\ failures < MaxFails
  /\ Done
  /\ nodeID' = [nodeID EXCEPT ![t] = n]
  /\ handed' \in {handed, [handed EXCEPT ![t] = @ + 1]}
  /\ failures' = failures + 1
  /\ Push(t)
  /\ UNCHANGED <<fate, registry>>

\* No suitable node: push back.
PutBack(t) ==
  /\ Done
  /\ Strategy = "least_load" /\ WithRoom = {}
  /\ Push(t)
  /\ UNCHANGED <<fate, registry, nodeID, handed, failures>>

\* nodes[index] with a negative index ends the process.
Panic(t) ==
  /\ Strategy \in {"hash", "sticky"} /\ HashIndex(t) <= 0
  /\ phase' = "down"
  /\ UNCHANGED <<queue, fate, batch, snapshot, frozen, registry, nodeID, handed, failures>>

DispatchTask ==
  /\ phase = "dispatching"
  /\ LET t == Head(batch)
     IN \/ \E i \in 1..Len(snapshot) :
             Selects(t, i) /\ (Assign(t, snapshot[i]) \/ AssignFails(t, snapshot[i]))
        \/ PutBack(t)
        \/ Panic(t)

\* A new process starts with nothing in memory.
Restart ==
  /\ phase = "down"
  /\ queues' = [l \in AllLevels |-> <<>>] /\ counter' = 0
  /\ phase' = "waiting" /\ batch' = <<>> /\ snapshot' = <<>> /\ frozen' = <<>>
  /\ load' = [n \in Nodes |-> 0]
  /\ status' = [n \in Nodes |-> "none"]
  /\ recent' = [n \in Nodes |-> FALSE]
  /\ fate' = [t \in Tasks |-> IF fate[t] = "submitting" THEN "refused" ELSE fate[t]]
  /\ UNCHANGED <<nodeID, handed, failures>>

-----------------------------------------------------------------------------
(* The nodes.                                                              *)

\* The object of n leaves the map; a snapshot that holds it goes on reading it.
Detach(n) ==
  frozen' = IF n \in ToSet(snapshot) /\ n \notin DOMAIN frozen
            THEN [m \in DOMAIN frozen \union {n} |-> IF m = n THEN load[n] ELSE frozen[m]]
            ELSE frozen

\* RegisterNode: a new object whose load is 0. The heartbeat that performNodeSync
\* adds for an active node carries load 0 too.
RegisterNode(n, s) ==
  /\ s = "active" \/ NodesFail
  /\ Detach(n)
  /\ load' = [load EXCEPT ![n] = 0]
  /\ status' = [status EXCEPT ![n] = s]
  /\ recent' = [recent EXCEPT ![n] = TRUE]
  /\ UNCHANGED <<queue, fate, phase, batch, snapshot, nodeID, handed, failures>>

UnregisterNode(n) ==
  /\ NodesFail /\ status[n] # "none"
  /\ Detach(n)
  /\ load' = [load EXCEPT ![n] = 0]
  /\ status' = [status EXCEPT ![n] = "none"]
  /\ recent' = [recent EXCEPT ![n] = FALSE]
  /\ UNCHANGED <<queue, fate, phase, batch, snapshot, nodeID, handed, failures>>

\* No sync for 30 s.
MissHeartbeats(n) ==
  /\ NodesFail /\ recent[n]
  /\ recent' = [recent EXCEPT ![n] = FALSE]
  /\ UNCHANGED <<queue, fate, dispatch, load, status, nodeID, handed, failures>>

\* No sync for 60 s.
CheckNodeHealth(n) ==
  /\ status[n] # "none" /\ ~recent[n]
  /\ status' = [status EXCEPT ![n] = "dead"]
  /\ UNCHANGED <<queue, fate, dispatch, load, recent, nodeID, handed, failures>>

DispatchLoop == GetAvailableNodes \/ (\E l \in Levels : Pop(l)) \/ PopDone \/ DispatchTask

Running ==
  \/ \E t \in Tasks : Submit(t) \/ PushNext(t)
  \/ \E ts \in SUBSET (Tasks \ Seeds) : ts # {} /\ SubmitBatch(ts)
  \/ DispatchLoop
  \/ \E n \in Nodes : \/ \E s \in {"active", "inactive"} : RegisterNode(n, s)
                      \/ UnregisterNode(n) \/ MissHeartbeats(n) \/ CheckNodeHealth(n)

Next == (phase # "down" /\ Running) \/ Restart

Spec == Init /\ [][Next]_vars

\* The loop runs every second and the sync every five.
FairSpec == /\ Spec
            /\ WF_vars(DispatchLoop)
            /\ \A t \in Tasks : WF_vars(PushNext(t))
            /\ \A n \in Nodes : WF_vars(RegisterNode(n, "active"))

-----------------------------------------------------------------------------
(* Properties.                                                             *)

\* Types of the state (Dispatcher and NodeInfo, dispatcher.go:26-65).
TypeOK ==
  /\ queues \in [AllLevels -> Seq(Tasks)]
  /\ counter \in Int
  /\ fate \in [Tasks -> {"new", "submitting", "accepted", "refused"}]
  /\ phase \in {"waiting", "popping", "dispatching", "down"}
  /\ batch \in Seq(Tasks) /\ Len(batch) <= BatchSize
  /\ phase = "dispatching" => batch # <<>>
  /\ snapshot \in Seq(Nodes)
  /\ DOMAIN frozen \subseteq Nodes /\ \A n \in DOMAIN frozen : frozen[n] \in Nat
  /\ load \in [Nodes -> Nat]
  /\ status \in [Nodes -> {"none", "active", "inactive", "dead"}]
  /\ recent \in [Nodes -> BOOLEAN]
  /\ nodeID \in [Tasks -> Nodes \union {NoNode}]
  /\ handed \in [Tasks -> Nat]
  /\ failures \in 0..MaxFails

Queued(t)   == t \in ToSet(queues[Level(t)])
InBatch(t)  == t \in ToSet(batch)
InMemory(t) == Queued(t) \/ InBatch(t)

\* However submissions, pops and push-backs interleave, the dispatcher holds a
\* task at most once, and a task is handed out twice only after a pipeline
\* reported an error for an LPUSH that took effect (assignTask, 397-428).
Once(s) == \A i, j \in DOMAIN s : s[i] = s[j] => i = j
CopiesBounded ==
  /\ \A l \in AllLevels : Once(queues[l])
  /\ Once(batch)
  /\ \A t \in Tasks : /\ ~(Queued(t) /\ InBatch(t))
                      /\ handed[t] <= failures + (IF InMemory(t) THEN 0 ELSE 1)

\* The snapshot of the nodes is stale while the batch is dispatched, and a sync
\* resets loads behind it: a node may get more tasks than it has room for, but
\* the excess is less than one batch (getAvailableNodes, 444-447).
LoadBounded == \A n \in Nodes : load[n] > 0 => load[n] < Capacity[n] + BatchSize

Total == FoldFunction(LAMBDA x, y : x + y, 0, [l \in AllLevels |-> Len(queues[l])])

\* While the queues have room, a task whose submission succeeded is in the
\* dispatcher or on a node's list: the batch loop drops none, with failing
\* pipelines and without a suitable node (dispatchBatch, 301-321).
Kept == \A t \in Tasks : fate[t] = "accepted" => InMemory(t) \/ handed[t] > 0

\* Such a task is eventually handed to a node, when the nodes stay and its level
\* is one that Pop visits.
EventuallyHanded == \A t \in Tasks : fate[t] = "accepted" ~> handed[t] > 0

-----------------------------------------------------------------------------
(* What the comments say.                                                  *)

\* "Size returns total queue size" (queue.go:151).
SizeIsTotal == counter = Total

\* "Pop retrieves highest priority task" (queue.go:96).
PopTakesHighest ==
  [][counter' < counter => \E t \in Tasks : /\ Queued(t) /\ ~Queued(t)'
                                           /\ \A u \in Tasks : Queued(u) => Level(u) <= Level(t)]_vars

\* "Return to queue" (dispatcher.go:317): a task that leaves the batch without
\* an assignment is in the queue again.
ReturnedToQueue ==
  [][\A t \in Tasks : failures' > failures /\ InBatch(t) /\ ~InBatch(t)' => Queued(t)']_vars

\* "selectHashNode selects node based on task hash" (dispatcher.go:358).
HashSelectsNode == phase # "down"

\* "selectStickyNode selects same node for same source" (dispatcher.go:374),
\* when that node is among the available ones.
SameSourceSameNode ==
  [][\A t, u \in Tasks : /\ Url[t] = Url[u] /\ nodeID[u] \in ToSet(snapshot)
                        /\ nodeID'[t] # nodeID[t]
       => nodeID'[t] = nodeID[u]]_vars
=============================================================================
