-------------------------- MODULE DispatcherProofs --------------------------
(***************************************************************************)
(* Proofs about Dispatcher, for every finite set of tasks and of nodes,    *)
(* and every priority, capacity, batch size, strategy and hash.            *)
(***************************************************************************)
EXTENDS Dispatcher, FiniteSetTheorems, SequenceTheorems, TLAPS

-----------------------------------------------------------------------------
(* Lemmas about sequences and the operators of the model.                  *)

\* MemoryQueue.Push adds the task and nothing else (queue.go:216).
LEMMA Appended ==
  ASSUME NEW S, NEW s \in Seq(S), NEW e \in S
  PROVE  /\ Append(s, e) \in Seq(S)
         /\ Len(Append(s, e)) = Len(s) + 1
         /\ ToSet(Append(s, e)) = ToSet(s) \union {e}
         /\ Once(s) /\ e \notin ToSet(s) => Once(Append(s, e))
<1> DEFINE a == Append(s, e)
<1>1. a \in Seq(S) /\ Len(a) = Len(s) + 1 /\ a[Len(s) + 1] = e
      /\ \A i \in 1..Len(s) : a[i] = s[i]
  BY AppendProperties
<1>2. DOMAIN a = 1..(Len(s) + 1) /\ DOMAIN s = 1..Len(s) /\ Len(s) \in Nat
  BY <1>1
<1>3. ToSet(a) = ToSet(s) \union {e}
  <2>1. ASSUME NEW x \in ToSet(a) PROVE x \in ToSet(s) \union {e}
    BY <1>1, <1>2, <2>1 DEF ToSet
  <2>2. ASSUME NEW x \in ToSet(s) \union {e} PROVE x \in ToSet(a)
    BY <1>1, <1>2, <2>2 DEF ToSet
  <2> QED
    BY <2>1, <2>2
<1>4. ASSUME Once(s), e \notin ToSet(s) PROVE Once(a)
  BY <1>1, <1>2, <1>4 DEF Once, ToSet
<1> QED
  BY <1>1, <1>3, <1>4

\* MemoryQueue.Pop removes the first task and nothing else (queue.go:246-247).
LEMMA Popped1 ==
  ASSUME NEW S, NEW s \in Seq(S), s # <<>>
  PROVE  /\ Head(s) \in S /\ Head(s) \in ToSet(s)
         /\ Tail(s) \in Seq(S) /\ Len(Tail(s)) = Len(s) - 1
         /\ ToSet(s) = ToSet(Tail(s)) \union {Head(s)}
         /\ Once(s) => Once(Tail(s)) /\ Head(s) \notin ToSet(Tail(s))
<1> DEFINE r == Tail(s)
<1>1. /\ r \in Seq(S) /\ Len(r) = Len(s) - 1 /\ Head(s) = s[1]
      /\ \A i \in 1..Len(r) : r[i] = s[i + 1]
  BY HeadTailProperties
<1>2. DOMAIN r = 1..(Len(s) - 1) /\ DOMAIN s = 1..Len(s) /\ Len(s) \in Nat \ {0}
  BY <1>1, EmptySeq, LenProperties
<1>3. Head(s) \in S /\ Head(s) \in ToSet(s)
  BY <1>1, <1>2 DEF ToSet
<1>4. ToSet(s) = ToSet(r) \union {Head(s)}
  <2>1. ASSUME NEW i \in DOMAIN s PROVE s[i] \in ToSet(r) \union {Head(s)}
    <3>1. CASE i = 1
      BY <3>1, <1>1
    <3>2. CASE i # 1
      <4>1. i - 1 \in DOMAIN r /\ r[i - 1] = s[i]
        BY <1>1, <1>2, <3>2
      <4> QED
        BY <4>1 DEF ToSet
    <3> QED
      BY <3>1, <3>2
  <2>2. ASSUME NEW i \in DOMAIN r PROVE r[i] \in ToSet(s)
    BY <1>1, <1>2 DEF ToSet
  <2> QED
    BY <2>1, <2>2, <1>3 DEF ToSet
<1>5. ASSUME Once(s) PROVE Once(r) /\ Head(s) \notin ToSet(r)
  <2>1. ASSUME NEW i \in DOMAIN r, NEW j \in DOMAIN r, r[i] = r[j] PROVE i = j
    <3>1. i + 1 \in DOMAIN s /\ j + 1 \in DOMAIN s /\ s[i + 1] = s[j + 1]
      BY <1>1, <1>2, <2>1
    <3> QED
      BY <1>2, <1>5, <3>1 DEF Once
  <2>2. ASSUME NEW i \in DOMAIN r PROVE r[i] # s[1]
    BY <1>1, <1>2, <1>5 DEF Once
  <2> QED
    BY <2>1, <2>2, <1>1 DEF Once, ToSet
<1> QED
  BY <1>1, <1>3, <1>4, <1>5

\* The snapshot is a sequence of available nodes.
LEMMA SnapshotOfAvailable ==
  ASSUME TypeOK, NEW s \in SetToSeqs(Available)
  PROVE  s \in Seq(Nodes) /\ ToSet(s) \subseteq Available
<1>1. IsFiniteSet(Available)
  BY NodesAssumption, FS_Subset DEF Available
<1>2. Cardinality(Available) \in Nat
  BY <1>1, FS_CardinalityType
<1>3. s \in [1..Cardinality(Available) -> Available]
  BY DEF SetToSeqs
<1>4. Available \subseteq Nodes
  BY DEF Available
<1> HIDE DEF Available
<1>5. s \in Seq(Available)
  BY <1>2, <1>3
<1> QED
  BY <1>3, <1>4, <1>5, SeqMonotonic DEF ToSet

LEMMA LevelTyped == ASSUME NEW t \in Tasks PROVE Level(t) \in AllLevels
  BY DEF AllLevels

\* What a push leaves: a queue of tasks, one longer if there was room.
LEMMA PushTyped ==
  ASSUME TypeOK, NEW t \in Tasks, Push(t)
  PROVE  queues' \in [AllLevels -> Seq(Tasks)] /\ counter' \in Int
<1>1. Append(queues[Level(t)], t) \in Seq(Tasks)
  BY LevelTyped DEF TypeOK
<1>2. queues \in [AllLevels -> Seq(Tasks)] /\ counter \in Int
  BY DEF TypeOK
<1>3. CASE Room(t)
  BY <1>1, <1>2, <1>3 DEF Push, PushTo
<1>4. CASE ~Room(t)
  BY <1>2, <1>4 DEF Push, PushTo
<1> QED
  BY <1>3, <1>4

-----------------------------------------------------------------------------
(* Types.                                                                  *)

\* The task a dispatch step is about.
LEMMA HeadOfBatch ==
  ASSUME TypeOK, phase = "dispatching"
  PROVE  /\ Head(batch) \in Tasks /\ Tail(batch) \in Seq(Tasks)
         /\ Len(Tail(batch)) = Len(batch) - 1 /\ Len(batch) \in Nat \ {0}
         /\ Len(batch) # 1 => Tail(batch) # <<>>
<1>1. batch \in Seq(Tasks) /\ batch # <<>>
  BY DEF TypeOK
<1>2. Len(batch) \in Nat \ {0}
  BY <1>1, EmptySeq
<1>3. /\ Head(batch) \in Tasks /\ Tail(batch) \in Seq(Tasks)
      /\ Len(Tail(batch)) = Len(batch) - 1
  BY <1>1, HeadTailProperties
<1>4. Len(batch) # 1 => Tail(batch) # <<>>
  <2>1. Tail(batch) = <<>> => Len(Tail(batch)) = 0
    BY EmptySeq
  <2> QED
    BY <1>2, <1>3, <2>1
<1> QED
  BY <1>2, <1>3, <1>4

\* Done keeps the types of the loop's locals.
LEMMA DoneTyped ==
  ASSUME TypeOK, phase = "dispatching", Done
  PROVE  /\ batch' \in Seq(Tasks) /\ Len(batch') <= BatchSize
         /\ phase' \in {"waiting", "dispatching"}
         /\ phase' = "dispatching" => batch' # <<>>
         /\ snapshot' \in Seq(Nodes)
         /\ DOMAIN frozen' \subseteq Nodes /\ \A n \in DOMAIN frozen' : frozen'[n] \in Nat
<1>1. Len(batch) <= BatchSize
  BY DEF TypeOK
<1>2. batch' \in Seq(Tasks) /\ Len(batch') <= BatchSize
  BY <1>1, HeadOfBatch, SizesAssumption DEF Done
<1>3. CASE Len(batch) = 1
  BY <1>2, <1>3, EmptySeq DEF Done, Return
<1>4. CASE Len(batch) # 1
  <2>1. batch' # <<>> /\ phase' = "dispatching" /\ snapshot' = snapshot /\ frozen' = frozen
    BY <1>4, HeadOfBatch DEF Done
  <2> QED
    BY <1>2, <2>1 DEF TypeOK
<1> QED
  BY <1>3, <1>4

\* An object that leaves the map keeps a load that is a natural number.
LEMMA DetachTyped ==
  ASSUME TypeOK, NEW n \in Nodes, Detach(n)
  PROVE  DOMAIN frozen' \subseteq Nodes /\ \A m \in DOMAIN frozen' : frozen'[m] \in Nat
  BY DEF TypeOK, Detach

LEMMA InitTypeOK == Init => TypeOK
  BY NodesAssumption, SizesAssumption, EmptySeq DEF Init, TypeOK

LEMMA NextTypeOK == TypeOK /\ [Next]_vars => TypeOK'
<1> SUFFICES ASSUME TypeOK, [Next]_vars PROVE TypeOK'
  OBVIOUS
<1> USE SizesAssumption
<1>1. ASSUME NEW t \in Tasks, Submit(t) PROVE TypeOK'
  BY <1>1, PushTyped DEF Submit, TypeOK, dispatch, registry
<1>2. ASSUME NEW t \in Tasks, PushNext(t) PROVE TypeOK'
  BY <1>2, PushTyped DEF PushNext, TypeOK, dispatch, registry
<1>3. ASSUME NEW ts \in SUBSET (Tasks \ Seeds), SubmitBatch(ts) PROVE TypeOK'
  BY <1>3 DEF SubmitBatch, TypeOK, queue, dispatch, registry
<1>4. CASE GetAvailableNodes
  BY <1>4, SnapshotOfAvailable, EmptySeq DEF GetAvailableNodes, TypeOK, queue, registry
<1>5. ASSUME NEW l \in Levels, Pop(l) PROVE TypeOK'
  <2>1. queues[l] \in Seq(Tasks) /\ queues[l] # <<>> /\ l \in AllLevels
    BY <1>5 DEF Pop, Take, Highest, AllLevels, TypeOK
  <2>2. Head(queues[l]) \in Tasks /\ Tail(queues[l]) \in Seq(Tasks)
    BY <2>1, HeadTailProperties
  <2>3. batch' \in Seq(Tasks) /\ Len(batch') = Len(batch) + 1
    BY <1>5, <2>2, AppendProperties DEF Pop, Take, TypeOK
  <2>4. Len(batch') <= BatchSize
    BY <1>5, <2>3, LenProperties DEF Pop, Take, TypeOK
  <2>5. queues' \in [AllLevels -> Seq(Tasks)]
    BY <1>5, <2>1, <2>2 DEF Pop, TypeOK
  <2>6. phase' = "popping"
    BY <1>5 DEF Pop, Take
  <2>7. counter' \in Int
    BY <1>5 DEF Pop, Take, TypeOK
  <2>8. UNCHANGED <<fate, snapshot, frozen, load, status, recent, nodeID, handed, failures>>
    BY <1>5 DEF Pop, Take, registry
  <2> QED
    BY <2>3, <2>4, <2>5, <2>6, <2>7, <2>8 DEF TypeOK
<1>6. CASE PopDone
  BY <1>6, EmptySeq DEF PopDone, Popped, Return, TypeOK, queue, registry
<1>7. ASSUME phase = "dispatching", NEW t \in Tasks, NEW n \in Nodes, Assign(t, n) PROVE TypeOK'
  <2>1. handed' \in [Tasks -> Nat] /\ nodeID' \in [Tasks -> Nodes \union {NoNode}]
    BY <1>7 DEF Assign, TypeOK
  <2>2. load' \in [Nodes -> Nat]
    BY <1>7 DEF Assign, TypeOK
  <2>3. Done
    BY <1>7 DEF Assign
  <2> QED
    BY <1>7, <2>1, <2>2, <2>3, DoneTyped DEF Assign, TypeOK, queue
<1>8. ASSUME phase = "dispatching", NEW t \in Tasks, NEW n \in Nodes, AssignFails(t, n) PROVE TypeOK'
  <2>1. handed' \in [Tasks -> Nat]
    <3>1. [handed EXCEPT ![t] = @ + 1] \in [Tasks -> Nat] /\ handed \in [Tasks -> Nat]
      BY DEF TypeOK
    <3> QED
      BY <1>8, <3>1 DEF AssignFails
  <2>4. failures' \in 0..MaxFails
    BY <1>8 DEF AssignFails, TypeOK
  <2>2. nodeID' \in [Tasks -> Nodes \union {NoNode}]
    BY <1>8 DEF AssignFails, TypeOK
  <2>3. Done /\ Push(t)
    BY <1>8 DEF AssignFails
  <2> QED
    BY <1>8, <2>1, <2>2, <2>3, <2>4, DoneTyped, PushTyped DEF AssignFails, TypeOK, registry
<1>9. ASSUME phase = "dispatching", NEW t \in Tasks, PutBack(t) PROVE TypeOK'
  BY <1>9, DoneTyped, PushTyped DEF PutBack, TypeOK, registry
<1>10. ASSUME phase = "dispatching", NEW t \in Tasks, Panic(t) PROVE TypeOK'
  BY <1>10 DEF Panic, TypeOK, queue, registry
<1>11. CASE Restart
  BY <1>11, EmptySeq DEF Restart, TypeOK
<1>12. ASSUME NEW n \in Nodes, NEW s \in {"active", "inactive"}, RegisterNode(n, s) PROVE TypeOK'
  BY <1>12, DetachTyped DEF RegisterNode, TypeOK, queue
<1>13. ASSUME NEW n \in Nodes, UnregisterNode(n) PROVE TypeOK'
  BY <1>13, DetachTyped DEF UnregisterNode, TypeOK, queue
<1>14. ASSUME NEW n \in Nodes, MissHeartbeats(n) \/ CheckNodeHealth(n) PROVE TypeOK'
  BY <1>14 DEF MissHeartbeats, CheckNodeHealth, TypeOK, queue, dispatch
<1>15. CASE UNCHANGED vars
  BY <1>15 DEF vars, queue, dispatch, registry, TypeOK
<1>16. CASE phase = "dispatching" /\ DispatchTask
  <2>1. \A i \in 1..Len(snapshot) : snapshot[i] \in Nodes
    BY DEF TypeOK
  <2> QED
    BY <1>7, <1>8, <1>9, <1>10, <1>16, <2>1, HeadOfBatch DEF DispatchTask
<1> QED
  BY <1>1, <1>2, <1>3, <1>4, <1>5, <1>6, <1>11, <1>12, <1>13, <1>14, <1>15, <1>16
     DEF Next, Running, DispatchLoop, DispatchTask

\* Every variable keeps its type, whatever fails (Dispatcher and PriorityQueue,
\* dispatcher.go:26-65, queue.go:52-57).
THEOREM DispatcherTypes == Spec => []TypeOK
  BY InitTypeOK, NextTypeOK, PTL DEF Spec

-----------------------------------------------------------------------------
(* Load of the nodes.                                                      *)

\* A snapshot holds nodes that had room when it was taken. While the batch is
\* popped their loads only fall; while it is dispatched each load and what is
\* left of the batch stay below one capacity and one batch.
LoadInv ==
  /\ LoadBounded
  /\ \A n \in ToSet(snapshot) :
       /\ Capacity[n] > 0
       /\ phase = "popping" => load[n] < Capacity[n]
       /\ phase = "dispatching" => load[n] + Len(batch) < Capacity[n] + BatchSize

LEMMA InitLoadInv == Init => LoadInv
  BY DEF Init, LoadInv, LoadBounded, ToSet

LEMMA NextLoadInv == TypeOK /\ LoadInv /\ [Next]_vars => LoadInv'
<1> SUFFICES ASSUME TypeOK, LoadInv, [Next]_vars PROVE LoadInv'
  OBVIOUS
<1> USE SizesAssumption
<1>1. ASSUME UNCHANGED <<phase, batch, snapshot, load>> PROVE LoadInv'
  BY <1>1 DEF LoadInv, LoadBounded
<1>2. CASE GetAvailableNodes
  <2>1. ToSet(snapshot') \subseteq Available /\ phase' = "popping" /\ load' = load
    BY <1>2, SnapshotOfAvailable DEF GetAvailableNodes, registry
  <2>2. \A n \in Available : n \in Nodes /\ load[n] < Capacity[n] /\ load[n] \in Nat
    BY DEF Available, TypeOK
  <2> QED
    BY <2>1, <2>2 DEF LoadInv, LoadBounded
<1>3. ASSUME NEW l \in Levels, Pop(l) PROVE LoadInv'
  BY <1>3 DEF Pop, Take, LoadInv, LoadBounded, registry
<1>4. CASE PopDone
  <2>1. CASE batch = <<>>
    BY <1>4, <2>1 DEF PopDone, Popped, Return, LoadInv, LoadBounded, registry, ToSet
  <2>2. CASE batch # <<>>
    <3>1. /\ phase = "popping" /\ phase' = "dispatching"
          /\ UNCHANGED <<batch, snapshot, load>>
      BY <1>4, <2>2 DEF PopDone, Popped, registry
    <3>2. Len(batch) \in Nat /\ Len(batch) <= BatchSize
      BY DEF TypeOK
    <3>3. \A n \in ToSet(snapshot) : n \in Nodes /\ load[n] \in Nat /\ Capacity[n] \in Nat
      BY DEF TypeOK, ToSet
    <3> QED
      BY <3>1, <3>2, <3>3 DEF LoadInv, LoadBounded
  <2> QED
    BY <2>1, <2>2
<1>5. ASSUME phase = "dispatching", Done, load' = load PROVE LoadInv'
  <2>1. CASE Len(batch) = 1
    BY <1>5, <2>1 DEF Done, Return, LoadInv, LoadBounded, ToSet
  <2>2. CASE Len(batch) # 1
    <3>1. phase' = phase /\ snapshot' = snapshot /\ Len(batch') = Len(batch) - 1
      BY <1>5, <2>2, HeadOfBatch DEF Done
    <3>2. \A n \in ToSet(snapshot) : n \in Nodes /\ load[n] \in Nat /\ Capacity[n] \in Nat
      BY DEF TypeOK, ToSet
    <3> QED
      BY <1>5, <3>1, <3>2, HeadOfBatch DEF LoadInv, LoadBounded
  <2> QED
    BY <2>1, <2>2
<1>6. ASSUME phase = "dispatching", NEW t \in Tasks, NEW n \in ToSet(snapshot), Assign(t, n)
      PROVE LoadInv'
  <2>1. load' = load \/ load' = [load EXCEPT ![n] = @ + 1]
    BY <1>6 DEF Assign
  <2>2. \A m \in ToSet(snapshot) : m \in Nodes
    BY DEF TypeOK, ToSet
  <2>3. /\ load \in [Nodes -> Nat] /\ Capacity \in [Nodes -> Nat] /\ BatchSize \in Nat
        /\ Len(batch) \in Nat \ {0}
    BY <1>6, HeadOfBatch DEF TypeOK
  <2>4. \A m \in Nodes : (m # n => load'[m] = load[m]) /\ load'[m] \in {load[m], load[m] + 1}
    <3>1. CASE load' = load
      BY <3>1
    <3>2. CASE load' = [load EXCEPT ![n] = @ + 1]
      BY <2>3, <3>2
    <3> QED
      BY <2>1, <3>1, <3>2
  <2>5. LoadBounded'
    <3>1. load[n] + Len(batch) < Capacity[n] + BatchSize
      BY <1>6 DEF LoadInv
    <3>2. load[n] + 1 < Capacity[n] + BatchSize
      BY <2>2, <2>3, <3>1
    <3>3. ASSUME NEW m \in Nodes, load'[m] > 0 PROVE load'[m] < Capacity[m] + BatchSize
      <4>1. CASE load'[m] = load[m]
        BY <3>3, <4>1 DEF LoadInv, LoadBounded
      <4>2. CASE load'[m] = load[m] + 1 /\ m = n
        BY <3>2, <4>2
      <4> QED
        BY <2>4, <4>1, <4>2
    <3> QED
      BY <3>3 DEF LoadBounded
  <2>6. CASE Len(batch) = 1
    BY <1>6, <2>5, <2>6 DEF Assign, Done, Return, LoadInv, ToSet
  <2>7. CASE Len(batch) # 1
    <3>1. phase' = phase /\ snapshot' = snapshot /\ Len(batch') = Len(batch) - 1
      BY <1>6, <2>7, HeadOfBatch DEF Assign, Done
    <3> QED
      BY <1>6, <2>2, <2>3, <2>4, <2>5, <3>1 DEF LoadInv
  <2> QED
    BY <2>6, <2>7
<1>7. ASSUME NEW t \in Tasks, phase' = "down", UNCHANGED <<batch, snapshot, load>> PROVE LoadInv'
  BY <1>7 DEF LoadInv, LoadBounded
<1>8. CASE Restart
  BY <1>8 DEF Restart, LoadInv, LoadBounded, ToSet
<1>9. ASSUME NEW n \in Nodes, load' = [load EXCEPT ![n] = 0], UNCHANGED <<phase, batch, snapshot>>
      PROVE LoadInv'
  <2>1. \A m \in ToSet(snapshot) : m \in Nodes
    BY DEF TypeOK, ToSet
  <2>2. /\ load \in [Nodes -> Nat] /\ Capacity \in [Nodes -> Nat] /\ BatchSize \in Nat
        /\ Len(batch) \in Nat /\ Len(batch) <= BatchSize
    BY DEF TypeOK
  <2> QED
    BY <1>9, <2>1, <2>2 DEF LoadInv, LoadBounded
<1>10. CASE DispatchTask
  <2>1. \A i \in 1..Len(snapshot) : snapshot[i] \in ToSet(snapshot)
    BY DEF TypeOK, ToSet
  <2>2. ASSUME NEW t \in Tasks, NEW n, AssignFails(t, n) \/ PutBack(t) PROVE Done /\ load' = load
    BY <2>2 DEF AssignFails, PutBack, registry
  <2>3. ASSUME NEW t \in Tasks, Panic(t)
        PROVE phase' = "down" /\ UNCHANGED <<batch, snapshot, load>>
    BY <2>3 DEF Panic, registry
  <2> QED
    BY <1>5, <1>6, <1>7, <1>10, <2>1, <2>2, <2>3, HeadOfBatch DEF DispatchTask
<1>11. CASE \E t \in Tasks : Submit(t) \/ PushNext(t)
  BY <1>1, <1>11 DEF Submit, PushNext, dispatch, registry
<1>12. CASE \E ts \in SUBSET (Tasks \ Seeds) : ts # {} /\ SubmitBatch(ts)
  BY <1>1, <1>12 DEF SubmitBatch, dispatch, registry
<1>13. ASSUME NEW n \in Nodes, NEW s, RegisterNode(n, s) \/ UnregisterNode(n) PROVE LoadInv'
  BY <1>9, <1>13 DEF RegisterNode, UnregisterNode
<1>14. ASSUME NEW n \in Nodes, MissHeartbeats(n) \/ CheckNodeHealth(n) PROVE LoadInv'
  BY <1>1, <1>14 DEF MissHeartbeats, CheckNodeHealth, dispatch
<1>15. CASE UNCHANGED vars
  BY <1>1, <1>15 DEF vars, dispatch, registry
<1> QED
  BY <1>2, <1>3, <1>4, <1>8, <1>10, <1>11, <1>12, <1>13, <1>14, <1>15
     DEF Next, Running, DispatchLoop

\* However stale the snapshot and whenever a sync resets the loads, a node's load
\* stays below its capacity plus one batch (dispatchBatch and getAvailableNodes,
\* dispatcher.go:288-322, 431-458).
THEOREM OverloadIsLessThanABatch == Spec => []LoadBounded
<1>1. TypeOK /\ LoadInv /\ [Next]_vars => (TypeOK /\ LoadInv)'
  BY NextTypeOK, NextLoadInv
<1>2. LoadInv => LoadBounded
  BY DEF LoadInv
<1> QED
  BY <1>1, <1>2, InitTypeOK, InitLoadInv, PTL DEF Spec

-----------------------------------------------------------------------------
(* Copies of a task.                                                       *)

\* Each queue holds tasks of its own level, and only an accepted task is in
\* memory or on a list.
QueuesInv == \A l \in AllLevels : /\ Once(queues[l])
                                 /\ \A t \in ToSet(queues[l]) : Level(t) = l
CopiesInv ==
  /\ QueuesInv
  /\ Once(batch)
  /\ \A t \in Tasks : /\ ~(Queued(t) /\ InBatch(t))
                      /\ handed[t] <= failures + (IF InMemory(t) THEN 0 ELSE 1)
                      /\ fate[t] # "accepted" => ~InMemory(t) /\ handed[t] = 0

LEMMA CopiesInvImplies == CopiesInv => CopiesBounded
  BY DEF CopiesInv, QueuesInv, CopiesBounded

\* A push of a task that is not queued adds it, if there is room.
LEMMA PushEffect ==
  ASSUME TypeOK, QueuesInv, NEW t \in Tasks, ~Queued(t), Push(t)
  PROVE  /\ QueuesInv'
         /\ \A u \in Tasks : Queued(u)' <=> Queued(u) \/ (u = t /\ Room(t))
<1> DEFINE a == Append(queues[Level(t)], t)
<1>1. Level(t) \in AllLevels /\ queues[Level(t)] \in Seq(Tasks)
  BY LevelTyped DEF TypeOK
<1>2. ToSet(a) = ToSet(queues[Level(t)]) \union {t}
  BY <1>1, Appended
<1>3. Once(a)
  BY <1>1, Appended DEF QueuesInv, Queued
<1>4. CASE ~Room(t)
  <2>1. queues' = queues
    BY <1>4 DEF Push, PushTo
  <2> QED
    BY <1>4, <2>1 DEF QueuesInv, Queued
<1>5. CASE Room(t)
  <2>1. queues' = [queues EXCEPT ![Level(t)] = a]
    BY <1>5 DEF Push, PushTo
  <2>2. \A l \in AllLevels : queues'[l] = IF l = Level(t) THEN a ELSE queues[l]
    BY <2>1 DEF TypeOK
  <2> HIDE DEF a
  <2>3. QueuesInv'
    BY <1>1, <1>2, <1>3, <2>2 DEF QueuesInv
  <2>4. ASSUME NEW u \in Tasks PROVE Queued(u)' <=> Queued(u) \/ u = t
    <3>1. Level(u) \in AllLevels
      BY LevelTyped
    <3>2. Queued(u)' <=> u \in ToSet(queues'[Level(u)])
      BY DEF Queued
    <3> QED
      BY <1>1, <1>2, <2>2, <3>1, <3>2 DEF Queued
  <2> QED
    BY <1>5, <2>3, <2>4
<1> QED
  BY <1>4, <1>5

\* Done takes the head, and only it, from the batch.
LEMMA DoneEffect ==
  ASSUME TypeOK, Once(batch), phase = "dispatching", Done
  PROVE  /\ Once(batch)'
         /\ \A u \in Tasks : InBatch(u)' <=> InBatch(u) /\ u # Head(batch)
         /\ InBatch(Head(batch))
<1>1. batch \in Seq(Tasks) /\ batch # <<>> /\ batch' = Tail(batch)
  BY DEF TypeOK, Done
<1>2. /\ Head(batch) \in ToSet(batch)
      /\ ToSet(batch) = ToSet(Tail(batch)) \union {Head(batch)}
      /\ Once(Tail(batch)) /\ Head(batch) \notin ToSet(Tail(batch))
  BY <1>1, Popped1
<1> QED
  BY <1>1, <1>2 DEF InBatch

\* A pop moves the head of a queue to the end of the batch.
LEMMA PopEffect ==
  ASSUME TypeOK, QueuesInv, Once(batch), NEW l \in Levels, Pop(l),
         \A u \in Tasks : ~(Queued(u) /\ InBatch(u))
  PROVE  /\ QueuesInv' /\ Once(batch)'
         /\ \A u \in Tasks : /\ Queued(u)' <=> Queued(u) /\ u # Head(queues[l])
                             /\ InBatch(u)' <=> InBatch(u) \/ u = Head(queues[l])
         /\ Head(queues[l]) \in Tasks /\ Queued(Head(queues[l]))
<1> DEFINE h == Head(queues[l])
           r == Tail(queues[l])
<1>1. queues[l] \in Seq(Tasks) /\ queues[l] # <<>> /\ l \in AllLevels
  BY DEF Pop, Take, Highest, AllLevels, TypeOK
<1>2. Once(queues[l])
  BY <1>1 DEF QueuesInv
<1>3. /\ h \in Tasks /\ h \in ToSet(queues[l]) /\ r \in Seq(Tasks)
      /\ ToSet(queues[l]) = ToSet(r) \union {h}
      /\ Once(r) /\ h \notin ToSet(r)
  BY <1>1, <1>2, Popped1
<1>4. Level(h) = l
  BY <1>1, <1>3 DEF QueuesInv
<1>5. Queued(h)
  BY <1>3, <1>4 DEF Queued
<1>6. \A k \in AllLevels : queues'[k] = IF k = l THEN r ELSE queues[k]
  BY DEF Pop, TypeOK
<1>7. batch \in Seq(Tasks) /\ batch' = Append(batch, h) /\ h \notin ToSet(batch)
  BY <1>3, <1>5 DEF TypeOK, Pop, Take, InBatch
<1> HIDE DEF h, r
<1>8. ToSet(batch') = ToSet(batch) \union {h} /\ Once(batch')
  BY <1>3, <1>7, Appended
<1>9. QueuesInv'
  BY <1>1, <1>3, <1>6 DEF QueuesInv
<1>10. ASSUME NEW u \in Tasks PROVE Queued(u)' <=> Queued(u) /\ u # h
  <2>1. Level(u) \in AllLevels
    BY LevelTyped
  <2>2. Queued(u)' <=> u \in ToSet(queues'[Level(u)])
    BY DEF Queued
  <2> QED
    BY <1>3, <1>4, <1>6, <2>1, <2>2 DEF Queued
<1>11. ASSUME NEW u \in Tasks PROVE InBatch(u)' <=> InBatch(u) \/ u = h
  BY <1>8 DEF InBatch
<1> QED
  BY <1>3, <1>5, <1>8, <1>9, <1>10, <1>11 DEF h

LEMMA InitCopiesInv == Init => CopiesInv
<1> SUFFICES ASSUME Init PROVE CopiesInv
  OBVIOUS
<1>1. \A l \in AllLevels : queues[l] = <<>>
  BY DEF Init
<1>2. Once(<<>>) /\ ToSet(<<>>) = {}
  BY DEF Once, ToSet
<1>3. QueuesInv
  BY <1>1, <1>2 DEF QueuesInv
<1>4. \A t \in Tasks : ~Queued(t) /\ ~InBatch(t)
  BY <1>1, <1>2, LevelTyped DEF Init, Queued, InBatch
<1> QED
  BY <1>2, <1>3, <1>4 DEF Init, CopiesInv, InMemory

LEMMA NextCopiesInv == TypeOK /\ CopiesInv /\ [Next]_vars => CopiesInv'
<1> SUFFICES ASSUME TypeOK, CopiesInv, [Next]_vars PROVE CopiesInv'
  OBVIOUS
<1> USE SizesAssumption
<1>1. /\ handed \in [Tasks -> Nat] /\ failures \in Nat
      /\ QueuesInv /\ Once(batch)
  BY DEF TypeOK, CopiesInv
<1>2. ASSUME UNCHANGED <<queues, batch, fate, handed, failures>> PROVE CopiesInv'
  BY <1>2 DEF CopiesInv, QueuesInv, InMemory, Queued, InBatch
<1>3. ASSUME NEW t \in Tasks, fate[t] # "accepted", Push(t), UNCHANGED <<batch, handed, failures>>,
             \A u \in Tasks : fate'[u] # "accepted" => fate[u] # "accepted" /\ ~(u = t /\ Room(t))
      PROVE CopiesInv'
  <2>1. ~Queued(t) /\ ~InBatch(t) /\ handed[t] = 0
    BY <1>3 DEF CopiesInv, InMemory
  <2>2. /\ QueuesInv'
        /\ \A u \in Tasks : Queued(u)' <=> Queued(u) \/ (u = t /\ Room(t))
    BY <1>1, <1>3, <2>1, PushEffect
  <2>3. \A u \in Tasks : InBatch(u)' <=> InBatch(u)
    BY <1>3 DEF InBatch
  <2> QED
    BY <1>1, <1>3, <2>1, <2>2, <2>3 DEF CopiesInv, InMemory
<1>4. ASSUME NEW t \in Tasks, Submit(t) PROVE CopiesInv'
  <2>1. \A u \in Tasks : fate'[u] # "accepted" => fate[u] # "accepted" /\ ~(u = t /\ Room(t))
    BY <1>4 DEF Submit, TypeOK
  <2> QED
    BY <1>3, <1>4, <2>1 DEF Submit, dispatch
<1>5. ASSUME NEW t \in Tasks, PushNext(t) PROVE CopiesInv'
  <2>1. \A u \in Tasks : fate'[u] # "accepted" => fate[u] # "accepted" /\ ~(u = t /\ Room(t))
    BY <1>5 DEF PushNext, TypeOK
  <2> QED
    BY <1>3, <1>5, <2>1 DEF PushNext, dispatch
<1>6. ASSUME NEW ts \in SUBSET (Tasks \ Seeds), SubmitBatch(ts) PROVE CopiesInv'
  <2>1. \A u \in Tasks : fate'[u] # "accepted" => fate[u] # "accepted"
    BY <1>6 DEF SubmitBatch, TypeOK
  <2> QED
    BY <1>6, <2>1 DEF SubmitBatch, queue, dispatch, CopiesInv, QueuesInv, InMemory, Queued, InBatch
<1>7. CASE GetAvailableNodes
  <2>1. batch' = <<>> /\ UNCHANGED <<queues, fate, handed, failures>>
    BY <1>7 DEF GetAvailableNodes, queue
  <2>2. Once(batch') /\ \A u \in Tasks : ~InBatch(u)'
    BY <2>1 DEF Once, InBatch, ToSet
  <2> QED
    BY <1>1, <2>1, <2>2 DEF CopiesInv, QueuesInv, InMemory, Queued
<1>8. ASSUME NEW l \in Levels, Pop(l) PROVE CopiesInv'
  <2>1. \A u \in Tasks : ~(Queued(u) /\ InBatch(u))
    BY DEF CopiesInv
  <2>2. UNCHANGED <<fate, handed, failures>>
    BY <1>8 DEF Pop, Take
  <2> DEFINE h == Head(queues[l])
  <2>3. /\ QueuesInv' /\ Once(batch)'
        /\ \A u \in Tasks : /\ Queued(u)' <=> Queued(u) /\ u # h
                            /\ InBatch(u)' <=> InBatch(u) \/ u = h
        /\ h \in Tasks /\ Queued(h)
    BY <1>1, <1>8, <2>1, PopEffect
  <2> HIDE DEF h
  <2>4. \A u \in Tasks : InMemory(u)' <=> InMemory(u)
    BY <2>3 DEF InMemory
  <2> QED
    BY <2>1, <2>2, <2>3, <2>4 DEF CopiesInv
<1>9. CASE PopDone
  BY <1>2, <1>9 DEF PopDone, Popped, queue
<1>10. ASSUME phase = "dispatching", NEW n, Assign(Head(batch), n) PROVE CopiesInv'
  <2> DEFINE t == Head(batch)
  <2>1. /\ t \in Tasks /\ Once(batch)' /\ InBatch(t)
        /\ \A u \in Tasks : InBatch(u)' <=> InBatch(u) /\ u # t
    BY <1>1, <1>10, HeadOfBatch, DoneEffect DEF Assign
  <2>2. UNCHANGED <<queues, fate, failures>> /\ handed' = [handed EXCEPT ![t] = @ + 1]
    BY <1>10 DEF Assign, queue
  <2> HIDE DEF t
  <2>3. QueuesInv' /\ \A u \in Tasks : Queued(u)' <=> Queued(u)
    BY <1>1, <2>2 DEF QueuesInv, Queued
  <2>4. ~Queued(t) /\ handed[t] <= failures /\ fate[t] = "accepted"
    BY <1>1, <2>1 DEF CopiesInv, InMemory
  <2>5. \A u \in Tasks : handed'[u] = IF u = t THEN handed[u] + 1 ELSE handed[u]
    BY <1>1, <2>2
  <2> QED
    BY <1>1, <2>1, <2>2, <2>3, <2>4, <2>5 DEF CopiesInv, InMemory
<1>11. ASSUME phase = "dispatching", Done, Push(Head(batch)), fate' = fate, failures' \in Nat,
              failures' >= failures, handed' \in [Tasks -> Nat],
              \A u \in Tasks : \/ handed'[u] = handed[u]
                              \/ /\ u = Head(batch) /\ handed'[u] = handed[u] + 1
                                 /\ failures' = failures + 1
       PROVE CopiesInv'
  <2> DEFINE t == Head(batch)
  <2>1. /\ t \in Tasks /\ Once(batch)' /\ InBatch(t)
        /\ \A u \in Tasks : InBatch(u)' <=> InBatch(u) /\ u # t
    BY <1>1, <1>11, HeadOfBatch, DoneEffect
  <2>2. ~Queued(t) /\ handed[t] <= failures /\ fate[t] = "accepted"
    BY <1>1, <2>1 DEF CopiesInv, InMemory
  <2>3. /\ QueuesInv'
        /\ \A u \in Tasks : Queued(u)' <=> Queued(u) \/ (u = t /\ Room(t))
    BY <1>1, <1>11, <2>1, <2>2, PushEffect
  <2>4. handed'[t] <= failures'
    BY <1>1, <1>11, <2>1, <2>2
  <2>5. \A u \in Tasks : u # t => handed'[u] = handed[u]
    BY <1>11
  <2> HIDE DEF t
  <2>6. ASSUME NEW u \in Tasks
        PROVE  /\ ~(Queued(u)' /\ InBatch(u)')
               /\ handed'[u] <= failures' + (IF InMemory(u)' THEN 0 ELSE 1)
               /\ fate'[u] # "accepted" => ~InMemory(u)' /\ handed'[u] = 0
    <3>1. CASE u = t
      BY <1>11, <2>1, <2>2, <2>3, <2>4, <3>1 DEF InMemory
    <3>2. CASE u # t
      BY <1>1, <1>11, <2>1, <2>3, <2>5, <3>2 DEF CopiesInv, InMemory
    <3> QED
      BY <3>1, <3>2
  <2> QED
    BY <2>1, <2>3, <2>6 DEF CopiesInv
<1>12. ASSUME phase = "dispatching", NEW n, AssignFails(Head(batch), n) PROVE CopiesInv'
  <2>1. handed' = handed \/ handed' = [handed EXCEPT ![Head(batch)] = @ + 1]
    BY <1>12 DEF AssignFails
  <2>2. /\ failures' = failures + 1 /\ Done /\ Push(Head(batch)) /\ fate' = fate
    BY <1>12 DEF AssignFails
  <2>3. Head(batch) \in Tasks
    BY <1>12, HeadOfBatch
  <2>4. /\ handed' \in [Tasks -> Nat]
        /\ \A u \in Tasks : \/ handed'[u] = handed[u]
                            \/ u = Head(batch) /\ handed'[u] = handed[u] + 1
    BY <1>1, <2>1, <2>3
  <2> QED
    BY <1>1, <1>11, <1>12, <2>2, <2>4
<1>13. ASSUME phase = "dispatching", PutBack(Head(batch)) PROVE CopiesInv'
  BY <1>1, <1>11, <1>13 DEF PutBack
<1>14. ASSUME NEW t, Panic(t) PROVE CopiesInv'
  BY <1>2, <1>14 DEF Panic, queue
<1>15. CASE DispatchTask
  BY <1>10, <1>12, <1>13, <1>14, <1>15 DEF DispatchTask
<1>16. CASE Restart
  <2>1. /\ \A l \in AllLevels : queues'[l] = <<>>
        /\ batch' = <<>> /\ UNCHANGED <<handed, failures>>
    BY <1>16 DEF Restart
  <2>2. Once(<<>>) /\ ToSet(<<>>) = {}
    BY DEF Once, ToSet
  <2>3. QueuesInv'
    BY <2>1, <2>2 DEF QueuesInv
  <2>4. \A t \in Tasks : ~Queued(t)' /\ ~InBatch(t)'
    BY <2>1, <2>2, LevelTyped DEF Queued, InBatch
  <2>5. \A t \in Tasks : fate'[t] # "accepted" => fate[t] # "accepted"
    BY <1>16 DEF Restart, TypeOK
  <2> QED
    BY <1>1, <2>1, <2>2, <2>3, <2>4, <2>5 DEF CopiesInv, InMemory
<1>17. ASSUME NEW n \in Nodes, NEW s,
              \/ RegisterNode(n, s) \/ UnregisterNode(n)
              \/ MissHeartbeats(n) \/ CheckNodeHealth(n)
       PROVE CopiesInv'
  BY <1>2, <1>17 DEF RegisterNode, UnregisterNode, MissHeartbeats, CheckNodeHealth, queue, dispatch
<1>18. CASE UNCHANGED vars
  BY <1>2, <1>18 DEF vars, queue, dispatch
<1> QED
  BY <1>4, <1>5, <1>6, <1>7, <1>8, <1>9, <1>15, <1>16, <1>17, <1>18
     DEF Next, Running, DispatchLoop

\* Whatever interleaves, fails or restarts, the dispatcher holds a task at most
\* once, and a second hand-over takes a failed pipeline (assignTask and the
\* push-backs, dispatcher.go:301-321, 397-428).
THEOREM NoCopyWithoutFailure == Spec => []CopiesBounded
<1>1. TypeOK /\ CopiesInv /\ [Next]_vars => (TypeOK /\ CopiesInv)'
  BY NextTypeOK, NextCopiesInv
<1> QED
  BY <1>1, CopiesInvImplies, InitTypeOK, InitCopiesInv, PTL DEF Spec

-----------------------------------------------------------------------------
(* No task is dropped.                                                     *)

\* A sequence without repetitions that misses a task is shorter than their
\* number.
LEMMA OnceIsShort ==
  ASSUME NEW s \in Seq(Tasks), Once(s), NEW t \in Tasks, t \notin ToSet(s)
  PROVE  Len(s) < Cardinality(Tasks)
<1> DEFINE T == Tasks \ {t}
<1>1. IsFiniteSet(Tasks)
  BY TasksAssumption
<1>2. IsFiniteSet(T) /\ Cardinality(T) = Cardinality(Tasks) - 1
  BY <1>1, FS_RemoveElement
<1>3. Len(s) \in Nat /\ DOMAIN s = 1..Len(s) /\ s \in [1..Len(s) -> Tasks]
  BY LenProperties
<1>4. \A i \in 1..Len(s) : s[i] # t
  BY <1>3 DEF ToSet
<1>5. s \in [1..Len(s) -> T]
  BY <1>3, <1>4
<1>6. s \in Injection(1..Len(s), T)
  BY <1>3, <1>5 DEF Injection, Once, IsInjective
<1>7. Cardinality(1..Len(s)) <= Cardinality(T)
  BY <1>2, <1>6, FS_Injection
<1>8. Cardinality(1..Len(s)) = Len(s)
  BY <1>3, FS_Interval
<1>9. Cardinality(Tasks) \in Nat
  BY <1>1, FS_CardinalityType
<1> QED
  BY <1>2, <1>3, <1>7, <1>8, <1>9

\* Queues that could hold all tasks never refuse one.
Roomy == QueueCapacity \in Nat /\ QueueCapacity >= Cardinality(Tasks)

LEMMA AlwaysRoom ==
  ASSUME Roomy, TypeOK, QueuesInv, NEW t \in Tasks, ~Queued(t)
  PROVE  Room(t)
<1>1. Level(t) \in AllLevels /\ queues[Level(t)] \in Seq(Tasks)
  BY LevelTyped DEF TypeOK
<1>2. Len(queues[Level(t)]) < Cardinality(Tasks)
  BY <1>1, OnceIsShort DEF QueuesInv, Queued
<1>3. Cardinality(Tasks) \in Nat /\ Len(queues[Level(t)]) \in Nat
  BY <1>1, TasksAssumption, FS_CardinalityType
<1> QED
  BY <1>2, <1>3 DEF Room, Roomy

\* Between batches nothing is popped, and no hash can end the process.
KeptInv == /\ Kept
           /\ phase = "waiting" => batch = <<>>
           /\ phase # "down"

LEMMA NextKeptInv ==
  ASSUME Roomy, Strategy \in {"least_load", "round_robin"},
         TypeOK, CopiesInv, KeptInv, [Next]_vars
  PROVE  KeptInv'
<1>1. QueuesInv /\ Once(batch) /\ handed \in [Tasks -> Nat]
  BY DEF CopiesInv, TypeOK
<1>2. ASSUME UNCHANGED <<queues, batch, handed, phase>>, \A t \in Tasks : fate'[t] = "accepted" => fate[t] = "accepted"
      PROVE KeptInv'
  BY <1>2 DEF KeptInv, Kept, InMemory, Queued, InBatch
<1>3. ASSUME NEW t \in Tasks, fate[t] # "accepted", Push(t), UNCHANGED <<batch, handed, phase>>,
             \A u \in Tasks : u # t => fate'[u] = fate[u]
      PROVE KeptInv'
  <2>1. ~Queued(t)
    BY <1>3 DEF CopiesInv, InMemory
  <2>2. Room(t)
    BY <1>1, <2>1, AlwaysRoom
  <2>3. \A u \in Tasks : Queued(u)' <=> Queued(u) \/ u = t
    BY <1>1, <1>3, <2>1, <2>2, PushEffect
  <2> QED
    BY <1>3, <2>3 DEF KeptInv, Kept, InMemory, InBatch
<1>4. ASSUME NEW t \in Tasks, Submit(t) PROVE KeptInv'
  <2>1. \A u \in Tasks : u # t => fate'[u] = fate[u]
    BY <1>4 DEF Submit, TypeOK
  <2> QED
    BY <1>3, <1>4, <2>1 DEF Submit, dispatch
<1>5. ASSUME NEW t \in Tasks, PushNext(t) PROVE KeptInv'
  <2>1. ~Queued(t)
    BY <1>5 DEF PushNext, CopiesInv, InMemory
  <2>2. Room(t)
    BY <1>1, <2>1, AlwaysRoom
  <2>3. \A u \in Tasks : u # t => fate'[u] = fate[u]
    BY <1>5, <2>2 DEF PushNext, TypeOK
  <2> QED
    BY <1>3, <1>5, <2>3 DEF PushNext, dispatch
<1>6. ASSUME NEW ts \in SUBSET (Tasks \ Seeds), SubmitBatch(ts) PROVE KeptInv'
  <2>1. \A u \in Tasks : fate'[u] = "accepted" => fate[u] = "accepted"
    BY <1>6 DEF SubmitBatch, TypeOK
  <2> QED
    BY <1>2, <1>6, <2>1 DEF SubmitBatch, queue, dispatch
<1>7. CASE GetAvailableNodes
  <2>1. batch' = batch /\ phase' = "popping"
    BY <1>7 DEF GetAvailableNodes, KeptInv
  <2> QED
    BY <1>7, <2>1 DEF GetAvailableNodes, queue, KeptInv, Kept, InMemory, Queued, InBatch
<1>8. ASSUME NEW l \in Levels, Pop(l) PROVE KeptInv'
  <2>1. \A u \in Tasks : ~(Queued(u) /\ InBatch(u))
    BY DEF CopiesInv
  <2>2. \A u \in Tasks : InMemory(u)' <=> InMemory(u)
    BY <1>1, <1>8, <2>1, PopEffect DEF InMemory
  <2> QED
    BY <1>8, <2>2 DEF Pop, Take, KeptInv, Kept
<1>9. CASE PopDone
  BY <1>9 DEF PopDone, Popped, Return, queue, KeptInv, Kept, InMemory, Queued, InBatch
<1>10. ASSUME phase = "dispatching", Done
       PROVE (phase' = "waiting" => batch' = <<>>) /\ phase' # "down"
  <2>1. Len(batch) = 1 => batch' = <<>>
    BY <1>10, HeadOfBatch, EmptySeq DEF Done
  <2> QED
    BY <1>10, <2>1 DEF Done, Return
<1>11. ASSUME phase = "dispatching", NEW n, Assign(Head(batch), n) PROVE KeptInv'
  <2> DEFINE t == Head(batch)
  <2>1. t \in Tasks /\ \A u \in Tasks : InBatch(u)' <=> InBatch(u) /\ u # t
    BY <1>1, <1>11, HeadOfBatch, DoneEffect DEF Assign
  <2>2. UNCHANGED <<queues, fate>> /\ handed' = [handed EXCEPT ![t] = @ + 1] /\ Done
    BY <1>11 DEF Assign, queue
  <2> HIDE DEF t
  <2>3. handed'[t] > 0 /\ \A u \in Tasks : u # t => handed'[u] = handed[u]
    BY <1>1, <2>1, <2>2
  <2> QED
    BY <1>10, <1>11, <2>1, <2>2, <2>3 DEF KeptInv, Kept, InMemory, Queued
<1>12. ASSUME phase = "dispatching", Done, Push(Head(batch)), fate' = fate,
              \A u \in Tasks : handed[u] > 0 => handed'[u] > 0
       PROVE KeptInv'
  <2> DEFINE t == Head(batch)
  <2>1. /\ t \in Tasks /\ InBatch(t)
        /\ \A u \in Tasks : InBatch(u)' <=> InBatch(u) /\ u # t
    BY <1>1, <1>12, HeadOfBatch, DoneEffect
  <2>2. ~Queued(t)
    BY <2>1 DEF CopiesInv
  <2>3. Room(t)
    BY <1>1, <2>1, <2>2, AlwaysRoom
  <2>4. \A u \in Tasks : Queued(u)' <=> Queued(u) \/ u = t
    BY <1>1, <1>12, <2>1, <2>2, <2>3, PushEffect
  <2> QED
    BY <1>10, <1>12, <2>1, <2>4 DEF KeptInv, Kept, InMemory
<1>13. ASSUME phase = "dispatching", NEW n, AssignFails(Head(batch), n) PROVE KeptInv'
  <2>1. handed' = handed \/ handed' = [handed EXCEPT ![Head(batch)] = @ + 1]
    BY <1>13 DEF AssignFails
  <2>2. \A u \in Tasks : handed[u] > 0 => handed'[u] > 0
    BY <1>1, <2>1
  <2> QED
    BY <1>12, <1>13, <2>2 DEF AssignFails
<1>14. ASSUME phase = "dispatching", PutBack(Head(batch)) PROVE KeptInv'
  BY <1>12, <1>14 DEF PutBack
<1>15. ASSUME NEW t, Panic(t) PROVE FALSE
  BY <1>15 DEF Panic
<1>16. CASE DispatchTask
  BY <1>11, <1>13, <1>14, <1>15, <1>16 DEF DispatchTask
<1>17. CASE Restart
  BY <1>17 DEF Restart, KeptInv
<1>18. ASSUME NEW n \in Nodes, NEW s,
              \/ RegisterNode(n, s) \/ UnregisterNode(n)
              \/ MissHeartbeats(n) \/ CheckNodeHealth(n)
       PROVE KeptInv'
  BY <1>2, <1>18 DEF RegisterNode, UnregisterNode, MissHeartbeats, CheckNodeHealth, queue, dispatch
<1>19. CASE UNCHANGED vars
  BY <1>2, <1>19 DEF vars, queue, dispatch
<1> QED
  BY <1>4, <1>5, <1>6, <1>7, <1>8, <1>9, <1>16, <1>17, <1>18, <1>19
     DEF Next, Running, DispatchLoop

\* With queues that can hold every task and a strategy that cannot panic, the
\* dispatch loop drops no accepted task, whatever pipelines fail and whichever
\* nodes come and go (dispatchBatch, dispatcher.go:301-321).
THEOREM NothingIsDropped ==
  ASSUME Roomy, Strategy \in {"least_load", "round_robin"}
  PROVE  Spec => []Kept
<1>1. Init => KeptInv
  BY DEF Init, KeptInv, Kept
<1>2. TypeOK /\ CopiesInv /\ KeptInv /\ [Next]_vars => (TypeOK /\ CopiesInv /\ KeptInv)'
  BY NextTypeOK, NextCopiesInv, NextKeptInv
<1>3. KeptInv => Kept
  BY DEF KeptInv
<1> QED
  BY <1>1, <1>2, <1>3, InitTypeOK, InitCopiesInv, PTL DEF Spec
=============================================================================
