------------------------- MODULE SchedulingProofs -------------------------
(***************************************************************************)
(* Proofs about where tasks come from and what becomes of them and their   *)
(* data, for any bounds and any sets of tasks, processes, workers, keys    *)
(* and records: the components of MCScheduling, over its specification,    *)
(* whose every step is a step of one of them.                              *)
(***************************************************************************)
EXTENDS MCScheduling, FiniteSetTheorems, SequenceTheorems, TLAPS

\* The components count with the one Cardinality.
LEMMA SameCount ==
  /\ \A S : Queues!Cardinality(S) = Cardinality(S)
  /\ \A S : Cron!Cardinality(S) = Cardinality(S)
  /\ \A S : Manager!Cardinality(S) = Cardinality(S)
  /\ \A S : Crawl!Cardinality(S) = Cardinality(S)
  /\ \A S : Results!Cardinality(S) = Cardinality(S)
  BY DEF Cardinality, Queues!Cardinality, Cron!Cardinality, Manager!Cardinality,
         Crawl!Cardinality, Results!Cardinality

\* A caller of the registry is of a process that loads.
LEMMA RegistryBounds == /\ \A g \in DOMAIN RegUsers : RegUsers[g] \in Loaders
                        /\ MaxLoads \in Nat /\ MaxRegFaults \in Nat
<1>1. (CHOOSE p \in Loaders : TRUE) \in Loaders
  BY LoadBounds
<1>. QED  BY <1>1, LoadBounds DEF RegUsers

-----------------------------------------------------------------------------
(* The Mongo scheduler.                                                    *)

\* A thread has dates to submit exactly while it is at work.
SchedInv == Mongo!SchedTypeOK /\ \A t \in Mongo!Threads : left[t] > 0 <=> job[t] # "idle"

LEMMA NeverLast == Mongo!Never \in Nat /\ 1 <= Mongo!Never /\ Period < Mongo!Never
                     /\ Hour < Mongo!Never
                   /\ \A k : Mongo!NextRun(k) \in 0 .. Mongo!Never
<1>1. Mongo!Never \in Nat /\ 1 <= Mongo!Never /\ Period < Mongo!Never /\ Hour < Mongo!Never
        /\ Period + 1 \in 0 .. Mongo!Never
      /\ Hour \in 0 .. Mongo!Never /\ Mongo!Never \in 0 .. Mongo!Never
  BY MongoBounds DEF Mongo!Never
<1>. QED  BY <1>1 DEF Mongo!NextRun

LEMMA MongoInitially == Mongo!Init => SchedInv
<1> SUFFICES ASSUME Mongo!Init PROVE SchedInv
  OBVIOUS
<1>1. /\ job \in [Mongo!Threads -> {"idle", "store", "push", "update"}]
      /\ left \in [Mongo!Threads -> 0..(BatchDates + 1)]
      /\ \A t \in Mongo!Threads : left[t] > 0 <=> job[t] # "idle"
  BY MongoBounds DEF Mongo!Init
<1>2. /\ due \in 0 .. Mongo!Never /\ fireIn \in 0 .. Mongo!Never /\ sweepIn \in 0 .. SweepPeriod
      /\ unanswered \in 0 .. MaxUnanswered /\ schedFaults \in 0 .. MaxSchedFaults
  BY MongoBounds, NeverLast DEF Mongo!Init
<1>. QED  BY <1>1, <1>2 DEF Mongo!Init, SchedInv, Mongo!SchedTypeOK

\* The threads, as types.
ThreadsOK == /\ job \in [Mongo!Threads -> {"idle", "store", "push", "update"}]
             /\ left \in [Mongo!Threads -> 0..(BatchDates + 1)]
             /\ \A t \in Mongo!Threads : left[t] > 0 <=> job[t] # "idle"

LEMMA SubmitTyped == ASSUME SchedInv, NEW t \in Mongo!Threads, Mongo!Submit(t) PROVE ThreadsOK'
<1>0. (IF dates = 0 THEN 1 ELSE dates) \in 1 .. BatchDates
  BY MongoBounds DEF SchedInv, Mongo!SchedTypeOK
<1>1. PICK n \in 1 .. BatchDates : left' = [left EXCEPT ![t] = n]
  BY <1>0 DEF Mongo!Submit
<1>2. n \in 0 .. (BatchDates + 1) /\ n > 0
  BY MongoBounds
<1>. QED  BY <1>1, <1>2 DEF Mongo!Submit, SchedInv, Mongo!SchedTypeOK, ThreadsOK

LEMMA NextDateTyped ==
  ASSUME SchedInv, NEW t \in Mongo!Threads, job[t] # "idle", Mongo!NextDate(t) PROVE ThreadsOK'
<1>1. left[t] \in 1 .. (BatchDates + 1)
  BY MongoBounds DEF SchedInv, Mongo!SchedTypeOK
<1>2. PICK n, o : /\ n = left[t] - 1 /\ o = IF left[t] = 1 THEN "idle" ELSE "store"
                  /\ left' = [left EXCEPT ![t] = n] /\ job' = [job EXCEPT ![t] = o]
  BY DEF Mongo!NextDate
<1>3. n \in 0 .. (BatchDates + 1) /\ (n > 0 <=> o # "idle") /\ o \in {"idle", "store"}
  BY <1>1, <1>2, MongoBounds
<1>. QED  BY <1>2, <1>3 DEF SchedInv, Mongo!SchedTypeOK, ThreadsOK

LEMMA GoesOnTyped ==
  ASSUME SchedInv, NEW t \in Mongo!Threads, job[t] # "idle", NEW o \in {"push", "update"},
         job' = [job EXCEPT ![t] = o], left' = left
  PROVE  ThreadsOK'
BY DEF SchedInv, Mongo!SchedTypeOK, ThreadsOK

LEMMA ThreadsKept == ASSUME SchedInv, UNCHANGED <<job, left>> PROVE ThreadsOK'
BY DEF SchedInv, Mongo!SchedTypeOK, ThreadsOK

\* The rest of the state.
RestOK == /\ kind \in Mongo!Kinds /\ dates \in {0, 1, BatchDates}
          /\ exists \in BOOLEAN /\ enabled \in BOOLEAN /\ due \in 0..Mongo!Never
          /\ scheduling \in {"running", "down"} /\ entry \in BOOLEAN
          /\ fireIn \in 0..Mongo!Never /\ sweepIn \in 0..SweepPeriod
          /\ unanswered \in 0..MaxUnanswered /\ schedFaults \in 0..MaxSchedFaults

LEMMA SchedParts == (SchedInv <=> RestOK /\ ThreadsOK) /\ (SchedInv' <=> RestOK' /\ ThreadsOK')
BY DEF SchedInv, Mongo!SchedTypeOK, RestOK, ThreadsOK

LEMMA SchedFaultTyped ==
  ASSUME SchedInv, schedFaults' = schedFaults
    \/ (schedFaults < MaxSchedFaults /\ schedFaults' = schedFaults + 1)
  PROVE  schedFaults' \in 0 .. MaxSchedFaults
<1>1. schedFaults \in 0 .. MaxSchedFaults
  BY DEF SchedInv, Mongo!SchedTypeOK
<1>2. CASE schedFaults' = schedFaults
  BY <1>1, <1>2
<1>3. CASE schedFaults < MaxSchedFaults /\ schedFaults' = schedFaults + 1
  BY <1>1, <1>3, MongoBounds
<1>. QED  BY <1>2, <1>3

LEMMA MongoStep == ASSUME SchedInv, [Mongo!Next]_mongoPart PROVE SchedInv'
<1>0. RestOK
  BY SchedParts
<1>1. CASE UNCHANGED mongoPart
  <2>1. UNCHANGED <<kind, dates, exists, enabled, due, scheduling, entry, fireIn, sweepIn, job,
                    left,
                    unanswered, schedFaults>>
    BY <1>1 DEF mongoPart
  <2>. QED  BY <1>0, <2>1, ThreadsKept, SchedParts DEF RestOK
<1>2. ASSUME NEW e \in BOOLEAN, Mongo!CreateTask(e) PROVE SchedInv'
  <2>1. /\ UNCHANGED <<kind, dates, scheduling, entry, fireIn, sweepIn, job, left, unanswered,
                       schedFaults>>
        /\ exists' = TRUE /\ enabled' = e
    BY <1>2 DEF Mongo!CreateTask
  <2>2. due' \in {Mongo!Never, 0, Period, 1}
    BY <1>2 DEF Mongo!CreateTask
  <2>3. due' \in 0 .. Mongo!Never
    BY <2>2, NeverLast, MongoBounds
  <2>. QED  BY <1>0, <2>1, <2>3, ThreadsKept, SchedParts DEF RestOK
<1>3. CASE Mongo!EnableTask \/ Mongo!DisableTask \/ Mongo!DeleteTask
  <2>1. /\ UNCHANGED <<kind, dates, scheduling, entry, fireIn, sweepIn, job, left, unanswered,
                       schedFaults>>
        /\ exists' \in {exists, FALSE} /\ enabled' \in {TRUE, FALSE}
    BY <1>3 DEF Mongo!EnableTask, Mongo!DisableTask, Mongo!DeleteTask
  <2>2. due' \in {due, 0, Mongo!Never}
    BY <1>3 DEF Mongo!EnableTask, Mongo!DisableTask, Mongo!DeleteTask
  <2>3. due' \in 0 .. Mongo!Never
    BY <1>0, <2>2, NeverLast DEF RestOK
  <2>. QED  BY <1>0, <2>1, <2>3, ThreadsKept, SchedParts DEF RestOK
<1>4. CASE Mongo!Start
  <2>1. /\ UNCHANGED <<kind, dates, exists, enabled, due, job, left, unanswered, schedFaults>>
        /\ scheduling' = "running" /\ sweepIn' = SweepPeriod /\ fireIn' \in {due, Period}
    BY <1>4 DEF Mongo!Start
  <2>2. entry' \in BOOLEAN
    BY <1>4 DEF Mongo!Start
  <2>3. fireIn' \in 0 .. Mongo!Never /\ sweepIn' \in 0 .. SweepPeriod
    BY <1>0, <2>1, NeverLast, MongoBounds DEF RestOK
  <2>. QED  BY <1>0, <2>1, <2>2, <2>3, ThreadsKept, SchedParts DEF RestOK
<1>5. CASE Mongo!Stop \/ Mongo!Crash
  <2>1. /\ UNCHANGED <<kind, dates, exists, enabled, due, fireIn, sweepIn, unanswered>>
        /\ scheduling' = "down" /\ entry' = FALSE
        /\ job' = [t \in Mongo!Threads |-> "idle"] /\ left' = [t \in Mongo!Threads |-> 0]
    BY <1>5 DEF Mongo!Stop, Mongo!Crash, Mongo!Down
  <2>2. schedFaults' \in 0 .. MaxSchedFaults
    BY <1>5, SchedFaultTyped DEF Mongo!Stop, Mongo!Crash
  <2>3. ThreadsOK'
    BY <2>1, MongoBounds DEF ThreadsOK
  <2>. QED  BY <1>0, <2>1, <2>2, <2>3, SchedParts DEF RestOK
<1>6. CASE Mongo!EntryFires \/ Mongo!Sweep \/ Mongo!RunTaskNow
  <2>1. UNCHANGED <<kind, dates, exists, enabled, due, scheduling, unanswered>>
    BY <1>6 DEF Mongo!EntryFires, Mongo!Sweep, Mongo!RunTaskNow
  <2>2. ThreadsOK'
    <3>1. CASE UNCHANGED <<job, left>>
      BY <3>1, ThreadsKept
    <3>2. CASE \E t \in Mongo!Threads : Mongo!Submit(t)
      BY <3>2, SubmitTyped
    <3>. QED  BY <1>6, <3>1, <3>2 DEF Mongo!EntryFires, Mongo!Sweep, Mongo!RunTaskNow, Mongo!Threads
  <2>3. schedFaults' \in 0 .. MaxSchedFaults
    BY <1>6, SchedFaultTyped DEF Mongo!EntryFires, Mongo!Sweep, Mongo!RunTaskNow
  <2>4. fireIn' \in {fireIn, Period} /\ sweepIn' \in {sweepIn, SweepPeriod}
    BY <1>6 DEF Mongo!EntryFires, Mongo!Sweep, Mongo!RunTaskNow
  <2>5. fireIn' \in 0 .. Mongo!Never /\ sweepIn' \in 0 .. SweepPeriod
    BY <1>0, <2>4, NeverLast, MongoBounds DEF RestOK
  <2>6. entry' \in BOOLEAN
    BY <1>0, <1>6 DEF RestOK, Mongo!EntryFires, Mongo!Sweep, Mongo!RunTaskNow
  <2>. QED  BY <1>0, <2>1, <2>2, <2>3, <2>5, <2>6, SchedParts DEF RestOK
<1>7. CASE Mongo!Tick
  <2>1. UNCHANGED <<kind, dates, exists, enabled, scheduling, entry, job, left, unanswered,
                    schedFaults>>
    BY <1>7 DEF Mongo!Tick
  <2>2. due' \in 0 .. Mongo!Never
    BY <1>0, <1>7, NeverLast DEF Mongo!Tick, RestOK
  <2>3. fireIn' \in 0 .. Mongo!Never
    BY <1>0, <1>7, NeverLast DEF Mongo!Tick, RestOK
  <2>4. sweepIn' \in 0 .. SweepPeriod
    BY <1>0, <1>7, MongoBounds DEF Mongo!Tick, RestOK
  <2>. QED  BY <1>0, <2>1, <2>2, <2>3, <2>4, ThreadsKept, SchedParts DEF RestOK
<1>8. CASE Mongo!UpdateTaskResult
  <2>1. UNCHANGED <<kind, dates, exists, enabled, scheduling, entry, fireIn, sweepIn, job, left,
                    schedFaults>>
    BY <1>8 DEF Mongo!UpdateTaskResult
  <2>2. due' \in 0 .. Mongo!Never
    BY <1>0, <1>8, NeverLast DEF Mongo!UpdateTaskResult, RestOK
  <2>3. unanswered' \in 0 .. MaxUnanswered
    BY <1>0, <1>8, MongoBounds DEF Mongo!UpdateTaskResult, RestOK
  <2>. QED  BY <1>0, <2>1, <2>2, <2>3, ThreadsKept, SchedParts DEF RestOK
<1>9. ASSUME NEW t \in Mongo!Threads, Mongo!Work(t) \/ Mongo!SubmitFails(t) PROVE SchedInv'
  <2>1. UNCHANGED <<kind, dates, exists, enabled, scheduling, entry, fireIn, sweepIn>>
    BY <1>9 DEF Mongo!Work, Mongo!Store, Mongo!Push, Mongo!UpdateTaskStatus, Mongo!SubmitFails
  <2>2. due' \in 0 .. Mongo!Never
    BY <1>0, <1>9, NeverLast DEF RestOK, Mongo!Work, Mongo!Store, Mongo!Push,
       Mongo!UpdateTaskStatus, Mongo!SubmitFails
  <2>3. unanswered' \in 0 .. MaxUnanswered
    BY <1>0, <1>9, MongoBounds DEF RestOK, Mongo!Work, Mongo!Store, Mongo!Push,
       Mongo!UpdateTaskStatus, Mongo!SubmitFails
  <2>4. schedFaults' \in 0 .. MaxSchedFaults
    BY <1>9, SchedFaultTyped DEF Mongo!Work, Mongo!Store, Mongo!Push, Mongo!UpdateTaskStatus,
       Mongo!SubmitFails
  <2>5. ThreadsOK'
    <3>1. CASE Mongo!Store(t)
      BY <3>1, GoesOnTyped DEF Mongo!Store
    <3>2. CASE Mongo!Push(t)
      BY <3>2, GoesOnTyped, NextDateTyped DEF Mongo!Push
    <3>3. CASE Mongo!UpdateTaskStatus(t) \/ Mongo!SubmitFails(t)
      BY <3>3, NextDateTyped DEF Mongo!UpdateTaskStatus, Mongo!SubmitFails
    <3>. QED  BY <1>9, <3>1, <3>2, <3>3 DEF Mongo!Work
  <2>. QED  BY <1>0, <2>1, <2>2, <2>3, <2>4, <2>5, SchedParts DEF RestOK
<1>. QED  BY <1>1, <1>2, <1>3, <1>4, <1>5, <1>6, <1>7, <1>8, <1>9 DEF Mongo!Next, Mongo!Timers

-----------------------------------------------------------------------------
(* Delayed tasks in the queues of Redis.                                   *)

\* The processors that can still push t without anything failing.
MayCopy(t) == {p \in Processors : t \in moving[p] \/ (t \in delayed /\ t \notin copying[p])}

\* What a processor has pushed it has taken from its list; until it is removed there is a
\* copy, and every copy was made by a processor that can make no other.
FateInv(t) ==
  /\ t \notin handed => /\ queued[t] = 0 /\ popped[t] = 0 /\ t \notin delayed
                        /\ \A p \in Processors : t \notin moving[p] /\ t \notin copying[p]
  /\ t \in handed => cleared \/ t \in delayed \/ queued[t] + popped[t] > 0
  /\ \A p \in Processors :
       t \in copying[p] => t \notin moving[p] /\ (cleared \/ queued[t] + popped[t] > 0)
  /\ queued[t] + popped[t] + Cardinality(MayCopy(t)) <= Cardinality(Processors) + qFaults
QueueInv == Queues!RedisQTypeOK /\ \A t \in Delayable : FateInv(t)

LEMMA CopiersCount ==
  ASSUME NEW t
  PROVE  /\ IsFiniteSet(MayCopy(t)) /\ Cardinality(MayCopy(t)) \in Nat
         /\ Cardinality(MayCopy(t)) <= Cardinality(Processors) /\ Cardinality(Processors) \in Nat
         /\ Cardinality(Processors) > 0
<1>1. MayCopy(t) \in SUBSET Processors
  BY DEF MayCopy
<1>. QED  BY <1>1, QueueBounds, FS_Subset, FS_CardinalityType, FS_EmptySet

LEMMA CopiersNext ==
  ASSUME NEW t, NEW p \in Processors
  PROVE  /\ IsFiniteSet(MayCopy(t)') /\ Cardinality(MayCopy(t)') \in Nat
         /\ Cardinality(MayCopy(t)') <= Cardinality(Processors)
         /\ MayCopy(t)' \subseteq MayCopy(t) => Cardinality(MayCopy(t)') <= Cardinality(MayCopy(t))
         /\ MayCopy(t)' \subseteq MayCopy(t) \ {p} /\ p \in MayCopy(t)
              => Cardinality(MayCopy(t)') + 1 <= Cardinality(MayCopy(t))
         /\ MayCopy(t)' \subseteq MayCopy(t) \union {p}
              => Cardinality(MayCopy(t)') <= Cardinality(MayCopy(t)) + 1
<1>1. MayCopy(t)' \in SUBSET Processors
  BY DEF MayCopy
<1>2. IsFiniteSet(MayCopy(t)') /\ Cardinality(MayCopy(t)') \in Nat
      /\ Cardinality(MayCopy(t)') <= Cardinality(Processors)
  BY <1>1, QueueBounds, FS_Subset, FS_CardinalityType
<1>3. IsFiniteSet(MayCopy(t)) /\ Cardinality(MayCopy(t)) \in Nat
  BY CopiersCount
<1>4. ASSUME MayCopy(t)' \subseteq MayCopy(t)
      PROVE  Cardinality(MayCopy(t)') <= Cardinality(MayCopy(t))
  BY <1>3, <1>4, FS_Subset
<1>5. ASSUME MayCopy(t)' \subseteq MayCopy(t) \ {p}, p \in MayCopy(t)
      PROVE  Cardinality(MayCopy(t)') + 1 <= Cardinality(MayCopy(t))
  <2>1. IsFiniteSet(MayCopy(t) \ {p}) /\ Cardinality(MayCopy(t) \ {p}) = Cardinality(MayCopy(t)) - 1
    BY <1>3, <1>5, FS_RemoveElement
  <2>2. Cardinality(MayCopy(t)') <= Cardinality(MayCopy(t) \ {p})
    BY <1>5, <2>1, FS_Subset
  <2>. QED  BY <1>2, <1>3, <2>1, <2>2
<1>6. ASSUME MayCopy(t)' \subseteq MayCopy(t) \union {p}
      PROVE  Cardinality(MayCopy(t)') <= Cardinality(MayCopy(t)) + 1
  <2>1. /\ IsFiniteSet(MayCopy(t) \union {p})
        /\ Cardinality(MayCopy(t) \union {p}) <= Cardinality(MayCopy(t)) + 1
        /\ Cardinality(MayCopy(t) \union {p}) \in Nat
    <3>1. CASE p \in MayCopy(t)
      <4>1. MayCopy(t) \union {p} = MayCopy(t)
        BY <3>1
      <4>2. /\ Cardinality(MayCopy(t) \union {p}) = Cardinality(MayCopy(t))
            /\ IsFiniteSet(MayCopy(t) \union {p})
        BY <1>3, <4>1, Zenon
      <4>. QED  BY <1>3, <4>2
    <3>2. CASE p \notin MayCopy(t)
      BY <1>3, <3>2, FS_AddElement
    <3>. QED  BY <3>1, <3>2
  <2>2. Cardinality(MayCopy(t)') <= Cardinality(MayCopy(t) \union {p})
    BY <1>6, <2>1, FS_Subset
  <2>. QED  BY <1>2, <1>3, <2>1, <2>2
<1>. QED  BY <1>2, <1>4, <1>5, <1>6

LEMMA QueuesInitially == Queues!Init => QueueInv
<1> SUFFICES ASSUME Queues!Init PROVE QueueInv
  OBVIOUS
<1>1. Queues!RedisQTypeOK
  <2>1. /\ queued \in [Delayable -> Nat] /\ popped \in [Delayable -> Nat]
        /\ moving \in [Processors -> SUBSET Delayable]
        /\ copying \in [Processors -> SUBSET Delayable]
    BY DEF Queues!Init, Queues!Nobody
  <2>2. qFaults \in 0..MaxQFaults
    BY QueueBounds DEF Queues!Init
  <2>3. cleared \in BOOLEAN
    BY DEF Queues!Init
  <2>. QED  BY <2>1, <2>2, <2>3 DEF Queues!Init, Queues!RedisQTypeOK
<1>2. ASSUME NEW t \in Delayable PROVE FateInv(t)
  <2>1. queued[t] = 0 /\ popped[t] = 0 /\ qFaults = 0 /\ t \notin delayed /\ t \notin handed
    BY DEF Queues!Init
  <2>2. \A p \in Processors : t \notin moving[p] /\ t \notin copying[p]
    BY DEF Queues!Init, Queues!Nobody
  <2>3. queued[t] + popped[t] + Cardinality(MayCopy(t)) <= Cardinality(Processors) + qFaults
    BY <2>1, CopiersCount
  <2>. QED  BY <2>1, <2>2, <2>3 DEF FateInv
<1>. QED  BY <1>1, <1>2 DEF QueueInv

LEMMA QueueTypesStep == ASSUME Queues!RedisQTypeOK, [Queues!Next]_queuePart
                        PROVE  Queues!RedisQTypeOK'
<1>1. ASSUME NEW t \in Delayable, Queues!PushDelayed(t) \/ Queues!Push(t) \/ Queues!Ripen(t)
        \/ Queues!Pop(t)
      PROVE  Queues!RedisQTypeOK'
  <2>1. CASE Queues!Pop(t)
    <3>1. queued[t] - 1 \in Nat /\ popped[t] + 1 \in Nat
      BY <2>1 DEF Queues!Pop, Queues!RedisQTypeOK
    <3>2. queued' \in [Delayable -> Nat] /\ popped' \in [Delayable -> Nat]
      BY <2>1, <3>1 DEF Queues!Pop, Queues!RedisQTypeOK
    <3>. QED  BY <2>1, <3>2 DEF Queues!Pop, Queues!RedisQTypeOK
  <2>2. CASE Queues!Push(t)
    <3>1. queued' \in [Delayable -> Nat]
      BY <2>2 DEF Queues!Push, Queues!RedisQTypeOK
    <3>. QED  BY <2>2, <3>1 DEF Queues!Push, Queues!RedisQTypeOK
  <2>3. CASE Queues!PushDelayed(t) \/ Queues!Ripen(t)
    BY <2>3 DEF Queues!PushDelayed, Queues!Ripen, Queues!RedisQTypeOK
  <2>. QED  BY <1>1, <2>1, <2>2, <2>3
<1>2. ASSUME NEW p \in Processors, Queues!Read(p) \/ Queues!Remove(p) \/ Queues!RemoveFails(p)
        \/ Queues!Dies(p)
      PROVE  Queues!RedisQTypeOK'
  <2>1. moving' \in [Processors -> SUBSET Delayable]
          /\ copying' \in [Processors -> SUBSET Delayable]
    BY <1>2 DEF Queues!Read, Queues!Remove, Queues!RemoveFails, Queues!Dies, Queues!Nobody,
       Queues!RedisQTypeOK
  <2>2. qFaults' \in 0..MaxQFaults
    BY <1>2, QueueBounds DEF Queues!Read, Queues!Remove, Queues!RemoveFails, Queues!Dies,
       Queues!RedisQTypeOK
  <2>3. delayed' \subseteq Delayable /\ UNCHANGED <<priority, ripe, queued, popped, handed,
                                                    cleared>>
    BY <1>2 DEF Queues!Read, Queues!Remove, Queues!RemoveFails, Queues!Dies, Queues!RedisQTypeOK
  <2>. QED  BY <2>1, <2>2, <2>3 DEF Queues!RedisQTypeOK
<1>3. ASSUME NEW p \in Processors, NEW t \in Delayable, Queues!Copy(p, t) \/ Queues!CopyFails(p, t)
      PROVE  Queues!RedisQTypeOK'
  <2>1. moving' \in [Processors -> SUBSET Delayable]
          /\ copying' \in [Processors -> SUBSET Delayable]
    BY <1>3 DEF Queues!Copy, Queues!CopyFails, Queues!RedisQTypeOK
  <2>2. qFaults' \in 0..MaxQFaults /\ queued' \in [Delayable -> Nat]
    BY <1>3, QueueBounds DEF Queues!Copy, Queues!Copies, Queues!CopyFails, Queues!RedisQTypeOK
  <2>3. UNCHANGED <<priority, delayed, ripe, popped, handed, cleared>>
    BY <1>3 DEF Queues!Copy, Queues!Copies, Queues!CopyFails
  <2>. QED  BY <2>1, <2>2, <2>3 DEF Queues!RedisQTypeOK
<1>4. CASE Queues!Clear
  BY <1>4 DEF Queues!Clear, Queues!RedisQTypeOK
<1>5. CASE UNCHANGED queuePart
  BY <1>5 DEF queuePart, Queues!RedisQTypeOK
<1>. QED  BY <1>1, <1>2, <1>3, <1>4, <1>5 DEF Queues!Next, Queues!Process

\* The numbers behind FateInv.
LEMMA FateNumbers ==
  ASSUME Queues!RedisQTypeOK, NEW t \in Delayable
  PROVE  queued[t] \in Nat /\ popped[t] \in Nat /\ qFaults \in Nat
BY QueueBounds DEF Queues!RedisQTypeOK

\* A step that keeps the copies of a task and lets no processor more copy it.
LEMMA SameFate ==
  ASSUME Queues!RedisQTypeOK, NEW t \in Delayable, FateInv(t), NEW p \in Processors,
         queued'[t] = queued[t], popped'[t] = popped[t], cleared' = cleared,
         qFaults' = qFaults, t \in handed' <=> t \in handed, t \in delayed' <=> t \in delayed,
         \A q \in Processors : /\ t \in copying'[q] => t \in copying[q]
                               /\ t \in moving'[q] => t \in moving[q],
         t \in copying'[p] <=> t \in copying[p],
         \A q \in Processors \ {p} : copying'[q] = copying[q]
  PROVE  FateInv(t)'
<1>1. MayCopy(t)' \subseteq MayCopy(t)
  BY DEF MayCopy
<1>2. Cardinality(MayCopy(t)') <= Cardinality(MayCopy(t)) /\ Cardinality(MayCopy(t)') \in Nat
  BY <1>1, CopiersNext
<1>3. queued[t] + popped[t] + Cardinality(MayCopy(t)) <= Cardinality(Processors) + qFaults
  BY DEF FateInv
<1>4. (queued[t] + popped[t] + Cardinality(MayCopy(t)) <= Cardinality(Processors) + qFaults)'
  BY <1>2, <1>3, CopiersCount, FateNumbers
<1>. QED  BY <1>4 DEF FateInv

LEMMA HandedFate ==
  ASSUME QueueInv, NEW u \in Delayable, Queues!PushDelayed(u) \/ Queues!Push(u), NEW t \in Delayable
  PROVE  FateInv(t)'
<1>1. Queues!RedisQTypeOK /\ FateInv(t)
  BY DEF QueueInv
<1>2. PICK p \in Processors : TRUE
  BY QueueBounds
<1>3. CASE t # u
  <2>1. /\ queued'[t] = queued[t] /\ popped'[t] = popped[t] /\ cleared' = cleared
        /\ qFaults' = qFaults /\ (t \in handed' <=> t \in handed)
             /\ (t \in delayed' <=> t \in delayed)
        /\ copying' = copying /\ moving' = moving
    BY <1>1, <1>3 DEF Queues!PushDelayed, Queues!Push, Queues!RedisQTypeOK
  <2>. QED  BY <1>1, <1>2, <2>1, SameFate
<1>4. CASE t = u
  <2>1. /\ queued[t] = 0 /\ popped[t] = 0 /\ t \notin delayed /\ popped' = popped
        /\ \A q \in Processors : t \notin moving[q] /\ t \notin copying[q]
        /\ moving' = moving /\ copying' = copying /\ t \in handed' /\ qFaults' = qFaults
    BY <1>1, <1>4 DEF FateInv, Queues!PushDelayed, Queues!Push
  <2>2. /\ Cardinality(MayCopy(t)') \in Nat /\ Cardinality(MayCopy(t)') <= Cardinality(Processors)
        /\ Cardinality(Processors) \in Nat /\ Cardinality(Processors) > 0 /\ qFaults \in Nat
    BY <1>1, <1>2, CopiersNext, CopiersCount, FateNumbers
  <2>3. CASE Queues!PushDelayed(u)
    <3>1. queued'[t] = 0 /\ t \in delayed'
      BY <1>4, <2>1, <2>3 DEF Queues!PushDelayed
    <3>. QED  BY <2>1, <2>2, <3>1 DEF FateInv
  <2>4. CASE Queues!Push(u)
    <3>1. queued'[t] = 1 /\ delayed' = delayed
      BY <1>1, <1>4, <2>1, <2>4 DEF Queues!Push, Queues!RedisQTypeOK
    <3>2. MayCopy(t)' = {}
      BY <2>1, <3>1 DEF MayCopy
    <3>3. Cardinality(MayCopy(t)') = 0
      BY <3>2, FS_EmptySet
    <3>. QED  BY <2>1, <2>2, <3>1, <3>3 DEF FateInv
  <2>. QED  BY <1>4, <2>3, <2>4
<1>. QED  BY <1>3, <1>4

LEMMA PopFate ==
  ASSUME QueueInv, NEW u \in Delayable, Queues!Pop(u), NEW t \in Delayable
  PROVE  FateInv(t)'
<1>1. Queues!RedisQTypeOK /\ FateInv(t)
  BY DEF QueueInv
<1>2. UNCHANGED <<delayed, handed, moving, copying, cleared, qFaults>>
  BY DEF Queues!Pop
<1>3. queued'[t] + popped'[t] = queued[t] + popped[t]
  BY <1>1, FateNumbers DEF Queues!Pop, Queues!RedisQTypeOK
<1>4. MayCopy(t)' = MayCopy(t)
  BY <1>2 DEF MayCopy
<1>5. t \notin handed => queued'[t] = 0 /\ popped'[t] = 0
  <2>1. t \notin handed => t # u
    BY <1>1 DEF Queues!Pop, FateInv
  <2>2. t # u => queued'[t] = queued[t] /\ popped'[t] = popped[t]
    BY <1>1 DEF Queues!Pop, Queues!RedisQTypeOK
  <2>. QED  BY <1>1, <2>1, <2>2 DEF FateInv
<1>. QED  BY <1>1, <1>2, <1>3, <1>4, <1>5 DEF FateInv

LEMMA ClearFate ==
  ASSUME QueueInv, Queues!Clear, NEW t \in Delayable
  PROVE  FateInv(t)'
<1>1. Queues!RedisQTypeOK /\ FateInv(t)
  BY DEF QueueInv
<1>2. /\ UNCHANGED <<delayed, popped, handed, moving, copying, qFaults>> /\ cleared'
      /\ queued'[t] = 0
  BY DEF Queues!Clear
<1>3. MayCopy(t)' = MayCopy(t)
  BY <1>2 DEF MayCopy
<1>4. queued'[t] + popped[t] + Cardinality(MayCopy(t)) <= Cardinality(Processors) + qFaults
  BY <1>1, <1>2, FateNumbers, CopiersCount DEF FateInv
<1>. QED  BY <1>1, <1>2, <1>3, <1>4 DEF FateInv

\* A task is on no list and was pushed, or is on its way out of the delayed set.
LEMMA MoveFate ==
  ASSUME QueueInv, NEW p \in Processors, NEW t \in Delayable,
         \/ Queues!Read(p) \/ Queues!Remove(p)
         \/ \E u \in Delayable : Queues!Copy(p, u) \/ Queues!CopyFails(p, u)
  PROVE  FateInv(t)'
<1>1. Queues!RedisQTypeOK /\ FateInv(t)
  BY DEF QueueInv
<1>2. /\ queued[t] \in Nat /\ popped[t] \in Nat /\ qFaults \in Nat
      /\ Cardinality(MayCopy(t)) \in Nat /\ Cardinality(Processors) \in Nat
      /\ queued[t] + popped[t] + Cardinality(MayCopy(t)) <= Cardinality(Processors) + qFaults
  BY <1>1, FateNumbers, CopiersCount DEF FateInv
<1>3. CASE Queues!Read(p)
  <2>1. /\ UNCHANGED <<delayed, queued, popped, handed, copying, cleared, qFaults>>
        /\ moving' = [moving EXCEPT ![p] = delayed \intersect ripe] /\ copying[p] = {}
    BY <1>3 DEF Queues!Read, Queues!Nobody
  <2>2. MayCopy(t)' \subseteq MayCopy(t)
    BY <1>1, <2>1 DEF MayCopy, Queues!RedisQTypeOK
  <2>3. Cardinality(MayCopy(t)') <= Cardinality(MayCopy(t)) /\ Cardinality(MayCopy(t)') \in Nat
    BY <2>2, CopiersNext
  <2>4. queued'[t] + popped'[t] + Cardinality(MayCopy(t)') <= Cardinality(Processors) + qFaults'
    BY <1>2, <2>1, <2>3
  <2>. QED  BY <1>1, <2>1, <2>4 DEF FateInv, Queues!RedisQTypeOK
<1>4. CASE Queues!Remove(p)
  <2>1. /\ UNCHANGED <<queued, popped, handed, moving, cleared, qFaults>>
        /\ delayed' = delayed \ copying[p] /\ copying' = [copying EXCEPT ![p] = {}]
    BY <1>4 DEF Queues!Remove, Queues!Nobody
  <2>2. MayCopy(t)' \subseteq MayCopy(t)
    BY <1>1, <2>1 DEF MayCopy, Queues!RedisQTypeOK, FateInv
  <2>3. Cardinality(MayCopy(t)') <= Cardinality(MayCopy(t)) /\ Cardinality(MayCopy(t)') \in Nat
    BY <2>2, CopiersNext
  <2>4. queued'[t] + popped'[t] + Cardinality(MayCopy(t)') <= Cardinality(Processors) + qFaults'
    BY <1>2, <2>1, <2>3
  <2>. QED  BY <1>1, <2>1, <2>4 DEF FateInv, Queues!RedisQTypeOK
<1>5. ASSUME NEW u \in Delayable, Queues!CopyFails(p, u) PROVE FateInv(t)'
  <2>1. /\ UNCHANGED <<delayed, queued, popped, handed, copying, cleared>>
        /\ moving' = [moving EXCEPT ![p] = @ \ {u}] /\ qFaults' = qFaults + 1
    BY <1>5 DEF Queues!CopyFails
  <2>2. MayCopy(t)' \subseteq MayCopy(t)
    BY <1>1, <2>1 DEF MayCopy, Queues!RedisQTypeOK
  <2>3. Cardinality(MayCopy(t)') <= Cardinality(MayCopy(t)) /\ Cardinality(MayCopy(t)') \in Nat
    BY <2>2, CopiersNext
  <2>4. queued'[t] + popped'[t] + Cardinality(MayCopy(t)') <= Cardinality(Processors) + qFaults'
    BY <1>2, <2>1, <2>3
  <2>. QED  BY <1>1, <2>1, <2>4 DEF FateInv, Queues!RedisQTypeOK
<1>6. ASSUME NEW u \in Delayable, Queues!Copy(p, u) PROVE FateInv(t)'
  <2>1. /\ UNCHANGED <<delayed, popped, handed, cleared,
                       qFaults>> /\ u \in moving[p] /\ copying[p] = {}
        /\ moving' = [moving EXCEPT ![p] = @ \ {u}] /\ copying' = [copying EXCEPT ![p] = {u}]
        /\ queued' = [queued EXCEPT ![u] = @ + 1]
    BY <1>6 DEF Queues!Copy, Queues!Copies, Queues!Nobody
  <2>2. CASE t # u
    <3>1. queued'[t] = queued[t]
      BY <1>1, <2>1, <2>2 DEF Queues!RedisQTypeOK
    <3>2. MayCopy(t)' \subseteq MayCopy(t)
      BY <1>1, <2>1, <2>2 DEF MayCopy, Queues!RedisQTypeOK
    <3>3. Cardinality(MayCopy(t)') <= Cardinality(MayCopy(t)) /\ Cardinality(MayCopy(t)') \in Nat
      BY <3>2, CopiersNext
    <3>4. queued'[t] + popped'[t] + Cardinality(MayCopy(t)') <= Cardinality(Processors) + qFaults'
      BY <1>2, <2>1, <3>1, <3>3
    <3>. QED  BY <1>1, <2>1, <2>2, <3>1, <3>4 DEF FateInv, Queues!RedisQTypeOK
  <2>3. CASE t = u
    <3>1. queued'[t] = queued[t] + 1
      BY <1>1, <2>1, <2>3 DEF Queues!RedisQTypeOK
    <3>2. MayCopy(t)' \subseteq MayCopy(t) \ {p} /\ p \in MayCopy(t)
      BY <1>1, <2>1, <2>3 DEF MayCopy, Queues!RedisQTypeOK
    <3>3. Cardinality(MayCopy(t)') + 1 <= Cardinality(MayCopy(t))
            /\ Cardinality(MayCopy(t)') \in Nat
      BY <3>2, CopiersNext
    <3>4. queued'[t] + popped'[t] + Cardinality(MayCopy(t)') <= Cardinality(Processors) + qFaults'
      BY <1>2, <2>1, <3>1, <3>3
    <3>5. queued'[t] + popped'[t] > 0
      BY <1>2, <2>1, <3>1
    <3>6. t \in handed'
      BY <1>1, <2>1, <2>3 DEF FateInv
    <3>7. \A q \in Processors : t \in copying'[q] => t \notin moving'[q]
      BY <1>1, <2>1, <2>3 DEF FateInv, Queues!RedisQTypeOK
    <3>. QED  BY <3>4, <3>5, <3>6, <3>7 DEF FateInv
  <2>. QED  BY <2>2, <2>3
<1>. QED  BY <1>3, <1>4, <1>5, <1>6

\* A processor that fails after its push may copy the same task once more: that is a fault.
LEMMA FaultFate ==
  ASSUME QueueInv, NEW p \in Processors, NEW t \in Delayable,
         Queues!RemoveFails(p) \/ Queues!Dies(p)
  PROVE  FateInv(t)'
<1>1. Queues!RedisQTypeOK /\ FateInv(t)
  BY DEF QueueInv
<1>2. /\ queued[t] \in Nat /\ popped[t] \in Nat /\ qFaults \in Nat
      /\ Cardinality(MayCopy(t)) \in Nat /\ Cardinality(Processors) \in Nat
      /\ queued[t] + popped[t] + Cardinality(MayCopy(t)) <= Cardinality(Processors) + qFaults
  BY <1>1, FateNumbers, CopiersCount DEF FateInv
<1>3. /\ UNCHANGED <<delayed, queued, popped, handed, cleared>> /\ qFaults' = qFaults + 1
      /\ copying' = [copying EXCEPT ![p] = {}]
      /\ moving' \in {moving, [moving EXCEPT ![p] = {}]}
  BY DEF Queues!RemoveFails, Queues!Dies, Queues!Nobody
<1>4. MayCopy(t)' \subseteq MayCopy(t) \union {p}
  BY <1>1, <1>3 DEF MayCopy, Queues!RedisQTypeOK
<1>5. Cardinality(MayCopy(t)') <= Cardinality(MayCopy(t)) + 1 /\ Cardinality(MayCopy(t)') \in Nat
  BY <1>4, CopiersNext
<1>6. queued'[t] + popped'[t] + Cardinality(MayCopy(t)') <= Cardinality(Processors) + qFaults'
  BY <1>2, <1>3, <1>5
<1>7. \A q \in Processors : /\ t \in copying'[q] => t \in copying[q]
                            /\ t \in moving'[q] => t \in moving[q]
  BY <1>1, <1>3 DEF Queues!RedisQTypeOK
<1>. QED  BY <1>1, <1>3, <1>6, <1>7 DEF FateInv

LEMMA QueuesStep == ASSUME QueueInv, [Queues!Next]_queuePart PROVE QueueInv'
<1>1. Queues!RedisQTypeOK'
  BY QueueTypesStep DEF QueueInv
<1>2. ASSUME NEW t \in Delayable PROVE FateInv(t)'
  <2>1. ASSUME NEW u \in Delayable, Queues!Ripen(u) PROVE FateInv(t)'
    <3>1. UNCHANGED <<delayed, queued, popped, handed, moving, copying, cleared, qFaults>>
      BY <2>1 DEF Queues!Ripen
    <3>. QED  BY <3>1 DEF QueueInv, FateInv, MayCopy
  <2>2. CASE UNCHANGED queuePart
    BY <2>2 DEF queuePart, QueueInv, FateInv, MayCopy
  <2>. QED  BY <2>1, <2>2, HandedFate, PopFate, ClearFate, MoveFate, FaultFate DEF Queues!Next,
               Queues!Process
<1>. QED  BY <1>1, <1>2 DEF QueueInv

LEMMA QueueFates == QueueInv => Queues!DelayedFate
<1> SUFFICES ASSUME QueueInv, NEW t \in handed
             PROVE  /\ cleared \/ t \in delayed \/ queued[t] + popped[t] > 0
                    /\ queued[t] + popped[t] <= Cardinality(Processors) + qFaults
  BY SameCount DEF Queues!DelayedFate
<1>1. t \in Delayable /\ Queues!RedisQTypeOK /\ FateInv(t)
  BY DEF QueueInv, Queues!RedisQTypeOK
<1>. QED  BY <1>1, CopiersCount, FateNumbers DEF FateInv

-----------------------------------------------------------------------------
(* Schedules of cron.                                                      *)

\* The limit is a number, and only so many executions are side by side.
RunsFinite == Schedules # {} /\ IsFiniteSet(Executions) /\ MaxRuns \in Nat

\* An execution never works with an object that is yet to be added, so that an
\* AddSchedule leaves none in flight for the new one.
RunsInv ==
  /\ adds \in [Schedules -> Nat] /\ runCount \in [Schedules -> Nat]
  /\ at \in [Executions -> {"idle", "check", "submit", "count"}]
  /\ on \in [Executions -> [id : Schedules, add : Nat]]
  /\ \A x \in Executions : on[x].add <= adds[on[x].id]
  /\ Cron!MaxRunsHolds

LEMMA RunSizes ==
  ASSUME RunsFinite, NEW s
  PROVE  /\ IsFiniteSet(Cron!InFlight(s)) /\ Cardinality(Cron!InFlight(s)) \in Nat
         /\ Cardinality(Executions) \in Nat
         /\ Cardinality(Cron!InFlight(s)) <= Cardinality(Executions)
<1>1. IsFiniteSet(Executions) /\ Cron!InFlight(s) \in SUBSET Executions
  BY DEF RunsFinite, Cron!InFlight
<1>. QED  BY <1>1, FS_Subset, FS_CardinalityType

\* A step that adds no execution to those in flight and counts no run.
LEMMA FewerInFlight ==
  ASSUME RunsFinite, NEW s, Cron!InFlight(s)' \subseteq Cron!InFlight(s)
  PROVE  Cardinality(Cron!InFlight(s)') <= Cardinality(Cron!InFlight(s))
           /\ Cardinality(Cron!InFlight(s)') \in Nat
<1>1. IsFiniteSet(Cron!InFlight(s)) /\ Cron!InFlight(s)' \in SUBSET Cron!InFlight(s)
  BY RunSizes
<1>. QED  BY <1>1, FS_Subset, FS_CardinalityType

\* What a step may do to the executions in flight, from the strictest bound on.
LEMMA NoMoreRuns ==
  ASSUME RunsFinite, RunsInv, runCount' = runCount,
         \A s \in Schedules : Cron!InFlight(s)' \subseteq Cron!InFlight(s)
  PROVE  Cron!MaxRunsHolds'
<1> SUFFICES ASSUME MaxRuns > 0, NEW s \in Schedules
             PROVE  runCount'[s] + Cardinality(Cron!InFlight(s)') < MaxRuns + Cardinality(Executions)
  BY SameCount DEF Cron!MaxRunsHolds
<1>1. /\ Cardinality(Cron!InFlight(s)') <= Cardinality(Cron!InFlight(s))
      /\ Cardinality(Cron!InFlight(s)') \in Nat /\ Cardinality(Cron!InFlight(s)) \in Nat
  BY FewerInFlight, RunSizes
<1>2. /\ runCount[s] + Cardinality(Cron!InFlight(s)) < MaxRuns + Cardinality(Executions)
      /\ runCount[s] \in Nat /\ MaxRuns \in Nat /\ Cardinality(Executions) \in Nat
  BY RunSizes, SameCount DEF RunsInv, Cron!MaxRunsHolds, RunsFinite
<1>. QED  BY <1>1, <1>2

LEMMA AddScheduleRuns ==
  ASSUME RunsFinite, RunsInv, NEW a \in Schedules, NEW e, NEW n, Cron!AddSchedule(a, e, n)
  PROVE  RunsInv'
<1>1. /\ adds' = [adds EXCEPT ![a] = @ + 1] /\ runCount' = [runCount EXCEPT ![a] = 0]
      /\ present' = present \union {a} /\ at' = at /\ on' = on
  BY DEF Cron!AddSchedule
<1>2. /\ adds' \in [Schedules -> Nat] /\ runCount' \in [Schedules -> Nat]
      /\ \A x \in Executions : on[x].add <= adds'[on[x].id]
  BY <1>1 DEF RunsInv
<1>3. Cron!InFlight(a)' = {}
  BY <1>1 DEF Cron!InFlight, Cron!Current, RunsInv
<1>4. \A s \in Schedules : s # a => Cron!InFlight(s)' \subseteq Cron!InFlight(s)
  BY <1>1 DEF Cron!InFlight, Cron!Current, RunsInv
<1>5. Cron!MaxRunsHolds'
  <2> SUFFICES ASSUME MaxRuns > 0, NEW s \in Schedules
               PROVE  runCount'[s] + Cardinality(Cron!InFlight(s)') < MaxRuns + Cardinality(Executions)
    BY SameCount DEF Cron!MaxRunsHolds
  <2>1. Cardinality(Executions) \in Nat /\ MaxRuns \in Nat
    BY RunSizes DEF RunsFinite
  <2>2. CASE s = a
    <3>1. runCount'[s] = 0 /\ Cardinality(Cron!InFlight(s)') = 0
      BY <1>1, <1>3, <2>2, FS_EmptySet DEF RunsInv
    <3>. QED  BY <2>1, <3>1
  <2>3. CASE s # a
    <3>1. runCount'[s] = runCount[s] /\ runCount[s] \in Nat
      BY <1>1, <2>3 DEF RunsInv
    <3>2. Cron!InFlight(s)' \subseteq Cron!InFlight(s)
      BY <1>4, <2>3
    <3>3. /\ Cardinality(Cron!InFlight(s)') <= Cardinality(Cron!InFlight(s))
          /\ Cardinality(Cron!InFlight(s)') \in Nat /\ Cardinality(Cron!InFlight(s)) \in Nat
      BY <3>2, FewerInFlight, RunSizes
    <3>4. runCount[s] + Cardinality(Cron!InFlight(s)) < MaxRuns + Cardinality(Executions)
      BY SameCount DEF RunsInv, Cron!MaxRunsHolds
    <3>. QED  BY <2>1, <3>1, <3>3, <3>4
  <2>. QED  BY <2>2, <2>3
<1>. QED  BY <1>1, <1>2, <1>5 DEF RunsInv

\* An execution starts: it is not in flight before its check.
LEMMA ExecuteRuns ==
  ASSUME RunsFinite, RunsInv, NEW x \in Executions, NEW s \in Schedules, Cron!Execute(x, s),
         UNCHANGED <<present, adds, runCount>>
  PROVE  RunsInv'
<1>1. /\ at' = [at EXCEPT ![x] = "check"] /\ on' = [on EXCEPT ![x] = [id |-> s, add |-> adds[s]]]
      /\ at[x] = "idle"
  BY DEF Cron!Execute
<1>2. \A t \in Schedules : Cron!InFlight(t)' \subseteq Cron!InFlight(t)
  BY <1>1 DEF Cron!InFlight, Cron!Current, RunsInv
<1>3. Cron!MaxRunsHolds'
  BY <1>2, NoMoreRuns
<1>. QED  BY <1>1, <1>3 DEF RunsInv

LEMMA CheckRuns ==
  ASSUME RunsFinite, RunsInv, NEW x \in Executions, Cron!Check(x)
  PROVE  RunsInv'
<1>1. /\ present' = present /\ adds' = adds /\ runCount' = runCount /\ on' = on
      /\ at[x] = "check"
  BY DEF Cron!Check
<1>2. \/ at' = [at EXCEPT ![x] = "idle"]
      \/ /\ at' = [at EXCEPT ![x] = "submit"]
         /\ Cron!Current(x) => ~Cron!AtMaxRuns(on[x].id)
  BY DEF Cron!Check
<1>3. Cron!MaxRunsHolds'
  <2> SUFFICES ASSUME MaxRuns > 0, NEW s \in Schedules
               PROVE  runCount'[s] + Cardinality(Cron!InFlight(s)') < MaxRuns + Cardinality(Executions)
    BY SameCount DEF Cron!MaxRunsHolds
  <2>1. runCount'[s] = runCount[s] /\ runCount[s] \in Nat /\ MaxRuns \in Nat
    BY <1>1 DEF RunsInv, RunsFinite
  <2>2. /\ Cardinality(Executions) \in Nat /\ Cardinality(Cron!InFlight(s)) \in Nat
        /\ runCount[s] + Cardinality(Cron!InFlight(s)) < MaxRuns + Cardinality(Executions)
    BY RunSizes, SameCount DEF RunsInv, Cron!MaxRunsHolds
  <2>3. CASE Cron!InFlight(s)' \subseteq Cron!InFlight(s)
    <3>1. Cardinality(Cron!InFlight(s)') <= Cardinality(Cron!InFlight(s))
            /\ Cardinality(Cron!InFlight(s)') \in Nat
      BY <2>3, FewerInFlight
    <3>. QED  BY <2>1, <2>2, <3>1
  <2>4. CASE ~(Cron!InFlight(s)' \subseteq Cron!InFlight(s))
    <3>1. Cron!Current(x) /\ on[x].id = s /\ ~Cron!AtMaxRuns(s)
      BY <1>1, <1>2, <2>4 DEF Cron!InFlight, Cron!Current, RunsInv
    <3>2. runCount[s] < MaxRuns
      BY <2>1, <3>1 DEF Cron!AtMaxRuns
    <3>3. Cron!InFlight(s)' \in SUBSET Executions /\ IsFiniteSet(Executions)
      BY DEF Cron!InFlight, RunsFinite
    <3>4. Cardinality(Cron!InFlight(s)') \in Nat
            /\ Cardinality(Cron!InFlight(s)') <= Cardinality(Executions)
      BY <3>3, FS_Subset, FS_CardinalityType
    <3>. QED  BY <2>1, <2>2, <3>2, <3>4
  <2>. QED  BY <2>3, <2>4
<1>. QED  BY <1>1, <1>2, <1>3 DEF RunsInv

\* A run that is counted is in flight no more.
LEMMA CountRuns ==
  ASSUME RunsFinite, RunsInv, NEW x \in Executions, Cron!Count(x)
  PROVE  RunsInv'
<1>1. /\ present' = present /\ adds' = adds /\ on' = on /\ at[x] = "count"
      /\ at' = [at EXCEPT ![x] = "idle"]
      /\ runCount' = IF Cron!Current(x) THEN [runCount EXCEPT ![on[x].id] = @ + 1] ELSE runCount
  BY DEF Cron!Count
<1>2. \A s \in Schedules : Cron!InFlight(s)' \subseteq Cron!InFlight(s)
  BY <1>1 DEF Cron!InFlight, Cron!Current, RunsInv
<1>3. CASE ~Cron!Current(x)
  <2>1. Cron!MaxRunsHolds'
    BY <1>1, <1>2, <1>3, NoMoreRuns
  <2>. QED  BY <1>1, <1>3, <2>1 DEF RunsInv
<1>4. CASE Cron!Current(x)
  <2>1. runCount' \in [Schedules -> Nat]
    BY <1>1, <1>4 DEF RunsInv
  <2>2. Cron!MaxRunsHolds'
    <3> SUFFICES ASSUME MaxRuns > 0, NEW s \in Schedules
                 PROVE  runCount'[s] + Cardinality(Cron!InFlight(s)')
                          < MaxRuns + Cardinality(Executions)
      BY SameCount DEF Cron!MaxRunsHolds
    <3>1. /\ Cardinality(Executions) \in Nat /\ Cardinality(Cron!InFlight(s)) \in Nat
          /\ runCount[s] + Cardinality(Cron!InFlight(s)) < MaxRuns + Cardinality(Executions)
          /\ runCount[s] \in Nat /\ MaxRuns \in Nat
      BY RunSizes, SameCount DEF RunsInv, Cron!MaxRunsHolds, RunsFinite
    <3>2. Cardinality(Cron!InFlight(s)') <= Cardinality(Cron!InFlight(s))
            /\ Cardinality(Cron!InFlight(s)') \in Nat
      BY <1>2, FewerInFlight
    <3>3. CASE on[x].id # s
      <4>1. runCount'[s] = runCount[s]
        BY <1>1, <3>3 DEF RunsInv
      <4>. QED  BY <3>1, <3>2, <4>1
    <3>4. CASE on[x].id = s
      <4>1. runCount'[s] = runCount[s] + 1
        BY <1>1, <1>4, <3>4 DEF RunsInv
      <4>2. x \in Cron!InFlight(s) /\ Cron!InFlight(s)' = Cron!InFlight(s) \ {x}
        BY <1>1, <1>4, <3>4 DEF Cron!InFlight, Cron!Current, RunsInv
      <4>3. Cardinality(Cron!InFlight(s)') = Cardinality(Cron!InFlight(s)) - 1
        BY <4>2, RunSizes, FS_RemoveElement
      <4>. QED  BY <3>1, <3>2, <4>1, <4>3
    <3>. QED  BY <3>3, <3>4
  <2>. QED  BY <1>1, <2>1, <2>2 DEF RunsInv
<1>. QED  BY <1>3, <1>4

LEMMA RunsStep == ASSUME RunsFinite, RunsInv, [Cron!Next]_cronPart PROVE RunsInv'
\* Whatever else keeps the counters and brings no schedule into the table.
<1>1. ASSUME UNCHANGED <<adds, runCount, at, on>>, present' \subseteq present PROVE RunsInv'
  <2>1. \A s \in Schedules : Cron!InFlight(s)' \subseteq Cron!InFlight(s)
    BY <1>1 DEF Cron!InFlight, Cron!Current
  <2>2. Cron!MaxRunsHolds'
    BY <1>1, <2>1, NoMoreRuns
  <2>. QED  BY <1>1, <2>2 DEF RunsInv
<1>2. ASSUME NEW s \in Schedules, NEW e \in BOOLEAN, NEW n \in BOOLEAN, Cron!AddSchedule(s, e, n)
      PROVE  RunsInv'
  BY <1>2, AddScheduleRuns
<1>3. ASSUME NEW s \in Schedules, Cron!RemoveSchedule(s) \/ Cron!EnableSchedule(s)
        \/ Cron!DisableSchedule(s)
      PROVE  RunsInv'
  BY <1>1, <1>3 DEF Cron!RemoveSchedule, Cron!EnableSchedule, Cron!DisableSchedule
<1>4. ASSUME NEW s \in Schedules, Cron!HandleEvent(s) PROVE RunsInv'
  <2>1. CASE \E x \in Executions : Cron!Execute(x, s)
    BY <1>4, <2>1, ExecuteRuns DEF Cron!HandleEvent
  <2>2. CASE UNCHANGED <<at, on>>
    BY <1>1, <1>4, <2>2 DEF Cron!HandleEvent
  <2>. QED  BY <1>4, <2>1, <2>2 DEF Cron!HandleEvent
<1>5. ASSUME NEW s \in Schedules, NEW x \in Executions,
             Cron!Fires(x, s) \/ Cron!TriggerSchedule(x, s)
      PROVE  RunsInv'
  BY <1>5, ExecuteRuns DEF Cron!Fires, Cron!TriggerSchedule
<1>6. CASE Cron!Start \/ Cron!Stop \/ Cron!TriggerEvent
  BY <1>1, <1>6 DEF Cron!Start, Cron!Stop, Cron!TriggerEvent
<1>7. ASSUME NEW x \in Executions, Cron!Check(x) PROVE RunsInv'
  BY <1>7, CheckRuns
<1>8. ASSUME NEW x \in Executions, Cron!Submit(x) PROVE RunsInv'
  <2>1. /\ UNCHANGED <<present, adds, runCount, on>> /\ at[x] = "submit"
        /\ \E o \in {"count", "idle"} : at' = [at EXCEPT ![x] = o]
    BY <1>8 DEF Cron!Submit
  <2>2. \A s \in Schedules : Cron!InFlight(s)' \subseteq Cron!InFlight(s)
    BY <2>1 DEF Cron!InFlight, Cron!Current, RunsInv
  <2>3. Cron!MaxRunsHolds'
    BY <2>1, <2>2, NoMoreRuns
  <2>. QED  BY <2>1, <2>3 DEF RunsInv
<1>9. ASSUME NEW x \in Executions, Cron!Count(x) PROVE RunsInv'
  BY <1>9, CountRuns
<1>10. CASE UNCHANGED cronPart
  BY <1>1, <1>10 DEF cronPart
<1>. QED  BY <1>2, <1>3, <1>4, <1>5, <1>6, <1>7, <1>8, <1>9, <1>10 DEF Cron!Next

LEMMA RunsInitially == ASSUME RunsFinite PROVE Cron!Init => RunsInv
<1> SUFFICES ASSUME Cron!Init PROVE RunsInv
  OBVIOUS
<1>1. \A s : Cron!InFlight(s) = {}
  BY DEF Cron!Init, Cron!InFlight
<1>2. Cardinality({}) = 0 /\ Cardinality(Executions) \in Nat /\ MaxRuns \in Nat
  BY FS_EmptySet, RunSizes DEF RunsFinite
<1>3. (CHOOSE s \in Schedules : TRUE) \in Schedules
  BY DEF RunsFinite
<1>4. Cron!MaxRunsHolds
  <2>1. \A s \in Schedules : runCount[s] = 0 /\ Cardinality(Cron!InFlight(s)) = 0
    BY <1>1, <1>2 DEF Cron!Init
  <2>. QED  BY <1>2, <2>1, SameCount DEF Cron!MaxRunsHolds
<1>. QED  BY <1>3, <1>4 DEF Cron!Init, RunsInv

\* Metadata that holds an entry's ID means that cron has one.
CronInv == Cron!CronTypeOK /\ entries \in [Schedules -> Nat] /\ \A s \in recorded : entries[s] > 0

LEMMA CronInitially == Cron!Init => CronInv
<1> SUFFICES ASSUME Cron!Init PROVE CronInv
  OBVIOUS
<1>1. /\ adds \in [Schedules -> 0..MaxAdds] /\ runCount \in [Schedules -> Nat]
      /\ entries \in [Schedules -> Nat] /\ eventChan \in 0 .. EventCapacity
  BY CronBounds DEF Cron!Init
<1>2. at \in [Executions -> {"idle", "check", "submit", "count"}]
  BY DEF Cron!Init
<1>. QED  BY <1>1, <1>2 DEF Cron!Init, CronInv, Cron!CronTypeOK

LEMMA DropsTyped ==
  ASSUME CronInv, NEW s \in Schedules, Cron!DropsEntry(s), recorded' = recorded \ {s}
  PROVE  entries' \in [Schedules -> Nat] /\ \A u \in recorded' : entries'[u] > 0
<1>1. entries \in [Schedules -> Nat] /\ recorded \subseteq Schedules
        /\ \A u \in recorded : entries[u] > 0
  BY DEF CronInv, Cron!CronTypeOK
<1>2. CASE s \in recorded
  <2>1. entries' = [entries EXCEPT ![s] = @ - 1]
    BY <1>2 DEF Cron!DropsEntry
  <2>. QED  BY <1>1, <1>2, <2>1
<1>3. CASE s \notin recorded
  <2>1. entries' = [entries EXCEPT ![s] = @]
    BY <1>3 DEF Cron!DropsEntry
  <2>2. entries' = entries
    BY <1>1, <2>1
  <2>. QED  BY <1>1, <2>2
<1>. QED  BY <1>2, <1>3

LEMMA AddsTyped ==
  ASSUME CronInv, NEW s \in Schedules, entries' = [entries EXCEPT ![s] = @ + 1],
         recorded' = recorded \union {s}
  PROVE  entries' \in [Schedules -> Nat] /\ \A u \in recorded' : entries'[u] > 0
<1>1. entries \in [Schedules -> Nat] /\ recorded \subseteq Schedules
        /\ \A u \in recorded : entries[u] > 0
  BY DEF CronInv, Cron!CronTypeOK
<1>. QED  BY <1>1

LEMMA EntriesKept ==
  ASSUME CronInv, entries' = entries, recorded' \subseteq recorded
  PROVE  entries' \in [Schedules -> Nat] /\ \A u \in recorded' : entries'[u] > 0
BY DEF CronInv

\* An execution goes to another step.
LEMMA AtTyped ==
  ASSUME CronInv, at' = at \/ \E x \in Executions, o \in {"idle", "check", "submit", "count"} :
                                at' = [at EXCEPT ![x] = o]
  PROVE  at' \in [Executions -> {"idle", "check", "submit", "count"}]
BY DEF CronInv, Cron!CronTypeOK

LEMMA CronStep == ASSUME CronInv, [Cron!Next]_cronPart PROVE CronInv'
<1>0. Cron!CronTypeOK
  BY DEF CronInv
<1>1. ASSUME NEW s \in Schedules, NEW e \in BOOLEAN, NEW n \in BOOLEAN, Cron!AddSchedule(s, e, n)
      PROVE  CronInv'
  <2>1. /\ UNCHANGED <<stype, cronState, eventChan, at, on>> /\ present' = present \union {s}
        /\ active' \subseteq active \union {s} /\ nextSet' \subseteq nextSet \union {s}
    BY <1>1 DEF Cron!AddSchedule
  <2>2. /\ adds' = [adds EXCEPT ![s] = @ + 1] /\ adds[s] < MaxAdds
        /\ runCount' = [runCount EXCEPT ![s] = 0]
    BY <1>1 DEF Cron!AddSchedule
  <2>3. adds' \in [Schedules -> 0..MaxAdds] /\ runCount' \in [Schedules -> Nat]
    BY <1>0, <2>2, CronBounds DEF Cron!CronTypeOK
  <2>4. recorded' \subseteq present'
    BY <1>0, <1>1, <2>1 DEF Cron!AddSchedule, Cron!CronTypeOK
  <2>5. entries' \in [Schedules -> Nat] /\ \A u \in recorded' : entries'[u] > 0
    <3>1. CASE e /\ Cron!AddsEntry(s)
      BY <1>1, <3>1, AddsTyped DEF Cron!AddSchedule
    <3>2. CASE ~(e /\ Cron!AddsEntry(s))
      BY <1>1, <3>2, EntriesKept DEF Cron!AddSchedule
    <3>. QED  BY <3>1, <3>2
  <2>. QED  BY <1>0, <2>1, <2>3, <2>4, <2>5 DEF CronInv, Cron!CronTypeOK
<1>2. ASSUME NEW s \in Schedules, Cron!RemoveSchedule(s) PROVE CronInv'
  <2>1. /\ UNCHANGED <<stype, adds, runCount, cronState, eventChan, at, on>>
        /\ present' = present \ {s} /\ active' = active \ {s} /\ nextSet' = nextSet \ {s}
        /\ recorded' = recorded \ {s} /\ Cron!DropsEntry(s)
    BY <1>2 DEF Cron!RemoveSchedule
  <2>2. entries' \in [Schedules -> Nat] /\ \A u \in recorded' : entries'[u] > 0
    BY <2>1, DropsTyped
  <2>. QED  BY <1>0, <2>1, <2>2 DEF CronInv, Cron!CronTypeOK
<1>3. ASSUME NEW s \in Schedules, Cron!EnableSchedule(s) PROVE CronInv'
  <2>1. /\ UNCHANGED <<stype, present, nextSet, adds, runCount, cronState, eventChan, at, on>>
        /\ active' = active \union {s} /\ s \in present /\ recorded' \subseteq recorded \union {s}
    BY <1>3 DEF Cron!EnableSchedule
  <2>2. entries' \in [Schedules -> Nat] /\ \A u \in recorded' : entries'[u] > 0
    BY <1>3, AddsTyped, EntriesKept DEF Cron!EnableSchedule
  <2>. QED  BY <1>0, <2>1, <2>2 DEF CronInv, Cron!CronTypeOK
<1>4. ASSUME NEW s \in Schedules, Cron!Disabled(s) \/ UNCHANGED <<active, recorded, entries>>
      PROVE  /\ active' \subseteq active /\ recorded' \subseteq recorded
             /\ entries' \in [Schedules -> Nat] /\ \A u \in recorded' : entries'[u] > 0
  BY <1>4, DropsTyped, EntriesKept DEF Cron!Disabled
<1>5. ASSUME NEW s \in Schedules, Cron!DisableSchedule(s) PROVE CronInv'
  <2>1. UNCHANGED <<stype, present, nextSet, adds, runCount, cronState, eventChan, at,
                    on>> /\ Cron!Disabled(s)
    BY <1>5 DEF Cron!DisableSchedule
  <2>. QED  BY <1>0, <1>4, <2>1 DEF CronInv, Cron!CronTypeOK
<1>6. CASE Cron!Start
  <2>1. /\ UNCHANGED <<stype, present, active, nextSet, adds, runCount, recorded, eventChan, at,
                       on>>
        /\ cronState' = "running"
        /\ entries' = [s \in Schedules |-> IF s \in active /\ Cron!AddsEntry(s)
                                           THEN entries[s] + 1 ELSE entries[s]]
    BY <1>6 DEF Cron!Start
  <2>2. entries \in [Schedules -> Nat] /\ recorded \subseteq Schedules
          /\ \A u \in recorded : entries[u] > 0
    BY <1>0 DEF CronInv, Cron!CronTypeOK
  <2>3. entries' \in [Schedules -> Nat] /\ \A u \in recorded' : entries'[u] > 0
    BY <2>1, <2>2
  <2>. QED  BY <1>0, <2>1, <2>3 DEF CronInv, Cron!CronTypeOK
<1>7. CASE Cron!Stop
  BY <1>0, <1>7 DEF Cron!Stop, CronInv, Cron!CronTypeOK
<1>8. ASSUME NEW s \in Schedules, NEW x \in Executions,
             Cron!Fires(x, s) \/ Cron!TriggerSchedule(x, s)
      PROVE  CronInv'
  <2>1. /\ UNCHANGED <<stype, present, active, nextSet, adds, runCount, entries, recorded,
                       cronState,
                       eventChan>>
        /\ at' = [at EXCEPT ![x] = "check"]
    BY <1>8 DEF Cron!Fires, Cron!TriggerSchedule, Cron!Execute
  <2>2. at' \in [Executions -> {"idle", "check", "submit", "count"}]
    BY <2>1, AtTyped
  <2>. QED  BY <1>0, <2>1, <2>2 DEF CronInv, Cron!CronTypeOK
<1>9. ASSUME NEW s \in Schedules, Cron!HandleEvent(s) PROVE CronInv'
  <2>1. /\ UNCHANGED <<stype, present, active, nextSet, adds, runCount, entries, recorded,
                       cronState>>
        /\ eventChan > 0 /\ eventChan' = eventChan - 1
    BY <1>9 DEF Cron!HandleEvent
  <2>2. eventChan' \in 0 .. EventCapacity
    BY <1>0, <2>1, CronBounds DEF Cron!CronTypeOK
  <2>3. at' \in [Executions -> {"idle", "check", "submit", "count"}]
    BY <1>9, AtTyped DEF Cron!HandleEvent, Cron!Execute
  <2>. QED  BY <1>0, <2>1, <2>2, <2>3 DEF CronInv, Cron!CronTypeOK
<1>10. CASE Cron!TriggerEvent
  <2>1. /\ UNCHANGED <<stype, present, active, nextSet, adds, runCount, entries, recorded,
                       cronState, at>>
        /\ eventChan < EventCapacity /\ eventChan' = eventChan + 1
    BY <1>10 DEF Cron!TriggerEvent
  <2>2. eventChan' \in 0 .. EventCapacity
    BY <1>0, <2>1, CronBounds DEF Cron!CronTypeOK
  <2>. QED  BY <1>0, <2>1, <2>2 DEF CronInv, Cron!CronTypeOK
<1>11. ASSUME NEW x \in Executions, Cron!Check(x) PROVE CronInv'
  <2>1. /\ UNCHANGED <<stype, present, nextSet, adds, runCount, cronState, eventChan>>
        /\ \E o \in {"submit", "idle"} : at' = [at EXCEPT ![x] = o]
    BY <1>11 DEF Cron!Check
  <2>2. at' \in [Executions -> {"idle", "check", "submit", "count"}]
    BY <2>1, AtTyped
  <2>3. \/ on[x].id \in present /\ Cron!Disabled(on[x].id)
        \/ UNCHANGED <<active, recorded, entries>>
    BY <1>11 DEF Cron!Check
  <2>4. /\ active' \subseteq active /\ recorded' \subseteq recorded
        /\ entries' \in [Schedules -> Nat] /\ \A u \in recorded' : entries'[u] > 0
    <3>1. CASE UNCHANGED <<active, recorded, entries>>
      BY <3>1 DEF CronInv
    <3>2. CASE on[x].id \in present /\ Cron!Disabled(on[x].id)
      <4>1. PICK s \in Schedules : Cron!Disabled(s)
        BY <1>0, <3>2 DEF Cron!CronTypeOK
      <4>. QED  BY <1>4, <4>1
    <3>. QED  BY <2>3, <3>1, <3>2
  <2>. QED  BY <1>0, <2>1, <2>2, <2>4 DEF CronInv, Cron!CronTypeOK
<1>12. ASSUME NEW x \in Executions, Cron!Submit(x) PROVE CronInv'
  <2>1. /\ UNCHANGED <<stype, present, active, nextSet, adds, runCount, entries, recorded,
                       cronState,
                       eventChan>>
        /\ \E o \in {"count", "idle"} : at' = [at EXCEPT ![x] = o]
    BY <1>12 DEF Cron!Submit
  <2>2. at' \in [Executions -> {"idle", "check", "submit", "count"}]
    BY <2>1, AtTyped
  <2>. QED  BY <1>0, <2>1, <2>2 DEF CronInv, Cron!CronTypeOK
<1>13. ASSUME NEW x \in Executions, Cron!Count(x) PROVE CronInv'
  <2>1. /\ UNCHANGED <<stype, present, active, nextSet, adds, entries, recorded, cronState,
                       eventChan>>
        /\ at' = [at EXCEPT ![x] = "idle"]
    BY <1>13 DEF Cron!Count
  <2>2. at' \in [Executions -> {"idle", "check", "submit", "count"}]
    BY <2>1, AtTyped
  <2>3. runCount' \in [Schedules -> Nat]
    <3>1. CASE ~Cron!Current(x)
      BY <1>0, <1>13, <3>1 DEF Cron!Count, Cron!CronTypeOK
    <3>2. CASE Cron!Current(x)
      <4>1. PICK s \in Schedules : s = on[x].id
        BY <1>0, <3>2 DEF Cron!Current, Cron!CronTypeOK
      <4>2. runCount' = [runCount EXCEPT ![s] = @ + 1]
        BY <1>13, <3>2, <4>1 DEF Cron!Count
      <4>. QED  BY <1>0, <4>2 DEF Cron!CronTypeOK
    <3>. QED  BY <3>1, <3>2
  <2>. QED  BY <1>0, <2>1, <2>2, <2>3 DEF CronInv, Cron!CronTypeOK
<1>14. CASE UNCHANGED cronPart
  BY <1>0, <1>14 DEF cronPart, CronInv, Cron!CronTypeOK
<1>. QED  BY <1>1, <1>2, <1>3, <1>5, <1>6, <1>7, <1>8, <1>9, <1>10, <1>11, <1>12, <1>13,
             <1>14 DEF Cron!Next

-----------------------------------------------------------------------------
(* Instances of the task manager.                                          *)

StartMarks == (Instances \X {"started"}) \intersect countMarks
EndMarks   == (Instances \X {"ended"}) \intersect countMarks

\* What was set in this life is set still, so that nothing is marked twice.
CountsInv ==
  /\ IsFiniteSet(countMarks)
  /\ \A i \in Instances : /\ <<i, "started">> \in countMarks => i \in started
                          /\ <<i, "ended">> \in countMarks => i \in ended
  /\ counters \in [active : Int, completed : Int, failed : Int]
  /\ Manager!CountedOnce
ManagerInv == Manager!MgrTypeOK /\ CountsInv

LEMMA ManagerInitially == Manager!Init => ManagerInv
<1> SUFFICES ASSUME Manager!Init PROVE ManagerInv
  OBVIOUS
<1>1. Manager!MgrTypeOK
  <2>1. taskChan \in Seq(Instances) /\ Len(taskChan) <= ChanSize
    BY EmptySeq, ManagerBounds DEF Manager!Init
  <2>2. /\ state \in [Instances -> Manager!States] /\ saved \in [Instances -> Manager!States]
        /\ node \in [Instances -> AllocNodes \union {Manager!NoNode}]
        /\ savedMarks \in [Instances -> SUBSET {"started", "ended"}]
    BY DEF Manager!Init, Manager!States
  <2>3. mgrFaults \in 0..MaxMgrFaults
    BY ManagerBounds DEF Manager!Init
  <2>. QED  BY <2>1, <2>2, <2>3 DEF Manager!Init, Manager!MgrTypeOK
<1>2. CountsInv
  <2>1. StartMarks = {} /\ EndMarks = {} /\ countMarks = {}
    BY DEF Manager!Init, StartMarks, EndMarks
  <2>2. IsFiniteSet(countMarks) /\ Cardinality(StartMarks) = 0 /\ Cardinality(EndMarks) = 0
    BY <2>1, FS_EmptySet
  <2>. QED  BY <2>1, <2>2, SameCount DEF Manager!Init, CountsInv, Manager!CountedOnce, StartMarks,
               EndMarks
<1>. QED  BY <1>1, <1>2 DEF ManagerInv

LEMMA OfferTyped ==
  ASSUME NEW q \in Seq(Instances), Len(q) <= ChanSize, NEW i \in Instances
  PROVE  Manager!Offer(i, q) \in Seq(Instances) /\ Len(Manager!Offer(i, q)) <= ChanSize
<1>1. Append(q, i) \in Seq(Instances) /\ Len(Append(q, i)) = Len(q) + 1 /\ Len(q) \in Nat
  BY AppendProperties, LenProperties
<1>. QED  BY <1>1, ManagerBounds DEF Manager!Offer

LEMMA SaveTyped ==
  ASSUME Manager!MgrTypeOK, NEW i \in Instances, NEW s \in Manager!States, NEW st, NEW en,
         Manager!Save(i, s, st, en)
  PROVE  /\ saved' \in [Instances -> Manager!States] /\ mgrFaults' \in 0..MaxMgrFaults
         /\ savedMarks' \in [Instances -> SUBSET {"started", "ended"}]
<1> DEFINE marks0 == (IF i \in st THEN {"started"} ELSE {}) \union (IF i \in en THEN {"ended"} ELSE {})
<1>1. marks0 \in SUBSET {"started", "ended"}
  OBVIOUS
<1>2. \/ saved' = [saved EXCEPT ![i] = s] /\ savedMarks' = [savedMarks EXCEPT ![i] = marks0]
         /\ mgrFaults' = mgrFaults
      \/ mgrFaults < MaxMgrFaults /\ mgrFaults' = mgrFaults + 1 /\ UNCHANGED <<saved, savedMarks>>
  BY DEF Manager!Save
<1> HIDE DEF marks0
<1>3. mgrFaults' \in 0..MaxMgrFaults
  BY <1>2, ManagerBounds DEF Manager!MgrTypeOK
<1>4. /\ saved' \in [Instances -> Manager!States]
      /\ savedMarks' \in [Instances -> SUBSET {"started", "ended"}]
  BY <1>1, <1>2 DEF Manager!MgrTypeOK
<1>. QED  BY <1>3, <1>4

LEMMA UpdateTyped ==
  ASSUME Manager!MgrTypeOK, NEW i \in Instances, NEW s \in Manager!States, Manager!UpdateState(i, s)
  PROVE  Manager!MgrTypeOK'
<1>1. /\ saved' \in [Instances -> Manager!States] /\ mgrFaults' \in 0..MaxMgrFaults
      /\ savedMarks' \in [Instances -> SUBSET {"started", "ended"}]
  BY SaveTyped DEF Manager!UpdateState
<1>2. /\ state' \in [Instances -> Manager!States] /\ started' \subseteq Instances
           /\ ended' \subseteq Instances
      /\ countMarks' \subseteq Instances \X {"started", "ended"}
  BY DEF Manager!UpdateState, Manager!MgrTypeOK
<1>. QED  BY <1>1, <1>2 DEF Manager!UpdateState, Manager!MgrTypeOK

LEMMA ManagerTypesStep ==
  ASSUME Manager!MgrTypeOK, [Manager!Next]_managerPart
  PROVE  Manager!MgrTypeOK'
<1> USE ManagerBounds
<1>1. ASSUME NEW i \in Instances, Manager!CreateInstance(i) PROVE Manager!MgrTypeOK'
  <2>1. /\ saved' \in [Instances -> Manager!States] /\ mgrFaults' \in 0..MaxMgrFaults
        /\ savedMarks' \in [Instances -> SUBSET {"started", "ended"}]
    <3>1. "created" \in Manager!States
      BY DEF Manager!States
    <3>. QED  BY <1>1, <3>1, SaveTyped DEF Manager!CreateInstance
  <2>2. taskChan' \in Seq(Instances) /\ Len(taskChan') <= ChanSize
    BY <1>1, OfferTyped DEF Manager!CreateInstance, Manager!MgrTypeOK
  <2>3. state' \in [Instances -> Manager!States]
    BY <1>1 DEF Manager!CreateInstance, Manager!MgrTypeOK, Manager!States
  <2>. QED  BY <1>1, <2>1, <2>2, <2>3 DEF Manager!CreateInstance, Manager!MgrTypeOK
<1>2. ASSUME NEW i \in Instances, Manager!TimesOut(i)
        \/ \E s \in Manager!Reported : Manager!UpdateState(i, s)
      PROVE  Manager!MgrTypeOK'
  <2>1. \E s \in Manager!States : Manager!UpdateState(i, s)
    BY <1>2 DEF Manager!TimesOut, Manager!Reported, Manager!States
  <2>. QED  BY <2>1, UpdateTyped
<1>3. ASSUME NEW i \in Instances, Manager!GetInstance(i) PROVE Manager!MgrTypeOK'
  BY <1>3 DEF Manager!GetInstance, Manager!MgrTypeOK
<1>4. ASSUME NEW i \in Instances, Manager!Cleanup(i) PROVE Manager!MgrTypeOK'
  BY <1>4 DEF Manager!Cleanup, Manager!MgrTypeOK
<1>5. CASE Manager!Take
  <2>1. Head(taskChan) \in Instances /\ Tail(taskChan) \in Seq(Instances)
          /\ Len(Tail(taskChan)) <= ChanSize
    BY <1>5, HeadTailProperties, LenProperties DEF Manager!Take, Manager!MgrTypeOK
  <2>. QED  BY <1>5, <2>1 DEF Manager!Take, Manager!MgrTypeOK
<1>6. CASE Manager!AllocateFails
  <2>1. taskChan' \in Seq(Instances) /\ Len(taskChan') <= ChanSize
    BY <1>6, OfferTyped DEF Manager!AllocateFails, Manager!MgrTypeOK
  <2>2. mgrFaults' \in 0..MaxMgrFaults
    BY <1>6 DEF Manager!AllocateFails, Manager!MgrTypeOK
  <2>. QED  BY <1>6, <2>1, <2>2 DEF Manager!AllocateFails, Manager!MgrTypeOK
<1>7. CASE Manager!Restart
  <2>1. taskChan' \in Seq(Instances) /\ Len(taskChan') <= ChanSize
    BY <1>7, EmptySeq DEF Manager!Restart
  <2>2. state' \in [Instances -> Manager!States]
          /\ node' \in [Instances -> AllocNodes \union {Manager!NoNode}]
    BY <1>7 DEF Manager!Restart, Manager!MgrTypeOK, Manager!States
  <2>3. mgrFaults' \in 0..MaxMgrFaults
    BY <1>7 DEF Manager!Restart, Manager!MgrTypeOK
  <2>. QED  BY <1>7, <2>1, <2>2, <2>3 DEF Manager!Restart, Manager!MgrTypeOK
<1>8. ASSUME NEW n \in AllocNodes, Manager!AllocateTask(n) PROVE Manager!MgrTypeOK'
  BY <1>8 DEF Manager!AllocateTask, Manager!MgrTypeOK, Manager!States
<1>9. CASE UNCHANGED managerPart
  BY <1>9 DEF managerPart, Manager!MgrTypeOK
<1>. QED  BY <1>1, <1>2, <1>3, <1>4, <1>5, <1>6, <1>7, <1>8, <1>9 DEF Manager!Next

\* A report: at most one mark is new, and one counter goes with it.
LEMMA UpdateCounts ==
  ASSUME ManagerInv, NEW i \in Instances, NEW s \in Manager!States, Manager!UpdateState(i, s)
  PROVE  CountsInv'
<1> DEFINE starts == s = "running" /\ i \notin started
           ends == s \in {"completed", "failed"} /\ i \notin ended
           a == IF starts THEN 1 ELSE 0
           b == IF ends THEN 1 ELSE 0
           c == IF ends /\ s = "completed" THEN 1 ELSE 0
           f == IF ends /\ s = "failed" THEN 1 ELSE 0
<1>1. started \subseteq started' /\ ended \subseteq ended' /\ counters' = Manager!Counted(s, i)
  BY DEF Manager!UpdateState
<1>2. /\ IsFiniteSet(countMarks) /\ IsFiniteSet(StartMarks) /\ IsFiniteSet(EndMarks)
      /\ Cardinality(StartMarks) \in Nat /\ Cardinality(EndMarks) \in Nat
  <2>1. IsFiniteSet(countMarks) /\ StartMarks \in SUBSET countMarks
          /\ EndMarks \in SUBSET countMarks
    BY DEF ManagerInv, CountsInv, StartMarks, EndMarks
  <2>. QED  BY <2>1, FS_Subset, FS_CardinalityType
<1>3. /\ counters.active \in Int /\ counters.completed \in Int /\ counters.failed \in Int
      /\ counters.completed + counters.failed = Cardinality(EndMarks)
      /\ counters.active = Cardinality(StartMarks) - counters.completed - counters.failed
  BY SameCount DEF ManagerInv, CountsInv, Manager!CountedOnce, StartMarks, EndMarks
<1>7. counters' = [active |-> counters.active + a - b, completed |-> counters.completed + c,
                   failed |-> counters.failed + f]
  BY <1>1 DEF Manager!Counted
<1>8. /\ ~starts /\ ~ends => a = 0 /\ b = 0 /\ c = 0 /\ f = 0
      /\ starts => a = 1 /\ b = 0 /\ c = 0 /\ f = 0
      /\ ends => a = 0 /\ b = 1 /\ ((c = 1 /\ f = 0) \/ (c = 0 /\ f = 1))
  OBVIOUS
<1>9. Manager!CountedOnce' <=> /\ counters'.completed + counters'.failed = Cardinality(EndMarks')
                       /\ counters'.active = Cardinality(StartMarks') - counters'.completed
                                                - counters'.failed
  BY SameCount DEF Manager!CountedOnce, StartMarks, EndMarks
<1> HIDE DEF a, b, c, f
<1>4. CASE ~starts /\ ~ends
  <2>1. countMarks' = countMarks /\ StartMarks' = StartMarks /\ EndMarks' = EndMarks
    BY <1>4 DEF Manager!UpdateState, StartMarks, EndMarks
  <2>2. counters' \in [active : Int, completed : Int, failed : Int]
        /\ counters'.active = counters.active /\ counters'.completed = counters.completed
        /\ counters'.failed = counters.failed
    BY <1>3, <1>4, <1>7, <1>8
  <2>. QED  BY <1>1, <1>3, <2>1, <2>2, SameCount DEF ManagerInv, CountsInv, Manager!CountedOnce,
               StartMarks, EndMarks
<1>5. CASE starts
  <2>1. /\ countMarks' = countMarks \union {<<i, "started">>} /\ <<i, "started">> \notin countMarks
        /\ started' = started \union {i}
    <3>1. started' = started \union {i} /\ started' \ started = {i} /\ ended' \ ended = {}
      BY <1>5 DEF Manager!UpdateState
    <3>2. countMarks' = countMarks \union ({i} \X {"started"}) \union ({} \X {"ended"})
      BY <3>1 DEF Manager!UpdateState
    <3>3. countMarks' = countMarks \union {<<i, "started">>}
      BY <3>2
    <3>. QED  BY <1>5, <3>1, <3>3 DEF ManagerInv, CountsInv
  <2>2. StartMarks' = StartMarks \union {<<i, "started">>} /\ EndMarks' = EndMarks
    BY <2>1 DEF StartMarks, EndMarks
  <2>3. IsFiniteSet(countMarks') /\ Cardinality(StartMarks') = Cardinality(StartMarks) + 1
    BY <1>2, <2>1, <2>2, FS_AddElement DEF StartMarks
  <2>4. counters' \in [active : Int, completed : Int, failed : Int]
        /\ counters'.active = counters.active + 1 /\ counters'.completed = counters.completed
        /\ counters'.failed = counters.failed
    BY <1>3, <1>5, <1>7, <1>8
  <2>5. Manager!CountedOnce'
    BY <1>2, <1>3, <1>9, <2>2, <2>3, <2>4
  <2>. QED  BY <1>1, <2>1, <2>3, <2>4, <2>5 DEF ManagerInv, CountsInv
<1>6. CASE ends
  <2>1. /\ countMarks' = countMarks \union {<<i, "ended">>} /\ <<i, "ended">> \notin countMarks
        /\ ended' = ended \union {i}
    <3>1. ended' = ended \union {i} /\ ended' \ ended = {i} /\ started' \ started = {}
      BY <1>6 DEF Manager!UpdateState
    <3>2. countMarks' = countMarks \union ({} \X {"started"}) \union ({i} \X {"ended"})
      BY <3>1 DEF Manager!UpdateState
    <3>3. countMarks' = countMarks \union {<<i, "ended">>}
      BY <3>2
    <3>. QED  BY <1>6, <3>1, <3>3 DEF ManagerInv, CountsInv
  <2>2. EndMarks' = EndMarks \union {<<i, "ended">>} /\ StartMarks' = StartMarks
    BY <2>1 DEF StartMarks, EndMarks
  <2>3. IsFiniteSet(countMarks') /\ Cardinality(EndMarks') = Cardinality(EndMarks) + 1
    BY <1>2, <2>1, <2>2, FS_AddElement DEF EndMarks
  <2>4. counters' \in [active : Int, completed : Int, failed : Int]
        /\ counters'.active = counters.active - 1
        /\ counters'.completed + counters'.failed = counters.completed + counters.failed + 1
    BY <1>3, <1>6, <1>7, <1>8
  <2>5. Manager!CountedOnce'
    BY <1>2, <1>3, <1>9, <2>2, <2>3, <2>4
  <2>. QED  BY <1>1, <2>1, <2>3, <2>4, <2>5 DEF ManagerInv, CountsInv
<1>. QED  BY <1>4, <1>5, <1>6

LEMMA ManagerStep == ASSUME ManagerInv, [Manager!Next]_managerPart PROVE ManagerInv'
<1>0. Manager!MgrTypeOK'
  BY ManagerTypesStep DEF ManagerInv
<1>1. ASSUME countMarks' = countMarks, counters' = counters, started \subseteq started', ended \subseteq ended'
      PROVE  CountsInv'
  <2>1. Manager!CountedOnce'
    BY <1>1, SameCount DEF ManagerInv, CountsInv, Manager!CountedOnce
  <2>. QED  BY <1>1, <2>1 DEF ManagerInv, CountsInv
<1>2. ASSUME NEW i \in Instances, Manager!CreateInstance(i) \/ Manager!GetInstance(i)
        \/ Manager!Cleanup(i)
      PROVE  CountsInv'
  BY <1>1, <1>2 DEF Manager!CreateInstance, Manager!GetInstance, Manager!Cleanup
<1>3. ASSUME NEW i \in Instances, Manager!TimesOut(i)
        \/ \E s \in Manager!Reported : Manager!UpdateState(i, s)
      PROVE  CountsInv'
  <2>1. \E s \in Manager!States : Manager!UpdateState(i, s)
    BY <1>3 DEF Manager!TimesOut, Manager!Reported, Manager!States
  <2>. QED  BY <2>1, UpdateCounts
<1>4. CASE Manager!Take \/ Manager!AllocateFails \/ (\E n \in AllocNodes : Manager!AllocateTask(n))
             \/ UNCHANGED managerPart
  <2>1. countMarks' = countMarks /\ counters' = counters /\ started' = started /\ ended' = ended
    BY <1>4 DEF Manager!Take, Manager!AllocateFails, Manager!AllocateTask, managerPart
  <2>2. started \subseteq started' /\ ended \subseteq ended'
    BY <2>1
  <2>. QED  BY <1>0, <1>1, <2>1, <2>2 DEF ManagerInv
<1>5. CASE Manager!Restart
  <2>1. countMarks' = {} /\ StartMarks' = {} /\ EndMarks' = {}
        /\ counters' = [active |-> 0, completed |-> 0, failed |-> 0]
    BY <1>5 DEF Manager!Restart, StartMarks, EndMarks
  <2>2. IsFiniteSet(countMarks') /\ Cardinality(StartMarks') = 0 /\ Cardinality(EndMarks') = 0
    BY <2>1, FS_EmptySet
  <2>3. Manager!CountedOnce'
    BY <2>1, <2>2, SameCount DEF Manager!CountedOnce, StartMarks, EndMarks
  <2>4. counters' \in [active : Int, completed : Int, failed : Int]
    BY <2>1
  <2>. QED  BY <1>0, <2>1, <2>2, <2>3, <2>4 DEF CountsInv, ManagerInv
<1>. QED  BY <1>0, <1>2, <1>3, <1>4, <1>5 DEF Manager!Next, ManagerInv

-----------------------------------------------------------------------------
(* The standalone crawler.                                                 *)

\* A task is in one place; the seed's children are made once, by the worker that then
\* completes the seed; what is completed was stored; and no retry is taken beyond the limit.
PlaceInv ==
  /\ \A g \in Goroutines : goroutine[g] \in Crawl!Steps <=> task[g] \in Crawl!CrawlTasks
  /\ \A g, h \in Goroutines : task[g] = task[h] /\ task[g] \in Crawl!CrawlTasks => g = h
  /\ \A g \in Goroutines : task[g] \notin queue
  /\ \A t \in Crawl!CrawlTasks : taskState[t] = "none" => t \notin queue /\ ~Crawl!InWorker(t)
       /\ retries[t] = 0
  /\ taskState[1] # "none" =>
       taskState[0] # "none" /\ 0 \notin queue
       /\ \A g \in Goroutines : task[g] = 0 => goroutine[g] = "complete"
  /\ \A g \in Goroutines : /\ goroutine[g] = "children" => task[g] = 0
                           /\ goroutine[g] \in {"children", "complete"} => saves[task[g]] > 0
  /\ \A t \in Crawl!CrawlTasks : retries[t] <= limit[t]
Somewhere(t) ==
  \/ t \in queue \/ Crawl!InWorker(t) \/ t \in lostPush
  \/ taskState[t] = "completed" /\ saves[t] > 0
  \/ taskState[t] \in {"retrying", "failed"} /\ retries[t] = limit[t]
KeptInv == \A t \in Crawl!CrawlTasks : taskState[t] # "none" => Somewhere(t)
CrawlInv == Crawl!CrawlTypeOK /\ PlaceInv /\ KeptInv

LEMMA CrawlInitially == Crawl!Init => CrawlInv
<1> SUFFICES ASSUME Crawl!Init PROVE CrawlInv
  OBVIOUS
<1>1. Crawl!CrawlTypeOK
  <2>1. /\ goroutine \in [Goroutines -> Crawl!Steps \cup {"none", "loop"}]
        /\ task \in [Goroutines -> Crawl!CrawlTasks \cup {Crawl!NoTask}]
    BY DEF Crawl!Init
  <2>2. /\ limit \in [Crawl!CrawlTasks -> RetryLimits \cup {0}]
             /\ retries \in [Crawl!CrawlTasks -> Nat]
        /\ saves \in [Crawl!CrawlTasks -> Nat] /\ tries \in [Crawl!CrawlTasks -> Nat]
    BY DEF Crawl!Init
  <2>3. taskState \in [Crawl!CrawlTasks -> {"none", "pending", "running", "retrying", "failed", "completed"}]
    BY DEF Crawl!Init
  <2>4. startsMade \in 0 .. MaxStarts /\ crawlFaults \in 0 .. MaxCrawlFaults
    BY CrawlBounds DEF Crawl!Init
  <2>5. stopChan \in BOOLEAN /\ stopPanic \in BOOLEAN /\ nodeUp \in BOOLEAN
    BY DEF Crawl!Init
  <2>. QED  BY <2>1, <2>2, <2>3, <2>4, <2>5 DEF Crawl!Init, Crawl!CrawlTypeOK
<1>2. PlaceInv /\ KeptInv
  BY DEF Crawl!Init, PlaceInv, KeptInv, Crawl!InWorker, Crawl!CrawlTasks, Crawl!NoTask, Crawl!Steps
<1>. QED  BY <1>1, <1>2 DEF CrawlInv

LEMMA CrawlFaultTyped == ASSUME Crawl!CrawlTypeOK, Crawl!Fault \/ crawlFaults' = crawlFaults
                    PROVE  crawlFaults' \in 0 .. MaxCrawlFaults
BY CrawlBounds DEF Crawl!CrawlTypeOK, Crawl!Fault

\* What no step of a worker changes.
LEMMA LifecycleTyped ==
  ASSUME Crawl!CrawlTypeOK, UNCHANGED Crawl!lifecycle
  PROVE  /\ mode' \in Modes /\ stopChan' \in BOOLEAN /\ stopPanic' \in BOOLEAN
              /\ nodeUp' \in BOOLEAN
         /\ crawlStatus' \in {"idle", "starting", "running", "stopping", "stopped"}
         /\ startsMade' \in 0 .. MaxStarts
BY DEF Crawl!CrawlTypeOK, Crawl!lifecycle

LEMMA LimitsTyped ==
  ASSUME Crawl!CrawlTypeOK, NEW t \in Crawl!CrawlTasks
  PROVE  limit[t] \in Nat /\ retries[t] \in Nat /\ saves[t] \in Nat /\ tries[t] \in Nat
<1>1. limit[t] \in RetryLimits \cup {0}
  BY DEF Crawl!CrawlTypeOK
<1>2. limit[t] \in Nat
  <2>1. CASE limit[t] \in RetryLimits
    BY <2>1, CrawlBounds
  <2>. QED  BY <1>1, <2>1
<1>. QED  BY <1>2 DEF Crawl!CrawlTypeOK

\* Starting and stopping moves no task.
LEMMA LifecycleStep ==
  ASSUME CrawlInv, Crawl!StartBegins \/ Crawl!StartEnds \/ Crawl!StartFails \/ Crawl!StopBegins
    \/ Crawl!StopEnds
  PROVE  CrawlInv'
<1>1. UNCHANGED <<task, queue, limit, retries, taskState, tries, saves, lostPush>>
  BY DEF Crawl!StartBegins, Crawl!StartEnds, Crawl!StartFails, Crawl!StopBegins, Crawl!StopEnds
<1>2. /\ DOMAIN goroutine' = Goroutines
      /\ \A g \in Goroutines : \/ goroutine'[g] = goroutine[g]
                               \/ goroutine[g] = "none" /\ goroutine'[g] = "loop"
      /\ goroutine' \in [Goroutines -> Crawl!Steps \cup {"none", "loop"}]
  BY DEF Crawl!StartBegins, Crawl!StartEnds, Crawl!StartFails, Crawl!StopBegins, Crawl!StopEnds,
     CrawlInv, Crawl!CrawlTypeOK
<1>3. Crawl!CrawlTypeOK'
  <2>1. crawlFaults' \in 0 .. MaxCrawlFaults
    <3>1. Crawl!Fault \/ crawlFaults' = crawlFaults
      BY DEF Crawl!StartBegins, Crawl!StartEnds, Crawl!StartFails, Crawl!StopBegins, Crawl!StopEnds
    <3>. QED  BY <3>1, CrawlFaultTyped DEF CrawlInv
  <2>2. startsMade' \in 0 .. MaxStarts
    <3>1. startsMade' = startsMade \/ (startsMade < MaxStarts /\ startsMade' = startsMade + 1)
      BY DEF Crawl!StartBegins, Crawl!StartEnds, Crawl!StartFails, Crawl!StopBegins, Crawl!StopEnds
    <3>. QED  BY <3>1, CrawlBounds DEF CrawlInv, Crawl!CrawlTypeOK
  <2>3. /\ mode' \in Modes /\ stopChan' \in BOOLEAN /\ stopPanic' \in BOOLEAN /\ nodeUp' \in BOOLEAN
        /\ crawlStatus' \in {"idle", "starting", "running", "stopping", "stopped"}
    BY DEF CrawlInv, Crawl!CrawlTypeOK, Crawl!StartBegins, Crawl!StartEnds, Crawl!StartFails,
       Crawl!StopBegins, Crawl!StopEnds
  <2>. QED  BY <1>1, <1>2, <2>1, <2>2, <2>3 DEF CrawlInv, Crawl!CrawlTypeOK
<1>4. PlaceInv'
  BY <1>1, <1>2 DEF CrawlInv, PlaceInv, Crawl!InWorker, Crawl!Steps
<1>5. KeptInv'
  BY <1>1 DEF CrawlInv, KeptInv, Somewhere, Crawl!InWorker
<1>. QED  BY <1>3, <1>4, <1>5 DEF CrawlInv

LEMMA SeedStep == ASSUME CrawlInv, NEW m \in RetryLimits \cup {0}, Crawl!AddSeed(m) PROVE CrawlInv'
<1>1. /\ taskState[0] = "none" /\ taskState' = [taskState EXCEPT ![0] = "pending"]
      /\ limit' = [limit EXCEPT ![0] = m] /\ queue' = queue \cup {0}
      /\ UNCHANGED Crawl!lifecycle
      /\ UNCHANGED <<goroutine, task, retries, tries, saves, lostPush, crawlFaults>>
  BY DEF Crawl!AddSeed
<1>2. Crawl!CrawlTypeOK'
  <2>1. limit' \in [Crawl!CrawlTasks -> RetryLimits \cup {0}]
    BY <1>1 DEF CrawlInv, Crawl!CrawlTypeOK
  <2>2. taskState' \in [Crawl!CrawlTasks -> {"none", "pending", "running", "retrying", "failed", "completed"}]
    BY <1>1 DEF CrawlInv, Crawl!CrawlTypeOK
  <2>3. queue' \subseteq Crawl!CrawlTasks
    BY <1>1 DEF CrawlInv, Crawl!CrawlTypeOK, Crawl!CrawlTasks
  <2>4. crawlFaults' \in 0 .. MaxCrawlFaults
    BY <1>1, CrawlFaultTyped DEF CrawlInv
  <2>. QED  BY <1>1, <2>1, <2>2, <2>3, <2>4, LifecycleTyped DEF CrawlInv, Crawl!CrawlTypeOK
<1>3. /\ 0 \notin queue /\ ~Crawl!InWorker(0) /\ retries[0] = 0 /\ taskState[1] = "none"
      /\ taskState'[0] = "pending" /\ taskState'[1] = "none" /\ limit'[0] = m
           /\ limit'[1] = limit[1]
      /\ m >= 0
  BY <1>1, CrawlBounds DEF CrawlInv, PlaceInv, Crawl!CrawlTypeOK, Crawl!CrawlTasks
<1>4. PlaceInv'
  <2>1. \A t \in Crawl!CrawlTasks : retries'[t] <= limit'[t]
    BY <1>1, <1>3 DEF CrawlInv, PlaceInv, Crawl!CrawlTasks
  <2>. QED  BY <1>1, <1>3, <2>1 DEF CrawlInv, PlaceInv, Crawl!InWorker, Crawl!CrawlTasks
<1>5. KeptInv'
  BY <1>1, <1>3 DEF KeptInv, Somewhere, Crawl!CrawlTasks
<1>. QED  BY <1>2, <1>4, <1>5 DEF CrawlInv

LEMMA PopStep == ASSUME CrawlInv, NEW g \in Goroutines, NEW t \in Crawl!CrawlTasks,
                        Crawl!PopTask(g, t)
                 PROVE  CrawlInv'
<1>1. /\ goroutine[g] = "loop" /\ t \in queue /\ queue' = queue \ {t}
      /\ task' = [task EXCEPT ![g] = t] /\ goroutine' = [goroutine EXCEPT ![g] = "fetch"]
      /\ taskState' = [taskState EXCEPT ![t] = "running"] /\ UNCHANGED Crawl!lifecycle
      /\ UNCHANGED <<limit, retries, tries, saves, lostPush, crawlFaults>>
  BY DEF Crawl!PopTask
<1>2. Crawl!CrawlTypeOK'
  <2>1. /\ taskState' \in [Crawl!CrawlTasks -> {"none", "pending", "running", "retrying", "failed", "completed"}]
        /\ goroutine' \in [Goroutines -> Crawl!Steps \cup {"none", "loop"}]
        /\ task' \in [Goroutines -> Crawl!CrawlTasks \cup {Crawl!NoTask}]
    BY <1>1 DEF CrawlInv, Crawl!CrawlTypeOK, Crawl!Steps
  <2>2. crawlFaults' \in 0 .. MaxCrawlFaults
    BY <1>1, CrawlFaultTyped DEF CrawlInv
  <2>. QED  BY <1>1, <2>1, <2>2, LifecycleTyped DEF CrawlInv, Crawl!CrawlTypeOK
<1>3. /\ \A h \in Goroutines : h # g => task'[h] = task[h] /\ goroutine'[h] = goroutine[h]
      /\ task'[g] = t /\ goroutine'[g] = "fetch" /\ task[g] \notin Crawl!CrawlTasks
      /\ \A h \in Goroutines : task[h] # t
      /\ \A u \in Crawl!CrawlTasks : u # t => taskState'[u] = taskState[u]
      /\ taskState'[t] = "running" /\ taskState[t] # "none"
  BY <1>1 DEF CrawlInv, PlaceInv, Crawl!CrawlTypeOK, Crawl!Steps, Crawl!InWorker
<1>4. t = 0 => taskState[1] = "none" /\ taskState'[1] = "none"
  BY <1>1, <1>3 DEF CrawlInv, PlaceInv, Crawl!CrawlTasks
<1>5. PlaceInv'
  <2>1. \A h \in Goroutines : goroutine'[h] \in Crawl!Steps <=> task'[h] \in Crawl!CrawlTasks
    BY <1>3 DEF CrawlInv, PlaceInv, Crawl!Steps
  <2>2. \A h, k \in Goroutines : task'[h] = task'[k] /\ task'[h] \in Crawl!CrawlTasks => h = k
    BY <1>3 DEF CrawlInv, PlaceInv
  <2>3. \A h \in Goroutines : task'[h] \notin queue'
    BY <1>1, <1>3 DEF CrawlInv, PlaceInv
  <2>4. \A u \in Crawl!CrawlTasks : taskState'[u] = "none" => u \notin queue'
          /\ ~Crawl!InWorker(u)' /\ retries'[u] = 0
    BY <1>1, <1>3 DEF CrawlInv, PlaceInv, Crawl!InWorker
  <2>5. taskState'[1] # "none" =>
          taskState'[0] # "none" /\ 0 \notin queue'
          /\ \A h \in Goroutines : task'[h] = 0 => goroutine'[h] = "complete"
    BY <1>1, <1>3, <1>4 DEF CrawlInv, PlaceInv, Crawl!CrawlTasks
  <2>6. \A h \in Goroutines :
          /\ goroutine'[h] = "children" => task'[h] = 0
          /\ goroutine'[h] \in {"children", "complete"} => saves'[task'[h]] > 0
    BY <1>1, <1>3 DEF CrawlInv, PlaceInv
  <2>. QED  BY <1>1, <2>1, <2>2, <2>3, <2>4, <2>5, <2>6 DEF CrawlInv, PlaceInv
<1>6. KeptInv'
  <2> SUFFICES ASSUME NEW u \in Crawl!CrawlTasks, taskState'[u] # "none" PROVE Somewhere(u)'
    BY DEF KeptInv
  <2>1. CASE u = t
    BY <1>3, <2>1 DEF Somewhere, Crawl!InWorker
  <2>2. CASE u # t
    <3>1. Somewhere(u)
      BY <1>3, <2>2 DEF CrawlInv, KeptInv
    <3>2. Crawl!InWorker(u) => Crawl!InWorker(u)'
      BY <1>3 DEF Crawl!InWorker
    <3>. QED  BY <1>1, <1>3, <2>2, <3>1, <3>2 DEF Somewhere
  <2>. QED  BY <2>1, <2>2
<1>. QED  BY <1>2, <1>5, <1>6 DEF CrawlInv

\* A worker goes on with the task it holds.
LEMMA WorkingStep ==
  ASSUME CrawlInv, NEW g \in Goroutines,
         Crawl!WorkerEnds(g) \/ Crawl!FetchTask(g) \/ Crawl!PipelineStep(g) \/ Crawl!StoreData(g)
  PROVE  CrawlInv'
<1>1. /\ UNCHANGED Crawl!lifecycle /\ UNCHANGED <<task, queue, limit, retries, taskState, lostPush>>
      /\ Crawl!Fault \/ crawlFaults' = crawlFaults
  BY DEF Crawl!WorkerEnds, Crawl!FetchTask, Crawl!PipelineStep, Crawl!StoreData
<1>2. PICK step \in {"none", "extract", "store", "children", "complete", "failed"} :
        /\ goroutine' = [goroutine EXCEPT ![g] = step]
        /\ step = "none" <=> goroutine[g] = "loop"
        /\ goroutine[g] \in {"loop", "fetch", "extract", "store"}
        /\ step = "children" => task[g] = 0
        /\ step \in {"children", "complete"} =>
             goroutine[g] = "store" /\ saves' = [saves EXCEPT ![task[g]] = @ + 1]
  BY DEF Crawl!WorkerEnds, Crawl!FetchTask, Crawl!PipelineStep, Crawl!StoreData, Crawl!Goes
<1>3. goroutine[g] # "loop" => task[g] \in Crawl!CrawlTasks
  BY <1>2 DEF CrawlInv, PlaceInv, Crawl!Steps
<1>4. /\ saves' = saves
           \/ (task[g] \in Crawl!CrawlTasks /\ saves' = [saves EXCEPT ![task[g]] = @ + 1])
      /\ tries' = tries
           \/ (task[g] \in Crawl!CrawlTasks /\ tries' = [tries EXCEPT ![task[g]] = @ + 1])
  BY <1>3 DEF Crawl!WorkerEnds, Crawl!FetchTask, Crawl!PipelineStep, Crawl!StoreData
<1>5. /\ saves' \in [Crawl!CrawlTasks -> Nat] /\ tries' \in [Crawl!CrawlTasks -> Nat]
      /\ \A t \in Crawl!CrawlTasks : saves'[t] >= saves[t] /\ saves'[t] \in Nat /\ saves[t] \in Nat
      /\ step \in {"children", "complete"} => saves'[task[g]] > 0
  BY <1>2, <1>3, <1>4 DEF CrawlInv, Crawl!CrawlTypeOK
<1>6. Crawl!CrawlTypeOK'
  <2>1. goroutine' \in [Goroutines -> Crawl!Steps \cup {"none", "loop"}]
    BY <1>2 DEF CrawlInv, Crawl!CrawlTypeOK, Crawl!Steps
  <2>2. crawlFaults' \in 0 .. MaxCrawlFaults
    BY <1>1, CrawlFaultTyped DEF CrawlInv
  <2>. QED  BY <1>1, <1>5, <2>1, <2>2, LifecycleTyped DEF CrawlInv, Crawl!CrawlTypeOK
<1>7. /\ goroutine'[g] = step
      /\ \A h \in Goroutines : h # g => goroutine'[h] = goroutine[h]
  BY <1>2 DEF CrawlInv, Crawl!CrawlTypeOK
<1>8. PlaceInv'
  <2>1. \A h \in Goroutines : goroutine'[h] \in Crawl!Steps <=> task'[h] \in Crawl!CrawlTasks
    BY <1>1, <1>2, <1>3, <1>7 DEF CrawlInv, PlaceInv, Crawl!Steps
  <2>2. taskState'[1] # "none" => \A h \in Goroutines : task'[h] = 0 => goroutine'[h] = "complete"
    <3>1. taskState[1] # "none" /\ task[g] = 0 => FALSE
      BY <1>2 DEF CrawlInv, PlaceInv
    <3>. QED  BY <1>1, <1>7, <3>1 DEF CrawlInv, PlaceInv
  <2>3. \A h \in Goroutines :
          /\ goroutine'[h] = "children" => task'[h] = 0
          /\ goroutine'[h] \in {"children", "complete"} => saves'[task'[h]] > 0
    <3> SUFFICES ASSUME NEW h \in Goroutines
                 PROVE  /\ goroutine'[h] = "children" => task[h] = 0
                        /\ goroutine'[h] \in {"children", "complete"} => saves'[task[h]] > 0
      BY <1>1
    <3>1. CASE h = g
      BY <1>2, <1>5, <1>7, <3>1
    <3>2. CASE h # g
      <4>1. goroutine[h] \in {"children", "complete"} => task[h] \in Crawl!CrawlTasks
              /\ saves[task[h]] > 0
        BY DEF CrawlInv, PlaceInv, Crawl!Steps
      <4>. QED  BY <1>5, <1>7, <3>2, <4>1 DEF CrawlInv, PlaceInv
    <3>. QED  BY <3>1, <3>2
  <2>. QED  BY <1>1, <2>1, <2>2, <2>3 DEF CrawlInv, PlaceInv, Crawl!InWorker
<1>9. KeptInv'
  <2> SUFFICES ASSUME NEW u \in Crawl!CrawlTasks, taskState'[u] # "none" PROVE Somewhere(u)'
    BY DEF KeptInv
  <2>1. Somewhere(u)
    BY <1>1 DEF CrawlInv, KeptInv
  <2>2. saves[u] > 0 => saves'[u] > 0
    BY <1>5
  <2>. QED  BY <1>1, <2>1, <2>2 DEF Somewhere, Crawl!InWorker
<1>. QED  BY <1>6, <1>8, <1>9 DEF CrawlInv

\* The children take the place of what is not there yet.
LEMMA ChildrenStep == ASSUME CrawlInv, NEW g \in Goroutines, Crawl!PushChildren(g) PROVE CrawlInv'
<1>1. /\ goroutine[g] = "children" /\ goroutine' = [goroutine EXCEPT ![g] = "complete"]
      /\ taskState' = [taskState EXCEPT ![1] = "pending"] /\ UNCHANGED Crawl!lifecycle
      /\ UNCHANGED <<task, limit, retries, tries, saves>>
      /\ \/ queue' = queue \cup {1} /\ lostPush' = lostPush
         \/ lostPush' = lostPush \cup {1} /\ queue' = queue
      /\ Crawl!Fault \/ crawlFaults' = crawlFaults
  BY DEF Crawl!PushChildren, Crawl!Goes
<1>2. Crawl!CrawlTypeOK'
  <2>1. goroutine' \in [Goroutines -> Crawl!Steps \cup {"none", "loop"}]
    BY <1>1 DEF CrawlInv, Crawl!CrawlTypeOK, Crawl!Steps
  <2>2. taskState' \in [Crawl!CrawlTasks -> {"none", "pending", "running", "retrying", "failed", "completed"}]
    BY <1>1 DEF CrawlInv, Crawl!CrawlTypeOK
  <2>3. queue' \subseteq Crawl!CrawlTasks /\ lostPush' \subseteq Crawl!CrawlTasks
    BY <1>1 DEF CrawlInv, Crawl!CrawlTypeOK, Crawl!CrawlTasks
  <2>4. crawlFaults' \in 0 .. MaxCrawlFaults
    BY <1>1, CrawlFaultTyped DEF CrawlInv
  <2>. QED  BY <1>1, <2>1, <2>2, <2>3, <2>4, LifecycleTyped DEF CrawlInv, Crawl!CrawlTypeOK
<1>3. /\ task[g] = 0 /\ taskState[1] = "none" /\ saves[0] > 0 /\ taskState[0] # "none"
      /\ 0 \notin queue /\ 1 \notin queue /\ ~Crawl!InWorker(1)
      /\ taskState'[1] = "pending" /\ taskState'[0] = taskState[0]
      /\ goroutine'[g] = "complete" /\ \A h \in Goroutines : h # g => goroutine'[h] = goroutine[h]
  BY <1>1 DEF CrawlInv, PlaceInv, Crawl!CrawlTypeOK, Crawl!CrawlTasks, Crawl!InWorker
<1>4. PlaceInv'
  <2>1. \A h \in Goroutines : goroutine'[h] \in Crawl!Steps <=> task'[h] \in Crawl!CrawlTasks
    BY <1>1, <1>3 DEF CrawlInv, PlaceInv, Crawl!Steps
  <2>2. \A h \in Goroutines : task'[h] = 0 => h = g
    BY <1>1, <1>3 DEF CrawlInv, PlaceInv, Crawl!CrawlTasks
  <2>3. \A h \in Goroutines :
          /\ goroutine'[h] = "children" => task'[h] = 0
          /\ goroutine'[h] \in {"children", "complete"} => saves'[task'[h]] > 0
    BY <1>1, <1>3 DEF CrawlInv, PlaceInv
  <2>4. \A h \in Goroutines : task'[h] \notin queue'
    BY <1>1, <1>3 DEF CrawlInv, PlaceInv, Crawl!InWorker
  <2>. QED  BY <1>1, <1>3, <2>1, <2>2, <2>3, <2>4 DEF CrawlInv, PlaceInv, Crawl!InWorker,
               Crawl!CrawlTasks
<1>5. KeptInv'
  <2>1. Somewhere(0)'
    BY <1>1, <1>3 DEF Somewhere, Crawl!InWorker
  <2>2. Somewhere(1)'
    BY <1>1, <1>3 DEF Somewhere
  <2>. QED  BY <2>1, <2>2 DEF KeptInv, Crawl!CrawlTasks
<1>. QED  BY <1>2, <1>4, <1>5 DEF CrawlInv

\* A worker lets go of its task.
LEMMA ReleasedPlaces ==
  ASSUME CrawlInv, NEW g \in Goroutines, NEW t \in Crawl!CrawlTasks, task[g] = t,
         goroutine[g] \in {"complete", "failed"}, NEW s \in {"completed", "retrying", "failed"},
         goroutine' = [goroutine EXCEPT ![g] = "loop"], task' = [task EXCEPT ![g] = Crawl!NoTask],
         taskState' = [taskState EXCEPT ![t] = s], limit' = limit, saves' = saves,
         queue' = queue \/ (goroutine[g] = "failed" /\ queue' = queue \cup {t}),
         \A u \in Crawl!CrawlTasks : retries'[u] <= limit[u] /\ (u # t => retries'[u] = retries[u])
  PROVE  PlaceInv'
<1>1. /\ \A h \in Goroutines : h # g => task'[h] = task[h] /\ goroutine'[h] = goroutine[h]
      /\ task'[g] = 2 /\ goroutine'[g] = "loop"
      /\ \A u \in Crawl!CrawlTasks : u # t => taskState'[u] = taskState[u]
      /\ taskState'[t] \in {"completed", "retrying", "failed"} /\ taskState[t] # "none"
      /\ \A h \in Goroutines : task'[h] # t
      /\ t \in {0, 1}
  BY DEF CrawlInv, PlaceInv, Crawl!CrawlTypeOK, Crawl!NoTask, Crawl!InWorker, Crawl!CrawlTasks
<1>2. \A h \in Goroutines : goroutine'[h] \in Crawl!Steps <=> task'[h] \in Crawl!CrawlTasks
  BY <1>1 DEF CrawlInv, PlaceInv, Crawl!Steps, Crawl!CrawlTasks
<1>3. \A h, k \in Goroutines : task'[h] = task'[k] /\ task'[h] \in Crawl!CrawlTasks => h = k
  BY <1>1 DEF CrawlInv, PlaceInv, Crawl!CrawlTasks
<1>4. \A h \in Goroutines : task'[h] \notin queue'
  <2>1. 2 \notin queue
    BY DEF CrawlInv, Crawl!CrawlTypeOK, Crawl!CrawlTasks
  <2>. QED  BY <1>1, <2>1 DEF CrawlInv, PlaceInv
<1>5. \A u \in Crawl!CrawlTasks : taskState'[u] = "none" => u \notin queue' /\ ~Crawl!InWorker(u)'
        /\ retries'[u] = 0
  BY <1>1 DEF CrawlInv, PlaceInv, Crawl!InWorker, Crawl!CrawlTasks
<1>6. taskState'[1] # "none" =>
        taskState'[0] # "none" /\ 0 \notin queue'
        /\ \A h \in Goroutines : task'[h] = 0 => goroutine'[h] = "complete"
  <2>1. taskState'[1] # "none" => taskState[1] # "none"
    BY <1>1 DEF Crawl!CrawlTasks
  <2>2. taskState[1] # "none" => taskState'[0] # "none"
    BY <1>1 DEF CrawlInv, PlaceInv, Crawl!CrawlTasks
  <2>3. taskState[1] # "none" /\ goroutine[g] = "failed" => t = 1
    BY <1>1 DEF CrawlInv, PlaceInv
  <2>. QED  BY <1>1, <2>1, <2>2, <2>3 DEF CrawlInv, PlaceInv
<1>7. \A h \in Goroutines :
        /\ goroutine'[h] = "children" => task'[h] = 0
        /\ goroutine'[h] \in {"children", "complete"} => saves'[task'[h]] > 0
  BY <1>1 DEF CrawlInv, PlaceInv
<1>. QED  BY <1>2, <1>3, <1>4, <1>5, <1>6, <1>7 DEF PlaceInv

LEMMA ReleasedTyped ==
  ASSUME CrawlInv, NEW g \in Goroutines, NEW t \in Crawl!CrawlTasks, task[g] = t,
         NEW s \in {"completed", "retrying", "failed"},
         goroutine' = [goroutine EXCEPT ![g] = "loop"], task' = [task EXCEPT ![g] = Crawl!NoTask],
         taskState' = [taskState EXCEPT ![t] = s], UNCHANGED Crawl!lifecycle,
         UNCHANGED <<limit, tries, saves>>, retries' \in [Crawl!CrawlTasks -> Nat],
         queue' \subseteq queue \cup {t}, lostPush' \subseteq lostPush \cup {t},
         Crawl!Fault \/ crawlFaults' = crawlFaults
  PROVE  Crawl!CrawlTypeOK'
<1>1. /\ taskState' \in [Crawl!CrawlTasks -> {"none", "pending", "running", "retrying", "failed", "completed"}]
      /\ goroutine' \in [Goroutines -> Crawl!Steps \cup {"none", "loop"}]
      /\ task' \in [Goroutines -> Crawl!CrawlTasks \cup {Crawl!NoTask}]
  BY DEF CrawlInv, Crawl!CrawlTypeOK
<1>2. crawlFaults' \in 0 .. MaxCrawlFaults
  BY CrawlFaultTyped DEF CrawlInv
<1>. QED  BY <1>1, <1>2, LifecycleTyped DEF CrawlInv, Crawl!CrawlTypeOK

\* What the release of one task means for the others.
LEMMA OthersKept ==
  ASSUME CrawlInv, NEW g \in Goroutines, NEW t \in Crawl!CrawlTasks, task[g] = t, NEW s,
         task' = [task EXCEPT ![g] = Crawl!NoTask], taskState' = [taskState EXCEPT ![t] = s],
         UNCHANGED <<limit, saves>>, queue \subseteq queue', lostPush \subseteq lostPush',
         \A u \in Crawl!CrawlTasks : u # t => retries'[u] = retries[u],
         Somewhere(t)'
  PROVE  KeptInv'
<1> SUFFICES ASSUME NEW u \in Crawl!CrawlTasks, taskState'[u] # "none", u # t PROVE Somewhere(u)'
  BY DEF KeptInv
<1>1. taskState'[u] = taskState[u]
  BY DEF CrawlInv, Crawl!CrawlTypeOK
<1>2. Somewhere(u)
  BY <1>1 DEF CrawlInv, KeptInv
<1>3. Crawl!InWorker(u) => Crawl!InWorker(u)'
  BY DEF Crawl!InWorker, CrawlInv, Crawl!CrawlTypeOK
<1>. QED  BY <1>1, <1>2, <1>3 DEF Somewhere

LEMMA CompleteStep == ASSUME CrawlInv, NEW g \in Goroutines, Crawl!CompleteTask(g) PROVE CrawlInv'
<1>0. goroutine[g] = "complete" /\ task[g] \in Crawl!CrawlTasks
  BY DEF Crawl!CompleteTask, CrawlInv, PlaceInv, Crawl!Steps
<1> PICK t \in Crawl!CrawlTasks : t = task[g]
  BY <1>0
<1>1. /\ goroutine[g] = "complete" /\ goroutine' = [goroutine EXCEPT ![g] = "loop"]
      /\ taskState' = [taskState EXCEPT ![t] = "completed"]
           /\ task' = [task EXCEPT ![g] = Crawl!NoTask]
      /\ UNCHANGED Crawl!lifecycle /\ UNCHANGED <<queue, limit, retries, tries, saves, lostPush,
                                                  crawlFaults>>
  BY DEF Crawl!CompleteTask, Crawl!NextTask, Crawl!Goes
<1>2. t \in Crawl!CrawlTasks /\ saves[t] > 0 /\ task[g] = t
  BY <1>1 DEF CrawlInv, PlaceInv, Crawl!Steps
<1>3. /\ queue' \subseteq queue \cup {t} /\ lostPush' \subseteq lostPush \cup {t}
      /\ queue \subseteq queue' /\ lostPush \subseteq lostPush'
  BY <1>1
<1>4. /\ retries' \in [Crawl!CrawlTasks -> Nat]
      /\ \A u \in Crawl!CrawlTasks : retries'[u] <= limit[u] /\ (u # t => retries'[u] = retries[u])
  BY <1>1 DEF CrawlInv, Crawl!CrawlTypeOK, PlaceInv
<1>5. Somewhere(t)'
  BY <1>1, <1>2 DEF Somewhere, CrawlInv, Crawl!CrawlTypeOK
<1>6. Crawl!CrawlTypeOK'
  BY <1>1, <1>2, <1>3, <1>4, ReleasedTyped
<1>7. PlaceInv'
  BY <1>1, <1>2, <1>4, ReleasedPlaces
<1>8. KeptInv'
  BY <1>1, <1>2, <1>3, <1>4, <1>5, OthersKept
<1>. QED  BY <1>6, <1>7, <1>8 DEF CrawlInv

LEMMA ErrorStep == ASSUME CrawlInv, NEW g \in Goroutines, Crawl!HandleTaskError(g) PROVE CrawlInv'
<1>0. goroutine[g] = "failed" /\ task[g] \in Crawl!CrawlTasks
  BY DEF Crawl!HandleTaskError, CrawlInv, PlaceInv, Crawl!Steps
<1> PICK t \in Crawl!CrawlTasks : t = task[g]
  BY <1>0
<1> DEFINE first == IF Crawl!CanRetry(t, retries[t]) THEN 1 ELSE 0
           again == Crawl!CanRetry(t, retries[t] + first)
           more == IF again THEN 1 ELSE 0
           s == IF first = 1 THEN "retrying" ELSE "failed"
<1>1. /\ goroutine[g] = "failed" /\ goroutine' = [goroutine EXCEPT ![g] = "loop"]
      /\ taskState' = [taskState EXCEPT ![t] = s] /\ task' = [task EXCEPT ![g] = Crawl!NoTask]
      /\ retries' = [retries EXCEPT ![t] = @ + first + more]
      /\ IF again THEN Crawl!Retried(t) ELSE Crawl!NotQueued(t)
      /\ UNCHANGED Crawl!lifecycle /\ UNCHANGED <<limit, tries, saves>>
  BY DEF Crawl!HandleTaskError, Crawl!NextTask, Crawl!Goes
<1>2. t \in Crawl!CrawlTasks /\ task[g] = t
  BY <1>1 DEF CrawlInv, PlaceInv, Crawl!Steps
<1>3. retries[t] \in Nat /\ limit[t] \in Nat /\ retries[t] <= limit[t]
  BY <1>2, LimitsTyped DEF CrawlInv, PlaceInv
<1>4. /\ first \in {0, 1} /\ more \in {0, 1} /\ s \in {"retrying", "failed"}
      /\ again => retries[t] + first + more <= limit[t]
      /\ ~again => retries[t] + first + more = limit[t]
  BY <1>3 DEF Crawl!CanRetry
<1>5. /\ Crawl!Fault \/ crawlFaults' = crawlFaults
      /\ queue' = queue \/ queue' = queue \cup {t}
      /\ lostPush' = lostPush \/ lostPush' = lostPush \cup {t}
      /\ again => t \in queue' \/ t \in lostPush'
  BY <1>1 DEF Crawl!Retried, Crawl!NotQueued
<1> HIDE DEF first, again, more, s
<1>6. /\ queue' \subseteq queue \cup {t} /\ lostPush' \subseteq lostPush \cup {t}
      /\ queue \subseteq queue' /\ lostPush \subseteq lostPush'
  BY <1>5
<1>7. /\ retries'[t] = retries[t] + first + more /\ retries' \in [Crawl!CrawlTasks -> Nat]
      /\ \A u \in Crawl!CrawlTasks : u # t => retries'[u] = retries[u]
  BY <1>1, <1>2, <1>3, <1>4 DEF CrawlInv, Crawl!CrawlTypeOK
<1>8. \A u \in Crawl!CrawlTasks : retries'[u] <= limit[u]
  BY <1>3, <1>4, <1>7 DEF CrawlInv, PlaceInv
<1>9. taskState'[t] = s /\ limit' = limit
  BY <1>1, <1>2 DEF CrawlInv, Crawl!CrawlTypeOK
<1>10. Somewhere(t)'
  BY <1>4, <1>5, <1>7, <1>9 DEF Somewhere
<1>11. Crawl!CrawlTypeOK'
  BY <1>1, <1>2, <1>4, <1>5, <1>6, <1>7, ReleasedTyped
<1>12. PlaceInv'
  BY <1>1, <1>2, <1>4, <1>5, <1>7, <1>8, ReleasedPlaces
<1>13. KeptInv'
  BY <1>1, <1>2, <1>6, <1>7, <1>10, OthersKept
<1>. QED  BY <1>11, <1>12, <1>13 DEF CrawlInv

LEMMA CrawlStep == ASSUME CrawlInv, [Crawl!Next]_crawlerPart PROVE CrawlInv'
<1>1. CASE UNCHANGED crawlerPart
  <2>1. Crawl!CrawlTypeOK'
    BY <1>1 DEF crawlerPart, CrawlInv, Crawl!CrawlTypeOK
  <2>2. PlaceInv' /\ KeptInv'
    BY <1>1 DEF crawlerPart, CrawlInv, PlaceInv, KeptInv, Somewhere, Crawl!InWorker
  <2>. QED  BY <2>1, <2>2 DEF CrawlInv
<1>2. ASSUME NEW g \in Goroutines, Crawl!Work(g) PROVE CrawlInv'
  BY <1>2, WorkingStep, ChildrenStep, CompleteStep, ErrorStep, PopStep DEF Crawl!Work
<1>. QED  BY <1>1, <1>2, LifecycleStep, SeedStep DEF Crawl!Next

LEMMA CrawlKeeps == CrawlInv => Crawl!TaskKept
<1> SUFFICES ASSUME CrawlInv, NEW t \in Crawl!CrawlTasks, taskState[t] # "none"
             PROVE  /\ Somewhere(t) /\ ~(t \in queue /\ Crawl!InWorker(t))
                    /\ Cardinality({g \in Goroutines : task[g] = t}) <= 1
  BY SameCount DEF Crawl!TaskKept, Somewhere
<1>1. Somewhere(t) /\ ~(t \in queue /\ Crawl!InWorker(t))
  BY DEF CrawlInv, KeptInv, PlaceInv, Crawl!InWorker
<1>2. Cardinality({g \in Goroutines : task[g] = t}) <= 1
  <2>1. CASE Crawl!InWorker(t)
    <3>1. PICK g \in Goroutines : task[g] = t
      BY <2>1 DEF Crawl!InWorker
    <3>2. {h \in Goroutines : task[h] = t} = {g}
      BY <3>1 DEF CrawlInv, PlaceInv
    <3>3. Cardinality({h \in Goroutines : task[h] = t}) = 1
      BY <3>2, FS_Singleton, Zenon
    <3>. QED  BY <3>3
  <2>2. CASE ~Crawl!InWorker(t)
    <3>1. {h \in Goroutines : task[h] = t} = {}
      BY <2>2 DEF Crawl!InWorker
    <3>2. Cardinality({h \in Goroutines : task[h] = t}) = 0
      BY <3>1, FS_EmptySet, Zenon
    <3>. QED  BY <3>2
  <2>. QED  BY <2>1, <2>2
<1>. QED  BY <1>1, <1>2

-----------------------------------------------------------------------------
(* The registry of definitions.                                            *)

RegPlaces == {"idle", "register", "set", "index", "look up", "get", "cache",
              "register template", "template set", "get template", "cache template"}
LoadPlaces == {"register", "set", "index"}
Jobs == [op : {"none", "load", "template", "create", "index"}, id : Registry!Ids \cup {"none"},
         template : Registry!Templates \cup {"none"}, value : Registry!Definition \cup {Registry!None},
         script : Registry!Scripts \cup {Registry!NoScript}, left : SUBSET Registry!Ids]
SharedOK ==
  /\ definitions \in [Registry!Processes -> [Registry!Ids -> Registry!Definition \cup {Registry!None}]]
  /\ templates \in [Registry!Processes -> SUBSET Registry!Templates]
  /\ rDefinitions \in [Registry!Ids -> Registry!Definition \cup {Registry!None}]
       /\ rTemplates \subseteq Registry!Templates
  /\ rIndex \subseteq Registry!Ids
  /\ luaTasks \in [Registry!Processes -> [maker : Registry!Scripts \cup {Registry!NoScript}, ids : SUBSET Registry!Ids]]
  /\ failed \subseteq Registry!Scripts /\ refused \subseteq Registry!Ids
       /\ missed \subseteq Registry!Ids
  /\ loads \in 0 .. MaxLoads /\ regFaults \in 0 .. MaxRegFaults
RoutinesOK == regAt \in [Registry!Routines -> RegPlaces] /\ regJob \in [Registry!Routines -> Jobs]

\* Redis has the definition, or refused it once.
Stored(d) == rDefinitions[d] # Registry!None \/ d \in refused
Honest(def) == def.script = def.maker \/ def.maker \in failed
\* What a routine works on at each of its steps; who goes on with a template has a
\* definition that is stored.
JobOK(g, l, j) ==
  /\ l = "idle" <=> j = Registry!NoJob
  /\ l \in LoadPlaces => g \in Loaders /\ j.op = "load"
  /\ l \in {"set", "index"} => j.id \in j.left /\ Registry!Exists(g, j.id)
  /\ l \in {"look up", "get", "cache"} => j.op \in {"template", "create", "index"}
       /\ j.id \in Registry!Ids
  /\ l \in {"register template", "template set"} => j.op = "template"
  /\ l \in {"get template", "cache template"} => j.op = "create"
  /\ j.op \in {"template", "create"} => j.template \in Registry!Templates
       /\ j.id = RegDefinitionOf[j.template]
  /\ l \in {"register template", "template set", "cache"} => Stored(j.id)
  /\ j.op = "create" /\ l # "get template" => Stored(j.id)
  /\ l = "cache" => j.value \in Registry!Definition /\ Honest(j.value)
\* What a script left in the table tasks has been registered, but for what its own load
\* still has to do.
ScriptOK(p, l, j) ==
  /\ \/ luaTasks[p].maker \in failed
     \/ \A d \in luaTasks[p].ids :
          Registry!Exists(p,
          d) \/ (l \in LoadPlaces /\ j.script = luaTasks[p].maker /\ d \in j.left)
  /\ l \in LoadPlaces /\ j.script # Registry!NoScript => j.left \subseteq luaTasks[p].ids
JobInv(g) == JobOK(g, regAt[g], regJob[g])
ScriptInv(p) == ScriptOK(p, regAt[p], regJob[p])
RedisInv ==
  /\ \A p \in Registry!Processes, d \in Registry!Ids : Registry!Exists(p, d) =>
       /\ Honest(definitions[p][d])
       /\ Stored(d) \/ (regAt[p] = "set" /\ regJob[p].id = d)
  /\ \A d \in Registry!Ids : rDefinitions[d] # Registry!None => Honest(rDefinitions[d])
  /\ \A p \in Registry!Processes : \A t \in templates[p] : Stored(RegDefinitionOf[t])
  /\ \A t \in rTemplates : Stored(RegDefinitionOf[t])
  /\ missed \subseteq refused
RegInv == /\ SharedOK /\ RoutinesOK /\ RedisInv
          /\ \A g \in Registry!Routines : JobInv(g)
          /\ \A p \in Registry!Processes : ScriptInv(p)

Grows == /\ \A d \in Registry!Ids : Stored(d) => Stored(d)'
         /\ \A p \in Registry!Processes, d \in Registry!Ids : Registry!Exists(p, d)
              => Registry!Exists(p, d)'
         /\ failed \subseteq failed'

LEMMA NotNone == \A def \in Registry!Definition : def # Registry!None
<1> SUFFICES ASSUME NEW def \in Registry!Definition PROVE def # Registry!None
  OBVIOUS
<1>1. DOMAIN def = {"script", "maker"}
  BY DEF Registry!Definition
<1>2. DOMAIN Registry!None = {"id"}
  BY DEF Registry!None
<1>. QED  BY <1>1, <1>2

LEMMA Process == /\ \A g \in Registry!Routines : Registry!ProcessOf(g) \in Registry!Processes
                 /\ \A g \in Loaders : Registry!ProcessOf(g) = g /\ g \in Registry!Routines
                 /\ Registry!Processes = Loaders
BY RegistryBounds DEF Registry!Routines, Registry!ProcessOf, Registry!Processes

LEMMA JobTypes ==
  /\ Registry!NoJob \in Jobs /\ Registry!NoJob.op = "none"
  /\ \A d \in Registry!Ids : LET j == [Registry!NoJob EXCEPT !.op = "load", !.left = {d}]
                    IN j \in Jobs /\ j.op = "load" /\ j.left = {d} /\ j.script = Registry!NoScript
  /\ \A t \in Registry!Templates, o \in {"template", "create"} :
       LET j == [Registry!NoJob EXCEPT !.op = o, !.template = t, !.id = RegDefinitionOf[t]]
       IN j \in Jobs /\ j.op = o /\ j.template = t /\ j.id = RegDefinitionOf[t]
  /\ \A d \in Registry!Ids : LET j == [Registry!NoJob EXCEPT !.op = "index", !.id = d]
                    IN j \in Jobs /\ j.op = "index" /\ j.id = d
<1>1. \A t \in Registry!Templates : RegDefinitionOf[t] \in Registry!Ids
  BY DEF Registry!Ids
<1>. QED  BY <1>1 DEF Registry!NoJob, Jobs

LEMMA RegistryInitially == Registry!RegistryInit => RegInv
<1> SUFFICES ASSUME Registry!RegistryInit PROVE RegInv
  OBVIOUS
<1>1. SharedOK
  <2>1. /\ definitions \in [Registry!Processes -> [Registry!Ids -> Registry!Definition \cup {Registry!None}]]
        /\ templates \in [Registry!Processes -> SUBSET Registry!Templates]
             /\ rDefinitions \in [Registry!Ids -> Registry!Definition \cup {Registry!None}]
    BY DEF Registry!RegistryInit
  <2>2. luaTasks \in [Registry!Processes -> [maker : Registry!Scripts \cup {Registry!NoScript}, ids : SUBSET Registry!Ids]]
    BY DEF Registry!RegistryInit, Registry!NoTasks
  <2>3. loads \in 0 .. MaxLoads /\ regFaults \in 0 .. MaxRegFaults
    BY RegistryBounds DEF Registry!RegistryInit
  <2>. QED  BY <2>1, <2>2, <2>3 DEF Registry!RegistryInit, SharedOK
<1>2. RoutinesOK
  BY JobTypes DEF Registry!RegistryInit, RoutinesOK, RegPlaces
<1>3. RedisInv
  BY DEF Registry!RegistryInit, RedisInv, Registry!Exists
<1>4. \A g \in Registry!Routines : JobInv(g)
  BY JobTypes DEF Registry!RegistryInit, JobInv, JobOK, LoadPlaces
<1>5. \A p \in Registry!Processes : ScriptInv(p)
  <2>1. \A p \in Registry!Processes : regAt[p] = "idle"
    BY Process DEF Registry!RegistryInit
  <2>. QED  BY <2>1 DEF Registry!RegistryInit, ScriptInv, ScriptOK, Registry!NoTasks, LoadPlaces
<1>. QED  BY <1>1, <1>2, <1>3, <1>4, <1>5 DEF RegInv

\* A routine goes to its next step: the invariants of the others hold on.
LEMMA RoutineStep ==
  ASSUME RegInv, NEW g \in Registry!Routines, NEW l \in RegPlaces, NEW j \in Jobs,
         regAt' = [regAt EXCEPT ![g] = l], regJob' = [regJob EXCEPT ![g] = j], Grows,
         \A p \in Registry!Processes : p # g => luaTasks'[p] = luaTasks[p],
         JobOK(g, l, j)', g \in Loaders => ScriptOK(g, l, j)'
  PROVE  /\ RoutinesOK' /\ \A h \in Registry!Routines : JobInv(h)'
         /\ \A p \in Registry!Processes : ScriptInv(p)'
<1>1. RoutinesOK'
  BY DEF RegInv, RoutinesOK
<1>2. /\ regAt'[g] = l /\ regJob'[g] = j
      /\ \A h \in Registry!Routines : h # g => regAt'[h] = regAt[h] /\ regJob'[h] = regJob[h]
  BY DEF RegInv, RoutinesOK
<1>3. ASSUME NEW h \in Registry!Routines PROVE JobInv(h)'
  <2>1. CASE h = g
    BY <1>2, <2>1 DEF JobInv, JobOK, Stored, Registry!Exists, Honest
  <2>2. CASE h # g
    <3>1. PICK k, i : k = regAt[h] /\ i = regJob[h]
      OBVIOUS
    <3>2. JobOK(h, k, i) /\ regAt'[h] = k /\ regJob'[h] = i /\ i \in Jobs
      BY <1>2, <2>2, <3>1 DEF RegInv, JobInv, RoutinesOK
    <3>3. /\ k \in {"set", "index"} => Registry!Exists(h, i.id)'
          /\ Stored(i.id) /\ i.id \in Registry!Ids => Stored(i.id)'
          /\ i.value \in Registry!Definition /\ Honest(i.value) => Honest(i.value)'
      <4>1. k \in {"set", "index"} => i.id \in Registry!Ids /\ h \in Registry!Processes
              /\ Registry!Exists(h, i.id)
        BY <3>2, Process DEF JobOK, LoadPlaces, Jobs
      <4>. QED  BY <4>1 DEF Grows, Honest
    <3>4. /\ k \in {"register template", "template set", "cache"} => i.id \in Registry!Ids
          /\ i.op = "create" => i.id \in Registry!Ids
      BY <3>2 DEF JobOK, Registry!Ids
    <3>5. JobOK(h, k, i)'
      BY <3>2, <3>3, <3>4 DEF JobOK
    <3>. QED  BY <3>2, <3>5 DEF JobInv, JobOK, Stored, Registry!Exists, Honest
  <2>. QED  BY <2>1, <2>2
<1>4. ASSUME NEW p \in Registry!Processes PROVE ScriptInv(p)'
  <2>1. CASE p = g
    BY <1>2, <2>1, Process DEF ScriptInv, ScriptOK, Registry!Exists
  <2>2. CASE p # g
    <3>1. PICK k, i, x : k = regAt[p] /\ i = regJob[p] /\ x = luaTasks[p]
      OBVIOUS
    <3>2. ScriptOK(p, k, i) /\ regAt'[p] = k /\ regJob'[p] = i /\ luaTasks'[p] = x
            /\ x.ids \subseteq Registry!Ids
      BY <1>2, <2>2, <3>1, Process DEF RegInv, ScriptInv, SharedOK
    <3>3. \A d \in Registry!Ids : Registry!Exists(p, d) => Registry!Exists(p, d)'
      BY DEF Grows
    <3>4. ScriptOK(p, k, i)'
      BY <3>1, <3>2, <3>3 DEF ScriptOK, Grows
    <3>. QED  BY <3>2, <3>4 DEF ScriptInv, ScriptOK, Registry!Exists
  <2>. QED  BY <2>1, <2>2
<1>. QED  BY <1>1, <1>3, <1>4

\* The definitions stay as they are, and templates come only with one that is stored.
LEMMA StoreKept ==
  ASSUME RegInv, NEW g \in Registry!Routines, regAt[g] # "set", NEW l, NEW j,
         regAt' = [regAt EXCEPT ![g] = l], regJob' = [regJob EXCEPT ![g] = j],
         UNCHANGED <<definitions, rDefinitions, refused>>, failed \subseteq failed',
         missed' \subseteq missed \cup refused,
         NEW T \in SUBSET Registry!Templates, \A t \in T : Stored(RegDefinitionOf[t]),
         \A p \in Registry!Processes : templates'[p] \subseteq templates[p] \cup T,
         rTemplates' \subseteq rTemplates \cup T
  PROVE  RedisInv' /\ Grows
<1>1. /\ \A d : Stored(d)' = Stored(d)
      /\ \A p, d : Registry!Exists(p, d)' = Registry!Exists(p, d)
      /\ \A x : Honest(x) => Honest(x)'
  BY DEF Stored, Registry!Exists, Honest
<1>2. Grows
  BY <1>1 DEF Grows
<1>3. RedisInv
  BY DEF RegInv
<1>4. ASSUME NEW p \in Registry!Processes, NEW d \in Registry!Ids, Registry!Exists(p, d)'
      PROVE  Honest(definitions[p][d])' /\ (Stored(d)' \/ (regAt'[p] = "set" /\ regJob'[p].id = d))
  <2>1. Honest(definitions[p][d]) /\ (Stored(d) \/ (regAt[p] = "set" /\ regJob[p].id = d))
    BY <1>1, <1>3, <1>4 DEF RedisInv
  <2>2. PICK x : x = definitions[p][d] /\ x = definitions'[p][d]
    OBVIOUS
  <2>3. regAt[p] = "set" => regAt'[p] = regAt[p] /\ regJob'[p] = regJob[p]
    BY Process DEF RegInv, RoutinesOK
  <2>. QED  BY <1>1, <2>1, <2>2, <2>3 DEF Honest
<1>5. \A d \in Registry!Ids : rDefinitions'[d] # Registry!None => Honest(rDefinitions[d])'
  BY <1>3 DEF RedisInv, Honest
<1>6. missed' \subseteq refused'
  BY <1>3 DEF RedisInv
<1>7. /\ \A p \in Registry!Processes : \A t \in templates'[p] : Stored(RegDefinitionOf[t])'
      /\ \A t \in rTemplates' : Stored(RegDefinitionOf[t])'
  BY <1>1, <1>3 DEF RedisInv
<1>. QED  BY <1>2, <1>4, <1>5, <1>6, <1>7 DEF RedisInv

LEMMA RegFault == ASSUME RegInv, Registry!Fault \/ regFaults' = regFaults
                  PROVE  regFaults' \in 0 .. MaxRegFaults
BY RegistryBounds DEF RegInv, SharedOK, Registry!Fault

\* Steps of a routine that registers nothing.
LEMMA RegQuietStep ==
  ASSUME RegInv, NEW g \in Registry!Routines, regAt[g] \notin LoadPlaces,
         NEW l \in RegPlaces \ LoadPlaces,
         NEW j \in Jobs, regAt' = [regAt EXCEPT ![g] = l], regJob' = [regJob EXCEPT ![g] = j],
         UNCHANGED <<definitions, rDefinitions, rIndex, luaTasks, refused, failed>>,
         Registry!Fault \/ regFaults' = regFaults, loads' \in 0 .. MaxLoads,
         NEW T \in SUBSET Registry!Templates, \A t \in T : Stored(RegDefinitionOf[t]),
         templates' \in [Registry!Processes -> SUBSET Registry!Templates],
         \A p \in Registry!Processes : templates'[p] \subseteq templates[p] \cup T,
         rTemplates' \subseteq rTemplates \cup T,
         missed' \subseteq missed \cup refused,
         JobOK(g, l, j)
  PROVE  RegInv'
<1>1. SharedOK'
  BY RegFault DEF RegInv, SharedOK
<1>2. RedisInv' /\ Grows
  BY StoreKept DEF LoadPlaces
<1>3. JobOK(g, l, j)'
  BY DEF JobOK, Registry!Exists, Stored, Honest
<1>4. ASSUME g \in Loaders PROVE ScriptOK(g, l, j)'
  <2>1. ScriptInv(g)
    BY <1>4, Process DEF RegInv
  <2>. QED  BY <2>1 DEF ScriptInv, ScriptOK, Registry!Exists
<1>. QED  BY <1>1, <1>2, <1>3, <1>4, RoutineStep DEF RegInv

\* ... and those that leave the templates, too.
LEMMA SilentStep ==
  ASSUME RegInv, NEW g \in Registry!Routines, regAt[g] \notin LoadPlaces,
         NEW l \in RegPlaces \ LoadPlaces,
         NEW j \in Jobs, regAt' = [regAt EXCEPT ![g] = l], regJob' = [regJob EXCEPT ![g] = j],
         UNCHANGED <<definitions, templates, rDefinitions, rTemplates, rIndex, luaTasks, refused,
                     failed>>,
         Registry!Fault \/ regFaults' = regFaults, loads' \in 0 .. MaxLoads,
         missed' \subseteq missed \cup refused,
         JobOK(g, l, j)
  PROVE  RegInv'
<1>1. /\ {} \in SUBSET Registry!Templates /\ \A t \in {} : Stored(RegDefinitionOf[t])
      /\ templates' \in [Registry!Processes -> SUBSET Registry!Templates]
      /\ \A p \in Registry!Processes : templates'[p] \subseteq templates[p] \cup {}
      /\ rTemplates' \subseteq rTemplates \cup {}
  BY DEF RegInv, SharedOK
<1>2. UNCHANGED <<definitions, rDefinitions, rIndex, luaTasks, refused, failed>>
  OBVIOUS
<1>. QED  BY <1>1, <1>2, RegQuietStep

LEMMA Unlocked ==
  ASSUME RegInv, NEW g \in Registry!Routines, ~Registry!Locked(Registry!ProcessOf(g)),
         NEW d \in Registry!Ids, Registry!Exists(Registry!ProcessOf(g), d)
  PROVE  Stored(d)
<1>1. Registry!ProcessOf(g) \in Registry!Processes /\ Registry!ProcessOf(g) \in Registry!Routines
        /\ Registry!ProcessOf(Registry!ProcessOf(g)) = Registry!ProcessOf(g)
  BY Process
<1>2. regAt[Registry!ProcessOf(g)] # "set"
  BY <1>1 DEF Registry!Locked
<1>. QED  BY <1>1, <1>2 DEF RegInv, RedisInv

LEMMA JobOf ==
  ASSUME RegInv, NEW g \in Registry!Routines
  PROVE  /\ JobOK(g, regAt[g], regJob[g]) /\ regJob[g] \in Jobs /\ regAt[g] \in RegPlaces
         /\ regAt = [regAt EXCEPT ![g] = regAt[g]] /\ regJob = [regJob EXCEPT ![g] = regJob[g]]
BY DEF RegInv, JobInv, RoutinesOK

LEMMA IdleOK == \A g : JobOK(g, "idle", Registry!NoJob)
BY JobTypes DEF JobOK, LoadPlaces

\* LookUp, GetDefinition and what a template needs.
LEMMA LookUpStep == ASSUME RegInv, NEW g \in Registry!Routines, Registry!LookUp(g) PROVE RegInv'
<1>1. /\ regAt[g] = "look up" /\ ~Registry!Locked(Registry!ProcessOf(g))
      /\ UNCHANGED <<definitions, templates, rDefinitions, rTemplates, rIndex, luaTasks,
                     failed, refused, missed, loads, regFaults>>
  BY DEF Registry!LookUp, Registry!memory, Registry!inRedis, Registry!history
<1>2. /\ templates' \in [Registry!Processes -> SUBSET Registry!Templates]
           /\ loads' \in 0 .. MaxLoads
      /\ regAt[g] \notin LoadPlaces /\ missed' \subseteq missed \cup refused
  BY <1>1 DEF RegInv, SharedOK, LoadPlaces
<1>3. JobOK(g, "look up", regJob[g]) /\ regJob[g] \in Jobs
  BY <1>1, JobOf
<1>4. CASE Registry!Exists(Registry!ProcessOf(g), regJob[g].id) /\ regJob[g].op = "template"
  <2>1. regAt' = [regAt EXCEPT ![g] = "register template"]
          /\ regJob' = [regJob EXCEPT ![g] = regJob[g]]
    BY <1>1, <1>4, JobOf DEF Registry!LookUp, Registry!Found, Registry!Goto
  <2>2. JobOK(g, "register template", regJob[g]) /\ "register template" \in RegPlaces \ LoadPlaces
    BY <1>1, <1>3, <1>4, Unlocked DEF JobOK, LoadPlaces, RegPlaces
  <2>3. PICK j : j = regJob[g]
    OBVIOUS
  <2>. QED  BY <1>1, <1>2, <1>3, <2>1, <2>2, <2>3, SilentStep
<1>5. CASE Registry!Exists(Registry!ProcessOf(g), regJob[g].id) /\ regJob[g].op # "template"
  <2>1. regAt' = [regAt EXCEPT ![g] = "idle"] /\ regJob' = [regJob EXCEPT ![g] = Registry!NoJob]
    BY <1>1, <1>5 DEF Registry!LookUp, Registry!Found, Registry!Ends
  <2>2. JobOK(g, "idle", Registry!NoJob) /\ "idle" \in RegPlaces \ LoadPlaces
          /\ Registry!NoJob \in Jobs
    BY IdleOK, JobTypes DEF LoadPlaces, RegPlaces
  <2>. QED  BY <1>1, <1>2, <2>1, <2>2, SilentStep
<1>6. CASE ~Registry!Exists(Registry!ProcessOf(g), regJob[g].id)
  <2>1. regAt' = [regAt EXCEPT ![g] = "get"] /\ regJob' = [regJob EXCEPT ![g] = regJob[g]]
    BY <1>1, <1>6, JobOf DEF Registry!LookUp, Registry!Goto
  <2>2. JobOK(g, "get", regJob[g]) /\ "get" \in RegPlaces \ LoadPlaces
    BY <1>3 DEF JobOK, LoadPlaces, RegPlaces
  <2>3. PICK j : j = regJob[g]
    OBVIOUS
  <2>. QED  BY <1>1, <1>2, <1>3, <2>1, <2>2, <2>3, SilentStep
<1>. QED  BY <1>4, <1>5, <1>6

LEMMA GetStep == ASSUME RegInv, NEW g \in Registry!Routines, Registry!GetDefinition(g) PROVE RegInv'
<1>1. /\ regAt[g] = "get" /\ regAt[g] \notin LoadPlaces
      /\ UNCHANGED <<definitions, templates, rDefinitions, rTemplates, rIndex, luaTasks,
                     failed, refused, loads>>
  BY DEF Registry!GetDefinition, Registry!memory, Registry!inRedis, LoadPlaces
<1>2. loads' \in 0 .. MaxLoads
  BY <1>1 DEF RegInv, SharedOK
<1>3. JobOK(g, "get", regJob[g]) /\ regJob[g] \in Jobs
  BY <1>1, JobOf
<1>4. JobOK(g, "idle", Registry!NoJob) /\ "idle" \in RegPlaces \ LoadPlaces
        /\ Registry!NoJob \in Jobs
  BY IdleOK, JobTypes DEF LoadPlaces, RegPlaces
<1>5. CASE /\ rDefinitions[regJob[g].id] # Registry!None /\ Registry!Goto(g, "cache")
           /\ regJob' = [regJob EXCEPT ![g].value = rDefinitions[regJob[g].id]]
           /\ UNCHANGED <<missed, regFaults>>
  <2>0. PICK i, x : i = regJob[g] /\ x = rDefinitions[i.id]
    OBVIOUS
  <2>1. i \in Jobs /\ i.id \in Registry!Ids /\ x # Registry!None
    BY <1>3, <1>5, <2>0 DEF JobOK
  <2>2. x \in Registry!Definition
    BY <2>0, <2>1 DEF RegInv, SharedOK
  <2>3. PICK j : j = [i EXCEPT !.value = x]
    OBVIOUS
  <2>4. /\ j \in Jobs /\ j.value = x /\ j.op = i.op /\ j.id = i.id /\ j.template = i.template
    BY <2>1, <2>2, <2>3 DEF Jobs
  <2>5. regAt' = [regAt EXCEPT ![g] = "cache"] /\ regJob' = [regJob EXCEPT ![g] = j]
    BY <1>5, <2>0, <2>3 DEF Registry!Goto
  <2>6. Honest(x) /\ Stored(j.id) /\ JobOK(g, "get", i)
    BY <1>3, <2>0, <2>1, <2>4 DEF RegInv, RedisInv, Stored
  <2>7. j # Registry!NoJob
    BY <2>4, <2>6, JobTypes DEF JobOK
  <2>8. JobOK(g, "cache", j) /\ "cache" \in RegPlaces \ LoadPlaces
    BY <2>2, <2>4, <2>6, <2>7 DEF JobOK, LoadPlaces, RegPlaces
  <2>9. missed' \subseteq missed \cup refused
    BY <1>5
  <2>. QED  BY <1>1, <1>2, <1>5, <2>4, <2>5, <2>8, <2>9, SilentStep
<1>6. CASE /\ rDefinitions[regJob[g].id] = Registry!None /\ Registry!Ends(g) /\ UNCHANGED regFaults
           /\ missed' = IF regJob[g].op = "create" THEN missed \cup {regJob[g].id} ELSE missed
  <2>1. regJob[g].op = "create" => regJob[g].id \in refused
    BY <1>3, <1>6 DEF JobOK, Stored
  <2>2. missed' \subseteq missed \cup refused
    BY <1>6, <2>1
  <2>3. regAt' = [regAt EXCEPT ![g] = "idle"] /\ regJob' = [regJob EXCEPT ![g] = Registry!NoJob]
          /\ regFaults' = regFaults
    BY <1>6 DEF Registry!Ends
  <2>. QED  BY <1>1, <1>2, <1>4, <2>2, <2>3, SilentStep
<1>7. CASE Registry!Fault /\ Registry!Ends(g) /\ UNCHANGED missed
  BY <1>1, <1>2, <1>4, <1>7, SilentStep DEF Registry!Ends
<1>. QED  BY <1>5, <1>6, <1>7 DEF Registry!GetDefinition

LEMMA TemplateSteps ==
  ASSUME RegInv, NEW g \in Registry!Routines,
         Registry!RegisterTemplate(g) \/ Registry!SetTemplate(g) \/ Registry!CacheTemplate(g)
  PROVE  RegInv'
<1>0. PICK i, t : i = regJob[g] /\ t = i.template
  OBVIOUS
<1>1. /\ JobOK(g, regAt[g], i) /\ i \in Jobs
      /\ regJob = [regJob EXCEPT ![g] = i]
  BY <1>0, JobOf
<1>2. /\ regAt[g] \in {"register template", "template set", "cache template"}
           /\ regAt[g] \notin LoadPlaces
      /\ UNCHANGED <<definitions, rDefinitions, rIndex, luaTasks, failed, refused, missed, loads>>
      /\ Registry!Fault \/ regFaults' = regFaults
      /\ missed' \subseteq missed \cup refused
  BY DEF Registry!RegisterTemplate, Registry!SetTemplate, Registry!CacheTemplate, Registry!memory,
     Registry!inRedis, Registry!history, LoadPlaces
<1>3. t \in Registry!Templates /\ Stored(RegDefinitionOf[t]) /\ loads' \in 0 .. MaxLoads
  <2>1. i.op \in {"template", "create"} /\ t \in Registry!Templates /\ i.id = RegDefinitionOf[t]
    BY <1>0, <1>1, <1>2 DEF JobOK
  <2>2. Stored(i.id)
    BY <1>1, <1>2, <2>1 DEF JobOK
  <2>. QED  BY <1>2, <2>1, <2>2 DEF RegInv, SharedOK
<1>4. {t} \in SUBSET Registry!Templates /\ \A u \in {t} : Stored(RegDefinitionOf[u])
  BY <1>3
<1>5. templates \in [Registry!Processes -> SUBSET Registry!Templates]
        /\ Registry!ProcessOf(g) \in Registry!Processes
  BY Process DEF RegInv, SharedOK
<1>6. /\ templates' \in [Registry!Processes -> SUBSET Registry!Templates]
      /\ \A p \in Registry!Processes : templates'[p] \subseteq templates[p] \cup {t}
  <2>1. templates' = templates
          \/ templates' = [templates EXCEPT ![Registry!ProcessOf(g)] = @ \cup {t}]
    BY <1>0 DEF Registry!RegisterTemplate, Registry!SetTemplate, Registry!CacheTemplate,
       Registry!memory
  <2>. QED  BY <1>3, <1>5, <2>1
<1>7. rTemplates' \subseteq rTemplates \cup {t}
  BY <1>0 DEF Registry!RegisterTemplate, Registry!SetTemplate, Registry!CacheTemplate,
     Registry!inRedis
<1>8. PICK l, j :
        /\ l \in RegPlaces \ LoadPlaces /\ j \in Jobs /\ JobOK(g, l, j)
        /\ regAt' = [regAt EXCEPT ![g] = l] /\ regJob' = [regJob EXCEPT ![g] = j]
  <2>1. CASE Registry!RegisterTemplate(g)
    <3>1. /\ regAt' = [regAt EXCEPT ![g] = "template set"] /\ regJob' = [regJob EXCEPT ![g] = i]
          /\ regAt[g] = "register template"
      BY <1>1, <2>1 DEF Registry!RegisterTemplate, Registry!Goto
    <3>2. JobOK(g, "template set", i) /\ "template set" \in RegPlaces \ LoadPlaces
      BY <1>1, <3>1 DEF JobOK, RegPlaces, LoadPlaces
    <3>. QED  BY <1>1, <3>1, <3>2
  <2>2. CASE Registry!SetTemplate(g)
    <3>1. regAt' = [regAt EXCEPT ![g] = "idle"] /\ regJob' = [regJob EXCEPT ![g] = Registry!NoJob]
      BY <2>2 DEF Registry!SetTemplate, Registry!Ends
    <3>2. JobOK(g, "idle", Registry!NoJob) /\ "idle" \in RegPlaces \ LoadPlaces
            /\ Registry!NoJob \in Jobs
      BY IdleOK, JobTypes DEF LoadPlaces, RegPlaces
    <3>. QED  BY <3>1, <3>2
  <2>3. CASE Registry!CacheTemplate(g)
    <3>1. /\ regAt' = [regAt EXCEPT ![g] = "look up"] /\ regJob' = [regJob EXCEPT ![g] = i]
          /\ regAt[g] = "cache template"
      BY <1>1, <2>3 DEF Registry!CacheTemplate, Registry!Goto
    <3>2. i.id \in Registry!Ids
      BY <1>1, <3>1 DEF JobOK, Registry!Ids
    <3>3. JobOK(g, "look up", i) /\ "look up" \in RegPlaces \ LoadPlaces
      BY <1>1, <3>1, <3>2 DEF JobOK, RegPlaces, LoadPlaces
    <3>. QED  BY <1>1, <3>1, <3>3
  <2>. QED  BY <2>1, <2>2, <2>3
<1>. QED  BY <1>2, <1>3, <1>4, <1>6, <1>7, <1>8, RegQuietStep

LEMMA CreateSteps ==
  ASSUME RegInv, NEW g \in Registry!Routines,
         \/ \E t \in Registry!Templates : Registry!CreateTask(g, t)
              \/ (g \in Loaders /\ Registry!LoadTemplate(g, t))
         \/ \E d \in Registry!Ids : Registry!LoadIndexed(g, d)
         \/ Registry!GetTemplate(g)
  PROVE  RegInv'
<1>1. /\ regAt[g] \in {"idle", "get template"} /\ regAt[g] \notin LoadPlaces
      /\ UNCHANGED <<definitions, templates, rDefinitions, rTemplates, rIndex, luaTasks, refused,
                     failed,
                     missed>>
      /\ Registry!Fault \/ regFaults' = regFaults
      /\ loads' = loads \/ (loads < MaxLoads /\ loads' = loads + 1)
  BY DEF Registry!CreateTask, Registry!LoadTemplate, Registry!Loads, Registry!LoadIndexed,
     Registry!GetTemplate, Registry!memory, Registry!inRedis, Registry!history, LoadPlaces
<1>2. loads' \in 0 .. MaxLoads /\ missed' \subseteq missed \cup refused
  <2>1. loads \in 0 .. MaxLoads
    BY DEF RegInv, SharedOK
  <2>2. loads' \in 0 .. MaxLoads
    <3>1. CASE loads' = loads
      BY <2>1, <3>1
    <3>2. CASE loads < MaxLoads /\ loads' = loads + 1
      BY <2>1, <3>2, RegistryBounds
    <3>. QED  BY <1>1, <3>1, <3>2
  <2>3. missed' = missed
    BY <1>1
  <2>. QED  BY <2>2, <2>3
<1>3. PICK l, j :
        /\ l \in RegPlaces \ LoadPlaces /\ j \in Jobs /\ JobOK(g, l, j)
        /\ regAt' = [regAt EXCEPT ![g] = l] /\ regJob' = [regJob EXCEPT ![g] = j]
  <2>0. {"idle", "look up", "get template", "cache template"} \subseteq RegPlaces \ LoadPlaces
    BY DEF RegPlaces, LoadPlaces
  <2>1. ASSUME NEW t \in Registry!Templates, Registry!CreateTask(g, t)
        PROVE  \E l, j : /\ l \in RegPlaces \ LoadPlaces /\ j \in Jobs /\ JobOK(g, l, j)
                         /\ regAt' = [regAt EXCEPT ![g] = l] /\ regJob' = [regJob EXCEPT ![g] = j]
    <3>1. PICK j : j = [Registry!NoJob EXCEPT !.op = "create", !.template = t, !.id = RegDefinitionOf[t]]
      OBVIOUS
    <3>2. j \in Jobs /\ j.op = "create" /\ j.template = t /\ j.id = RegDefinitionOf[t]
            /\ j # Registry!NoJob
      BY <3>1, JobTypes
    <3>3. regJob' = [regJob EXCEPT ![g] = j] /\ RegDefinitionOf[t] \in Registry!Ids
      BY <2>1, <3>1 DEF Registry!CreateTask, Registry!Ids
    <3>4. CASE t \in templates[Registry!ProcessOf(g)]
      <4>1. regAt' = [regAt EXCEPT ![g] = "look up"] /\ Stored(RegDefinitionOf[t])
        BY <2>1, <3>4, Process DEF Registry!CreateTask, Registry!Goto, RegInv, RedisInv
      <4>2. JobOK(g, "look up", j)
        BY <3>2, <3>3, <4>1 DEF JobOK, LoadPlaces
      <4>. QED  BY <2>0, <3>2, <3>3, <4>1, <4>2
    <3>5. CASE t \notin templates[Registry!ProcessOf(g)]
      <4>1. regAt' = [regAt EXCEPT ![g] = "get template"]
        BY <2>1, <3>5 DEF Registry!CreateTask, Registry!Goto
      <4>2. JobOK(g, "get template", j)
        BY <3>2 DEF JobOK, LoadPlaces
      <4>. QED  BY <2>0, <3>2, <3>3, <4>1, <4>2
    <3>. QED  BY <3>4, <3>5
  <2>2. ASSUME NEW t \in Registry!Templates, Registry!LoadTemplate(g, t)
        PROVE  \E l, j : /\ l \in RegPlaces \ LoadPlaces /\ j \in Jobs /\ JobOK(g, l, j)
                         /\ regAt' = [regAt EXCEPT ![g] = l] /\ regJob' = [regJob EXCEPT ![g] = j]
    <3>1. PICK j : j = [Registry!NoJob EXCEPT !.op = "template", !.template = t, !.id = RegDefinitionOf[t]]
      OBVIOUS
    <3>2. j \in Jobs /\ j.op = "template" /\ j.template = t /\ j.id = RegDefinitionOf[t]
            /\ j # Registry!NoJob
      BY <3>1, JobTypes
    <3>3. /\ regAt' = [regAt EXCEPT ![g] = "look up"] /\ regJob' = [regJob EXCEPT ![g] = j]
          /\ RegDefinitionOf[t] \in Registry!Ids
      BY <2>2, <3>1 DEF Registry!LoadTemplate, Registry!Goto, Registry!Verify, Registry!Ids
    <3>4. JobOK(g, "look up", j)
      BY <3>2, <3>3 DEF JobOK, LoadPlaces
    <3>. QED  BY <2>0, <3>2, <3>3, <3>4
  <2>3. ASSUME NEW d \in Registry!Ids, Registry!LoadIndexed(g, d)
        PROVE  \E l, j : /\ l \in RegPlaces \ LoadPlaces /\ j \in Jobs /\ JobOK(g, l, j)
                         /\ regAt' = [regAt EXCEPT ![g] = l] /\ regJob' = [regJob EXCEPT ![g] = j]
    <3>1. PICK j : j = [Registry!NoJob EXCEPT !.op = "index", !.id = d]
      OBVIOUS
    <3>2. j \in Jobs /\ j.op = "index" /\ j.id = d /\ j # Registry!NoJob
      BY <3>1, JobTypes
    <3>3. regAt' = [regAt EXCEPT ![g] = "look up"] /\ regJob' = [regJob EXCEPT ![g] = j]
      BY <2>3, <3>1 DEF Registry!LoadIndexed, Registry!Goto
    <3>4. JobOK(g, "look up", j)
      BY <3>2 DEF JobOK, LoadPlaces
    <3>. QED  BY <2>0, <3>2, <3>3, <3>4
  <2>4. CASE Registry!GetTemplate(g)
    <3>1. CASE regJob[g].template \in rTemplates /\ Registry!Goto(g, "cache template")
                 /\ UNCHANGED regJob
      <4>1. PICK i : i = regJob[g]
        OBVIOUS
      <4>2. regAt' = [regAt EXCEPT ![g] = "cache template"] /\ regJob' = [regJob EXCEPT ![g] = i]
        BY <3>1, <4>1, JobOf DEF Registry!Goto
      <4>3. i \in Jobs /\ JobOK(g, "get template", i)
        BY <2>4, <4>1, JobOf DEF Registry!GetTemplate
      <4>4. Stored(i.id)
        BY <3>1, <4>1, <4>3 DEF JobOK, RegInv, RedisInv
      <4>5. JobOK(g, "cache template", i)
        BY <4>3, <4>4 DEF JobOK, LoadPlaces
      <4>. QED  BY <2>0, <4>2, <4>3, <4>5
    <3>2. CASE Registry!Ends(g)
      <4>1. regAt' = [regAt EXCEPT ![g] = "idle"] /\ regJob' = [regJob EXCEPT ![g] = Registry!NoJob]
        BY <3>2 DEF Registry!Ends
      <4>. QED  BY <2>0, <4>1, IdleOK, JobTypes
    <3>. QED  BY <2>4, <3>1, <3>2 DEF Registry!GetTemplate
  <2>. QED  BY <2>1, <2>2, <2>3, <2>4
<1>. QED  BY <1>1, <1>2, <1>3, SilentStep

\* A definition that came from Redis goes into the memory.
LEMMA CacheStep == ASSUME RegInv, NEW g \in Registry!Routines, Registry!CacheDefinition(g)
                   PROVE  RegInv'
<1>0. PICK i, q, D : i = regJob[g] /\ q = Registry!ProcessOf(g)
        /\ D = [definitions[q] EXCEPT ![i.id] = i.value]
  OBVIOUS
<1>1. /\ regAt[g] = "cache" /\ Registry!Found(g) /\ definitions' = [definitions EXCEPT ![q] = D]
      /\ UNCHANGED <<templates, rDefinitions, rTemplates, rIndex, luaTasks, failed, refused, missed,
                     loads, regFaults>>
  BY <1>0 DEF Registry!CacheDefinition, Registry!inRedis, Registry!history
<1>2. /\ q \in Registry!Processes /\ i \in Jobs /\ i.id \in Registry!Ids
           /\ i.value \in Registry!Definition /\ i.value # Registry!None
      /\ JobOK(g, "cache", i) /\ Stored(i.id) /\ Honest(i.value)
  BY <1>0, <1>1, JobOf, Process, NotNone DEF JobOK
<1>3. /\ D \in [Registry!Ids -> Registry!Definition \cup {Registry!None}] /\ D[i.id] = i.value
      /\ \A d \in Registry!Ids : d # i.id => D[d] = definitions[q][d]
  BY <1>0, <1>2 DEF RegInv, SharedOK
<1>4. /\ definitions' \in [Registry!Processes -> [Registry!Ids -> Registry!Definition \cup {Registry!None}]] /\ definitions'[q] = D
      /\ \A p \in Registry!Processes : p # q => definitions'[p] = definitions[p]
  BY <1>1, <1>2, <1>3 DEF RegInv, SharedOK
<1>5. SharedOK'
  BY <1>1, <1>4 DEF RegInv, SharedOK
<1>6. PICK l, j :
        /\ l \in RegPlaces \ LoadPlaces /\ j \in Jobs /\ JobOK(g, l, j)
        /\ regAt' = [regAt EXCEPT ![g] = l] /\ regJob' = [regJob EXCEPT ![g] = j]
  <2>1. CASE i.op = "template"
    <3>1. regAt' = [regAt EXCEPT ![g] = "register template"] /\ regJob' = [regJob EXCEPT ![g] = i]
      BY <1>0, <1>1, <2>1, JobOf DEF Registry!Found, Registry!Goto
    <3>2. JobOK(g, "register template", i) /\ "register template" \in RegPlaces \ LoadPlaces
      BY <1>2, <2>1 DEF JobOK, RegPlaces, LoadPlaces
    <3>. QED  BY <1>2, <3>1, <3>2
  <2>2. CASE i.op # "template"
    <3>1. regAt' = [regAt EXCEPT ![g] = "idle"] /\ regJob' = [regJob EXCEPT ![g] = Registry!NoJob]
      BY <1>0, <1>1, <2>2 DEF Registry!Found, Registry!Ends
    <3>2. JobOK(g, "idle", Registry!NoJob) /\ "idle" \in RegPlaces \ LoadPlaces
            /\ Registry!NoJob \in Jobs
      BY IdleOK, JobTypes DEF LoadPlaces, RegPlaces
    <3>. QED  BY <3>1, <3>2
  <2>. QED  BY <2>1, <2>2
<1>7. /\ \A d : Stored(d)' = Stored(d)
      /\ \A x : Honest(x)' = Honest(x)
      /\ \A p \in Registry!Processes, d \in Registry!Ids : Registry!Exists(p, d)
           => Registry!Exists(p, d)'
      /\ \A p \in Registry!Processes, d \in Registry!Ids : Registry!Exists(p, d)'
           => Registry!Exists(p, d) \/ (p = q /\ d = i.id)
  BY <1>1, <1>2, <1>3, <1>4 DEF Stored, Honest, Registry!Exists
<1>8. Grows
  BY <1>1, <1>7 DEF Grows
<1>9. JobOK(g, l, j)'
  <2>1. j \in Jobs => (l \in {"set", "index"} <=> FALSE)
    BY <1>6 DEF LoadPlaces
  <2>. QED  BY <1>6, <1>7, <2>1 DEF JobOK
<1>10. ASSUME g \in Loaders PROVE ScriptOK(g, l, j)'
  <2>1. ScriptInv(g) /\ g \in Registry!Processes /\ luaTasks[g].ids \subseteq Registry!Ids
    BY <1>10, Process DEF RegInv, SharedOK
  <2>2. regAt[g] \notin LoadPlaces /\ l \notin LoadPlaces
    BY <1>1, <1>6 DEF LoadPlaces
  <2>3. luaTasks' = luaTasks /\ failed' = failed
    BY <1>1
  <2>. QED  BY <1>7, <2>1, <2>2, <2>3 DEF ScriptInv, ScriptOK
<1>11. RedisInv'
  <2>1. RedisInv
    BY DEF RegInv
  <2>2. ASSUME NEW p \in Registry!Processes, NEW d \in Registry!Ids, Registry!Exists(p, d)'
        PROVE  Honest(definitions[p][d])'
                 /\ (Stored(d)' \/ (regAt'[p] = "set" /\ regJob'[p].id = d))
    <3>0. PICK x : x = definitions'[p][d]
      OBVIOUS
    <3>1. CASE p = q /\ d = i.id
      <4>1. x = i.value
        BY <1>3, <1>4, <3>0, <3>1
      <4>2. Honest(x)'
        BY <1>2, <1>7, <4>1
      <4>. QED  BY <1>2, <1>7, <3>0, <3>1, <4>2 DEF Honest
    <3>2. CASE ~(p = q /\ d = i.id)
      <4>1. x = definitions[p][d] /\ Registry!Exists(p, d)
        BY <1>3, <1>4, <1>7, <2>2, <3>0, <3>2
      <4>2. Honest(x) /\ (Stored(d) \/ (regAt[p] = "set" /\ regJob[p].id = d))
        BY <2>1, <4>1 DEF RedisInv
      <4>3. regAt[p] = "set" => regAt'[p] = regAt[p] /\ regJob'[p] = regJob[p]
        BY <1>1, <1>6, Process DEF RegInv, RoutinesOK
      <4>. QED  BY <1>1, <1>7, <3>0, <4>2, <4>3 DEF Honest
    <3>. QED  BY <3>1, <3>2
  <2>3. /\ \A d \in Registry!Ids : rDefinitions'[d] # Registry!None => Honest(rDefinitions[d])'
        /\ missed' \subseteq refused'
    BY <1>1, <2>1 DEF RedisInv, Honest
  <2>4. /\ \A p \in Registry!Processes : \A t \in templates'[p] : Stored(RegDefinitionOf[t])'
        /\ \A t \in rTemplates' : Stored(RegDefinitionOf[t])'
    BY <1>1, <1>7, <2>1 DEF RedisInv
  <2>. QED  BY <2>2, <2>3, <2>4 DEF RedisInv
<1>12. \A p \in Registry!Processes : p # g => luaTasks'[p] = luaTasks[p]
  BY <1>1
<1>. QED  BY <1>5, <1>6, <1>8, <1>9, <1>10, <1>11, <1>12, RoutineStep DEF RegInv

\* The loader goes to l with the job j and leaves M in the table tasks.
LoadsTo(g, l, j, M) ==
  /\ l \in RegPlaces /\ j \in Jobs /\ JobOK(g, l, j)
  /\ regAt' = [regAt EXCEPT ![g] = l] /\ regJob' = [regJob EXCEPT ![g] = j]
  /\ luaTasks' = [luaTasks EXCEPT ![g] = M]
  /\ M \in [maker : Registry!Scripts \cup {Registry!NoScript}, ids : SUBSET Registry!Ids]
  /\ \/ M.maker \in failed'
     \/ \A d \in M.ids :
          Registry!Exists(g, d) \/ (l \in LoadPlaces /\ j.script = M.maker /\ d \in j.left)
  /\ l \in LoadPlaces /\ j.script # Registry!NoScript => j.left \subseteq M.ids

LEMMA LoadsToStep ==
  ASSUME RegInv, NEW g \in Loaders, regAt[g] = "idle", NEW l, NEW j, NEW M, LoadsTo(g, l, j, M),
         loads' \in 0 .. MaxLoads, regFaults' \in 0 .. MaxRegFaults,
         failed \subseteq failed', failed' \subseteq Registry!Scripts,
         UNCHANGED <<definitions, templates, rDefinitions, rTemplates, rIndex, refused, missed>>
  PROVE  RegInv'
<1>0. g \in Registry!Routines /\ g \in Registry!Processes
  BY Process
<1>1. luaTasks \in [Registry!Processes -> [maker : Registry!Scripts \cup {Registry!NoScript}, ids : SUBSET Registry!Ids]]
  BY DEF RegInv, SharedOK
<1>2. /\ luaTasks' \in [Registry!Processes -> [maker : Registry!Scripts \cup {Registry!NoScript}, ids : SUBSET Registry!Ids]]
      /\ luaTasks'[g] = M /\ \A p \in Registry!Processes : p # g => luaTasks'[p] = luaTasks[p]
  BY <1>0, <1>1 DEF LoadsTo
<1>3. SharedOK'
  BY <1>2 DEF RegInv, SharedOK
<1>4. RedisInv' /\ Grows
  <2>1. /\ regAt' = [regAt EXCEPT ![g] = l] /\ regJob' = [regJob EXCEPT ![g] = j]
        /\ missed' \subseteq missed \cup refused /\ UNCHANGED <<definitions, rDefinitions, refused>>
        /\ {} \in SUBSET Registry!Templates /\ \A t \in {} : Stored(RegDefinitionOf[t])
        /\ \A p \in Registry!Processes : templates'[p] \subseteq templates[p] \cup {}
        /\ rTemplates' \subseteq rTemplates \cup {}
    BY DEF LoadsTo
  <2>. QED  BY <1>0, <2>1, StoreKept
<1>5. JobOK(g, l, j)'
  BY DEF LoadsTo, JobOK, Registry!Exists, Stored, Honest
<1>6. ScriptOK(g, l, j)'
  BY <1>2 DEF LoadsTo, ScriptOK, Registry!Exists
<1>. QED  BY <1>0, <1>2, <1>3, <1>4, <1>5, <1>6, RoutineStep DEF RegInv, LoadsTo

LEMMA TableOf ==
  ASSUME RegInv, NEW g \in Loaders, regAt[g] = "idle"
  PROVE  /\ luaTasks[g] \in [maker : Registry!Scripts \cup {Registry!NoScript}, ids : SUBSET Registry!Ids]
         /\ luaTasks[g].maker \in failed \/ \A d \in luaTasks[g].ids : Registry!Exists(g, d)
         /\ luaTasks = [luaTasks EXCEPT ![g] = luaTasks[g]]
<1>1. /\ ScriptInv(g)
           /\ luaTasks[g] \in [maker : Registry!Scripts \cup {Registry!NoScript}, ids : SUBSET Registry!Ids]
      /\ luaTasks = [luaTasks EXCEPT ![g] = luaTasks[g]]
  BY Process DEF RegInv, SharedOK
<1>. QED  BY <1>1 DEF ScriptInv, ScriptOK, LoadPlaces

\* The loader takes the next configuration, or runs a script.
LEMMA LoadStep ==
  ASSUME RegInv, NEW g \in Loaders,
         \/ \E d \in Registry!Ids : Registry!LoadDefinition(g, d)
         \/ \E s \in Registry!Scripts : Registry!LoadScript(g, s)
  PROVE  RegInv'
<1>0. g \in Registry!Routines
  BY Process
<1>1. /\ regAt[g] = "idle" /\ loads < MaxLoads /\ loads' = loads + 1
      /\ UNCHANGED <<definitions, templates, rDefinitions, rTemplates, rIndex, failed, refused,
                     missed,
                     regFaults>>
  BY DEF Registry!LoadDefinition, Registry!LoadScript, Registry!Loads, Registry!memory,
     Registry!inRedis
<1>2. PICK L : L = luaTasks[g]
  OBVIOUS
<1>3. /\ L \in [maker : Registry!Scripts \cup {Registry!NoScript}, ids : SUBSET Registry!Ids]
      /\ L.maker \in failed \/ \A d \in L.ids : Registry!Exists(g, d)
      /\ luaTasks = [luaTasks EXCEPT ![g] = L]
  BY <1>1, <1>2, TableOf
<1>4. /\ loads' \in 0 .. MaxLoads /\ regFaults' \in 0 .. MaxRegFaults
      /\ failed \subseteq failed' /\ failed' \subseteq Registry!Scripts
  <2>1. loads \in 0 .. MaxLoads /\ regFaults \in 0 .. MaxRegFaults
          /\ failed \subseteq Registry!Scripts
    BY DEF RegInv, SharedOK
  <2>. QED  BY <1>1, <2>1, RegistryBounds
<1>5. "register" \in RegPlaces /\ "register" \in LoadPlaces
  BY DEF RegPlaces, LoadPlaces
<1>6. \E l, j, M : LoadsTo(g, l, j, M)
  <2>1. ASSUME NEW d \in Registry!Ids, Registry!LoadDefinition(g, d)
        PROVE  \E l, j, M : LoadsTo(g, l, j, M)
    <3>1. PICK j : j = [Registry!NoJob EXCEPT !.op = "load", !.left = {d}]
      OBVIOUS
    <3>2. j \in Jobs /\ j.op = "load" /\ j.script = Registry!NoScript /\ j # Registry!NoJob
      BY <3>1, JobTypes
    <3>3. /\ regAt' = [regAt EXCEPT ![g] = "register"] /\ regJob' = [regJob EXCEPT ![g] = j]
          /\ luaTasks' = [luaTasks EXCEPT ![g] = L]
      BY <1>3, <2>1, <3>1 DEF Registry!LoadDefinition, Registry!Goto
    <3>4. JobOK(g, "register", j)
      BY <1>5, <3>2 DEF JobOK
    <3>5. LoadsTo(g, "register", j, L)
      BY <1>1, <1>3, <1>5, <3>2, <3>3, <3>4 DEF LoadsTo
    <3>. QED  BY <3>5
  <2>2. ASSUME NEW s \in Registry!Scripts, Registry!LoadScript(g, s)
        PROVE  \E l, j, M : LoadsTo(g, l, j, M)
    <3>1. PICK M : M = IF RegDefines[s] = {} THEN luaTasks[g] ELSE [maker |-> s, ids |-> RegDefines[s]]
      OBVIOUS
    <3>2. /\ M \in [maker : Registry!Scripts \cup {Registry!NoScript}, ids : SUBSET Registry!Ids]
          /\ M.maker = s \/ M = L
      BY <1>2, <1>3, <3>1 DEF Registry!Ids
    <3>3. luaTasks' = [luaTasks EXCEPT ![g] = M]
      BY <2>2, <3>1 DEF Registry!LoadScript
    <3>4. CASE M.ids = {}
      <4>1. /\ regAt' = [regAt EXCEPT ![g] = "idle"]
                 /\ regJob' = [regJob EXCEPT ![g] = Registry!NoJob]
        <5>1. regAt' = regAt /\ regJob' = regJob
          BY <2>2, <3>1, <3>4 DEF Registry!LoadScript
        <5>2. regJob[g] = Registry!NoJob
          BY <1>0, <1>1, JobOf DEF JobOK
        <5>. QED  BY <1>0, <1>1, <5>1, <5>2, JobOf
      <4>2. /\ "idle" \in RegPlaces /\ "idle" \notin LoadPlaces /\ Registry!NoJob \in Jobs
            /\ JobOK(g, "idle", Registry!NoJob) /\ \A d \in M.ids : Registry!Exists(g, d)
        BY <3>4, IdleOK, JobTypes DEF RegPlaces, LoadPlaces
      <4>3. LoadsTo(g, "idle", Registry!NoJob, M)
        BY <3>2, <3>3, <4>1, <4>2 DEF LoadsTo
      <4>. QED  BY <4>3
    <3>5. CASE M.ids # {}
      <4>1. PICK j : j = [Registry!NoJob EXCEPT !.op = "load", !.script = s, !.left = M.ids]
        OBVIOUS
      <4>2. j \in Jobs /\ j.op = "load" /\ j.script = s /\ j.left = M.ids /\ j # Registry!NoJob
        <5>1. M.ids \in SUBSET Registry!Ids
          BY <3>2
        <5>2. PICK K \in SUBSET Registry!Ids : K = M.ids
          BY <5>1
        <5>3. j = [Registry!NoJob EXCEPT !.op = "load", !.script = s, !.left = K]
          BY <4>1, <5>2
        <5>4. j \in Jobs /\ j.op = "load" /\ j.left = K /\ j.script = s
          BY <5>3 DEF Registry!NoJob, Jobs
        <5>5. j # Registry!NoJob
          BY <5>4, JobTypes
        <5>. QED  BY <5>2, <5>4, <5>5
      <4>3. regAt' = [regAt EXCEPT ![g] = "register"] /\ regJob' = [regJob EXCEPT ![g] = j]
        BY <2>2, <3>1, <3>5, <4>1 DEF Registry!LoadScript, Registry!Goto
      <4>4. JobOK(g, "register", j)
        BY <1>5, <4>2 DEF JobOK
      <4>5. \/ M.maker \in failed'
            \/ \A d \in M.ids : Registry!Exists(g, d) \/ (j.script = M.maker /\ d \in j.left)
        BY <1>1, <1>3, <3>2, <4>2
      <4>6. LoadsTo(g, "register", j, M)
        BY <1>5, <3>2, <3>3, <4>2, <4>3, <4>4, <4>5 DEF LoadsTo
      <4>. QED  BY <4>6
    <3>. QED  BY <3>4, <3>5
  <2>. QED  BY <2>1, <2>2
<1>. QED  BY <1>1, <1>4, <1>6, LoadsToStep

LEMMA ScriptFailsStep ==
  ASSUME RegInv, NEW g \in Loaders, NEW s \in Registry!Scripts, Registry!ScriptFails(g, s)
  PROVE  RegInv'
<1>0. g \in Registry!Routines
  BY Process
<1>1. /\ regAt[g] = "idle" /\ failed' = failed \cup {s} /\ Registry!Fault
      /\ UNCHANGED <<definitions, templates, rDefinitions, rTemplates, rIndex, regAt, regJob,
                     refused, missed, loads>>
  BY DEF Registry!ScriptFails, Registry!memory, Registry!inRedis
<1>3. \E N : /\ N = luaTasks[g] \/ N = [maker |-> s, ids |-> RegDefines[s]]
             /\ luaTasks' = [luaTasks EXCEPT ![g] = N]
  BY <1>1, TableOf DEF Registry!ScriptFails
<1>4. PICK N : /\ N = luaTasks[g] \/ N = [maker |-> s, ids |-> RegDefines[s]]
               /\ luaTasks' = [luaTasks EXCEPT ![g] = N]
  BY <1>3
<1>5. /\ N \in [maker : Registry!Scripts \cup {Registry!NoScript}, ids : SUBSET Registry!Ids]
      /\ N.maker \in failed' \/ \A d \in N.ids : Registry!Exists(g, d)
  BY <1>1, <1>4, TableOf DEF Registry!Ids
<1>6. regAt' = [regAt EXCEPT ![g] = "idle"] /\ regJob' = [regJob EXCEPT ![g] = Registry!NoJob]
  BY <1>0, <1>1, JobOf DEF JobOK
<1>7. LoadsTo(g, "idle", Registry!NoJob, N)
  BY <1>4, <1>5, <1>6, IdleOK, JobTypes DEF LoadsTo, RegPlaces, LoadPlaces
<1>8. /\ loads' \in 0 .. MaxLoads /\ regFaults' \in 0 .. MaxRegFaults
      /\ failed \subseteq failed' /\ failed' \subseteq Registry!Scripts
  BY <1>1, RegFault DEF RegInv, SharedOK
<1>. QED  BY <1>1, <1>7, <1>8, LoadsToStep

\* What remains of a load after d: the next definition, or nothing.
LEMMA RestOf ==
  ASSUME RegInv, NEW g \in Loaders, regAt[g] \in LoadPlaces, NEW d \in regJob[g].left,
         Registry!Rest(g, d)
  PROVE  \E l \in {"idle", "register"}, j \in Jobs :
           /\ regAt' = [regAt EXCEPT ![g] = l] /\ regJob' = [regJob EXCEPT ![g] = j]
                /\ JobOK(g, l, j)
           /\ l = "register" => j.script = regJob[g].script /\ j.left = regJob[g].left \ {d}
           /\ l = "idle" => regJob[g].left = {d}
<1>0. g \in Registry!Routines
  BY Process
<1>1. PICK i : i = regJob[g]
  OBVIOUS
<1>2. i \in Jobs /\ i.op = "load"
  BY <1>0, <1>1, JobOf DEF JobOK
<1>3. CASE i.left = {d}
  <2>1. regAt' = [regAt EXCEPT ![g] = "idle"] /\ regJob' = [regJob EXCEPT ![g] = Registry!NoJob]
    BY <1>1, <1>3 DEF Registry!Rest, Registry!Ends
  <2>. QED  BY <1>1, <1>3, <2>1, IdleOK, JobTypes
<1>4. CASE i.left # {d}
  <2>1. PICK j : j = [i EXCEPT !.left = i.left \ {d}]
    OBVIOUS
  <2>2. j \in Jobs /\ j.op = "load" /\ j.script = i.script /\ j.left = i.left \ {d}
    BY <1>2, <2>1 DEF Jobs
  <2>3. regAt' = [regAt EXCEPT ![g] = "register"] /\ regJob' = [regJob EXCEPT ![g] = j]
    BY <1>1, <1>4, <2>1 DEF Registry!Rest, Registry!Goto
  <2>4. JobOK(g, "register", j)
    BY <2>2, JobTypes DEF JobOK, LoadPlaces
  <2>. QED  BY <1>1, <2>2, <2>3, <2>4
<1>. QED  BY <1>3, <1>4

\* A load that goes on: d is done.
LEMMA RestScript ==
  ASSUME RegInv, NEW g \in Loaders, regAt[g] \in LoadPlaces, NEW d \in regJob[g].left,
         Registry!Exists(g, d)',
         NEW l \in {"idle", "register"}, NEW j,
         l = "register" => j.script = regJob[g].script /\ j.left = regJob[g].left \ {d},
         l = "idle" => regJob[g].left = {d},
         Grows, luaTasks' = luaTasks
  PROVE  ScriptOK(g, l, j)'
<1>1. ScriptInv(g) /\ g \in Registry!Processes /\ luaTasks[g].ids \subseteq Registry!Ids
  BY Process DEF RegInv, SharedOK
<1>2. "register" \in LoadPlaces /\ "idle" \notin LoadPlaces
  BY DEF LoadPlaces
<1>3. l \in LoadPlaces /\ j.script # Registry!NoScript => j.left \subseteq luaTasks'[g].ids
  BY <1>1, <1>2 DEF ScriptInv, ScriptOK
<1>4. ASSUME luaTasks[g].maker \notin failed', NEW e \in luaTasks[g].ids
      PROVE  Registry!Exists(g, e)'
               \/ (l \in LoadPlaces /\ j.script = luaTasks[g].maker /\ e \in j.left)
  <2>1. Registry!Exists(g, e) \/ (regJob[g].script = luaTasks[g].maker /\ e \in regJob[g].left)
    BY <1>1, <1>4 DEF ScriptInv, ScriptOK, Grows
  <2>2. CASE Registry!Exists(g, e)
    BY <1>1, <2>2 DEF Grows
  <2>3. CASE regJob[g].script = luaTasks[g].maker /\ e \in regJob[g].left
    <3>1. CASE e = d
      BY <3>1
    <3>2. CASE e # d
      BY <1>2, <2>3, <3>2
    <3>. QED  BY <3>1, <3>2
  <2>. QED  BY <2>1, <2>2, <2>3
<1>. QED  BY <1>3, <1>4 DEF ScriptOK

LEMMA RegisterStep == ASSUME RegInv, NEW g \in Registry!Routines, Registry!RegisterDefinition(g)
                      PROVE  RegInv'
<1>0. PICK i : i = regJob[g]
  OBVIOUS
<1>1. /\ regAt[g] = "register" /\ regAt[g] \in LoadPlaces /\ ~Registry!Locked(Registry!ProcessOf(g))
      /\ UNCHANGED <<rDefinitions, rTemplates, rIndex, luaTasks, failed, refused, missed, loads,
                     regFaults>>
  BY DEF Registry!RegisterDefinition, Registry!inRedis, Registry!history, LoadPlaces
<1>2. JobOK(g, "register", i) /\ i \in Jobs
  BY <1>0, <1>1, JobOf
<1>3. g \in Loaders /\ g \in Registry!Processes /\ Registry!ProcessOf(g) = g /\ i.op = "load"
  BY <1>2, Process DEF JobOK, LoadPlaces
<1>4. PICK d \in i.left :
        IF Registry!Exists(g, d) THEN Registry!Rest(g, d) /\ UNCHANGED <<definitions, templates>>
        ELSE /\ definitions' = [definitions EXCEPT ![g][d] = Registry!Made(g)]
             /\ Registry!Goto(g, "set") /\ regJob' = [regJob EXCEPT ![g].id = d]
                  /\ UNCHANGED templates
  BY <1>0, <1>3 DEF Registry!RegisterDefinition, Registry!Refused, Registry!memory
<1>5. d \in Registry!Ids /\ ScriptInv(g)
  BY <1>2, <1>3 DEF Jobs, RegInv
<1>6. CASE Registry!Exists(g, d)
  <2>1. Registry!Rest(g, d) /\ UNCHANGED <<definitions, templates>>
    BY <1>4, <1>6
  <2>2. PICK l \in {"idle", "register"}, j \in Jobs :
           /\ regAt' = [regAt EXCEPT ![g] = l] /\ regJob' = [regJob EXCEPT ![g] = j]
                /\ JobOK(g, l, j)
           /\ l = "register" => j.script = regJob[g].script /\ j.left = regJob[g].left \ {d}
           /\ l = "idle" => regJob[g].left = {d}
    BY <1>0, <1>1, <1>3, <2>1, RestOf
  <2>3. /\ \A p \in Registry!Processes : templates'[p] \subseteq templates[p] \cup {}
        /\ rTemplates' \subseteq rTemplates \cup {} /\ {} \in SUBSET Registry!Templates
        /\ missed' \subseteq missed \cup refused /\ failed \subseteq failed' /\ regAt[g] # "set"
        /\ UNCHANGED <<definitions, rDefinitions,
                       refused>> /\ \A t \in {} : Stored(RegDefinitionOf[t])
    BY <1>1, <2>1
  <2>4. RedisInv' /\ Grows
    BY <2>2, <2>3, StoreKept
  <2>5. JobOK(g, l, j)' /\ Registry!Exists(g, d)'
    BY <1>1, <1>6, <2>1, <2>2 DEF JobOK, Registry!Exists, Stored, Honest
  <2>6. ScriptOK(g, l, j)'
    BY <1>0, <1>1, <1>3, <2>2, <2>4, <2>5, RestScript
  <2>7. SharedOK' /\ l \in RegPlaces
    BY <1>1, <2>1 DEF RegInv, SharedOK, RegPlaces
  <2>8. \A p \in Registry!Processes : p # g => luaTasks'[p] = luaTasks[p]
    BY <1>1
  <2>. QED  BY <2>2, <2>4, <2>5, <2>6, <2>7, <2>8, RoutineStep DEF RegInv
<1>7. CASE ~Registry!Exists(g, d)
  <2>1. PICK x, D, j : /\ x = Registry!Made(g) /\ D = [definitions[g] EXCEPT ![d] = x]
                       /\ j = [i EXCEPT !.id = d]
    OBVIOUS
  <2>2. /\ definitions' = [definitions EXCEPT ![g] = D] /\ templates' = templates
        /\ regAt' = [regAt EXCEPT ![g] = "set"] /\ regJob' = [regJob EXCEPT ![g] = j]
    BY <1>0, <1>4, <1>7, <2>1 DEF Registry!Goto
  <2>3. j \in Jobs /\ j.op = "load" /\ j.id = d /\ j.left = i.left /\ j.script = i.script
    BY <1>2, <1>3, <1>5, <2>1 DEF Jobs
  <2>4. PICK L : L = luaTasks[g]
          /\ L \in [maker : Registry!Scripts \cup {Registry!NoScript}, ids : SUBSET Registry!Ids]
    BY <1>3 DEF RegInv, SharedOK
  <2>5. /\ x.script = i.script
             /\ x.maker = (IF i.script = Registry!NoScript THEN Registry!NoScript ELSE L.maker)
        /\ x \in Registry!Definition /\ x # Registry!None
    <3>1. x = [script |-> i.script, maker |-> IF i.script = Registry!NoScript THEN Registry!NoScript ELSE L.maker]
      BY <1>0, <2>1, <2>4 DEF Registry!Made
    <3>2. i.script \in Registry!Scripts \cup {Registry!NoScript}
            /\ L.maker \in Registry!Scripts \cup {Registry!NoScript}
      BY <1>2, <2>4 DEF Jobs
    <3>3. x \in Registry!Definition
      BY <3>1, <3>2 DEF Registry!Definition
    <3>. QED  BY <3>1, <3>3, NotNone
  <2>6. Honest(x)
    <3>1. CASE i.script = Registry!NoScript
      BY <2>5, <3>1 DEF Honest
    <3>2. CASE i.script # Registry!NoScript
      <4>1. d \in L.ids
        BY <1>0, <1>1, <1>5, <2>4, <3>2 DEF ScriptInv, ScriptOK
      <4>2. L.maker \in failed \/ i.script = L.maker
        BY <1>0, <1>5, <1>7, <2>4, <4>1 DEF ScriptInv, ScriptOK
      <4>. QED  BY <2>5, <3>2, <4>2 DEF Honest
    <3>. QED  BY <3>1, <3>2
  <2>7. /\ D \in [Registry!Ids -> Registry!Definition \cup {Registry!None}] /\ D[d] = x
        /\ \A e \in Registry!Ids : e # d => D[e] = definitions[g][e]
    BY <1>3, <1>5, <2>1, <2>5 DEF RegInv, SharedOK
  <2>8. /\ definitions' \in [Registry!Processes -> [Registry!Ids -> Registry!Definition \cup {Registry!None}]] /\ definitions'[g] = D
        /\ \A p \in Registry!Processes : p # g => definitions'[p] = definitions[p]
    BY <1>3, <2>2, <2>7 DEF RegInv, SharedOK
  <2>9. SharedOK'
    BY <1>1, <2>2, <2>8 DEF RegInv, SharedOK
  <2>10. /\ \A e : Stored(e)' = Stored(e)
         /\ \A y : Honest(y)' = Honest(y)
         /\ \A p \in Registry!Processes, e \in Registry!Ids : Registry!Exists(p, e)
              => Registry!Exists(p, e)'
         /\ \A p \in Registry!Processes, e \in Registry!Ids : Registry!Exists(p, e)'
              => Registry!Exists(p, e) \/ (p = g /\ e = d)
         /\ Registry!Exists(g, d)'
    BY <1>1, <1>3, <1>5, <2>5, <2>7, <2>8 DEF Stored, Honest, Registry!Exists
  <2>11. Grows
    BY <1>1, <2>10 DEF Grows
  <2>12. JobOK(g, "set", j)' /\ "set" \in RegPlaces /\ "set" \in LoadPlaces
    BY <1>3, <1>4, <2>3, <2>10, JobTypes DEF JobOK, RegPlaces, LoadPlaces
  <2>13. ScriptOK(g, "set", j)'
    <3>1. L.ids \subseteq Registry!Ids /\ luaTasks'[g] = L /\ failed' = failed
      BY <1>1, <2>4
    <3>2. /\ \/ L.maker \in failed
             \/ \A e \in L.ids : Registry!Exists(g, e) \/ (j.script = L.maker /\ e \in j.left)
          /\ j.script # Registry!NoScript => j.left \subseteq L.ids
      BY <1>0, <1>1, <1>5, <2>3, <2>4 DEF ScriptInv, ScriptOK
    <3>. QED  BY <1>3, <2>10, <2>12, <3>1, <3>2 DEF ScriptOK
  <2>14. RedisInv'
    <3>1. RedisInv /\ regAt[g] # "set" /\ regAt'[g] = "set" /\ regJob'[g] = j
      BY <1>1, <2>2 DEF RegInv, RoutinesOK
    <3>2. ASSUME NEW p \in Registry!Processes, NEW e \in Registry!Ids, Registry!Exists(p, e)'
          PROVE  Honest(definitions[p][e])'
                   /\ (Stored(e)' \/ (regAt'[p] = "set" /\ regJob'[p].id = e))
      <4>0. PICK y : y = definitions'[p][e]
        OBVIOUS
      <4>1. CASE p = g /\ e = d
        <5>1. y = x
          BY <2>7, <2>8, <4>0, <4>1
        <5>2. Honest(y)'
          BY <2>6, <2>10, <5>1
        <5>. QED  BY <2>3, <3>1, <4>0, <4>1, <5>2 DEF Honest
      <4>2. CASE ~(p = g /\ e = d)
        <5>1. y = definitions[p][e] /\ Registry!Exists(p, e)
          BY <2>7, <2>8, <2>10, <3>2, <4>0, <4>2
        <5>2. Honest(y) /\ (Stored(e) \/ (regAt[p] = "set" /\ regJob[p].id = e))
          BY <3>1, <5>1 DEF RedisInv
        <5>3. regAt[p] = "set" => regAt'[p] = regAt[p] /\ regJob'[p] = regJob[p]
          BY <2>2, <3>1, Process DEF RegInv, RoutinesOK
        <5>. QED  BY <1>1, <2>10, <4>0, <5>2, <5>3 DEF Honest
      <4>. QED  BY <4>1, <4>2
    <3>3. /\ \A e \in Registry!Ids : rDefinitions'[e] # Registry!None => Honest(rDefinitions[e])'
          /\ missed' \subseteq refused'
      BY <1>1, <3>1 DEF RedisInv, Honest
    <3>4. /\ \A p \in Registry!Processes : \A t \in templates'[p] : Stored(RegDefinitionOf[t])'
          /\ \A t \in rTemplates' : Stored(RegDefinitionOf[t])'
      BY <1>1, <2>2, <2>10, <3>1 DEF RedisInv
    <3>. QED  BY <3>2, <3>3, <3>4 DEF RedisInv
  <2>15. \A p \in Registry!Processes : p # g => luaTasks'[p] = luaTasks[p]
    BY <1>1
  <2>. QED  BY <2>2, <2>3, <2>9, <2>11, <2>12, <2>13, <2>14, <2>15, RoutineStep DEF RegInv
<1>. QED  BY <1>6, <1>7

LEMMA SetStep == ASSUME RegInv, NEW g \in Registry!Routines, Registry!SetDefinition(g) PROVE RegInv'
<1>0. PICK i, d : i = regJob[g] /\ d = i.id
  OBVIOUS
<1>1. /\ regAt[g] = "set" /\ regAt' = [regAt EXCEPT ![g] = "index"] /\ regJob' = regJob
      /\ UNCHANGED <<definitions, templates, rTemplates, rIndex, luaTasks, failed, missed, loads>>
  BY DEF Registry!SetDefinition, Registry!Goto, Registry!memory
<1>2. JobOK(g, "set", i) /\ i \in Jobs /\ regJob' = [regJob EXCEPT ![g] = i]
  BY <1>0, <1>1, JobOf
<1>3. /\ g \in Loaders /\ g \in Registry!Processes /\ Registry!ProcessOf(g) = g /\ i.op = "load"
      /\ d \in i.left /\ d \in Registry!Ids /\ Registry!Exists(g, d)
  BY <1>0, <1>2, Process DEF JobOK, LoadPlaces, Jobs
<1>4. PICK x : x = definitions[g][d] /\ x \in Registry!Definition /\ x # Registry!None /\ Honest(x)
  BY <1>3 DEF RegInv, SharedOK, RedisInv, Registry!Exists
<1>5. /\ \/ rDefinitions' = [rDefinitions EXCEPT ![d] = x] /\ refused' = refused
         \/ rDefinitions' = rDefinitions /\ refused' = refused \cup {d}
      /\ Registry!Fault \/ regFaults' = regFaults
  BY <1>0, <1>3, <1>4 DEF Registry!SetDefinition
<1>6. /\ rDefinitions' \in [Registry!Ids -> Registry!Definition \cup {Registry!None}]
           /\ refused' \subseteq Registry!Ids
      /\ rDefinitions'[d] \in {rDefinitions[d], x} /\ refused \subseteq refused'
      /\ \A e \in Registry!Ids : e # d => rDefinitions'[e] = rDefinitions[e]
      /\ rDefinitions'[d] = x \/ (rDefinitions'[d] = rDefinitions[d] /\ d \in refused')
  BY <1>3, <1>4, <1>5 DEF RegInv, SharedOK
<1>7. SharedOK'
  BY <1>1, <1>5, <1>6, RegFault DEF RegInv, SharedOK
<1>8. /\ Stored(d)' /\ \A e \in Registry!Ids : Stored(e) => Stored(e)'
      /\ \A p, e : Registry!Exists(p, e)' = Registry!Exists(p, e)
      /\ \A y : Honest(y)' = Honest(y)
  BY <1>1, <1>4, <1>6 DEF Stored, Registry!Exists, Honest
<1>9. Grows
  BY <1>1, <1>8 DEF Grows
<1>10. JobOK(g, "index", i)' /\ "index" \in RegPlaces /\ {"set", "index"} \subseteq LoadPlaces
  BY <1>0, <1>2, <1>3, <1>8 DEF JobOK, RegPlaces, LoadPlaces
<1>11. ScriptOK(g, "index", i)'
  <2>1. ScriptInv(g) /\ luaTasks' = luaTasks /\ failed' = failed
    BY <1>1, <1>3 DEF RegInv
  <2>. QED  BY <1>0, <1>1, <1>8, <1>10, <2>1 DEF ScriptInv, ScriptOK
<1>12. RedisInv'
  <2>1. RedisInv
    BY DEF RegInv
  <2>2. ASSUME NEW p \in Registry!Processes, NEW e \in Registry!Ids, Registry!Exists(p, e)'
        PROVE  Honest(definitions[p][e])'
                 /\ (Stored(e)' \/ (regAt'[p] = "set" /\ regJob'[p].id = e))
    <3>0. PICK y : y = definitions[p][e] /\ y = definitions'[p][e]
      BY <1>1
    <3>1. Honest(y) /\ (Stored(e) \/ (regAt[p] = "set" /\ regJob[p].id = e))
      BY <1>8, <2>1, <2>2, <3>0 DEF RedisInv
    <3>2. Honest(y)'
      BY <1>8, <3>1
    <3>3. CASE Stored(e)
      BY <1>8, <3>0, <3>2, <3>3 DEF Honest
    <3>4. CASE regAt[p] = "set" /\ regJob[p].id = e /\ p = g
      BY <1>0, <1>8, <3>0, <3>2, <3>4 DEF Honest
    <3>5. CASE regAt[p] = "set" /\ regJob[p].id = e /\ p # g
      <4>1. regAt'[p] = regAt[p] /\ regJob'[p] = regJob[p]
        BY <1>1, <3>5, Process DEF RegInv, RoutinesOK
      <4>. QED  BY <3>0, <3>2, <3>5, <4>1 DEF Honest
    <3>. QED  BY <3>1, <3>3, <3>4, <3>5
  <2>3. ASSUME NEW e \in Registry!Ids, rDefinitions'[e] # Registry!None
        PROVE  Honest(rDefinitions[e])'
    <3>0. PICK y : y = rDefinitions'[e]
      OBVIOUS
    <3>1. y = x \/ (y = rDefinitions[e] /\ y # Registry!None)
      BY <1>6, <2>3, <3>0
    <3>2. Honest(y)
      BY <1>4, <2>1, <3>1 DEF RedisInv
    <3>. QED  BY <1>8, <3>0, <3>2 DEF Honest
  <2>4. missed' \subseteq refused'
    BY <1>1, <1>6, <2>1 DEF RedisInv
  <2>5. /\ \A p \in Registry!Processes : \A t \in templates'[p] : Stored(RegDefinitionOf[t])'
        /\ \A t \in rTemplates' : Stored(RegDefinitionOf[t])'
    <3>1. \A t \in Registry!Templates : RegDefinitionOf[t] \in Registry!Ids
      BY DEF Registry!Ids
    <3>2. \A p \in Registry!Processes : templates[p] \subseteq Registry!Templates
      BY DEF RegInv, SharedOK
    <3>3. rTemplates \subseteq Registry!Templates
      BY DEF RegInv, SharedOK
    <3>. QED  BY <1>1, <1>8, <2>1, <3>1, <3>2, <3>3 DEF RedisInv
  <2>. QED  BY <2>2, <2>3, <2>4, <2>5 DEF RedisInv
<1>13. \A p \in Registry!Processes : p # g => luaTasks'[p] = luaTasks[p]
  BY <1>1
<1>. QED  BY <1>1, <1>2, <1>7, <1>9, <1>10, <1>11, <1>12, <1>13, RoutineStep DEF RegInv

LEMMA IndexStep == ASSUME RegInv, NEW g \in Registry!Routines, Registry!AddToIndex(g) PROVE RegInv'
<1>0. PICK d : d = regJob[g].id
  OBVIOUS
<1>1. /\ regAt[g] = "index" /\ regAt[g] \in LoadPlaces /\ Registry!Rest(g, d)
           /\ (Registry!Fault \/ regFaults' = regFaults)
      /\ rIndex' \subseteq rIndex \cup {d}
      /\ UNCHANGED <<definitions, templates, rDefinitions, rTemplates, luaTasks, failed, refused,
                     missed,
                     loads>>
  BY <1>0 DEF Registry!AddToIndex, Registry!memory, LoadPlaces
<1>2. g \in Loaders /\ d \in regJob[g].left /\ d \in Registry!Ids /\ Registry!Exists(g, d)
  <2>1. JobOK(g, "index", regJob[g]) /\ regJob[g] \in Jobs
    BY <1>1, JobOf
  <2>. QED  BY <1>0, <2>1 DEF JobOK, LoadPlaces, Jobs
<1>3. PICK l \in {"idle", "register"}, j \in Jobs :
         /\ regAt' = [regAt EXCEPT ![g] = l] /\ regJob' = [regJob EXCEPT ![g] = j] /\ JobOK(g, l, j)
         /\ l = "register" => j.script = regJob[g].script /\ j.left = regJob[g].left \ {d}
         /\ l = "idle" => regJob[g].left = {d}
  BY <1>1, <1>2, RestOf
<1>4. /\ \A p \in Registry!Processes : templates'[p] \subseteq templates[p] \cup {}
      /\ rTemplates' \subseteq rTemplates \cup {} /\ {} \in SUBSET Registry!Templates
      /\ missed' \subseteq missed \cup refused /\ failed \subseteq failed' /\ regAt[g] # "set"
      /\ UNCHANGED <<definitions, rDefinitions,
                     refused>> /\ \A t \in {} : Stored(RegDefinitionOf[t])
  BY <1>1
<1>5. RedisInv' /\ Grows
  BY <1>3, <1>4, StoreKept
<1>6. JobOK(g, l, j)' /\ Registry!Exists(g, d)'
  BY <1>1, <1>2, <1>3 DEF JobOK, Registry!Exists, Stored, Honest
<1>7. ScriptOK(g, l, j)'
  BY <1>1, <1>2, <1>3, <1>5, <1>6, RestScript
<1>8. SharedOK' /\ l \in RegPlaces
  BY <1>1, <1>2, RegFault DEF RegInv, SharedOK, RegPlaces
<1>9. \A p \in Registry!Processes : p # g => luaTasks'[p] = luaTasks[p]
  BY <1>1
<1>. QED  BY <1>3, <1>5, <1>6, <1>7, <1>8, <1>9, RoutineStep DEF RegInv

\* A process ends: its memory, its table tasks and its routines are gone.
LEMMA RestartStep == ASSUME RegInv, NEW q \in Loaders, Registry!Restart(q) PROVE RegInv'
<1>1. /\ Registry!Fault
           /\ definitions' = [definitions EXCEPT ![q] = [d \in Registry!Ids |-> Registry!None]]
      /\ templates' = [templates EXCEPT ![q] = {}]
           /\ luaTasks' = [luaTasks EXCEPT ![q] = Registry!NoTasks]
      /\ regAt' = [g \in Registry!Routines |-> IF Registry!ProcessOf(g) = q THEN "idle" ELSE regAt[g]]
      /\ regJob' = [g \in Registry!Routines |-> IF Registry!ProcessOf(g) = q THEN Registry!NoJob ELSE regJob[g]]
      /\ UNCHANGED <<rDefinitions, rTemplates, rIndex, failed, refused, missed, loads>>
  BY DEF Registry!Restart, Registry!inRedis
<1>2. q \in Registry!Processes
  BY Process
<1>3. /\ definitions'[q] = [d \in Registry!Ids |-> Registry!None] /\ templates'[q] = {}
           /\ luaTasks'[q] = Registry!NoTasks
      /\ \A p \in Registry!Processes : p # q =>
           definitions'[p] = definitions[p] /\ templates'[p] = templates[p]
             /\ luaTasks'[p] = luaTasks[p]
  BY <1>1, <1>2 DEF RegInv, SharedOK
<1>4. SharedOK'
  <2>1. /\ definitions' \in [Registry!Processes -> [Registry!Ids -> Registry!Definition \cup {Registry!None}]]
        /\ templates' \in [Registry!Processes -> SUBSET Registry!Templates]
    BY <1>1, <1>2 DEF RegInv, SharedOK
  <2>2. luaTasks' \in [Registry!Processes -> [maker : Registry!Scripts \cup {Registry!NoScript}, ids : SUBSET Registry!Ids]]
    BY <1>1, <1>2 DEF RegInv, SharedOK, Registry!NoTasks
  <2>. QED  BY <1>1, <2>1, <2>2, RegFault DEF RegInv, SharedOK
<1>5. RoutinesOK'
  BY <1>1, JobTypes DEF RegInv, RoutinesOK, RegPlaces
<1>6. /\ \A d : Stored(d)' = Stored(d) /\ (~Registry!Exists(q, d)' \/ d \notin Registry!Ids)
      /\ \A p \in Registry!Processes : p # q
           => \A d : Registry!Exists(p, d)' = Registry!Exists(p, d)
      /\ \A x : Honest(x)' = Honest(x)
  BY <1>1, <1>2, <1>3 DEF Stored, Registry!Exists, Honest
<1>7. ASSUME NEW h \in Registry!Routines PROVE JobInv(h)'
  <2>1. CASE Registry!ProcessOf(h) = q
    <3>1. regAt'[h] = "idle" /\ regJob'[h] = Registry!NoJob
      BY <1>1, <2>1
    <3>. QED  BY <3>1, JobTypes DEF JobInv, JobOK, LoadPlaces
  <2>2. CASE Registry!ProcessOf(h) # q
    <3>1. PICK k, i : k = regAt[h] /\ i = regJob[h]
      OBVIOUS
    <3>2. JobOK(h, k, i) /\ regAt'[h] = k /\ regJob'[h] = i
      BY <1>1, <2>2, <3>1 DEF RegInv, JobInv
    <3>3. k \in {"set", "index"} => Registry!Exists(h, i.id)'
      <4>1. k \in {"set", "index"} => h \in Registry!Processes /\ h # q /\ Registry!Exists(h, i.id)
        BY <2>2, <3>2, Process DEF JobOK, LoadPlaces
      <4>. QED  BY <1>6, <4>1
    <3>4. \A d : Stored(d)' = Stored(d)
      BY <1>1 DEF Stored
    <3>5. JobOK(h, k, i)'
      BY <1>6, <3>2, <3>3, <3>4 DEF JobOK
    <3>. QED  BY <3>2, <3>5 DEF JobInv, JobOK, Stored, Registry!Exists, Honest
  <2>. QED  BY <2>1, <2>2
<1>8. ASSUME NEW p \in Registry!Processes PROVE ScriptInv(p)'
  <2>1. CASE p = q
    <3>1. luaTasks'[p].ids = {} /\ regAt'[p] = "idle"
      BY <1>1, <1>3, <2>1, Process DEF Registry!NoTasks
    <3>. QED  BY <3>1 DEF ScriptInv, ScriptOK, LoadPlaces
  <2>2. CASE p # q
    <3>1. /\ regAt'[p] = regAt[p] /\ regJob'[p] = regJob[p] /\ luaTasks'[p] = luaTasks[p]
          /\ \A d : Registry!Exists(p, d)' = Registry!Exists(p, d)
      BY <1>1, <1>3, <1>6, <2>2, Process
    <3>2. ScriptInv(p)
      BY DEF RegInv
    <3>. QED  BY <1>1, <3>1, <3>2 DEF ScriptInv, ScriptOK
  <2>. QED  BY <2>1, <2>2
<1>9. RedisInv'
  <2>1. RedisInv /\ \A d : Stored(d)' = Stored(d)
    BY <1>1 DEF RegInv, Stored
  <2>2. ASSUME NEW p \in Registry!Processes, NEW e \in Registry!Ids, Registry!Exists(p, e)'
        PROVE  Honest(definitions[p][e])'
                 /\ (Stored(e)' \/ (regAt'[p] = "set" /\ regJob'[p].id = e))
    <3>1. p # q
      BY <1>3, <2>2 DEF Registry!Exists
    <3>2. PICK y : y = definitions[p][e] /\ y = definitions'[p][e]
      BY <1>3, <3>1
    <3>3. Honest(y) /\ (Stored(e) \/ (regAt[p] = "set" /\ regJob[p].id = e))
      BY <1>6, <2>1, <2>2, <3>1, <3>2 DEF RedisInv
    <3>4. regAt'[p] = regAt[p] /\ regJob'[p] = regJob[p]
      BY <1>1, <3>1, Process
    <3>. QED  BY <1>1, <2>1, <3>2, <3>3, <3>4 DEF Honest
  <2>3. /\ \A d \in Registry!Ids : rDefinitions'[d] # Registry!None => Honest(rDefinitions[d])'
        /\ missed' \subseteq refused'
    BY <1>1, <2>1 DEF RedisInv, Honest
  <2>4. /\ \A p \in Registry!Processes : \A t \in templates'[p] : Stored(RegDefinitionOf[t])'
        /\ \A t \in rTemplates' : Stored(RegDefinitionOf[t])'
    <3>1. \A p \in Registry!Processes : templates'[p] \subseteq templates[p]
      BY <1>3
    <3>. QED  BY <1>1, <2>1, <3>1 DEF RedisInv
  <2>. QED  BY <2>2, <2>3, <2>4 DEF RedisInv
<1>. QED  BY <1>4, <1>5, <1>7, <1>8, <1>9 DEF RegInv

LEMMA RegistryStep == ASSUME RegInv, [Registry!Next]_registryPart PROVE RegInv'
<1>1. CASE UNCHANGED registryPart
  <2>1. UNCHANGED <<definitions, templates, rDefinitions, rTemplates, rIndex, luaTasks, regAt,
                    regJob,
                    failed, refused, missed, loads, regFaults>>
    BY <1>1 DEF registryPart
  <2>2. SharedOK' /\ RoutinesOK'
    BY <2>1 DEF RegInv, SharedOK, RoutinesOK
  <2>3. RedisInv'
    BY <2>1 DEF RegInv, RedisInv, Stored, Registry!Exists, Honest
  <2>4. \A g \in Registry!Routines : JobInv(g)'
    BY <2>1 DEF RegInv, JobInv, JobOK, Stored, Registry!Exists, Honest
  <2>5. \A p \in Registry!Processes : ScriptInv(p)'
    BY <2>1 DEF RegInv, ScriptInv, ScriptOK, Registry!Exists
  <2>. QED  BY <2>2, <2>3, <2>4, <2>5 DEF RegInv
<1>2. ASSUME NEW g \in Loaders,
             \/ \E d \in Registry!Ids : Registry!LoadDefinition(g, d)
             \/ \E t \in Registry!Templates : Registry!LoadTemplate(g, t)
             \/ \E s \in Registry!Scripts : Registry!LoadScript(g, s) \/ Registry!ScriptFails(g, s)
             \/ Registry!Restart(g)
      PROVE  RegInv'
  BY <1>2, LoadStep, CreateSteps, ScriptFailsStep, RestartStep, Process
<1>3. ASSUME NEW g \in Registry!Routines,
             \/ Registry!RegisterDefinition(g) \/ Registry!SetDefinition(g)
                  \/ Registry!AddToIndex(g)
             \/ Registry!LookUp(g) \/ Registry!GetDefinition(g) \/ Registry!CacheDefinition(g)
             \/ Registry!RegisterTemplate(g) \/ Registry!SetTemplate(g) \/ Registry!GetTemplate(g)
                  \/ Registry!CacheTemplate(g)
             \/ (\E t \in Registry!Templates : Registry!CreateTask(g, t))
                  \/ (\E d \in Registry!Ids : Registry!LoadIndexed(g, d))
      PROVE  RegInv'
  BY <1>3, RegisterStep, SetStep, IndexStep, LookUpStep, GetStep, CacheStep, TemplateSteps,
     CreateSteps
<1>. QED  BY <1>1, <1>2, <1>3 DEF Registry!Next

LEMMA RegistryTyped == RegInv => Registry!RegistryTypeOK
<1> SUFFICES ASSUME RegInv PROVE Registry!RegistryTypeOK
  OBVIOUS
<1>1. ASSUME NEW g \in Registry!Routines
      PROVE  regAt[g] \in RegPlaces /\ (regAt[g] = "idle" <=> regJob[g] = Registry!NoJob)
  BY JobOf DEF JobOK
<1>. QED  BY <1>1 DEF Registry!RegistryTypeOK, RegInv, SharedOK, RegPlaces

LEMMA RegistryFinds == RegInv => Registry!RegistryWorks
BY DEF RegInv, RedisInv, Registry!RegistryWorks, Registry!Exists, Honest

-----------------------------------------------------------------------------
(* Executions on a node.                                                   *)

ExecPlaces == {"idle", "select", "fetch", "script", "script saves", "extract",
               "pipeline", "storage", "save", "links"}
\* The records of t that no failed execution left.
Good(t) == records[t] - spoiled[t]
Expected(t) == IF t \in unsaved THEN 0 ELSE 1
ExecFieldsOK ==
  /\ taskKind \in [ExecTasks -> ExecKinds] /\ extractor \in {"none", "json", "css"}
  /\ exAt \in [ExecWorkers -> ExecPlaces]
       /\ exTask \in [ExecWorkers -> ExecTasks \cup {Exec!NoTask}]
  /\ exUsed \in [ExecWorkers -> {"none", "json", "css"}] /\ luaQueue \in [ExecWorkers -> BOOLEAN]
  /\ exTries \in [ExecTasks -> 0 .. ExecRetries + 1]
  /\ exOutcome \in [ExecTasks -> {"none", "success", "failed"}]
  /\ records \in [ExecTasks -> Nat] /\ spoiled \in [ExecTasks -> Nat]
  /\ \A t \in ExecTasks : spoiled[t] <= records[t]
  /\ unsaved \subseteq ExecTasks /\ luaLost \subseteq ExecTasks
  /\ subTasks \in [ExecTasks -> {0, 1}] /\ execFaults \in 0 .. MaxExecFaults
WorkerInv(w) ==
  /\ exAt[w] = "idle" <=> exTask[w] = Exec!NoTask
  /\ luaQueue[w] => exAt[w] = "script saves"
  /\ \A v \in ExecWorkers : exTask[v] = exTask[w] /\ exTask[v] \in ExecTasks => v = w
\* The storage has the record of an execution under way only when that can no longer fail.
TaskHeldInv(w) ==
  exTask[w] \in ExecTasks =>
    /\ exOutcome[exTask[w]] = "none" /\ subTasks[exTask[w]] = 0
    /\ IF exAt[w] = "links" THEN Good(exTask[w]) = Expected(exTask[w])
       ELSE Good(exTask[w]) = 0 /\ exTask[w] \notin unsaved
RestInv(t) ==
  ~Exec!Running(t) => IF exOutcome[t] = "success" THEN Good(t) = Expected(t)
                 ELSE Good(t) = 0 /\ t \notin unsaved /\ subTasks[t] = 0
TaskRecordInv == /\ \A w \in ExecWorkers : WorkerInv(w) /\ TaskHeldInv(w)
             /\ \A t \in ExecTasks : RestInv(t)
ExecInv == ExecFieldsOK /\ TaskRecordInv

LEMMA ExecInitially == Exec!ExecInit => ExecInv
<1> SUFFICES ASSUME Exec!ExecInit PROVE ExecInv
  OBVIOUS
<1>1. ExecFieldsOK
  <2>1. /\ exAt \in [ExecWorkers -> ExecPlaces]
             /\ exTask \in [ExecWorkers -> ExecTasks \cup {Exec!NoTask}]
        /\ exUsed \in [ExecWorkers -> {"none", "json", "css"}]
             /\ luaQueue \in [ExecWorkers -> BOOLEAN]
    BY DEF Exec!ExecInit, ExecPlaces
  <2>2. /\ exTries \in [ExecTasks -> 0 .. ExecRetries + 1] /\ records \in [ExecTasks -> Nat]
        /\ spoiled \in [ExecTasks -> Nat] /\ subTasks \in [ExecTasks -> {0, 1}]
        /\ execFaults \in 0 .. MaxExecFaults /\ \A t \in ExecTasks : spoiled[t] <= records[t]
    BY ExecBounds DEF Exec!ExecInit
  <2>3. exOutcome \in [ExecTasks -> {"none", "success", "failed"}]
    BY DEF Exec!ExecInit
  <2>. QED  BY <2>1, <2>2, <2>3 DEF Exec!ExecInit, ExecFieldsOK
<1>2. TaskRecordInv
  BY ExecBounds DEF Exec!ExecInit, TaskRecordInv, WorkerInv, TaskHeldInv, RestInv, Good
<1>. QED  BY <1>1, <1>2 DEF ExecInv

LEMMA ExecFaultTyped == ASSUME ExecFieldsOK, Exec!Fault \/ execFaults' = execFaults
                        PROVE  execFaults' \in 0 .. MaxExecFaults
BY ExecBounds DEF ExecFieldsOK, Exec!Fault

LEMMA ExecNumbers ==
  ASSUME ExecFieldsOK, NEW t \in ExecTasks
  PROVE  /\ records[t] \in Nat /\ spoiled[t] \in Nat /\ spoiled[t] <= records[t]
         /\ subTasks[t] \in {0, 1} /\ exTries[t] \in Nat /\ exTries[t] <= ExecRetries + 1
BY ExecBounds DEF ExecFieldsOK

\* A worker takes a task.
LEMMA TakeStep == ASSUME ExecInv, NEW w \in ExecWorkers, NEW t \in ExecTasks, Exec!TakeTask(w, t)
                  PROVE  ExecInv'
<1>1. /\ ~Exec!Running(t) /\ exOutcome[t] = "none" /\ exTries[t] <= ExecRetries /\ exAt[w] = "idle"
      /\ exAt' = [exAt EXCEPT ![w] = "select"] /\ exTask' = [exTask EXCEPT ![w] = t]
      /\ exTries' = [exTries EXCEPT ![t] = @ + 1]
      /\ UNCHANGED <<taskKind, extractor, exUsed, luaQueue, exOutcome, records, spoiled, unsaved,
                     subTasks, luaLost, execFaults>>
  BY DEF Exec!TakeTask, Exec!Moves, Exec!inside, Exec!outside
<1>2. ExecFieldsOK'
  <2>1. /\ exAt' \in [ExecWorkers -> ExecPlaces]
             /\ exTask' \in [ExecWorkers -> ExecTasks \cup {Exec!NoTask}]
    BY <1>1 DEF ExecInv, ExecFieldsOK, ExecPlaces
  <2>2. exTries' \in [ExecTasks -> 0 .. ExecRetries + 1]
    BY <1>1, ExecBounds, ExecNumbers DEF ExecInv, ExecFieldsOK
  <2>. QED  BY <1>1, <2>1, <2>2 DEF ExecInv, ExecFieldsOK
<1>3. /\ exTask[w] = Exec!NoTask /\ Exec!NoTask \notin ExecTasks
           /\ \A v \in ExecWorkers : exTask[v] # t
      /\ exTask'[w] = t /\ exAt'[w] = "select"
      /\ \A v \in ExecWorkers : v # w => exTask'[v] = exTask[v] /\ exAt'[v] = exAt[v]
  BY <1>1, ExecBounds DEF ExecInv, ExecFieldsOK, TaskRecordInv, WorkerInv, Exec!Running
<1>4. Good(t) = 0 /\ t \notin unsaved /\ subTasks[t] = 0
  BY <1>1 DEF ExecInv, TaskRecordInv, RestInv
<1>5. \A u \in ExecTasks : ~Exec!Running(u)' => u # t /\ ~Exec!Running(u)
  BY <1>3 DEF Exec!Running
<1>6. \A u : Good(u)' = Good(u) /\ Expected(u)' = Expected(u)
  BY <1>1 DEF Good, Expected
<1>7. ASSUME NEW v \in ExecWorkers PROVE WorkerInv(v)'
  <2>1. WorkerInv(v) /\ WorkerInv(w)
    BY DEF ExecInv, TaskRecordInv
  <2>2. luaQueue'[v] => exAt'[v] = "script saves"
    BY <1>1, <1>3, <2>1 DEF WorkerInv
  <2>3. /\ exAt'[v] = "idle" <=> exTask'[v] = Exec!NoTask
        /\ \A u \in ExecWorkers : exTask'[u] = exTask'[v] /\ exTask'[u] \in ExecTasks => u = v
    BY <1>3, <2>1 DEF WorkerInv
  <2>. QED  BY <2>2, <2>3 DEF WorkerInv
<1>8. ASSUME NEW v \in ExecWorkers PROVE TaskHeldInv(v)'
  <2>1. CASE v = w
    BY <1>1, <1>3, <1>4, <1>6, <2>1 DEF TaskHeldInv
  <2>2. CASE v # w
    <3>1. TaskHeldInv(v)
      BY DEF ExecInv, TaskRecordInv
    <3>. QED  BY <1>1, <1>3, <1>6, <2>2, <3>1 DEF TaskHeldInv
  <2>. QED  BY <2>1, <2>2
<1>9. ASSUME NEW u \in ExecTasks PROVE RestInv(u)'
  <2>1. RestInv(u)
    BY DEF ExecInv, TaskRecordInv
  <2>. QED  BY <1>1, <1>5, <1>6, <2>1 DEF RestInv
<1>. QED  BY <1>2, <1>7, <1>8, <1>9 DEF ExecInv, TaskRecordInv

LEMMA HasTask ==
  ASSUME ExecInv, NEW w \in ExecWorkers, exAt[w] # "idle"
  PROVE  /\ exTask[w] \in ExecTasks /\ Exec!NoTask \notin ExecTasks
         /\ \A v \in ExecWorkers : v # w => exTask[v] # exTask[w]
         /\ TaskHeldInv(w)
<1>1. WorkerInv(w) /\ TaskHeldInv(w) /\ exTask[w] \in ExecTasks \cup {Exec!NoTask}
  BY DEF ExecInv, TaskRecordInv, ExecFieldsOK
<1>. QED  BY <1>1, ExecBounds DEF WorkerInv

\* A worker goes on with its task; on the way to its links the record is written or given up.
LEMMA OnwardsStep ==
  ASSUME ExecInv, NEW w \in ExecWorkers, exAt[w] \notin {"idle", "links"},
         NEW to \in ExecPlaces \ {"idle"}, exAt' = [exAt EXCEPT ![w] = to],
         ExecFieldsOK', UNCHANGED <<exTask, exOutcome, subTasks, spoiled>>,
         \A v \in ExecWorkers : luaQueue'[v] => exAt'[v] = "script saves",
         NEW t, t = exTask[w],
         IF to = "links" THEN Good(t)' = Expected(t)' ELSE UNCHANGED <<records, unsaved>>,
         \A u \in ExecTasks : u # t => records'[u] = records[u]
           /\ (u \in unsaved' <=> u \in unsaved)
  PROVE  ExecInv'
<1>1. /\ exAt'[w] = to /\ to # "idle" /\ \A v \in ExecWorkers : v # w => exAt'[v] = exAt[v]
  BY DEF ExecInv, ExecFieldsOK
<1>0. /\ t \in ExecTasks /\ Exec!NoTask \notin ExecTasks /\ TaskHeldInv(w)
      /\ \A v \in ExecWorkers : v # w => exTask[v] # t
  BY HasTask
<1>2. \A u \in ExecTasks : u # t => Good(u)' = Good(u) /\ Expected(u)' = Expected(u)
  BY DEF Good, Expected
<1>3. ASSUME NEW v \in ExecWorkers PROVE WorkerInv(v)'
  <2>1. WorkerInv(v) /\ WorkerInv(w)
    BY DEF ExecInv, TaskRecordInv
  <2>2. exAt'[v] = "idle" <=> exTask'[v] = Exec!NoTask
    BY <1>0, <1>1, <2>1 DEF WorkerInv
  <2>3. \A u \in ExecWorkers : exTask'[u] = exTask'[v] /\ exTask'[u] \in ExecTasks => u = v
    BY <2>1 DEF WorkerInv
  <2>. QED  BY <2>2, <2>3 DEF WorkerInv
<1>4. ASSUME NEW v \in ExecWorkers PROVE TaskHeldInv(v)'
  <2>1. TaskHeldInv(v)
    BY DEF ExecInv, TaskRecordInv
  <2>2. CASE v = w
    <3>0. exTask'[v] = t /\ exOutcome'[t] = "none" /\ subTasks'[t] = 0 /\ exAt'[v] = to
      BY <1>0, <1>1, <2>2 DEF TaskHeldInv
    <3>1. CASE to = "links"
      BY <3>0, <3>1 DEF TaskHeldInv, Good, Expected
    <3>2. CASE to # "links"
      <4>1. Good(t) = 0 /\ t \notin unsaved
        BY <1>0 DEF TaskHeldInv
      <4>2. Good(t)' = 0 /\ t \notin unsaved'
        BY <3>2, <4>1 DEF Good
      <4>. QED  BY <3>0, <3>2, <4>2 DEF TaskHeldInv, Good
    <3>. QED  BY <3>1, <3>2
  <2>3. CASE v # w
    <3>0. PICK u : u = exTask[v]
      OBVIOUS
    <3>1. exTask'[v] = u /\ exAt'[v] = exAt[v] /\ u # t
      BY <1>0, <1>1, <2>3, <3>0
    <3>2. u \in ExecTasks => /\ Good(u)' = Good(u) /\ Expected(u)' = Expected(u)
                             /\ (u \in unsaved' <=> u \in unsaved)
                             /\ exOutcome'[u] = exOutcome[u] /\ subTasks'[u] = subTasks[u]
      BY <1>2, <3>1
    <3>3. u \in ExecTasks =>
            /\ exOutcome[u] = "none" /\ subTasks[u] = 0
            /\ IF exAt[v] = "links" THEN Good(u) = Expected(u) ELSE Good(u) = 0 /\ u \notin unsaved
      BY <2>1, <3>0 DEF TaskHeldInv
    <3>4. u \in ExecTasks =>
            /\ exOutcome'[u] = "none" /\ subTasks'[u] = 0
            /\ IF exAt'[v] = "links" THEN Good(u)' = Expected(u)' ELSE Good(u)' = 0
                 /\ u \notin unsaved'
      <4> SUFFICES ASSUME u \in ExecTasks
                   PROVE  /\ exOutcome'[u] = "none" /\ subTasks'[u] = 0
                          /\ IF exAt'[v] = "links" THEN Good(u)' = Expected(u)'
                             ELSE Good(u)' = 0 /\ u \notin unsaved'
        OBVIOUS
      <4>1. exOutcome'[u] = "none" /\ subTasks'[u] = 0
        BY <3>2, <3>3
      <4>2. exAt'[v] = "links" => Good(u)' = Expected(u)'
        BY <3>1, <3>2, <3>3
      <4>3. exAt'[v] # "links" => Good(u)' = 0 /\ u \notin unsaved'
        BY <3>1, <3>2, <3>3
      <4>. QED  BY <4>1, <4>2, <4>3
    <3>. QED  BY <3>1, <3>4 DEF TaskHeldInv, Good, Expected
  <2>. QED  BY <2>2, <2>3
<1>5. ASSUME NEW u \in ExecTasks PROVE RestInv(u)'
  <2>1. RestInv(u) /\ (~Exec!Running(u)' => ~Exec!Running(u) /\ u # t)
    BY <1>0 DEF ExecInv, TaskRecordInv, Exec!Running
  <2>. QED  BY <1>2, <2>1 DEF RestInv
<1>. QED  BY <1>3, <1>4, <1>5 DEF ExecInv, TaskRecordInv

LEMMA EndsTyped ==
  ASSUME ExecInv, NEW w \in ExecWorkers, exAt[w] # "idle", NEW result \in {"success", "failed"},
         NEW done \in {0, 1}, Exec!Ends(w, result, done),
         UNCHANGED <<taskKind, extractor, exTries>>, luaQueue' \in [ExecWorkers -> BOOLEAN],
         unsaved' \subseteq unsaved \cup {exTask[w]}, luaLost' \subseteq luaLost \cup {exTask[w]},
         subTasks' \in [ExecTasks -> {0, 1}], Exec!Fault \/ execFaults' = execFaults
  PROVE  ExecFieldsOK'
<1>1. exTask[w] \in ExecTasks
  BY DEF ExecInv, ExecFieldsOK, TaskRecordInv, WorkerInv
<1>2. /\ exAt' \in [ExecWorkers -> ExecPlaces]
           /\ exTask' \in [ExecWorkers -> ExecTasks \cup {Exec!NoTask}]
      /\ exUsed' \in [ExecWorkers -> {"none", "json", "css"}]
      /\ exOutcome' \in [ExecTasks -> {"none", "success", "failed"}]
  BY DEF Exec!Ends, ExecInv, ExecFieldsOK, ExecPlaces
<1>3. /\ records' = [records EXCEPT ![exTask[w]] = @ + done]
      /\ \E n \in {0, done} : spoiled' = [spoiled EXCEPT ![exTask[w]] = @ + n]
  BY DEF Exec!Ends
<1>4. /\ records' \in [ExecTasks -> Nat] /\ spoiled' \in [ExecTasks -> Nat]
      /\ \A t \in ExecTasks : spoiled'[t] <= records'[t]
  BY <1>1, <1>3, ExecNumbers DEF ExecInv, ExecFieldsOK
<1>5. execFaults' \in 0 .. MaxExecFaults
  BY ExecFaultTyped DEF ExecInv
<1>. QED  BY <1>1, <1>2, <1>4, <1>5 DEF ExecInv, ExecFieldsOK

\* An execution that fails leaves no good record, one that succeeds the expected one.
LEMMA EndsStep ==
  ASSUME ExecInv, NEW w \in ExecWorkers, exAt[w] # "idle", NEW result \in {"success", "failed"},
         NEW done \in {0, 1}, Exec!Ends(w, result, done), ExecFieldsOK',
         \A v \in ExecWorkers : luaQueue'[v] => luaQueue[v] /\ v # w,
         NEW t, t = exTask[w],
         \A u \in ExecTasks : u # t =>
           subTasks'[u] = subTasks[u] /\ (u \in unsaved' <=> u \in unsaved),
         IF result = "success" THEN Good(t)' = Expected(t)'
         ELSE exAt[w] # "links" /\ UNCHANGED <<unsaved, subTasks>>
  PROVE  ExecInv'
<1>1. /\ t \in ExecTasks /\ Exec!NoTask \notin ExecTasks /\ TaskHeldInv(w)
      /\ \A v \in ExecWorkers : v # w => exTask[v] # t
  BY HasTask
<1>2. /\ exAt'[w] = "idle" /\ exTask'[w] = Exec!NoTask
      /\ \A v \in ExecWorkers : v # w => exAt'[v] = exAt[v] /\ exTask'[v] = exTask[v]
      /\ \A u \in ExecTasks : u # t => exOutcome'[u] = exOutcome[u]
      /\ exOutcome'[t] \in {result, "none"} /\ (result = "success" => exOutcome'[t] = "success")
  BY <1>1 DEF Exec!Ends, ExecInv, ExecFieldsOK
<1>3. /\ records'[t] = records[t] + done
      /\ result = "failed" => spoiled'[t] = spoiled[t] + done
      /\ \A u \in ExecTasks : u # t => records'[u] = records[u] /\ spoiled'[u] = spoiled[u]
  BY <1>1 DEF Exec!Ends, ExecInv, ExecFieldsOK
<1>4. \A u \in ExecTasks : u # t => Good(u)' = Good(u) /\ Expected(u)' = Expected(u)
  BY <1>3 DEF Good, Expected
<1>5. ASSUME NEW v \in ExecWorkers PROVE WorkerInv(v)'
  <2>1. WorkerInv(v)
    BY DEF ExecInv, TaskRecordInv
  <2>2. exAt'[v] = "idle" <=> exTask'[v] = Exec!NoTask
    <3>1. CASE v = w  BY <1>2, <3>1
    <3>2. CASE v # w  BY <1>2, <2>1, <3>2 DEF WorkerInv
    <3>. QED  BY <3>1, <3>2
  <2>3. ASSUME NEW u \in ExecWorkers, exTask'[u] = exTask'[v], exTask'[u] \in ExecTasks PROVE u = v
    <3>1. u # w /\ v # w
      BY <1>1, <1>2, <2>3
    <3>. QED  BY <1>2, <2>1, <2>3, <3>1 DEF WorkerInv
  <2>4. luaQueue'[v] => exAt'[v] = "script saves"
    BY <1>2, <2>1 DEF WorkerInv
  <2>. QED  BY <2>2, <2>3, <2>4 DEF WorkerInv
<1>6. ASSUME NEW v \in ExecWorkers PROVE TaskHeldInv(v)'
  <2>1. TaskHeldInv(v)
    BY DEF ExecInv, TaskRecordInv
  <2>2. CASE v = w
    BY <1>1, <1>2, <2>2 DEF TaskHeldInv
  <2>3. CASE v # w
    <3>0. PICK u : u = exTask[v]
      OBVIOUS
    <3>1. exTask'[v] = u /\ exAt'[v] = exAt[v] /\ u # t
      BY <1>1, <1>2, <2>3, <3>0
    <3>2. u \in ExecTasks => /\ Good(u)' = Good(u) /\ Expected(u)' = Expected(u)
                             /\ (u \in unsaved' <=> u \in unsaved)
                             /\ exOutcome'[u] = exOutcome[u] /\ subTasks'[u] = subTasks[u]
      BY <1>2, <1>4, <3>1
    <3>3. u \in ExecTasks =>
            /\ exOutcome[u] = "none" /\ subTasks[u] = 0
            /\ IF exAt[v] = "links" THEN Good(u) = Expected(u) ELSE Good(u) = 0 /\ u \notin unsaved
      BY <2>1, <3>0 DEF TaskHeldInv
    <3>4. u \in ExecTasks =>
            /\ exOutcome'[u] = "none" /\ subTasks'[u] = 0
            /\ IF exAt'[v] = "links" THEN Good(u)' = Expected(u)' ELSE Good(u)' = 0
                 /\ u \notin unsaved'
      BY <3>1, <3>2, <3>3
    <3>. QED  BY <3>1, <3>4 DEF TaskHeldInv, Good, Expected
  <2>. QED  BY <2>2, <2>3
<1>7. ASSUME NEW u \in ExecTasks PROVE RestInv(u)'
  <2>1. CASE u = t
    <3>1. CASE result = "success"
      <4>1. exOutcome'[u] = "success" /\ Good(u)' = Expected(u)'
        BY <1>2, <2>1, <3>1
      <4>. QED  BY <4>1 DEF RestInv
    <3>2. CASE result = "failed"
      <4>1. Good(t) = 0 /\ t \notin unsaved /\ subTasks[t] = 0
        BY <1>1, <3>2 DEF TaskHeldInv
      <4>2. Good(t)' = 0
        BY <1>1, <1>3, <3>2, <4>1, ExecNumbers DEF Good, ExecInv
      <4>. QED  BY <1>2, <2>1, <3>2, <4>1, <4>2 DEF RestInv
    <3>. QED  BY <3>1, <3>2
  <2>2. CASE u # t
    <3>1. RestInv(u) /\ (~Exec!Running(u)' => ~Exec!Running(u))
      BY <1>2, <2>2 DEF ExecInv, TaskRecordInv, Exec!Running
    <3>. QED  BY <1>2, <1>4, <2>2, <3>1 DEF RestInv
  <2>. QED  BY <2>1, <2>2
<1>. QED  BY <1>5, <1>6, <1>7 DEF ExecInv, TaskRecordInv

LEMMA AtPlace ==
  ASSUME ExecInv, NEW w \in ExecWorkers, NEW to \in ExecPlaces,
         exAt' = [exAt EXCEPT ![w] = to]
  PROVE  /\ exAt' \in [ExecWorkers -> ExecPlaces] /\ exAt'[w] = to
         /\ \A v \in ExecWorkers : v # w => exAt'[v] = exAt[v]
         /\ \A v \in ExecWorkers : luaQueue[v] /\ exAt[v] # "idle" /\ v # w
              => exAt'[v] = "script saves"
         /\ luaQueue[w] => exAt[w] = "script saves"
<1>1. \A v \in ExecWorkers : WorkerInv(v)
  BY DEF ExecInv, TaskRecordInv
<1>2. /\ exAt' \in [ExecWorkers -> ExecPlaces] /\ exAt'[w] = to
      /\ \A v \in ExecWorkers : v # w => exAt'[v] = exAt[v]
  BY DEF ExecInv, ExecFieldsOK
<1>. QED  BY <1>1, <1>2 DEF WorkerInv

\* The steps that touch nothing outside the worker and the fields of the executor.
LEMMA ExecQuietStep ==
  ASSUME ExecInv, NEW w \in ExecWorkers, exAt[w] \notin {"idle", "links", "script saves"},
         NEW to \in ExecPlaces \ {"idle", "links"}, exAt' = [exAt EXCEPT ![w] = to],
         extractor' \in {"none", "json", "css"}, exUsed' \in [ExecWorkers -> {"none", "json", "css"}],
         \/ luaQueue' = luaQueue
         \/ luaQueue' = [luaQueue EXCEPT ![w] = TRUE] /\ to = "script saves",
         UNCHANGED <<taskKind, exTask, exTries, exOutcome, Exec!outside, execFaults>>
  PROVE  ExecInv'
<1>1. /\ exAt' \in [ExecWorkers -> ExecPlaces] /\ exAt'[w] = to /\ to # "links"
      /\ \A v \in ExecWorkers : luaQueue[v] /\ exAt[v] # "idle" /\ v # w
           => exAt'[v] = "script saves"
      /\ luaQueue[w] => exAt[w] = "script saves"
  BY AtPlace
<1>2. \A v \in ExecWorkers : luaQueue[v] => exAt[v] = "script saves"
  BY DEF ExecInv, TaskRecordInv, WorkerInv
<1>3. luaQueue \in [ExecWorkers -> BOOLEAN]
  BY DEF ExecInv, ExecFieldsOK
<1>4. /\ luaQueue' \in [ExecWorkers -> BOOLEAN]
      /\ \A v \in ExecWorkers : luaQueue'[v] => exAt'[v] = "script saves"
  BY <1>1, <1>2, <1>3
<1>5. ExecFieldsOK'
  BY <1>1, <1>4 DEF ExecInv, ExecFieldsOK, Exec!outside
<1>6. UNCHANGED <<exTask, exOutcome, subTasks, spoiled, records, unsaved>>
  BY DEF Exec!outside
<1>. QED  BY <1>1, <1>4, <1>5, <1>6, OnwardsStep

LEMMA NoStorageStep == ASSUME ExecInv, NEW w \in ExecWorkers, Exec!NoStorage(w) PROVE ExecInv'
<1>0. PICK t : t = exTask[w]
  OBVIOUS
<1>1. /\ exAt[w] = "storage" /\ exAt' = [exAt EXCEPT ![w] = "links"] /\ Exec!Fault
      /\ unsaved' = unsaved \cup {t} /\ "links" \in ExecPlaces \ {"idle"}
      /\ UNCHANGED <<taskKind, extractor, exUsed, luaQueue, exTask, exTries, exOutcome, records,
                     spoiled,
                     subTasks, luaLost>>
  BY <1>0 DEF Exec!NoStorage, Exec!Moves, Exec!inside, ExecPlaces
<1>2. /\ exAt' \in [ExecWorkers -> ExecPlaces] /\ exAt'[w] = "links"
      /\ \A v \in ExecWorkers : luaQueue[v] /\ exAt[v] # "idle" /\ v # w
           => exAt'[v] = "script saves"
      /\ luaQueue[w] => exAt[w] = "script saves"
  BY <1>1, AtPlace
<1>3. t \in ExecTasks /\ TaskHeldInv(w)
  BY <1>0, <1>1, HasTask
<1>4. \A v \in ExecWorkers : luaQueue'[v] => exAt'[v] = "script saves"
  BY <1>1, <1>2 DEF ExecInv, TaskRecordInv, WorkerInv
<1>5. ExecFieldsOK'
  BY <1>1, <1>2, <1>3, ExecFaultTyped DEF ExecInv, ExecFieldsOK
<1>6. Good(t) = 0
  BY <1>0, <1>1, <1>3 DEF TaskHeldInv
<1>7. Good(t)' = Expected(t)'
  BY <1>1, <1>6 DEF Good, Expected
<1>8. \A u \in ExecTasks : u # t => records'[u] = records[u] /\ (u \in unsaved' <=> u \in unsaved)
  BY <1>1
<1>9. exAt[w] \notin {"idle", "links"} /\ UNCHANGED <<exTask, exOutcome, subTasks, spoiled>>
  BY <1>1
<1>. QED  BY <1>0, <1>1, <1>4, <1>5, <1>7, <1>8, <1>9, OnwardsStep

LEMMA SaveStep == ASSUME ExecInv, NEW w \in ExecWorkers, Exec!Save(w) PROVE ExecInv'
<1>0. PICK t : t = exTask[w]
  OBVIOUS
<1>1. /\ exAt[w] = "save" /\ exAt' = [exAt EXCEPT ![w] = "links"]
      /\ records' = [records EXCEPT ![t] = @ + 1] /\ "links" \in ExecPlaces \ {"idle"}
      /\ UNCHANGED <<taskKind, extractor, exUsed, luaQueue, exTask, exTries, exOutcome, spoiled,
                     unsaved,
                     subTasks, luaLost, execFaults>>
  BY <1>0 DEF Exec!Save, Exec!Moves, Exec!inside, ExecPlaces
<1>2. /\ exAt' \in [ExecWorkers -> ExecPlaces] /\ exAt'[w] = "links"
      /\ \A v \in ExecWorkers : luaQueue[v] /\ exAt[v] # "idle" /\ v # w
           => exAt'[v] = "script saves"
      /\ luaQueue[w] => exAt[w] = "script saves"
  BY <1>1, AtPlace
<1>3. t \in ExecTasks /\ TaskHeldInv(w)
  BY <1>0, <1>1, HasTask
<1>4. \A v \in ExecWorkers : luaQueue'[v] => exAt'[v] = "script saves"
  BY <1>1, <1>2 DEF ExecInv, TaskRecordInv, WorkerInv
<1>5. /\ records' \in [ExecTasks -> Nat] /\ records'[t] = records[t] + 1
      /\ \A u \in ExecTasks : spoiled[u] <= records'[u] /\ (u # t => records'[u] = records[u])
  BY <1>1, <1>3, ExecNumbers DEF ExecInv, ExecFieldsOK
<1>6. ExecFieldsOK'
  BY <1>1, <1>2, <1>5 DEF ExecInv, ExecFieldsOK
<1>7. Good(t) = 0 /\ t \notin unsaved
  BY <1>0, <1>1, <1>3 DEF TaskHeldInv
<1>8. Good(t)' = Expected(t)'
  BY <1>1, <1>3, <1>5, <1>7, ExecNumbers DEF Good, Expected, ExecInv
<1>9. /\ exAt[w] \notin {"idle", "links"} /\ UNCHANGED <<exTask, exOutcome, subTasks, spoiled>>
      /\ \A u \in ExecTasks : u # t => records'[u] = records[u]
           /\ (u \in unsaved' <=> u \in unsaved)
  BY <1>1, <1>5
<1>10. IF "links" = "links" THEN Good(t)' = Expected(t)' ELSE UNCHANGED <<records, unsaved>>
  BY <1>8
<1>11. exAt' = [exAt EXCEPT ![w] = "links"] /\ "links" \in ExecPlaces \ {"idle"}
  BY <1>1
<1>. QED  BY ONLY ExecInv, w \in ExecWorkers, <1>0, <1>4, <1>6, <1>9, <1>10, <1>11, OnwardsStep

\* An execution that fails.
LEMMA FailsStep ==
  ASSUME ExecInv, NEW w \in ExecWorkers, exAt[w] \notin {"idle", "links"}, NEW done \in {0, 1},
         Exec!Fault, Exec!Ends(w, "failed", done),
         \/ luaQueue' = luaQueue /\ ~luaQueue[w]
         \/ luaQueue' = [luaQueue EXCEPT ![w] = FALSE],
         UNCHANGED <<taskKind, extractor, exTries, unsaved, subTasks, luaLost>>
  PROVE  ExecInv'
<1>1. luaQueue \in [ExecWorkers -> BOOLEAN] /\ subTasks' \in [ExecTasks -> {0, 1}]
  BY DEF ExecInv, ExecFieldsOK
<1>2. /\ luaQueue' \in [ExecWorkers -> BOOLEAN]
      /\ \A v \in ExecWorkers : luaQueue'[v] => luaQueue[v] /\ v # w
  BY <1>1
<1>3. unsaved' \subseteq unsaved \cup {exTask[w]} /\ luaLost' \subseteq luaLost \cup {exTask[w]}
  OBVIOUS
<1>4. ExecFieldsOK'
  BY <1>1, <1>2, <1>3, EndsTyped
<1>5. \A u \in ExecTasks : subTasks'[u] = subTasks[u] /\ (u \in unsaved' <=> u \in unsaved)
  OBVIOUS
<1>. QED  BY <1>2, <1>4, <1>5, EndsStep

\* A script that ends, with or without a document.
LEMMA ScriptStep ==
  ASSUME ExecInv, NEW w \in ExecWorkers, NEW done \in {0, 1}, Exec!ScriptEnds(w, done),
         Exec!Fault \/ execFaults' = execFaults
  PROVE  ExecInv'
<1>0. PICK t : t = exTask[w]
  OBVIOUS
<1>1. /\ exAt[w] = "script saves" /\ Exec!Ends(w, "success", done)
      /\ luaQueue' = [luaQueue EXCEPT ![w] = FALSE] /\ luaLost' = luaLost \cup {t}
      /\ unsaved' = IF done = 0 THEN unsaved \cup {t} ELSE unsaved
      /\ UNCHANGED <<taskKind, extractor, exTries, subTasks>>
  BY <1>0 DEF Exec!ScriptEnds, Exec!Drained
<1>2. luaQueue \in [ExecWorkers -> BOOLEAN] /\ subTasks' \in [ExecTasks -> {0, 1}]
  BY <1>1 DEF ExecInv, ExecFieldsOK
<1>3. /\ luaQueue' \in [ExecWorkers -> BOOLEAN]
      /\ \A v \in ExecWorkers : luaQueue'[v] => luaQueue[v] /\ v # w
  BY <1>1, <1>2
<1>4. unsaved' \subseteq unsaved \cup {exTask[w]} /\ luaLost' \subseteq luaLost \cup {exTask[w]}
  BY <1>0, <1>1
<1>5. ExecFieldsOK'
  BY <1>1, <1>2, <1>3, <1>4, EndsTyped
<1>6. t \in ExecTasks /\ Good(t) = 0 /\ t \notin unsaved
  BY <1>0, <1>1, HasTask DEF TaskHeldInv
<1>7. records'[t] = records[t] + done /\ spoiled'[t] = spoiled[t]
  <2>1. records' = [records EXCEPT ![t] = @ + done] /\ spoiled' = [spoiled EXCEPT ![t] = @ + 0]
    BY <1>0, <1>1 DEF Exec!Ends
  <2>. QED  BY <1>6, <2>1, ExecNumbers DEF ExecInv, ExecFieldsOK
<1>8. Good(t)' = Expected(t)'
  <2>1. records[t] \in Nat /\ spoiled[t] \in Nat
    BY <1>6, ExecNumbers DEF ExecInv
  <2>2. CASE done = 0
    <3>1. t \in unsaved'
      BY <1>1, <2>2
    <3>2. records'[t] - spoiled'[t] = 0
      BY <1>6, <1>7, <2>1, <2>2 DEF Good
    <3>. QED  BY <3>1, <3>2 DEF Good, Expected
  <2>3. CASE done = 1
    <3>0. unsaved' = unsaved
      <4>1. done # 0
        BY <2>3
      <4>. QED  BY <4>1 DEF Exec!ScriptEnds
    <3>1. t \notin unsaved'
      BY <1>6, <3>0
    <3>2. records'[t] - spoiled'[t] = 1
      BY <1>6, <1>7, <2>1, <2>3 DEF Good
    <3>. QED  BY <3>1, <3>2 DEF Good, Expected
  <2>. QED  BY <2>2, <2>3
<1>9. \A u \in ExecTasks : u # t => subTasks'[u] = subTasks[u] /\ (u \in unsaved' <=> u \in unsaved)
  BY <1>1
<1>. QED  BY <1>0, <1>1, <1>3, <1>5, <1>8, <1>9, EndsStep

LEMMA LinksStep == ASSUME ExecInv, NEW w \in ExecWorkers, Exec!GenerateSubTasks(w) PROVE ExecInv'
<1>0. PICK t : t = exTask[w]
  OBVIOUS
<1>1. /\ exAt[w] = "links" /\ Exec!Ends(w, "success", 0) /\ (Exec!Fault \/ execFaults' = execFaults)
      /\ \E n \in {0, 1} : subTasks' = [subTasks EXCEPT ![t] = @ + n] \/ subTasks' = subTasks
      /\ UNCHANGED <<taskKind, extractor, luaQueue, exTries, unsaved, luaLost>>
  BY <1>0 DEF Exec!GenerateSubTasks
<1>2. t \in ExecTasks /\ subTasks[t] = 0 /\ Good(t) = Expected(t)
  BY <1>0, <1>1, HasTask DEF TaskHeldInv
<1>3. /\ subTasks' \in [ExecTasks -> {0, 1}] /\ \A u \in ExecTasks : u # t
           => subTasks'[u] = subTasks[u]
  BY <1>1, <1>2 DEF ExecInv, ExecFieldsOK
<1>4. luaQueue' \in [ExecWorkers -> BOOLEAN] /\ ~luaQueue[w]
  BY <1>1 DEF ExecInv, ExecFieldsOK, TaskRecordInv, WorkerInv
<1>5. \A v \in ExecWorkers : luaQueue'[v] => luaQueue[v] /\ v # w
  BY <1>1, <1>4
<1>6. unsaved' \subseteq unsaved \cup {exTask[w]} /\ luaLost' \subseteq luaLost \cup {exTask[w]}
  BY <1>1
<1>7. ExecFieldsOK'
  BY <1>1, <1>3, <1>4, <1>6, EndsTyped
<1>8. records'[t] = records[t] /\ spoiled'[t] = spoiled[t]
  <2>1. records' = [records EXCEPT ![t] = @ + 0] /\ spoiled' = [spoiled EXCEPT ![t] = @ + 0]
    BY <1>0, <1>1 DEF Exec!Ends
  <2>. QED  BY <1>2, <2>1, ExecNumbers DEF ExecInv, ExecFieldsOK
<1>9. Good(t)' = Expected(t)'
  BY <1>1, <1>2, <1>8 DEF Good, Expected
<1>10. \A u \in ExecTasks : u # t => subTasks'[u] = subTasks[u]
         /\ (u \in unsaved' <=> u \in unsaved)
  BY <1>1, <1>3
<1>. QED  BY <1>0, <1>1, <1>5, <1>7, <1>9, <1>10, EndsStep

LEMMA ExecStep == ASSUME ExecInv, [Exec!Next]_execPart PROVE ExecInv'
<1>1. CASE UNCHANGED execPart
  <2>1. UNCHANGED <<taskKind, extractor, exAt, exTask, exUsed, luaQueue, exTries, exOutcome,
                    records, spoiled, unsaved, subTasks, luaLost, execFaults>>
    BY <1>1 DEF execPart
  <2>2. ExecFieldsOK'
    BY <2>1 DEF ExecInv, ExecFieldsOK
  <2>3. TaskRecordInv'
    BY <2>1 DEF ExecInv, TaskRecordInv, WorkerInv, TaskHeldInv, RestInv, Good, Expected,
       Exec!Running
  <2>. QED  BY <2>2, <2>3 DEF ExecInv
<1>2. CASE Exec!Next
  <2>0. PICK w \in ExecWorkers : Exec!Work(w)
    BY <1>2 DEF Exec!Next
  <2>q. ~luaQueue[w] \/ exAt[w] = "script saves"
    BY DEF ExecInv, TaskRecordInv, WorkerInv
  <2>t. /\ exUsed \in [ExecWorkers -> {"none", "json", "css"}]
             /\ extractor \in {"none", "json", "css"}
        /\ \A k : Exec!ExtractorFor(k) \in {"none", "json", "css"}
    BY DEF ExecInv, ExecFieldsOK, Exec!ExtractorFor
  <2>1. ASSUME NEW t \in ExecTasks, Exec!TakeTask(w, t) PROVE ExecInv'
    BY <2>1, TakeStep
  <2>2. CASE Exec!SetExtractor(w)
    BY <2>2, <2>t, ExecQuietStep DEF Exec!SetExtractor, Exec!Moves, ExecPlaces
  <2>3. CASE Exec!Fetch(w)
    <3>1. \E to \in {"script", "extract"} : exAt' = [exAt EXCEPT ![w] = to]
      BY <2>3 DEF Exec!Fetch, Exec!Moves
    <3>. QED  BY <2>3, <2>t, <3>1, ExecQuietStep DEF Exec!Fetch, Exec!Moves, Exec!inside, ExecPlaces
  <2>4. CASE Exec!CreateTask(w)
    BY <2>4, <2>t, ExecQuietStep DEF Exec!CreateTask, Exec!Moves, ExecPlaces
  <2>5. CASE Exec!Extract(w)
    <3>1. exUsed' \in [ExecWorkers -> {"none", "json", "css"}]
      BY <2>5, <2>t DEF Exec!Extract
    <3>. QED  BY <2>5, <2>t, <3>1, ExecQuietStep DEF Exec!Extract, Exec!Moves, ExecPlaces
  <2>6. CASE Exec!PipelineProcess(w)
    BY <2>6, <2>t, ExecQuietStep DEF Exec!PipelineProcess, Exec!Moves, Exec!inside, ExecPlaces
  <2>7. CASE Exec!CreateStorage(w)
    BY <2>7, <2>t, ExecQuietStep DEF Exec!CreateStorage, Exec!Moves, Exec!inside, ExecPlaces
  <2>8. CASE Exec!NoStorage(w) \/ Exec!Save(w)
    BY <2>8, NoStorageStep, SaveStep
  <2>9. CASE Exec!FetchFails(w)
    BY <2>9, <2>q, FailsStep DEF Exec!FetchFails, Exec!Fails
  <2>10. CASE Exec!ExtractFails(w)
    BY <2>10, <2>q, FailsStep DEF Exec!ExtractFails, Exec!Fails
  <2>11. CASE Exec!PipelineFails(w)
    BY <2>11, <2>q, FailsStep DEF Exec!PipelineFails, Exec!Fails
  <2>12. CASE Exec!SaveFails(w)
    BY <2>12, <2>q, FailsStep DEF Exec!SaveFails, Exec!Fails
  <2>13. CASE Exec!ScriptFails(w)
    <3>1. PICK done \in {0, 1} : Exec!Ends(w, "failed", done)
      BY <2>13 DEF Exec!ScriptFails
    <3>. QED  BY <2>13, <3>1, FailsStep DEF Exec!ScriptFails, Exec!Drained
  <2>14. CASE Exec!MongoSave(w)
    BY <2>14, ScriptStep DEF Exec!MongoSave
  <2>15. CASE Exec!MongoSaveFails(w)
    BY <2>15, ScriptStep DEF Exec!MongoSaveFails
  <2>16. CASE Exec!GenerateSubTasks(w)
    BY <2>16, LinksStep
  <2>. QED  BY <2>0, <2>1, <2>2, <2>3, <2>4, <2>5, <2>6, <2>7, <2>8, <2>9, <2>10, <2>11, <2>12,
               <2>13, <2>14, <2>15, <2>16 DEF Exec!Work
<1>. QED  BY <1>1, <1>2

LEMMA ExecTyped == ExecInv => Exec!ExecTypeOK
<1> SUFFICES ASSUME ExecInv PROVE Exec!ExecTypeOK
  OBVIOUS
<1>1. \A w \in ExecWorkers : WorkerInv(w)
  BY DEF ExecInv, TaskRecordInv
<1>2. \A t \in ExecTasks : records[t] \in Nat /\ spoiled[t] \in 0 .. records[t]
  BY ExecNumbers DEF ExecInv
<1>3. ASSUME NEW w \in ExecWorkers
      PROVE  /\ exAt[w] \in ExecPlaces /\ exTask[w] \in ExecTasks \cup {Exec!NoTask}
             /\ exUsed[w] \in {"none", "json", "css"} /\ luaQueue[w] \in BOOLEAN
  BY DEF ExecInv, ExecFieldsOK
<1>. QED  BY <1>1, <1>2, <1>3 DEF Exec!ExecTypeOK, ExecInv, ExecFieldsOK, WorkerInv, ExecPlaces

LEMMA ExecRecords == ExecInv => Exec!OneRecord
<1> SUFFICES ASSUME ExecInv, NEW t \in ExecTasks, ~Exec!Running(t)
             PROVE  /\ records[t] - spoiled[t] =
                         IF exOutcome[t] = "success" /\ t \notin unsaved THEN 1 ELSE 0
                    /\ subTasks[t] > 0 => exOutcome[t] = "success"
  BY DEF Exec!OneRecord
<1>1. RestInv(t)
  BY DEF ExecInv, TaskRecordInv
<1>. QED  BY <1>1, ExecNumbers DEF RestInv, Good, Expected, ExecInv

-----------------------------------------------------------------------------
(* Pipelines.                                                              *)

PipePlaces == {"idle", "clean", "validate", "look up", "mark", "store"}
PipeFields ==
  /\ shape \in Shapes /\ processors \subseteq {"cleaner", "validator", "deduplicator"}
  /\ pAt \in [PipeWorkers -> PipePlaces] /\ pItem \in [PipeWorkers -> Records \cup {Pipes!NoRecord}]
  /\ pValue \in [PipeWorkers -> {"raw", "clean", "dropped"}]
  /\ pTries \in [Records -> 0 .. PipeRetries + 1]
  /\ finished \subseteq Records /\ invalidKept \subseteq Records
  /\ wrote \in [Records -> Nat] /\ wroteNil \in [Records -> Nat]
  /\ pipeDead \in BOOLEAN /\ pipeFaults \in 0 .. MaxPipeFaults
\* The map of the deduplicator has the keys that were marked.
MarksInv ==
  /\ marks \subseteq Records \X (1 .. PipeRetries + 1)
  /\ seen = {PipeKeys[m[1]] : m \in marks} /\ raced \subseteq seen
  /\ \A m, n \in marks : m # n /\ PipeKeys[m[1]] = PipeKeys[n[1]] => PipeKeys[m[1]] \in raced
  /\ marks # {} => Pipes!Deduplicates
\* A worker has a record of its own, and drops it only for a key that was marked.
PipeWorkerInv(w) ==
  /\ pAt[w] = "idle" <=> pItem[w] = Pipes!NoRecord
  /\ \A v \in PipeWorkers : pItem[v] = pItem[w] /\ pItem[v] \in Records => v = w
  /\ pItem[w] \in Records => pItem[w] \notin finished /\ pTries[pItem[w]] > 0
  /\ pAt[w] = "mark" => Pipes!Deduplicates
  /\ pAt[w] # "idle" /\ pValue[w] = "dropped" =>
       pAt[w] = "store" /\ Pipes!Deduplicates /\ PipeKeys[pItem[w]] \in seen
ItemInv(r) ==
  /\ r \notin finished /\ ~Pipes!InHand(r) => pTries[r] <= PipeRetries
  /\ wroteNil[r] > 0 => shape = "map" /\ PipeKeys[r] \in seen
  /\ r \in finished /\ wrote[r] = 0 => PipeKeys[r] \in seen \/ pTries[r] > PipeRetries
PipeInv == /\ PipeFields /\ MarksInv
           /\ \A w \in PipeWorkers : PipeWorkerInv(w)
           /\ \A r \in Records : ItemInv(r)

LEMMA PipesInitially == Pipes!PipesInit => PipeInv
<1> SUFFICES ASSUME Pipes!PipesInit PROVE PipeInv
  OBVIOUS
<1>1. PipeFields
  <2>1. /\ pAt \in [PipeWorkers -> PipePlaces]
             /\ pItem \in [PipeWorkers -> Records \cup {Pipes!NoRecord}]
        /\ pValue \in [PipeWorkers -> {"raw", "clean", "dropped"}]
    BY DEF Pipes!PipesInit, PipePlaces
  <2>2. /\ pTries \in [Records -> 0 .. PipeRetries + 1]
        /\ wrote \in [Records -> Nat] /\ wroteNil \in [Records -> Nat]
        /\ pipeFaults \in 0 .. MaxPipeFaults
    BY PipeBounds DEF Pipes!PipesInit
  <2>. QED  BY <2>1, <2>2 DEF Pipes!PipesInit, PipeFields
<1>2. MarksInv
  BY DEF Pipes!PipesInit, MarksInv
<1>3. \A w \in PipeWorkers : PipeWorkerInv(w)
  BY PipeBounds DEF Pipes!PipesInit, PipeWorkerInv
<1>4. \A r \in Records : ItemInv(r)
  BY PipeBounds DEF Pipes!PipesInit, ItemInv
<1>. QED  BY <1>1, <1>2, <1>3, <1>4 DEF PipeInv

LEMMA PipeNumbers ==
  ASSUME PipeFields, NEW r \in Records
  PROVE  /\ pTries[r] \in Nat /\ pTries[r] <= PipeRetries + 1
         /\ wrote[r] \in Nat /\ wroteNil[r] \in Nat
BY PipeBounds DEF PipeFields

LEMMA InspectedShapes == Pipes!Deduplicates => shape \in {"map", "list"}
BY DEF Pipes!Deduplicates, Pipes!Inspected

LEMMA TakeRecordStep ==
  ASSUME PipeInv, NEW w \in PipeWorkers, NEW r \in Records, Pipes!TakeRecord(w, r)
  PROVE  PipeInv'
<1>1. /\ pAt[w] = "idle" /\ ~Pipes!InHand(r) /\ r \notin finished
      /\ pAt' = [pAt EXCEPT ![w] = "clean"] /\ pItem' = [pItem EXCEPT ![w] = r]
      /\ pValue' = [pValue EXCEPT ![w] = "raw"] /\ pTries' = [pTries EXCEPT ![r] = @ + 1]
      /\ UNCHANGED <<shape, processors, seen, marks, raced, finished, wrote, wroteNil, invalidKept,
                     pipeDead, pipeFaults>>
  BY DEF Pipes!TakeRecord, Pipes!Moves, Pipes!config, Pipes!dedup, Pipes!written
<1>2. pTries[r] \in Nat /\ pTries[r] <= PipeRetries /\ ItemInv(r)
  BY <1>1, PipeNumbers DEF PipeInv, ItemInv
<1>3. PipeFields'
  <2>1. /\ pAt' \in [PipeWorkers -> PipePlaces]
             /\ pItem' \in [PipeWorkers -> Records \cup {Pipes!NoRecord}]
        /\ pValue' \in [PipeWorkers -> {"raw", "clean", "dropped"}]
    BY <1>1 DEF PipeInv, PipeFields, PipePlaces
  <2>2. pTries' \in [Records -> 0 .. PipeRetries + 1]
    BY <1>1, <1>2, PipeBounds DEF PipeInv, PipeFields
  <2>. QED  BY <1>1, <2>1, <2>2 DEF PipeInv, PipeFields
<1>4. MarksInv' /\ Pipes!Deduplicates' = Pipes!Deduplicates
  BY <1>1 DEF PipeInv, MarksInv, Pipes!Deduplicates
<1>5. /\ pAt'[w] = "clean" /\ pItem'[w] = r /\ pValue'[w] = "raw" /\ pTries'[r] = pTries[r] + 1
      /\ \A v \in PipeWorkers : v # w =>
           pAt'[v] = pAt[v] /\ pItem'[v] = pItem[v] /\ pValue'[v] = pValue[v]
      /\ \A s \in Records : s # r => pTries'[s] = pTries[s]
  BY <1>1 DEF PipeInv, PipeFields
<1>6. ASSUME NEW v \in PipeWorkers PROVE PipeWorkerInv(v)'
  <2>1. /\ \A u \in PipeWorkers : PipeWorkerInv(u) /\ pItem[u] # r
        /\ Pipes!NoRecord \notin Records
    BY <1>1, PipeBounds DEF PipeInv, Pipes!InHand
  <2>2. CASE v = w
    <3>1. \A u \in PipeWorkers : pItem'[u] = r => u = w
      BY <1>5, <2>1
    <3>2. pTries'[r] > 0
      BY <1>2, <1>5
    <3>. QED  BY <1>1, <1>5, <2>1, <2>2, <3>1, <3>2 DEF PipeWorkerInv
  <2>3. CASE v # w
    <3>1. pItem[v] \in Records => pItem[v] # r /\ pTries'[pItem[v]] = pTries[pItem[v]]
      BY <1>5, <2>1
    <3>2. \A u \in PipeWorkers : pItem'[u] = pItem'[v] /\ pItem'[u] \in Records => u = v
      BY <1>5, <2>1, <2>3 DEF PipeWorkerInv
    <3>3. pItem'[v] \in Records => pItem'[v] \notin finished' /\ pTries'[pItem'[v]] > 0
      BY <1>1, <1>5, <2>1, <2>3, <3>1 DEF PipeWorkerInv
    <3>. QED  BY <1>1, <1>4, <1>5, <2>1, <2>3, <3>2, <3>3 DEF PipeWorkerInv
  <2>. QED  BY <2>2, <2>3
<1>7. ASSUME NEW s \in Records PROVE ItemInv(s)'
  <2>1. ItemInv(s) /\ (Pipes!InHand(s)' <=> Pipes!InHand(s) \/ s = r)
    <3>1. ItemInv(s)
      BY DEF PipeInv
    <3>2. pItem[w] = Pipes!NoRecord /\ Pipes!NoRecord \notin Records
      BY <1>1, PipeBounds DEF PipeInv, PipeWorkerInv
    <3>. QED  BY <1>5, <3>1, <3>2 DEF Pipes!InHand
  <2>2. CASE s = r
    BY <1>1, <2>1, <2>2 DEF ItemInv
  <2>3. CASE s # r
    BY <1>1, <1>5, <2>1, <2>3 DEF ItemInv
  <2>. QED  BY <2>2, <2>3
<1>. QED  BY <1>3, <1>4, <1>6, <1>7 DEF PipeInv

LEMMA HasRecord ==
  ASSUME PipeInv, NEW w \in PipeWorkers, pAt[w] # "idle"
  PROVE  /\ pItem[w] \in Records /\ Pipes!NoRecord \notin Records /\ pItem[w] \notin finished
         /\ pTries[pItem[w]] \in 1 .. PipeRetries + 1
         /\ \A v \in PipeWorkers : v # w => pItem[v] # pItem[w]
<1>1. PipeWorkerInv(w) /\ pItem[w] \in Records \cup {Pipes!NoRecord}
  BY DEF PipeInv, PipeFields
<1>2. pItem[w] \in Records
  BY <1>1 DEF PipeWorkerInv
<1>. QED  BY <1>1, <1>2, PipeBounds, PipeNumbers DEF PipeWorkerInv, PipeInv

\* A worker goes to its next processor.
LEMMA GoesOnStep ==
  ASSUME PipeInv, NEW w \in PipeWorkers, pAt[w] # "idle", NEW to \in PipePlaces \ {"idle"},
         pAt' = [pAt EXCEPT ![w] = to], NEW x \in {"raw", "clean", "dropped"},
         pValue' = [pValue EXCEPT ![w] = x],
         NEW r, r = pItem[w],
         x = "dropped" => to = "store" /\ Pipes!Deduplicates /\ PipeKeys[r] \in seen',
         to = "mark" => Pipes!Deduplicates,
         UNCHANGED <<shape, processors, pItem, pTries, finished, wrote, wroteNil, pipeDead,
                     pipeFaults>>,
         invalidKept' \subseteq invalidKept \cup {r}, seen \subseteq seen', MarksInv'
  PROVE  PipeInv'
<1>0. r \in Records
  BY HasRecord
<1>1. PipeFields'
  <2>1. pAt' \in [PipeWorkers -> PipePlaces]
          /\ pValue' \in [PipeWorkers -> {"raw", "clean", "dropped"}]
    BY DEF PipeInv, PipeFields
  <2>. QED  BY <1>0, <2>1 DEF PipeInv, PipeFields
<1>2. /\ pAt'[w] = to /\ to # "idle" /\ pValue'[w] = x
      /\ \A v \in PipeWorkers : v # w => pAt'[v] = pAt[v] /\ pValue'[v] = pValue[v]
  BY DEF PipeInv, PipeFields
<1>3. Pipes!Deduplicates' = Pipes!Deduplicates
  BY DEF Pipes!Deduplicates
<1>4. ASSUME NEW v \in PipeWorkers PROVE PipeWorkerInv(v)'
  <2>1. PipeWorkerInv(v)
    BY DEF PipeInv
  <2>2. CASE v = w
    BY <1>2, <1>3, <2>1, <2>2 DEF PipeWorkerInv
  <2>3. CASE v # w
    BY <1>2, <1>3, <2>1, <2>3 DEF PipeWorkerInv
  <2>. QED  BY <2>2, <2>3
<1>5. ASSUME NEW s \in Records PROVE ItemInv(s)'
  <2>1. ItemInv(s) /\ Pipes!InHand(s)' = Pipes!InHand(s)
    BY DEF PipeInv, Pipes!InHand
  <2>. QED  BY <2>1 DEF ItemInv
<1>. QED  BY <1>1, <1>4, <1>5 DEF PipeInv

LEMMA MarksKept == ASSUME PipeInv, UNCHANGED <<shape, processors, seen, marks, raced>>
                   PROVE  MarksInv'
BY DEF PipeInv, MarksInv, Pipes!Deduplicates

LEMMA MarkedOnce ==
  ASSUME PipeInv, NEW w \in PipeWorkers, Pipes!MarkKey(w)
  PROVE  MarksInv' /\ seen \subseteq seen'
<1>0. PICK r : r = pItem[w]
  OBVIOUS
<1>1. PICK m : m = <<r, pTries[r]>>
  OBVIOUS
<1>2. /\ pAt[w] = "mark" /\ seen' = seen \cup {PipeKeys[r]} /\ marks' = marks \cup {m}
      /\ raced' = IF PipeKeys[r] \in seen THEN raced \cup {PipeKeys[r]} ELSE raced
      /\ UNCHANGED <<shape, processors>>
  BY <1>0, <1>1 DEF Pipes!MarkKey, Pipes!Moves, Pipes!Key, Pipes!config
<1>3. r \in Records /\ pTries[r] \in 1 .. PipeRetries + 1 /\ Pipes!Deduplicates
  BY <1>0, <1>2, HasRecord DEF PipeInv, PipeWorkerInv
<1>4. m[1] = r /\ m \in Records \X (1 .. PipeRetries + 1)
  BY <1>1, <1>3
<1>5. MarksInv
  BY DEF PipeInv
<1>6. marks' \subseteq Records \X (1 .. PipeRetries + 1) /\ raced' \subseteq seen'
        /\ Pipes!Deduplicates'
  BY <1>2, <1>3, <1>4, <1>5 DEF MarksInv, Pipes!Deduplicates
<1>7. seen' = {PipeKeys[n[1]] : n \in marks'}
  BY <1>2, <1>4, <1>5 DEF MarksInv
<1>8. ASSUME NEW n \in marks', NEW o \in marks', n # o, PipeKeys[n[1]] = PipeKeys[o[1]]
      PROVE  PipeKeys[n[1]] \in raced'
  <2>1. CASE n \in marks /\ o \in marks
    BY <1>2, <1>5, <1>8, <2>1 DEF MarksInv
  <2>2. CASE n = m /\ o \in marks
    <3>1. PipeKeys[r] \in seen
      BY <1>4, <1>5, <1>8, <2>2 DEF MarksInv
    <3>. QED  BY <1>2, <1>4, <2>2, <3>1
  <2>3. CASE n \in marks /\ o = m
    <3>1. PipeKeys[r] \in seen
      BY <1>4, <1>5, <1>8, <2>3 DEF MarksInv
    <3>. QED  BY <1>2, <1>4, <1>8, <2>3, <3>1
  <2>. QED  BY <1>2, <1>8, <2>1, <2>2, <2>3
<1>. QED  BY <1>2, <1>6, <1>7, <1>8 DEF MarksInv

\* What a worker stores, or fails to store.
LEMMA LetsStep ==
  ASSUME PipeInv, NEW w \in PipeWorkers, Pipes!Lets(w), Pipes!Writes(w) \/ UNCHANGED Pipes!written,
         NEW r, r = pItem[w],
         \/ Pipes!Writes(w) /\ finished' = finished \cup {r}
         \/ finished' = IF pTries[r] > PipeRetries THEN finished \cup {r} ELSE finished,
         pipeFaults' \in 0 .. MaxPipeFaults
  PROVE  PipeInv'
<1>1. /\ pAt[w] = "store" /\ pAt' = [pAt EXCEPT ![w] = "idle"]
      /\ pItem' = [pItem EXCEPT ![w] = Pipes!NoRecord]
      /\ UNCHANGED <<shape, processors, seen, marks, raced, pValue, pTries, invalidKept, pipeDead>>
  BY DEF Pipes!Lets, Pipes!Moves, Pipes!config, Pipes!dedup
<1>2. /\ r \in Records /\ Pipes!NoRecord \notin Records /\ r \notin finished
      /\ \A v \in PipeWorkers : v # w => pItem[v] # r
      /\ PipeWorkerInv(w) /\ ItemInv(r)
  BY <1>1, HasRecord DEF PipeInv
<1>3. /\ wrote' = wrote \/ wrote' = [wrote EXCEPT ![r] = @ + 1]
      /\ wroteNil' = wroteNil \/ wroteNil' = [wroteNil EXCEPT ![r] = @ + 1]
      /\ wroteNil' # wroteNil => pValue[w] = "dropped" /\ shape # "list"
      /\ Pipes!Writes(w) /\ pValue[w] # "dropped" => wrote' = [wrote EXCEPT ![r] = @ + 1]
  BY DEF Pipes!Writes, Pipes!written
<1>4. /\ wrote' \in [Records -> Nat] /\ wroteNil' \in [Records -> Nat]
      /\ \A s \in Records : s # r => wrote'[s] = wrote[s] /\ wroteNil'[s] = wroteNil[s]
      /\ Pipes!Writes(w) /\ pValue[w] # "dropped" => wrote'[r] > 0
      /\ wroteNil'[r] > 0 => wroteNil[r] > 0 \/ (pValue[w] = "dropped" /\ shape # "list")
      /\ wrote'[r] = 0 => wrote[r] = 0
  <2>1. wrote \in [Records -> Nat] /\ wroteNil \in [Records -> Nat]
    BY DEF PipeInv, PipeFields
  <2>. QED  BY <1>2, <1>3, <2>1
<1>5. PipeFields'
  <2>1. pAt' \in [PipeWorkers -> PipePlaces]
          /\ pItem' \in [PipeWorkers -> Records \cup {Pipes!NoRecord}]
    BY <1>1 DEF PipeInv, PipeFields, PipePlaces
  <2>2. finished' \subseteq Records
    BY <1>2 DEF PipeInv, PipeFields
  <2>. QED  BY <1>1, <1>4, <2>1, <2>2 DEF PipeInv, PipeFields
<1>6. MarksInv' /\ Pipes!Deduplicates' = Pipes!Deduplicates
  BY <1>1, MarksKept DEF Pipes!Deduplicates
<1>7. /\ pAt'[w] = "idle" /\ pItem'[w] = Pipes!NoRecord
      /\ \A v \in PipeWorkers : v # w => pAt'[v] = pAt[v] /\ pItem'[v] = pItem[v]
      /\ \A s \in Records : s # r => (s \in finished' <=> s \in finished)
  BY <1>1 DEF PipeInv, PipeFields
<1>8. ASSUME NEW v \in PipeWorkers PROVE PipeWorkerInv(v)'
  <2>1. PipeWorkerInv(v)
    BY DEF PipeInv
  <2>2. CASE v = w
    <3>1. pAt'[v] = "idle" /\ pItem'[v] = Pipes!NoRecord
      BY <1>7, <2>2
    <3>. QED  BY <1>2, <3>1 DEF PipeWorkerInv
  <2>3. CASE v # w
    <3>1. /\ pAt'[v] = pAt[v] /\ pItem'[v] = pItem[v] /\ pItem[v] # r /\ pValue'[v] = pValue[v]
          /\ seen' = seen /\ pTries' = pTries
      BY <1>1, <1>2, <1>7, <2>3
    <3>2. \A u \in PipeWorkers : pItem'[u] = pItem'[v] /\ pItem'[u] \in Records => u = v
      BY <1>2, <1>7, <2>1, <3>1 DEF PipeWorkerInv
    <3>. QED  BY <1>6, <1>7, <2>1, <3>1, <3>2 DEF PipeWorkerInv
  <2>. QED  BY <2>2, <2>3
<1>9. ASSUME NEW s \in Records PROVE ItemInv(s)'
  <2>1. ItemInv(s) /\ seen' = seen /\ shape' = shape /\ pTries' = pTries
    BY <1>1 DEF PipeInv
  <2>2. CASE s = r
    <3>1. r \notin finished' => pTries'[r] <= PipeRetries
      BY <1>2, <2>1, PipeBounds, PipeNumbers DEF PipeInv
    <3>2. pValue[w] = "dropped" => Pipes!Deduplicates /\ PipeKeys[r] \in seen
      BY <1>1, <1>2 DEF PipeWorkerInv
    <3>3. wroteNil'[r] > 0 => shape' = "map" /\ PipeKeys[r] \in seen'
      BY <1>4, <2>1, <2>2, <3>2, InspectedShapes DEF ItemInv
    <3>4. r \in finished' /\ wrote'[r] = 0 => PipeKeys[r] \in seen' \/ pTries'[r] > PipeRetries
      BY <1>2, <1>4, <2>1, <3>2
    <3>. QED  BY <2>2, <3>1, <3>3, <3>4 DEF ItemInv
  <2>3. CASE s # r
    <3>1. Pipes!InHand(s)' <=> Pipes!InHand(s)
      BY <1>2, <1>7, <2>3 DEF Pipes!InHand
    <3>. QED  BY <1>4, <1>7, <2>1, <2>3, <3>1 DEF ItemInv
  <2>. QED  BY <2>2, <2>3
<1>. QED  BY <1>5, <1>6, <1>8, <1>9 DEF PipeInv

LEMMA PipesStep == ASSUME PipeInv, [Pipes!Next]_pipePart PROVE PipeInv'
<1>1. CASE UNCHANGED pipePart \/ Pipes!MapRace
  <2>1. /\ UNCHANGED <<shape, processors, seen, pAt, pItem, pValue, pTries, finished, wrote,
                       wroteNil,
                       invalidKept, marks, raced, pipeFaults>>
        /\ pipeDead' \in {pipeDead, TRUE}
    BY <1>1 DEF pipePart, Pipes!MapRace, Pipes!config, Pipes!dedup, Pipes!written
  <2>2. PipeFields'
    BY <2>1 DEF PipeInv, PipeFields
  <2>3. MarksInv'
    BY <2>1, MarksKept
  <2>4. \A w \in PipeWorkers : PipeWorkerInv(w)'
    BY <2>1 DEF PipeInv, PipeWorkerInv, Pipes!Deduplicates
  <2>5. \A r \in Records : ItemInv(r)'
    BY <2>1 DEF PipeInv, ItemInv, Pipes!InHand
  <2>. QED  BY <2>2, <2>3, <2>4, <2>5 DEF PipeInv
<1>2. ASSUME NEW w \in PipeWorkers, NEW r \in Records, Pipes!TakeRecord(w, r) PROVE PipeInv'
  BY <1>2, TakeRecordStep
<1>3. ASSUME NEW w \in PipeWorkers,
             Pipes!CleanRecord(w) \/ Pipes!Validate(w) \/ Pipes!LookUpKey(w) \/ Pipes!MarkKey(w)
      PROVE  PipeInv'
  <2>0. PICK r : r = pItem[w]
    OBVIOUS
  <2>p. pValue \in [PipeWorkers -> {"raw", "clean", "dropped"}]
    BY DEF PipeInv, PipeFields
  <2>v. pValue[w] \in {"raw", "clean", "dropped"} /\ pValue = [pValue EXCEPT ![w] = pValue[w]]
    BY <2>p
  <2>w. pAt[w] # "idle" /\ pValue[w] = "dropped" => pAt[w] = "store"
    BY DEF PipeInv, PipeWorkerInv
  <2>1. CASE Pipes!CleanRecord(w)
    <3>1. /\ pAt[w] = "clean" /\ pAt' = [pAt EXCEPT ![w] = "validate"]
          /\ UNCHANGED <<shape, processors, seen, marks, raced, pItem, pTries, finished, wrote,
                         wroteNil,
                         invalidKept, pipeDead, pipeFaults>>
      BY <2>1 DEF Pipes!CleanRecord, Pipes!Moves, Pipes!config, Pipes!dedup, Pipes!written
    <3>2. \E x \in {"raw", "clean"} : pValue' = [pValue EXCEPT ![w] = x]
      BY <2>1, <2>v, <2>w, <3>1 DEF Pipes!CleanRecord
    <3>3. MarksInv' /\ "validate" \in PipePlaces \ {"idle"}
      BY <3>1, MarksKept DEF PipePlaces
    <3>. QED  BY <2>0, <3>1, <3>2, <3>3, GoesOnStep
  <2>2. CASE Pipes!Validate(w)
    <3>1. /\ pAt[w] = "validate" /\ pAt' = [pAt EXCEPT ![w] = "look up"]
          /\ UNCHANGED <<shape, processors, seen, marks, raced, pItem, pValue, pTries, finished,
                         wrote,
                         wroteNil, pipeDead, pipeFaults>>
          /\ invalidKept' \subseteq invalidKept \cup {r}
      BY <2>0, <2>2 DEF Pipes!Validate, Pipes!Moves, Pipes!config, Pipes!dedup, Pipes!written
    <3>2. \E x \in {"raw", "clean"} : pValue' = [pValue EXCEPT ![w] = x]
      BY <2>v, <2>w, <3>1
    <3>3. MarksInv' /\ "look up" \in PipePlaces \ {"idle"}
      BY <3>1, MarksKept DEF PipePlaces
    <3>. QED  BY <2>0, <3>1, <3>2, <3>3, GoesOnStep
  <2>3. CASE Pipes!LookUpKey(w)
    <3>1. /\ pAt[w] = "look up"
          /\ UNCHANGED <<shape, processors, seen, marks, raced, pItem, pTries, finished, wrote,
                         wroteNil, invalidKept, pipeDead, pipeFaults>>
      BY <2>3 DEF Pipes!LookUpKey, Pipes!config, Pipes!dedup, Pipes!written
    <3>2. MarksInv' /\ {"mark", "store"} \subseteq PipePlaces \ {"idle"}
      BY <3>1, MarksKept DEF PipePlaces
    <3>3. CASE Pipes!Deduplicates /\ PipeKeys[r] \notin seen
      <4>1. /\ pAt' = [pAt EXCEPT ![w] = "mark"] /\ pValue' = [pValue EXCEPT ![w] = pValue[w]]
            /\ pValue[w] \in {"raw", "clean"}
        BY <2>0, <2>3, <2>v, <2>w, <3>1, <3>3 DEF Pipes!LookUpKey, Pipes!Moves, Pipes!Key
      <4>. QED  BY <2>0, <3>1, <3>2, <3>3, <4>1, GoesOnStep
    <3>4. CASE Pipes!Deduplicates /\ PipeKeys[r] \in seen
      <4>1. /\ pAt' = [pAt EXCEPT ![w] = "store"] /\ pValue' = [pValue EXCEPT ![w] = "dropped"]
        BY <2>0, <2>3, <3>1, <3>4 DEF Pipes!LookUpKey, Pipes!Moves, Pipes!Key
      <4>. QED  BY <2>0, <3>1, <3>2, <3>4, <4>1, GoesOnStep
    <3>5. CASE ~Pipes!Deduplicates
      <4>1. /\ pAt' = [pAt EXCEPT ![w] = "store"] /\ pValue' = [pValue EXCEPT ![w] = pValue[w]]
            /\ pValue[w] \in {"raw", "clean"}
        BY <2>0, <2>3, <2>v, <2>w, <3>1, <3>5 DEF Pipes!LookUpKey, Pipes!Moves, Pipes!Key
      <4>. QED  BY <2>0, <3>1, <3>2, <4>1, GoesOnStep
    <3>. QED  BY <3>3, <3>4, <3>5
  <2>4. CASE Pipes!MarkKey(w)
    <3>1. /\ pAt[w] = "mark" /\ pAt' = [pAt EXCEPT ![w] = "store"]
          /\ UNCHANGED <<shape, processors, pItem, pValue, pTries, finished, wrote, wroteNil,
                         invalidKept, pipeDead, pipeFaults>>
      BY <2>4 DEF Pipes!MarkKey, Pipes!Moves, Pipes!config, Pipes!written
    <3>2. \E x \in {"raw", "clean"} : pValue' = [pValue EXCEPT ![w] = x]
      BY <2>v, <2>w, <3>1
    <3>3. MarksInv' /\ seen \subseteq seen' /\ "store" \in PipePlaces \ {"idle"}
      BY <2>4, MarkedOnce DEF PipePlaces
    <3>. QED  BY <2>0, <3>1, <3>2, <3>3, GoesOnStep
  <2>. QED  BY <1>3, <2>1, <2>2, <2>3, <2>4
<1>4. ASSUME NEW w \in PipeWorkers, Pipes!StoreRecord(w) PROVE PipeInv'
  BY <1>4, LetsStep DEF Pipes!StoreRecord, PipeInv, PipeFields
<1>5. ASSUME NEW w \in PipeWorkers, Pipes!StoreFails(w) PROVE PipeInv'
  <2>1. pipeFaults' \in 0 .. MaxPipeFaults
    BY <1>5, PipeBounds DEF Pipes!StoreFails, PipeInv, PipeFields
  <2>. QED  BY <1>5, <2>1, LetsStep DEF Pipes!StoreFails
<1>. QED  BY <1>1, <1>2, <1>3, <1>4, <1>5 DEF Pipes!Next

LEMMA PipesTyped == PipeInv => Pipes!PipesTypeOK
<1> SUFFICES ASSUME PipeInv PROVE Pipes!PipesTypeOK
  OBVIOUS
<1>1. seen \subseteq {PipeKeys[r] : r \in Records} /\ raced \subseteq seen
  BY DEF PipeInv, MarksInv
<1>2. ASSUME NEW w \in PipeWorkers
      PROVE  /\ pAt[w] \in PipePlaces /\ pItem[w] \in Records \cup {Pipes!NoRecord}
             /\ pValue[w] \in {"raw", "clean", "dropped"}
                  /\ (pItem[w] = Pipes!NoRecord <=> pAt[w] = "idle")
  BY DEF PipeInv, PipeFields, PipeWorkerInv
<1>. QED  BY <1>1, <1>2 DEF Pipes!PipesTypeOK, PipeInv, PipeFields, MarksInv, PipePlaces

LEMMA PipesKeep == PipeInv => Pipes!RecordFate
<1> SUFFICES ASSUME PipeInv PROVE Pipes!RecordFate
  OBVIOUS
<1>1. MarksInv
  BY DEF PipeInv
<1>2. ASSUME NEW r \in Records
      PROVE  LET found == \E m \in marks : PipeKeys[m[1]] = PipeKeys[r]
             IN /\ wroteNil[r] > 0 => shape = "map" /\ found
                /\ r \in finished /\ wrote[r] = 0 => found \/ pTries[r] > PipeRetries
                /\ shape = "maps" => ~found
  <2>1. PipeKeys[r] \in seen <=> \E m \in marks : PipeKeys[m[1]] = PipeKeys[r]
    BY <1>1 DEF MarksInv
  <2>2. ItemInv(r)
    BY DEF PipeInv
  <2>3. shape = "maps" => ~\E m \in marks : PipeKeys[m[1]] = PipeKeys[r]
    BY <1>1, InspectedShapes DEF MarksInv
  <2>. QED  BY <2>1, <2>2, <2>3 DEF ItemInv
<1>. QED  BY <1>1, <1>2 DEF Pipes!RecordFate, MarksInv

-----------------------------------------------------------------------------
(* Storages.                                                               *)

\* Is e due in a store of this kind?
Gone(e) == IF storeKind \in {"map", "memory"} THEN now > e.due ELSE e.due <= now
\* The store holds what e says, or has dropped it when it was due.
Agrees(k, e) == \/ data[k] = e.v /\ until[k] = e.due
                \/ data[k] = 0 /\ until[k] = Stores!Never /\ Gone(e)
KeyHeldInv == \A k \in Keys : \E e \in want[k] : Agrees(k, e)
\* While a Clear runs, nothing is a possible answer everywhere, and what it has still to
\* drop is known to SCAN or was stored meanwhile.
ClearInv == clearing => \A k \in Keys : /\ Stores!Nothing \in want[k]
                                        /\ data[k] # 0 => k \in scanning \cup since
DropInv == \A k \in Keys : data[k] = 0 => until[k] = Stores!Never
StoreInv == Stores!StoresTypeOK /\ KeyHeldInv /\ ClearInv /\ DropInv

LEMMA NeverComes ==
  ASSUME Stores!StoresTypeOK
  PROVE  /\ Stores!Never \in Nat /\ now \in Nat /\ now <= MaxNow /\ MaxNow < Stores!Never
         /\ Stores!Nothing \in [v : 0 .. MaxStores, due : 0 .. Stores!Never]
              /\ Stores!Nothing.v = 0 /\ Stores!Nothing.due = Stores!Never
         /\ storeKind \in {"map", "memory", "redis", "mongo", "mysql"}
<1>1. Stores!Never \in Nat /\ now \in Nat /\ now <= MaxNow /\ MaxNow < Stores!Never
  BY StoreBounds DEF Stores!StoresTypeOK, Stores!Never
<1>2. Stores!Nothing \in [v : 0 .. MaxStores, due : 0 .. Stores!Never] /\ Stores!Nothing.v = 0
        /\ Stores!Nothing.due = Stores!Never
  BY <1>1, StoreBounds DEF Stores!Nothing
<1>3. storeKind \in {"map", "memory", "redis", "mongo", "mysql"}
  BY StoreBounds DEF Stores!StoresTypeOK
<1>. QED  BY <1>1, <1>2, <1>3

LEMMA StoresInitially == Stores!StoresInit => StoreInv
<1> SUFFICES ASSUME Stores!StoresInit PROVE StoreInv
  OBVIOUS
<1>1. Stores!Never \in Nat /\ Stores!Nothing \in [v : 0 .. MaxStores, due : 0 .. Stores!Never]
  BY StoreBounds DEF Stores!Never, Stores!Nothing
<1>2. Stores!StoresTypeOK
  <2>1. data \in [Keys -> 0 .. MaxStores] /\ until \in [Keys -> 0 .. Stores!Never]
          /\ now \in 0 .. MaxNow
        /\ stores \in 0 .. MaxStores /\ storeFaults \in 0 .. MaxStoreFaults
    BY <1>1, StoreBounds DEF Stores!StoresInit
  <2>2. \A k \in Keys : want[k] # {}
          /\ want[k] \subseteq [v : 0 .. MaxStores, due : 0 .. Stores!Never]
    BY <1>1 DEF Stores!StoresInit
  <2>3. clearing = FALSE /\ disconnected = FALSE
    BY DEF Stores!StoresInit
  <2>. QED  BY <2>1, <2>2, <2>3 DEF Stores!StoresInit, Stores!StoresTypeOK
<1>3. KeyHeldInv
  BY DEF Stores!StoresInit, KeyHeldInv, Agrees, Stores!Nothing
<1>4. ClearInv /\ DropInv
  BY DEF Stores!StoresInit, ClearInv, DropInv
<1>. QED  BY <1>2, <1>3, <1>4 DEF StoreInv

\* The expiry a store writes is a time before Never, or Never, or what it holds already.
LEMMA DueTyped ==
  ASSUME Stores!StoresTypeOK, NEW k \in Keys, NEW t \in 0 .. DefaultTTL + 1
  PROVE  Stores!Due(k, t) \in 0 .. Stores!Never
<1>1. now + t \in 0 .. Stores!Never /\ Stores!Never \in 0 .. Stores!Never
        /\ until[k] \in 0 .. Stores!Never
  BY StoreBounds DEF Stores!StoresTypeOK, Stores!Never
<1>2. storeKind \in {"map", "memory", "redis", "mongo", "mysql"}
  BY NeverComes
<1>3. CASE storeKind \in {"map", "memory"}
  BY <1>1, <1>3 DEF Stores!Due, Stores!MapDue, Stores!MemoryDue
<1>4. CASE storeKind \in {"redis", "mongo", "mysql"}
  BY <1>1, <1>4 DEF Stores!Due, Stores!RedisDue, Stores!MongoDue, Stores!MySQLDue
<1>. QED  BY <1>2, <1>3, <1>4

\* The common part of a call that writes or drops the keys done of the keys S.
CallDone(S, done, v, d) ==
  LET item == [k \in Keys |-> [v |-> v, due |-> d[k]]]
  IN /\ done \subseteq S
     /\ data' = [k \in Keys |-> IF k \in done THEN v ELSE data[k]]
     /\ until' = [k \in Keys |-> IF k \in done THEN d[k] ELSE until[k]]
     /\ \/ Stores!Answers(S, done) /\ Stores!Stored(S, item)
        \/ Stores!Fails(done) /\ Stores!Doubted(S, item)
     /\ UNCHANGED <<storeKind, now, scanning, clearing, disconnected>>

LEMMA CallStep ==
  ASSUME StoreInv, NEW S \in SUBSET Keys, NEW done, NEW v \in 0 .. MaxStores, NEW d,
         \A k \in Keys : d[k] \in 0 .. Stores!Never, v = 0 => \A k \in Keys : d[k] = Stores!Never,
         CallDone(S, done, v, d), stores' \in 0 .. MaxStores
  PROVE  StoreInv'
<1> DEFINE item == [k \in Keys |-> [v |-> v, due |-> d[k]]]
<1>1. /\ done \subseteq S /\ UNCHANGED <<storeKind, now, scanning, clearing, disconnected>>
      /\ data' = [k \in Keys |-> IF k \in done THEN v ELSE data[k]]
      /\ until' = [k \in Keys |-> IF k \in done THEN d[k] ELSE until[k]]
      /\ \/ Stores!Answers(S, done) /\ Stores!Stored(S, item)
         \/ Stores!Fails(done) /\ Stores!Doubted(S, item)
  BY DEF CallDone
<1>2. \A k \in Keys : item[k] \in [v : 0 .. MaxStores, due : 0 .. Stores!Never]
                      /\ item[k].v = v /\ item[k].due = d[k]
  OBVIOUS
<1> HIDE DEF item
<1>3. storeFaults' \in 0 .. MaxStoreFaults
  <2>1. storeFaults' = storeFaults
          \/ (storeFaults < MaxStoreFaults /\ storeFaults' = storeFaults + 1)
    BY <1>1 DEF Stores!Answers, Stores!Fails
  <2>. QED  BY <2>1, StoreBounds DEF StoreInv, Stores!StoresTypeOK
<1>4. since' = (IF clearing THEN since \cup S ELSE since)
  BY <1>1 DEF Stores!Stored, Stores!Doubted
<1>5. \A k \in Keys :
        /\ k \notin S => want'[k] = want[k]
        /\ k \in S => /\ item[k] \in want'[k]
                      /\ want'[k] \subseteq want[k] \cup {item[k], Stores!Nothing}
                      /\ k \notin done => want[k] \subseteq want'[k]
                      /\ clearing /\ Stores!Nothing \in want[k] => Stores!Nothing \in want'[k]
  BY <1>1 DEF Stores!Answers, Stores!Stored, Stores!Doubted
<1>6. Stores!Nothing \in [v : 0 .. MaxStores, due : 0 .. Stores!Never]
  BY NeverComes DEF StoreInv
<1>7. Stores!StoresTypeOK'
  <2>1. data' \in [Keys -> 0 .. MaxStores] /\ until' \in [Keys -> 0 .. Stores!Never]
    BY <1>1 DEF StoreInv, Stores!StoresTypeOK
  <2>2. \A k \in Keys : want'[k] # {}
          /\ want'[k] \subseteq [v : 0 .. MaxStores, due : 0 .. Stores!Never]
    <3> SUFFICES ASSUME NEW k \in Keys
                 PROVE  want'[k] # {}
                          /\ want'[k] \subseteq [v : 0 .. MaxStores, due : 0 .. Stores!Never]
      OBVIOUS
    <3>1. want[k] # {} /\ want[k] \subseteq [v : 0 .. MaxStores, due : 0 .. Stores!Never]
      BY DEF StoreInv, Stores!StoresTypeOK
    <3>2. CASE k \notin S
      BY <1>5, <3>1, <3>2
    <3>3. CASE k \in S
      BY <1>2, <1>5, <1>6, <3>1, <3>3
    <3>. QED  BY <3>2, <3>3
  <2>3. since' \subseteq Keys
    BY <1>4 DEF StoreInv, Stores!StoresTypeOK
  <2>. QED  BY <1>1, <1>3, <2>1, <2>2, <2>3 DEF StoreInv, Stores!StoresTypeOK, Stores!Never
<1>8. KeyHeldInv'
  <2> SUFFICES ASSUME NEW k \in Keys PROVE \E e \in want'[k] : Agrees(k, e)'
    BY DEF KeyHeldInv
  <2>1. PICK e \in want[k] : Agrees(k, e)
    BY DEF StoreInv, KeyHeldInv
  <2>2. CASE k \in done
    <3>1. data'[k] = v /\ until'[k] = d[k] /\ item[k] \in want'[k]
      BY <1>1, <1>5, <2>2
    <3>2. PICK f \in want'[k] : f.v = v /\ f.due = d[k]
      BY <1>2, <3>1
    <3>. QED  BY <3>1, <3>2 DEF Agrees
  <2>3. CASE k \notin done
    <3>1. data'[k] = data[k] /\ until'[k] = until[k] /\ e \in want'[k]
      BY <1>1, <1>5, <2>3
    <3>. QED  BY <1>1, <2>1, <3>1 DEF Agrees, Gone, Stores!Never
  <2>. QED  BY <2>2, <2>3
<1>9. ClearInv'
  <2> SUFFICES ASSUME clearing, NEW k \in Keys
               PROVE  Stores!Nothing \in want'[k] /\ (data'[k] # 0 => k \in scanning \cup since')
    BY <1>1 DEF ClearInv, Stores!Nothing, Stores!Never
  <2>1. Stores!Nothing \in want[k] /\ (data[k] # 0 => k \in scanning \cup since)
    BY DEF StoreInv, ClearInv
  <2>. QED  BY <1>1, <1>4, <1>5, <2>1
<1>10. DropInv'
  <2> SUFFICES ASSUME NEW k \in Keys, data'[k] = 0 PROVE until'[k] = Stores!Never
    BY DEF DropInv, Stores!Never
  <2>. QED  BY <1>1 DEF StoreInv, DropInv
<1>. QED  BY <1>7, <1>8, <1>9, <1>10 DEF StoreInv

LEMMA StoringStep ==
  ASSUME StoreInv,
         \/ \E k \in Keys, t \in Stores!Asked : Stores!StoreWithTTL(k, t)
         \/ \E S \in SUBSET Keys : S # {} /\ Stores!BatchStore(S)
  PROVE  StoreInv'
<1>1. ASSUME NEW k \in Keys, NEW t \in Stores!Asked, Stores!StoreWithTTL(k, t) PROVE StoreInv'
  <2>1. t \in 0 .. DefaultTTL + 1
    BY StoreBounds DEF Stores!Asked
  <2> DEFINE d == [j \in Keys |-> Stores!Due(j, t)]
  <2>2. \A j \in Keys : d[j] \in 0 .. Stores!Never
    BY <2>1, DueTyped DEF StoreInv
  <2>3. /\ stores + 1 \in 0 .. MaxStores /\ stores + 1 # 0 /\ stores' \in 0 .. MaxStores
    BY <1>1, StoreBounds DEF Stores!StoreWithTTL, StoreInv, Stores!StoresTypeOK
  <2>4. PICK done \in SUBSET {k} : CallDone({k}, done, stores + 1, d)
    BY <1>1 DEF Stores!StoreWithTTL, Stores!StoreKeys, Stores!Sets, CallDone
  <2> HIDE DEF d
  <2>. QED  BY <2>2, <2>3, <2>4, CallStep
<1>2. ASSUME NEW S \in SUBSET Keys, Stores!BatchStore(S) PROVE StoreInv'
  <2>1. PICK done \in Stores!Parts(S), t \in Stores!BatchDues :
          Stores!StoreKeys(S, done, stores + 1, [j \in Keys |-> Stores!Due(j, t)])
    BY <1>2 DEF Stores!BatchStore
  <2>2. t \in 0 .. DefaultTTL + 1 /\ done \subseteq S
    BY StoreBounds DEF Stores!BatchDues, Stores!Parts
  <2> DEFINE d == [j \in Keys |-> Stores!Due(j, t)]
  <2>3. \A j \in Keys : d[j] \in 0 .. Stores!Never
    BY <2>2, DueTyped DEF StoreInv
  <2>4. /\ stores + 1 \in 0 .. MaxStores /\ stores + 1 # 0 /\ stores' \in 0 .. MaxStores
    BY <1>2, StoreBounds DEF Stores!BatchStore, StoreInv, Stores!StoresTypeOK
  <2>5. CallDone(S, done, stores + 1, d)
    BY <1>2, <2>1, <2>2 DEF Stores!BatchStore, Stores!StoreKeys, Stores!Sets, CallDone
  <2> HIDE DEF d
  <2>. QED  BY <2>3, <2>4, <2>5, CallStep
<1>. QED  BY <1>1, <1>2

LEMMA DroppingStep ==
  ASSUME StoreInv, NEW S \in SUBSET Keys, NEW done \in SUBSET S, Stores!Drops(done),
         \/ Stores!Answers(S, done) /\ Stores!Stored(S, [j \in Keys |-> Stores!Nothing])
         \/ Stores!Fails(done) /\ Stores!Doubted(S, [j \in Keys |-> Stores!Nothing]),
         UNCHANGED <<storeKind, now, scanning, clearing, disconnected, stores>>
  PROVE  StoreInv'
<1> DEFINE d == [j \in Keys |-> Stores!Never]
<1>1. [k \in Keys |-> [v |-> 0, due |-> d[k]]] = [j \in Keys |-> Stores!Nothing]
  BY DEF Stores!Nothing
<1>2. until' = [k \in Keys |-> IF k \in done THEN d[k] ELSE until[k]]
  BY DEF Stores!Drops
<1>3. CallDone(S, done, 0, d)
  BY <1>1, <1>2 DEF CallDone, Stores!Drops
<1>4. /\ \A k \in Keys : d[k] \in 0 .. Stores!Never
      /\ 0 \in 0 .. MaxStores /\ stores' \in 0 .. MaxStores /\ \A k \in Keys : d[k] = Stores!Never
  BY NeverComes, StoreBounds DEF StoreInv, Stores!StoresTypeOK
<1> HIDE DEF d
<1>. QED  BY <1>3, <1>4, CallStep

\* A key that is dropped when nothing is a possible answer, or when what it holds is due.
LEMMA DropsHeld ==
  ASSUME StoreInv, NEW E \in SUBSET Keys,
         Stores!Drops(E), storeKind' = storeKind, now' = now, want' = want,
         \A k \in E : Stores!Nothing \in want[k] \/ (\A e : until[k] = e.due => Gone(e))
  PROVE  /\ KeyHeldInv' /\ data' \in [Keys -> 0 .. MaxStores]
              /\ until' \in [Keys -> 0 .. Stores!Never]
         /\ \A k \in Keys : data'[k] # 0 => data[k] # 0 /\ k \notin E
         /\ DropInv'
<1>1. /\ \A k \in Keys : k \in E => data'[k] = 0 /\ until'[k] = Stores!Never
      /\ \A k \in Keys : k \notin E => data'[k] = data[k] /\ until'[k] = until[k]
  BY DEF Stores!Drops
<1>2. data' \in [Keys -> 0 .. MaxStores] /\ until' \in [Keys -> 0 .. Stores!Never]
  BY NeverComes, StoreBounds DEF Stores!Drops, StoreInv, Stores!StoresTypeOK
<1>3. KeyHeldInv'
  <2> SUFFICES ASSUME NEW k \in Keys PROVE \E e \in want[k] : Agrees(k, e)'
    BY DEF KeyHeldInv
  <2>1. PICK e \in want[k] : Agrees(k, e)
    BY DEF StoreInv, KeyHeldInv
  <2>2. CASE k \notin E
    <3>1. Agrees(k, e)'
      BY <1>1, <2>1, <2>2 DEF Agrees, Gone, Stores!Never
    <3>. QED  BY <2>1, <3>1
  <2>3. CASE k \in E /\ Stores!Nothing \in want[k]
    <3>1. Agrees(k, Stores!Nothing)'
      BY <1>1, <2>3 DEF Agrees, Stores!Nothing, Stores!Never
    <3>. QED  BY <2>3, <3>1 DEF Stores!Nothing, Stores!Never
  <2>4. CASE k \in E /\ \A f : until[k] = f.due => Gone(f)
    <3>1. Gone(e)
      BY <2>1, <2>4 DEF Agrees
    <3>2. Agrees(k, e)'
      BY <1>1, <2>4, <3>1 DEF Agrees, Gone, Stores!Never
    <3>. QED  BY <2>1, <3>2
  <2>. QED  BY <2>2, <2>3, <2>4
<1>4. DropInv'
  BY <1>1 DEF StoreInv, DropInv, Stores!Never
<1>. QED  BY <1>1, <1>2, <1>3, <1>4

LEMMA ClearingStep ==
  ASSUME StoreInv, Stores!ClearBegins \/ (\E E \in SUBSET Keys : Stores!ScanRound(E))
    \/ Stores!ClearEnds \/ Stores!ClearFails
  PROVE  StoreInv'
<1>0. Stores!Nothing' = Stores!Nothing /\ Stores!Never' = Stores!Never
  BY DEF Stores!Nothing, Stores!Never
<1>1. CASE Stores!ClearBegins
  <2>1. /\ clearing' = TRUE /\ scanning' = {k \in Keys : data[k] # 0} /\ storeKind = "redis"
             /\ since' = {}
        /\ \A k \in Keys : want'[k] = want[k] \cup {Stores!Nothing}
        /\ UNCHANGED <<storeKind, now, data, until, disconnected, stores, storeFaults>>
    BY <1>1 DEF Stores!ClearBegins
  <2>2. Stores!StoresTypeOK'
    <3>1. \A k \in Keys : want'[k] # {}
            /\ want'[k] \subseteq [v : 0 .. MaxStores, due : 0 .. Stores!Never]
      BY <2>1, NeverComes DEF StoreInv, Stores!StoresTypeOK
    <3>. QED  BY <2>1, <3>1 DEF StoreInv, Stores!StoresTypeOK, Stores!Never
  <2>3. KeyHeldInv'
    BY <2>1 DEF StoreInv, KeyHeldInv, Agrees, Gone, Stores!Never
  <2>4. ClearInv'
    BY <1>0, <2>1 DEF ClearInv
  <2>5. DropInv'
    BY <1>0, <2>1 DEF StoreInv, DropInv
  <2>. QED  BY <2>2, <2>3, <2>4, <2>5 DEF StoreInv
<1>2. ASSUME NEW E \in SUBSET Keys, Stores!ScanRound(E) PROVE StoreInv'
  <2>1. /\ clearing /\ scanning' = scanning \ E /\ Stores!Drops(E)
        /\ UNCHANGED <<storeKind, now, clearing, disconnected, stores, storeFaults, want, since>>
    BY <1>2 DEF Stores!ScanRound, Stores!clientSide
  <2>2. \A k \in E : Stores!Nothing \in want[k]
    BY <2>1 DEF StoreInv, ClearInv
  <2>3. /\ KeyHeldInv' /\ data' \in [Keys -> 0 .. MaxStores]
             /\ until' \in [Keys -> 0 .. Stores!Never]
        /\ \A k \in Keys : data'[k] # 0 => data[k] # 0 /\ k \notin E
        /\ DropInv'
    <3>1. \A k \in E : Stores!Nothing \in want[k] \/ (\A e : until[k] = e.due => Gone(e))
      BY <2>2
    <3>2. Stores!Drops(E) /\ storeKind' = storeKind /\ now' = now /\ want' = want
      BY <2>1
    <3>. QED  BY <3>1, <3>2, DropsHeld
  <2>4. Stores!StoresTypeOK'
    BY <2>1, <2>3 DEF StoreInv, Stores!StoresTypeOK, Stores!Never
  <2>5. ClearInv'
    BY <1>0, <2>1, <2>3 DEF StoreInv, ClearInv
  <2>. QED  BY <2>3, <2>4, <2>5 DEF StoreInv
<1>3. CASE Stores!ClearEnds
  <2>1. /\ clearing /\ scanning = {} /\ clearing' = FALSE
        /\ \A k \in Keys : want'[k] = IF k \in since THEN want[k] ELSE {Stores!Nothing}
        /\ UNCHANGED <<storeKind, now, data, until, scanning, disconnected, stores, storeFaults,
                       since>>
    BY <1>3 DEF Stores!ClearEnds
  <2>2. Stores!StoresTypeOK'
    <3>1. \A k \in Keys : want'[k] # {}
            /\ want'[k] \subseteq [v : 0 .. MaxStores, due : 0 .. Stores!Never]
      BY <2>1, NeverComes DEF StoreInv, Stores!StoresTypeOK
    <3>. QED  BY <2>1, <3>1 DEF StoreInv, Stores!StoresTypeOK, Stores!Never
  <2>3. KeyHeldInv'
    <3> SUFFICES ASSUME NEW k \in Keys PROVE \E e \in want'[k] : Agrees(k, e)'
      BY DEF KeyHeldInv
    <3>1. PICK e \in want[k] : Agrees(k, e)
      BY DEF StoreInv, KeyHeldInv
    <3>2. CASE k \in since
      BY <2>1, <3>1, <3>2 DEF Agrees, Gone, Stores!Never
    <3>3. CASE k \notin since
      <4>1. data[k] = 0
        BY <2>1, <3>3 DEF StoreInv, ClearInv
      <4>2. until[k] = Stores!Never
        BY <4>1 DEF StoreInv, DropInv
      <4>3. Stores!Nothing \in want'[k] /\ data'[k] = Stores!Nothing.v
              /\ until'[k] = Stores!Nothing.due
        BY <2>1, <3>3, <4>1, <4>2 DEF Stores!Nothing
      <4>4. \E o \in want'[k] : data'[k] = o.v /\ until'[k] = o.due
        BY <4>3
      <4>. QED  BY <4>4 DEF Agrees
    <3>. QED  BY <3>2, <3>3
  <2>4. ClearInv'
    BY <2>1 DEF ClearInv
  <2>5. DropInv'
    BY <1>0, <2>1 DEF StoreInv, DropInv
  <2>. QED  BY <2>2, <2>3, <2>4, <2>5 DEF StoreInv
<1>4. CASE Stores!ClearFails
  <2>1. /\ clearing' = FALSE /\ scanning' = {}
        /\ storeFaults' = storeFaults
             \/ (storeFaults < MaxStoreFaults /\ storeFaults' = storeFaults + 1)
        /\ UNCHANGED <<storeKind, now, data, until, disconnected, stores, want, since>>
    BY <1>4 DEF Stores!ClearFails, Stores!Fails, Stores!clientSide
  <2>2. storeFaults' \in 0 .. MaxStoreFaults
    BY <2>1, StoreBounds DEF StoreInv, Stores!StoresTypeOK
  <2>3. Stores!StoresTypeOK'
    BY <2>1, <2>2 DEF StoreInv, Stores!StoresTypeOK, Stores!Never
  <2>4. KeyHeldInv'
    BY <2>1 DEF StoreInv, KeyHeldInv, Agrees, Gone, Stores!Never
  <2>5. ClearInv'
    BY <2>1 DEF ClearInv
  <2>6. DropInv'
    BY <1>0, <2>1 DEF StoreInv, DropInv
  <2>. QED  BY <2>3, <2>4, <2>5, <2>6 DEF StoreInv
<1>. QED  BY <1>1, <1>2, <1>3, <1>4

LEMMA CleanupStep == ASSUME StoreInv, Stores!Cleanup PROVE StoreInv'
<1>1. PICK E \in SUBSET Keys : /\ Stores!Drops(E)
                               /\ \A k \in E : IF storeKind \in {"map", "memory"} THEN now > until[k]
                                               ELSE until[k] <= now
  <2>1. CASE storeKind \in {"map", "memory"}
    BY <2>1 DEF Stores!Cleanup, Stores!CleansUp, Stores!MapExpired, Stores!MemoryExpired
  <2>2. CASE storeKind = "mysql"
    <3>1. Stores!Drops(Stores!MySQLExpired)
      BY <2>2 DEF Stores!Cleanup, Stores!CleansUp
    <3>2. \A k \in Stores!MySQLExpired : until[k] <= now
      BY NeverComes DEF Stores!MySQLExpired, StoreInv, Stores!StoresTypeOK
    <3>. QED  BY <2>2, <3>1, <3>2 DEF Stores!MySQLExpired
  <2>3. CASE storeKind \in {"redis", "mongo"}
    BY <2>3 DEF Stores!Cleanup, Stores!CleansUp, Stores!RemoteExpired
  <2>. QED  BY <2>1, <2>2, <2>3, NeverComes DEF StoreInv
<1>2. UNCHANGED <<storeKind, now, scanning, clearing, disconnected, stores, storeFaults, want,
                  since>>
  BY DEF Stores!Cleanup, Stores!clientSide
<1>3. \A k \in E : \A e : until[k] = e.due => Gone(e)
  <2> SUFFICES ASSUME NEW k \in E, NEW e, until[k] = e.due PROVE Gone(e)
    OBVIOUS
  <2>. QED  BY <1>1 DEF Gone
<1>4. /\ KeyHeldInv' /\ data' \in [Keys -> 0 .. MaxStores] /\ until' \in [Keys -> 0 .. Stores!Never]
      /\ \A k \in Keys : data'[k] # 0 => data[k] # 0 /\ k \notin E
      /\ DropInv'
  BY <1>1, <1>2, <1>3, DropsHeld
<1>5. Stores!StoresTypeOK'
  BY <1>2, <1>4 DEF StoreInv, Stores!StoresTypeOK, Stores!Never
<1>6. ClearInv'
  BY <1>2, <1>4 DEF StoreInv, ClearInv, Stores!Nothing, Stores!Never
<1>. QED  BY <1>4, <1>5, <1>6 DEF StoreInv

LEMMA StoresStep == ASSUME StoreInv, [Stores!Next]_storesPart PROVE StoreInv'
<1>1. ASSUME NEW k \in Keys, Stores!Delete(k) PROVE StoreInv'
  <2>1. PICK done \in SUBSET {k} :
          /\ Stores!Drops(done)
          /\ \/ Stores!Answers({k}, done) /\ Stores!Stored({k}, [j \in Keys |-> Stores!Nothing])
             \/ Stores!Fails(done) /\ Stores!Doubted({k}, [j \in Keys |-> Stores!Nothing])
    BY <1>1 DEF Stores!Delete
  <2>2. UNCHANGED <<storeKind, now, scanning, clearing, disconnected, stores>>
    BY <1>1 DEF Stores!Delete
  <2>. QED  BY <2>1, <2>2, DroppingStep
<1>2. CASE Stores!Clear
  <2>1. PICK done \in Stores!Parts(Keys) :
          /\ Stores!Drops(done)
          /\ \/ Stores!Answers(Keys, done) /\ Stores!Stored(Keys, [j \in Keys |-> Stores!Nothing])
             \/ Stores!Fails(done) /\ Stores!Doubted(Keys, [j \in Keys |-> Stores!Nothing])
    BY <1>2 DEF Stores!Clear
  <2>2. UNCHANGED <<storeKind, now, scanning, clearing, disconnected, stores>>
    BY <1>2 DEF Stores!Clear
  <2>3. done \in SUBSET Keys
    BY DEF Stores!Parts
  <2>. QED  BY <2>1, <2>2, <2>3, DroppingStep
<1>3. CASE Stores!Close \/ UNCHANGED storesPart
  <2>1. /\ UNCHANGED <<storeKind, now, data, until, scanning, clearing, stores, storeFaults, want,
                       since>>
        /\ disconnected' = disconnected \/ (disconnected' = TRUE /\ storeKind = "mongo")
    BY <1>3 DEF Stores!Close, storesPart, Stores!clientSide
  <2>2. Stores!StoresTypeOK'
    <3>1. disconnected' \in BOOLEAN /\ (disconnected' => storeKind = "mongo")
      <4>1. CASE disconnected' = disconnected
        BY <4>1 DEF StoreInv, Stores!StoresTypeOK
      <4>2. CASE disconnected' = TRUE /\ storeKind = "mongo"
        BY <4>2
      <4>. QED  BY <2>1, <4>1, <4>2
    <3>. QED  BY <2>1, <3>1 DEF StoreInv, Stores!StoresTypeOK, Stores!Never
  <2>3. KeyHeldInv' /\ ClearInv' /\ DropInv'
    BY <2>1 DEF StoreInv, KeyHeldInv, ClearInv, DropInv, Agrees, Gone, Stores!Never, Stores!Nothing
  <2>. QED  BY <2>2, <2>3 DEF StoreInv
<1>4. CASE Stores!ClockTick
  <2>1. /\ UNCHANGED <<storeKind, data, until, scanning, clearing, disconnected, stores,
                       storeFaults, want, since>>
        /\ now < MaxNow /\ now' = now + 1
    BY <1>4 DEF Stores!ClockTick, Stores!clientSide
  <2>2. now' \in 0 .. MaxNow
    BY <2>1, StoreBounds DEF StoreInv, Stores!StoresTypeOK
  <2>3. Stores!StoresTypeOK'
    BY <2>1, <2>2 DEF StoreInv, Stores!StoresTypeOK, Stores!Never
  <2>4. KeyHeldInv'
    <3> SUFFICES ASSUME NEW k \in Keys PROVE \E e \in want[k] : Agrees(k, e)'
      BY <2>1 DEF KeyHeldInv
    <3>1. PICK e \in want[k] : Agrees(k, e)
      BY DEF StoreInv, KeyHeldInv
    <3>2. e.due \in Nat /\ now \in Nat
      BY NeverComes DEF StoreInv, Stores!StoresTypeOK
    <3>3. Gone(e) => Gone(e)'
      BY <2>1, <3>2 DEF Gone
    <3>. QED  BY <2>1, <3>1, <3>3 DEF Agrees, Stores!Never
  <2>5. ClearInv'
    BY <2>1 DEF StoreInv, ClearInv, Stores!Nothing, Stores!Never
  <2>6. DropInv'
    BY <2>1 DEF StoreInv, DropInv, Stores!Never
  <2>. QED  BY <2>3, <2>4, <2>5, <2>6 DEF StoreInv
<1>. QED  BY <1>1, <1>2, <1>3, <1>4, StoringStep, ClearingStep, CleanupStep DEF Stores!Next

LEMMA StoresRead == StoreInv => Stores!ReadsLast
<1> SUFFICES ASSUME StoreInv, NEW k \in Keys
             PROVE  \E e \in want[k] : Stores!Get(k) \in Stores!Reads(e)
  BY DEF Stores!ReadsLast
<1>1. PICK e \in want[k] : Agrees(k, e)
  BY DEF StoreInv, KeyHeldInv
<1>2. /\ e.due \in Nat /\ now \in Nat /\ now < Stores!Never /\ until[k] \in Nat
      /\ storeKind \in {"map", "memory", "redis", "mongo", "mysql"}
  <2>1. Stores!Never \in Nat /\ now \in Nat /\ now < Stores!Never
    BY NeverComes, StoreBounds DEF StoreInv
  <2>2. e.due \in 0 .. Stores!Never /\ until[k] \in 0 .. Stores!Never
    BY DEF StoreInv, Stores!StoresTypeOK
  <2>. QED  BY <2>1, <2>2, NeverComes DEF StoreInv
<1>3. CASE storeKind = "map"
  BY <1>1, <1>2, <1>3 DEF Agrees, Gone, Stores!Get, Stores!Live, Stores!MapLive, Stores!Reads
<1>4. CASE storeKind = "memory"
  BY <1>1, <1>2, <1>4 DEF Agrees, Gone, Stores!Get, Stores!Live, Stores!MemoryLive, Stores!Reads
<1>5. CASE storeKind = "redis"
  BY <1>1, <1>2, <1>5 DEF Agrees, Gone, Stores!Get, Stores!Live, Stores!RedisLive, Stores!Reads
<1>6. CASE storeKind = "mongo"
  BY <1>1, <1>2, <1>6 DEF Agrees, Gone, Stores!Get, Stores!Live, Stores!MongoLive, Stores!Reads
<1>7. CASE storeKind = "mysql"
  BY <1>1, <1>2, <1>7 DEF Agrees, Gone, Stores!Get, Stores!Live, Stores!MySQLLive, Stores!Reads
<1>. QED  BY <1>2, <1>3, <1>4, <1>5, <1>6, <1>7

-----------------------------------------------------------------------------
(* Results and their compression.                                          *)

Boxed(h) == {inbox[h][i] : i \in 1..Len(inbox[h])}
\* The results a coordinator has counted.
Counted(h) == handledBy[h] \union (IF hubAt[h] \in {"pack", "plain"} THEN {Head(inbox[h])} ELSE {})

\* A coordinator has each published result once, in its inbox or behind it.
BoxInv ==
  /\ inbox \in [Hubs -> Seq(Runs)]
  /\ \A h \in Hubs :
       /\ \A i, j \in 1..Len(inbox[h]) : inbox[h][i] = inbox[h][j] => i = j
       /\ \A i \in 1..Len(inbox[h]) : /\ runAt[inbox[h][i]] = "published"
                                      /\ inbox[h][i] \notin handledBy[h]
       /\ \A r \in handledBy[h] : runAt[r] = "published"
       /\ hubAt[h] # "idle" => inbox[h] # <<>>
\* What was over is over.
OlderInv == \A r, s \in Runs : s \in older[r] => Results!Over(s)
CountInv == sums \in [Hubs -> Nat] /\ \A h \in Hubs : sums[h] <= Cardinality(Counted(h))
ResultFieldsOK ==
  /\ okRun \subseteq Runs /\ smallRun \subseteq Runs
  /\ runAt \in [Runs -> {"running", "stored", "published", "lost"}]
  /\ value \in [form : Results!Packed \union {"absent", "json"}, run : Runs \union {Results!NoRun}]
  /\ handledBy \in [Hubs -> SUBSET Runs]
  /\ meta \in Results!Packed \union {"absent"}
  /\ hubAt \in [Hubs -> {"idle", "store", "chain", "pack", "plain"}]
  /\ packer \in [Hubs -> Results!Packed]
  /\ readerDead \in BOOLEAN
  /\ older \in [Runs -> SUBSET Runs]
  /\ resultFaults \in 0..MaxResultFaults
ResultInv == ResultFieldsOK /\ BoxInv /\ OlderInv /\ CountInv /\ Results!NotOverwritten

LEMMA ResultsInitially == Results!ResultsInit => ResultInv
<1> SUFFICES ASSUME Results!ResultsInit PROVE ResultInv
  OBVIOUS
<1>1. ResultFieldsOK
  <2>1. /\ runAt \in [Runs -> {"running", "stored", "published", "lost"}]
        /\ handledBy \in [Hubs -> SUBSET Runs] /\ older \in [Runs -> SUBSET Runs]
        /\ hubAt \in [Hubs -> {"idle", "store", "chain", "pack", "plain"}]
    BY DEF Results!ResultsInit
  <2>2. packer \in [Hubs -> Results!Packed] /\ meta \in Results!Packed \union {"absent"}
    BY DEF Results!ResultsInit, Results!Packed, Results!ZstdForms
  <2>3. value \in [form : Results!Packed \union {"absent", "json"}, run : Runs \union {Results!NoRun}]
    BY DEF Results!ResultsInit, Results!Absent
  <2>4. resultFaults \in 0..MaxResultFaults
    BY ResultBounds DEF Results!ResultsInit
  <2>5. readerDead \in BOOLEAN
    BY DEF Results!ResultsInit
  <2>. QED  BY <2>1, <2>2, <2>3, <2>4, <2>5 DEF Results!ResultsInit, ResultFieldsOK
<1>2. BoxInv
  <2>1. \A h \in Hubs : inbox[h] = <<>> /\ hubAt[h] = "idle" /\ handledBy[h] = {}
    BY DEF Results!ResultsInit
  <2>2. inbox \in [Hubs -> Seq(Runs)]
    BY EmptySeq DEF Results!ResultsInit
  <2>. QED  BY <2>1, <2>2, EmptySeq DEF BoxInv
<1>3. CountInv
  <2>1. \A h \in Hubs : Counted(h) = {} /\ sums[h] = 0
    BY DEF Results!ResultsInit, Counted
  <2>2. \A h \in Hubs : Cardinality(Counted(h)) = 0
    BY <2>1, FS_EmptySet
  <2>. QED  BY <2>1, <2>2 DEF Results!ResultsInit, CountInv
<1>4. OlderInv /\ Results!NotOverwritten
  BY DEF Results!ResultsInit, OlderInv, Results!NotOverwritten
<1>. QED  BY <1>1, <1>2, <1>3, <1>4 DEF ResultInv

LEMMA ResultFaultTyped ==
  ASSUME ResultFieldsOK, Results!Fault \/ resultFaults' = resultFaults
  PROVE  resultFaults' \in 0..MaxResultFaults
BY ResultBounds DEF ResultFieldsOK, Results!Fault

LEMMA CountedFinite ==
  ASSUME ResultFieldsOK, BoxInv, NEW h \in Hubs
  PROVE  /\ Counted(h) \in SUBSET Runs /\ IsFiniteSet(Counted(h))
         /\ Cardinality(Counted(h)) \in Nat /\ Cardinality(Counted(h)) <= Cardinality(Runs)
         /\ Cardinality(Runs) \in Nat
<1>1. hubAt[h] \in {"pack", "plain"} => Head(inbox[h]) \in Runs
  BY HeadTailProperties DEF BoxInv
<1>2. Counted(h) \in SUBSET Runs
  BY <1>1 DEF Counted, ResultFieldsOK
<1>. QED  BY <1>2, ResultBounds, FS_Subset, FS_CardinalityType

\* A run that is over has left every inbox, and nobody is to store it.
LEMMA OverIsOut ==
  ASSUME ResultFieldsOK, BoxInv, NEW s \in Runs, Results!Over(s)
  PROVE  /\ runAt[s] \in {"lost", "published"}
         /\ \A h \in Hubs : \A i \in 1..Len(inbox[h]) : inbox[h][i] # s
BY DEF Results!Over, BoxInv

\* A step that writes the result of one run at most, and of none that is over.
LEMMA NotBack ==
  ASSUME ResultInv, older' = older,
         value' = value \/ \E form : \E r \in Runs : Results!Written(form, r) /\ ~Results!Over(r),
         \A r \in Runs : runAt'[r] \in {"stored", "published"}
           => runAt[r] \in {"stored", "published"}
  PROVE  Results!NotOverwritten'
<1> SUFFICES ASSUME NEW r \in Runs, NEW s \in Runs, s \in older[r],
                    runAt'[r] \in {"stored", "published"}
             PROVE  value'.run # s
  BY DEF Results!NotOverwritten
<1>1. Results!Over(s) /\ value.run # s
  BY DEF ResultInv, OlderInv, Results!NotOverwritten
<1>. QED  BY <1>1 DEF Results!Written

LEMMA OlderKept ==
  ASSUME ResultInv, older' = older,
         \A r \in Runs : Results!Over(r) => Results!Over(r)'
  PROVE  OlderInv'
BY DEF ResultInv, OlderInv

LEMMA NodeResults == ASSUME ResultInv, NEW q \in Runs, Results!StoreResult(q) PROVE ResultInv'
<1>1. /\ runAt[q] = "running" /\ older' = [older EXCEPT ![q] = {s \in Runs : Results!Over(s)}]
      /\ UNCHANGED <<okRun, smallRun, meta, inbox, hubAt, handledBy, packer, sums, readerDead>>
      /\ \/ /\ value' = [form |-> "json", run |-> q] /\ runAt' = [runAt EXCEPT ![q] = "stored"]
            /\ resultFaults' = resultFaults
         \/ /\ Results!Fault /\ runAt' = [runAt EXCEPT ![q] = "lost"]
            /\ value' = value \/ value' = [form |-> "json", run |-> q]
  BY DEF Results!StoreResult, Results!Written, Results!given, Results!listening
<1>2. ResultFieldsOK'
  <2>1. /\ runAt' \in [Runs -> {"running", "stored", "published", "lost"}]
        /\ older' \in [Runs -> SUBSET Runs]
    BY <1>1 DEF ResultInv, ResultFieldsOK
  <2>2. value' \in [form : Results!Packed \union {"absent", "json"}, run : Runs \union {Results!NoRun}]
    BY <1>1 DEF ResultInv, ResultFieldsOK
  <2>3. resultFaults' \in 0..MaxResultFaults
    BY <1>1, ResultFaultTyped DEF ResultInv
  <2>. QED  BY <1>1, <2>1, <2>2, <2>3 DEF ResultInv, ResultFieldsOK
<1>3. \A s \in Runs : /\ s # q => runAt'[s] = runAt[s] /\ older'[s] = older[s]
                      /\ s = q => runAt'[s] \in {"stored", "lost"}
                      /\ runAt[s] # "running" => s # q
  BY <1>1 DEF ResultInv, ResultFieldsOK
<1>4. \A s \in Runs : Results!Over(s) => s # q /\ Results!Over(s)'
  BY <1>1, <1>3 DEF Results!Over
<1>5. BoxInv'
  <2>1. \A h \in Hubs : handledBy[h] \subseteq Runs /\ inbox[h] \in Seq(Runs)
    BY DEF ResultInv, ResultFieldsOK, BoxInv
  <2>2. \A h \in Hubs : \A i \in 1..Len(inbox[h]) : inbox[h][i] \in Runs
    BY <2>1, ElementOfSeq
  <2>3. \A h \in Hubs : \A i \in 1..Len(inbox[h]) : runAt'[inbox[h][i]] = "published"
    BY <1>1, <1>3, <2>2 DEF ResultInv, BoxInv
  <2>4. \A h \in Hubs : \A r \in handledBy[h] : runAt'[r] = "published"
    BY <1>1, <1>3, <2>1 DEF ResultInv, BoxInv
  <2>. QED  BY <1>1, <2>3, <2>4 DEF ResultInv, BoxInv
<1>6. OlderInv'
  <2>1. older'[q] = {s \in Runs : Results!Over(s)}
    BY <1>1 DEF ResultInv, ResultFieldsOK
  <2> SUFFICES ASSUME NEW r \in Runs, NEW s \in Runs, s \in older'[r] PROVE Results!Over(s)'
    BY DEF OlderInv
  <2>2. Results!Over(s)
    BY <1>3, <2>1 DEF ResultInv, OlderInv
  <2>. QED  BY <1>4, <2>2
<1>7. CountInv'
  BY <1>1 DEF ResultInv, CountInv, Counted
<1>8. Results!NotOverwritten'
  <2>1. older'[q] = {s \in Runs : Results!Over(s)}
    BY <1>1 DEF ResultInv, ResultFieldsOK
  <2> SUFFICES ASSUME NEW r \in Runs, NEW s \in Runs, s \in older'[r],
                      runAt'[r] \in {"stored", "published"}
               PROVE  value'.run # s
    BY DEF Results!NotOverwritten
  <2>2. s # q
    BY <1>3, <1>4, <2>1 DEF ResultInv, OlderInv
  <2>3. CASE r = q
    BY <1>1, <2>2, <2>3 DEF ResultInv, ResultFieldsOK
  <2>4. CASE r # q
    <3>1. value.run # s
      BY <1>3, <2>4 DEF ResultInv, Results!NotOverwritten
    <3>. QED  BY <1>1, <2>2, <3>1
  <2>. QED  BY <2>3, <2>4
<1>. QED  BY <1>2, <1>5, <1>6, <1>7, <1>8 DEF ResultInv

LEMMA PublishResults == ASSUME ResultInv, NEW q \in Runs, Results!Publish(q) PROVE ResultInv'
<1>1. /\ runAt[q] = "stored" /\ UNCHANGED <<okRun, smallRun, value, meta, hubAt, handledBy, packer,
                                             sums, readerDead, older>>
      /\ \/ /\ inbox' = [h \in Hubs |-> Append(inbox[h], q)]
            /\ resultFaults' = resultFaults /\ runAt' = [runAt EXCEPT ![q] = "published"]
         \/ Results!Fault /\ inbox' = inbox /\ runAt' = [runAt EXCEPT ![q] = "lost"]
  BY DEF Results!Publish, Results!given
<1>2. ResultFieldsOK'
  <2>1. runAt' \in [Runs -> {"running", "stored", "published", "lost"}]
    BY <1>1 DEF ResultInv, ResultFieldsOK
  <2>2. resultFaults' \in 0..MaxResultFaults
    BY <1>1, ResultFaultTyped DEF ResultInv
  <2>. QED  BY <1>1, <2>1, <2>2 DEF ResultInv, ResultFieldsOK
<1>3. \A s \in Runs : /\ s # q => runAt'[s] = runAt[s]
                      /\ s = q => runAt'[s] \in {"published", "lost"}
                      /\ runAt[s] # "stored" => s # q
  BY <1>1 DEF ResultInv, ResultFieldsOK
<1>4. \A s \in Runs : Results!Over(s) => s # q /\ Results!Over(s)'
  BY <1>1, <1>3 DEF Results!Over
<1>5. \A h \in Hubs : /\ handledBy[h] \subseteq Runs /\ inbox[h] \in Seq(Runs)
        /\ q \notin handledBy[h]
                      /\ \A i \in 1..Len(inbox[h]) : inbox[h][i] \in Runs /\ inbox[h][i] # q
  <2>1. \A h \in Hubs : handledBy[h] \subseteq Runs /\ inbox[h] \in Seq(Runs)
    BY DEF ResultInv, ResultFieldsOK, BoxInv
  <2>. QED  BY <1>1, <2>1, ElementOfSeq DEF ResultInv, BoxInv
<1>6. BoxInv'
  <2>1. CASE inbox' = inbox
    BY <1>1, <1>3, <1>5, <2>1 DEF ResultInv, BoxInv
  <2>2. CASE inbox' = [h \in Hubs |-> Append(inbox[h], q)] /\ runAt'[q] = "published"
    <3>1. \A h \in Hubs :
            /\ inbox'[h] \in Seq(Runs) /\ inbox'[h] # <<>>
            /\ Len(inbox'[h]) = Len(inbox[h]) + 1 /\ Len(inbox[h]) \in Nat
            /\ \A i \in 1..Len(inbox[h]) : inbox'[h][i] = inbox[h][i]
            /\ inbox'[h][Len(inbox[h]) + 1] = q
      BY <1>5, <2>2, AppendProperties, LenProperties
    <3>2. inbox' \in [Hubs -> Seq(Runs)]
      BY <2>2, <3>1
    <3> SUFFICES ASSUME NEW h \in Hubs
                 PROVE  /\ \A i, j \in 1..Len(inbox'[h]) : inbox'[h][i] = inbox'[h][j] => i = j
                        /\ \A i \in 1..Len(inbox'[h]) : /\ runAt'[inbox'[h][i]] = "published"
                                                        /\ inbox'[h][i] \notin handledBy'[h]
                        /\ \A r \in handledBy'[h] : runAt'[r] = "published"
                        /\ hubAt'[h] # "idle" => inbox'[h] # <<>>
      BY <3>2 DEF BoxInv
    <3>3. \A i \in 1..Len(inbox'[h]) : i \in 1..Len(inbox[h]) \/ i = Len(inbox[h]) + 1
      BY <3>1
    <3>4. \A i, j \in 1..Len(inbox'[h]) : inbox'[h][i] = inbox'[h][j] => i = j
      <4>1. \A i, j \in 1..Len(inbox[h]) : inbox[h][i] = inbox[h][j] => i = j
        BY DEF ResultInv, BoxInv
      <4>2. /\ \A i \in 1..Len(inbox[h]) : inbox'[h][i] = inbox[h][i] /\ inbox[h][i] # q
            /\ inbox'[h][Len(inbox[h]) + 1] = q
        BY <1>5, <3>1
      <4>. QED  BY <3>3, <4>1, <4>2
    <3>5. \A i \in 1..Len(inbox'[h]) : runAt'[inbox'[h][i]] = "published"
            /\ inbox'[h][i] \notin handledBy[h]
      <4>1. \A i \in 1..Len(inbox[h]) : /\ runAt[inbox[h][i]] = "published"
                                         /\ inbox[h][i] \notin handledBy[h]
        BY DEF ResultInv, BoxInv
      <4>2. /\ \A i \in 1..Len(inbox[h]) : inbox'[h][i] = inbox[h][i] /\ inbox[h][i] # q
            /\ \A i \in 1..Len(inbox[h]) : inbox[h][i] \in Runs
            /\ inbox'[h][Len(inbox[h]) + 1] = q /\ q \notin handledBy[h]
        BY <1>5, <3>1
      <4>3. \A i \in 1..Len(inbox[h]) : runAt'[inbox[h][i]] = "published"
        BY <1>3, <4>1, <4>2
      <4>. QED  BY <2>2, <3>3, <4>1, <4>2, <4>3
    <3>6. \A r \in handledBy[h] : runAt'[r] = "published"
      BY <1>3, <1>5 DEF ResultInv, BoxInv
    <3>. QED  BY <1>1, <3>1, <3>4, <3>5, <3>6
  <2>3. runAt' = [runAt EXCEPT ![q] = "published"] => runAt'[q] = "published"
    BY DEF ResultInv, ResultFieldsOK
  <2>. QED  BY <1>1, <2>1, <2>2, <2>3
<1>7. OlderInv'
  BY <1>1, <1>4, OlderKept
<1>8. CountInv'
  <2>1. \A h \in Hubs : hubAt[h] \in {"pack", "plain"} => Head(inbox'[h]) = Head(inbox[h])
    <3> SUFFICES ASSUME NEW h \in Hubs, hubAt[h] \in {"pack", "plain"}
                 PROVE  Head(inbox'[h]) = Head(inbox[h])
      OBVIOUS
    <3>1. inbox[h] \in Seq(Runs) /\ inbox[h] # <<>>
      BY DEF ResultInv, BoxInv
    <3>2. inbox'[h] = inbox[h] \/ inbox'[h] = Append(inbox[h], q)
      BY <1>1
    <3>. QED  BY <3>1, <3>2
  <2>2. \A h \in Hubs : Counted(h)' = Counted(h)
    BY <1>1, <2>1 DEF Counted
  <2>. QED  BY <1>1, <2>2 DEF ResultInv, CountInv
<1>9. Results!NotOverwritten'
  <2>1. \A r \in Runs : runAt'[r] \in {"stored", "published"}
          => runAt[r] \in {"stored", "published"}
    BY <1>1, <1>3
  <2>. QED  BY <1>1, <2>1, NotBack
<1>. QED  BY <1>2, <1>6, <1>7, <1>8, <1>9 DEF ResultInv

\* A coordinator that goes on with the result at the head of its inbox.
LEMMA HubGoesOn ==
  ASSUME ResultInv, NEW h \in Hubs, inbox[h] # <<>>,
         NEW l \in {"store", "chain", "pack", "plain"}, Results!Continues(h, l),
         UNCHANGED <<okRun, smallRun, runAt, older, readerDead>>,
         ResultFieldsOK', CountInv',
         value' = value \/ \E form : Results!Written(form, Head(inbox[h]))
  PROVE  ResultInv'
<1>1. UNCHANGED <<inbox, handledBy>> /\ hubAt' = [hubAt EXCEPT ![h] = l]
  BY DEF Results!Continues, Results!Goto
<1>2. BoxInv'
  <2>1. \A k \in Hubs : k = h \/ hubAt'[k] = hubAt[k]
    BY <1>1 DEF ResultInv, ResultFieldsOK
  <2>. QED  BY <1>1, <2>1 DEF ResultInv, BoxInv
<1>3. Head(inbox[h]) \in Runs /\ ~Results!Over(Head(inbox[h]))
  <2>1. inbox[h] \in Seq(Runs)
    BY DEF ResultInv, BoxInv
  <2>2. Head(inbox[h]) = inbox[h][1] /\ 1 \in 1..Len(inbox[h]) /\ Head(inbox[h]) \in Runs
    BY <2>1
  <2>. QED  BY <2>2, OverIsOut DEF ResultInv
<1>4. OlderInv'
  BY <1>1 DEF ResultInv, OlderInv, Results!Over
<1>5. Results!NotOverwritten'
  BY <1>3, NotBack
<1>. QED  BY <1>2, <1>4, <1>5 DEF ResultInv

\* It is done with it.
LEMMA HubFinished ==
  ASSUME ResultInv, NEW h \in Hubs, inbox[h] # <<>>, Results!Finished(h),
         UNCHANGED <<okRun, smallRun, runAt, older, sums>>, ResultFieldsOK',
         value' = value \/ \E form : Results!Written(form, Head(inbox[h]))
  PROVE  ResultInv'
<1> DEFINE r == inbox[h][1]
<1>1. /\ hubAt' = [hubAt EXCEPT ![h] = "idle"] /\ inbox' = [inbox EXCEPT ![h] = Tail(@)]
      /\ handledBy' = [handledBy EXCEPT ![h] = @ \union {Head(inbox[h])}]
  BY DEF Results!Finished, Results!Goto, Results!Leaves
<1>2. /\ inbox[h] \in Seq(Runs) /\ Head(inbox[h]) = r /\ r \in Runs /\ 1 \in 1..Len(inbox[h])
      /\ Tail(inbox[h]) \in Seq(Runs) /\ Len(Tail(inbox[h])) = Len(inbox[h]) - 1
      /\ \A i \in 1..Len(Tail(inbox[h])) : Tail(inbox[h])[i] = inbox[h][i + 1]
           /\ i + 1 \in 1..Len(inbox[h])
  <2>1. inbox[h] \in Seq(Runs)
    BY DEF ResultInv, BoxInv
  <2>. QED  BY <2>1
<1>3. ~Results!Over(r) /\ runAt[r] = "published" /\ r \notin handledBy[h]
  BY <1>2, OverIsOut DEF ResultInv, BoxInv
<1>4. /\ inbox'[h] = Tail(inbox[h]) /\ handledBy'[h] = handledBy[h] \union {r} /\ hubAt'[h] = "idle"
      /\ \A k \in Hubs : k # h => inbox'[k] = inbox[k] /\ handledBy'[k] = handledBy[k]
           /\ hubAt'[k] = hubAt[k]
      /\ inbox' \in [Hubs -> Seq(Runs)]
  BY <1>1, <1>2 DEF ResultInv, ResultFieldsOK, BoxInv
<1>5. BoxInv'
  <2> SUFFICES ASSUME NEW k \in Hubs
               PROVE  /\ \A i, j \in 1..Len(inbox'[k]) : inbox'[k][i] = inbox'[k][j] => i = j
                      /\ \A i \in 1..Len(inbox'[k]) : /\ runAt[inbox'[k][i]] = "published"
                                                      /\ inbox'[k][i] \notin handledBy'[k]
                      /\ \A q \in handledBy'[k] : runAt[q] = "published"
                      /\ hubAt'[k] # "idle" => inbox'[k] # <<>>
    BY <1>4 DEF BoxInv
  <2>1. CASE k # h
    <3>1. /\ \A i, j \in 1..Len(inbox[k]) : inbox[k][i] = inbox[k][j] => i = j
          /\ \A i \in 1..Len(inbox[k]) : runAt[inbox[k][i]] = "published"
               /\ inbox[k][i] \notin handledBy[k]
          /\ \A q \in handledBy[k] : runAt[q] = "published"
          /\ hubAt[k] # "idle" => inbox[k] # <<>>
      BY DEF ResultInv, BoxInv
    <3>2. inbox'[k] = inbox[k] /\ handledBy'[k] = handledBy[k] /\ hubAt'[k] = hubAt[k]
      BY <1>4, <2>1
    <3>. QED  BY <3>1, <3>2
  <2>2. CASE k = h
    <3>1. /\ \A i, j \in 1..Len(inbox[h]) : inbox[h][i] = inbox[h][j] => i = j
          /\ \A i \in 1..Len(inbox[h]) : runAt[inbox[h][i]] = "published"
               /\ inbox[h][i] \notin handledBy[h]
          /\ \A q \in handledBy[h] : runAt[q] = "published"
      BY DEF ResultInv, BoxInv
    <3>2. Len(inbox[h]) \in Nat
      BY <1>2
    <3>3. \A i \in 1..Len(Tail(inbox[h])) : Tail(inbox[h])[i] # r
      BY <1>2, <3>1, <3>2
    <3>4. \A i, j \in 1..Len(Tail(inbox[h])) : Tail(inbox[h])[i] = Tail(inbox[h])[j] => i = j
      <4> SUFFICES ASSUME NEW i \in 1..Len(Tail(inbox[h])), NEW j \in 1..Len(Tail(inbox[h])),
                          Tail(inbox[h])[i] = Tail(inbox[h])[j]
                   PROVE  i = j
        OBVIOUS
      <4>1. i + 1 = j + 1
        BY <1>2, <3>1
      <4>. QED  BY <4>1
    <3>5. \A i \in 1..Len(Tail(inbox[h])) :
            runAt[Tail(inbox[h])[i]] = "published" /\ Tail(inbox[h])[i] \notin handledBy[h]
      BY <1>2, <3>1
    <3>6. inbox'[k] = Tail(inbox[h]) /\ handledBy'[k] = handledBy[h] \union {r}
            /\ hubAt'[k] = "idle"
      BY <1>4, <2>2
    <3>. QED  BY <1>3, <3>1, <3>3, <3>4, <3>5, <3>6
  <2>. QED  BY <2>1, <2>2
<1>6. \A s \in Runs : Results!Over(s) => Results!Over(s)'
  <2>1. \A k \in Hubs : handledBy[k] \subseteq handledBy'[k]
    BY <1>4
  <2>. QED  BY <2>1 DEF Results!Over
<1>7. OlderInv'
  BY <1>6, OlderKept
<1>8. CountInv'
  <2>1. \A k \in Hubs : k # h => Counted(k)' = Counted(k)
    BY <1>4 DEF Counted
  <2>2. Counted(h)' = handledBy[h] \union {r} /\ Counted(h) \subseteq Counted(h)'
    BY <1>2, <1>4 DEF Counted
  <2>3. /\ IsFiniteSet(Counted(h)') /\ Counted(h)' \in SUBSET Runs
    <3>1. Counted(h)' \in SUBSET Runs
      BY <1>2, <2>2 DEF ResultInv, ResultFieldsOK
    <3>. QED  BY <3>1, ResultBounds, FS_Subset
  <2>4. /\ Cardinality(Counted(h)) <= Cardinality(Counted(h)')
        /\ Cardinality(Counted(h)) \in Nat /\ Cardinality(Counted(h)') \in Nat
    BY <2>2, <2>3, FS_Subset, FS_CardinalityType, CountedFinite DEF ResultInv
  <2>5. sums \in [Hubs -> Nat] /\ sums' = sums /\ \A k \in Hubs : sums[k] <= Cardinality(Counted(k))
    BY DEF ResultInv, CountInv
  <2>6. \A k \in Hubs : sums[k] <= Cardinality(Counted(k)')
    <3> SUFFICES ASSUME NEW k \in Hubs PROVE sums[k] <= Cardinality(Counted(k)')
      OBVIOUS
    <3>1. CASE k # h
      <4>1. Cardinality(Counted(k)') = Cardinality(Counted(k))
        BY <2>1, <3>1, Zenon
      <4>. QED  BY <2>5, <4>1
    <3>2. CASE k = h
      BY <2>4, <2>5, <3>2
    <3>. QED  BY <3>1, <3>2
  <2>. QED  BY <2>5, <2>6 DEF CountInv
<1>9. Results!NotOverwritten'
  <2>1. value' = value \/ \E form : \E q \in Runs : Results!Written(form, q) /\ ~Results!Over(q)
    BY <1>2, <1>3
  <2>. QED  BY <2>1, NotBack
<1>. QED  BY <1>5, <1>7, <1>8, <1>9 DEF ResultInv

\* The coordinator's steps keep what they do not write.
LEMMA SameCounts ==
  ASSUME ResultInv, NEW h \in Hubs, sums' = sums, UNCHANGED <<inbox, handledBy>>,
         hubAt' = [hubAt EXCEPT ![h] = "store"] \/ hubAt' = [hubAt EXCEPT ![h] = "chain"]
         \/ hubAt' = [hubAt EXCEPT ![h] = "plain"],
         hubAt[h] \notin {"pack", "plain"}
           \/ (hubAt[h] = "pack" /\ hubAt' = [hubAt EXCEPT ![h] = "plain"]),
         hubAt[h] # "pack" => hubAt' # [hubAt EXCEPT ![h] = "plain"]
  PROVE  CountInv'
<1>1. \A k \in Hubs : k # h => Counted(k)' = Counted(k)
  BY DEF Counted, ResultInv, ResultFieldsOK
<1>2. Counted(h)' = Counted(h)
  BY DEF Counted, ResultInv, ResultFieldsOK
<1>3. \A k \in Hubs : Cardinality(Counted(k)') = Cardinality(Counted(k))
  BY <1>1, <1>2, Zenon
<1>. QED  BY <1>3 DEF ResultInv, CountInv

LEMMA BeginResults == ASSUME ResultInv, NEW h \in Hubs, Results!Begin(h) PROVE ResultInv'
<1>1. /\ hubAt[h] = "idle" /\ inbox[h] # <<>>
      /\ UNCHANGED <<okRun, smallRun, runAt, value, meta, packer, sums, readerDead, older,
                     resultFaults>>
      /\ Results!Continues(h, "store") \/ Results!Finished(h)
  BY DEF Results!Begin, Results!given
<1>2. inbox[h] \in Seq(Runs) /\ Head(inbox[h]) \in Runs
  <2>1. inbox[h] \in Seq(Runs)
    BY DEF ResultInv, BoxInv
  <2>. QED  BY <1>1, <2>1
<1>3. ResultFieldsOK'
  <2>1. hubAt' \in [Hubs -> {"idle", "store", "chain", "pack", "plain"}]
          /\ handledBy' \in [Hubs -> SUBSET Runs]
    BY <1>1, <1>2 DEF ResultInv, ResultFieldsOK, Results!Continues, Results!Finished, Results!Goto
  <2>. QED  BY <1>1, <2>1 DEF ResultInv, ResultFieldsOK
<1>4. CASE Results!Continues(h, "store")
  <2>1. CountInv'
    <3>1. hubAt' = [hubAt EXCEPT ![h] = "store"] /\ UNCHANGED <<inbox, handledBy>>
      BY <1>4 DEF Results!Continues, Results!Goto
    <3>2. hubAt' # [hubAt EXCEPT ![h] = "plain"]
      BY <3>1 DEF ResultInv, ResultFieldsOK
    <3>. QED  BY <1>1, <3>1, <3>2, SameCounts
  <2>. QED  BY <1>1, <1>3, <1>4, <2>1, HubGoesOn
<1>5. CASE Results!Finished(h)
  BY <1>1, <1>3, <1>5, HubFinished
<1>. QED  BY <1>1, <1>4, <1>5

LEMMA SetJSONTyped ==
  ASSUME ResultFieldsOK, NEW r \in Runs, Results!SetJSON(r)
  PROVE  /\ value' \in [form : Results!Packed \union {"absent", "json"}, run : Runs \union {Results!NoRun}]
         /\ resultFaults' \in 0..MaxResultFaults
         /\ value' = value \/ \E form : Results!Written(form, r)
<1>1. (value' = value \/ Results!Written("json", r))
        /\ (Results!Fault \/ resultFaults' = resultFaults)
  BY DEF Results!SetJSON
<1>. QED  BY <1>1, ResultFaultTyped DEF ResultFieldsOK, Results!Written

LEMMA StoreResults == ASSUME ResultInv, NEW h \in Hubs,
                             Results!StoreAgain(h) \/ Results!StorePlain(h)
                      PROVE  ResultInv'
<1>1. /\ hubAt[h] \in {"store", "plain"} /\ Results!SetJSON(Head(inbox[h]))
      /\ UNCHANGED <<okRun, smallRun, runAt, meta, packer, sums, readerDead, older>>
      /\ \/ hubAt[h] = "store" /\ Results!Continues(h, "chain")
         \/ Results!Finished(h)
  BY DEF Results!StoreAgain, Results!StorePlain, Results!given
<1>2. inbox[h] # <<>> /\ inbox[h] \in Seq(Runs) /\ Head(inbox[h]) \in Runs
  <2>1. inbox[h] \in Seq(Runs) /\ inbox[h] # <<>>
    BY <1>1 DEF ResultInv, BoxInv
  <2>. QED  BY <2>1
<1>3. ResultFieldsOK' /\ (value' = value \/ \E form : Results!Written(form, Head(inbox[h])))
  <2>1. hubAt' \in [Hubs -> {"idle", "store", "chain", "pack", "plain"}]
          /\ handledBy' \in [Hubs -> SUBSET Runs]
    BY <1>1, <1>2 DEF ResultInv, ResultFieldsOK, Results!Continues, Results!Finished, Results!Goto
  <2>. QED  BY <1>1, <1>2, <2>1, SetJSONTyped DEF ResultInv, ResultFieldsOK
<1>4. CASE hubAt[h] = "store" /\ Results!Continues(h, "chain")
  <2>1. CountInv'
    <3>1. hubAt' = [hubAt EXCEPT ![h] = "chain"] /\ UNCHANGED <<inbox, handledBy>>
      BY <1>4 DEF Results!Continues, Results!Goto
    <3>2. hubAt' # [hubAt EXCEPT ![h] = "plain"]
      BY <3>1 DEF ResultInv, ResultFieldsOK
    <3>. QED  BY <1>1, <1>4, <3>1, <3>2, SameCounts
  <2>. QED  BY <1>1, <1>2, <1>3, <1>4, <2>1, HubGoesOn
<1>5. CASE Results!Finished(h)
  BY <1>1, <1>2, <1>3, <1>5, HubFinished
<1>. QED  BY <1>1, <1>4, <1>5

LEMMA ChainResults == ASSUME ResultInv, NEW h \in Hubs, Results!Chain(h) PROVE ResultInv'
<1>1. /\ hubAt[h] = "chain" /\ sums' = [sums EXCEPT ![h] = @ + 1] /\ Results!Continues(h, "pack")
      /\ packer' = packer \/ \E t \in BestForms : packer' = [packer EXCEPT ![h] = t]
      /\ UNCHANGED <<okRun, smallRun, runAt, value, meta, readerDead, older, resultFaults>>
  BY DEF Results!Chain, Results!given
<1>2. hubAt' = [hubAt EXCEPT ![h] = "pack"] /\ UNCHANGED <<inbox, handledBy>>
  BY <1>1 DEF Results!Continues, Results!Goto
<1>3. /\ inbox[h] # <<>> /\ inbox[h] \in Seq(Runs) /\ Head(inbox[h]) \in Runs
      /\ Head(inbox[h]) \notin handledBy[h]
  <2>1. inbox[h] \in Seq(Runs) /\ inbox[h] # <<>>
    BY <1>1 DEF ResultInv, BoxInv
  <2>2. Head(inbox[h]) = inbox[h][1] /\ 1 \in 1..Len(inbox[h]) /\ Head(inbox[h]) \in Runs
    BY <2>1
  <2>. QED  BY <2>1, <2>2 DEF ResultInv, BoxInv
<1>4. ResultFieldsOK'
  <2>1. packer' \in [Hubs -> Results!Packed]
    BY <1>1, ResultBounds DEF ResultInv, ResultFieldsOK
  <2>2. hubAt' \in [Hubs -> {"idle", "store", "chain", "pack", "plain"}]
    BY <1>2 DEF ResultInv, ResultFieldsOK
  <2>. QED  BY <1>1, <1>2, <2>1, <2>2 DEF ResultInv, ResultFieldsOK
<1>5. CountInv'
  <2>1. \A k \in Hubs : k # h => Counted(k)' = Counted(k)
    BY <1>2 DEF Counted, ResultInv, ResultFieldsOK
  <2>2. Counted(h) = handledBy[h] /\ Counted(h)' = handledBy[h] \union {Head(inbox[h])}
    BY <1>1, <1>2 DEF Counted, ResultInv, ResultFieldsOK
  <2>3. IsFiniteSet(Counted(h)) /\ Cardinality(Counted(h)) \in Nat
    BY CountedFinite DEF ResultInv
  <2>4. Cardinality(Counted(h)') = Cardinality(Counted(h)) + 1
    <3>1. Head(inbox[h]) \notin Counted(h) /\ Counted(h)' = Counted(h) \union {Head(inbox[h])}
      BY <1>3, <2>2
    <3>. QED  BY <2>3, <3>1, FS_AddElement
  <2>5. sums \in [Hubs -> Nat] /\ \A k \in Hubs : sums[k] <= Cardinality(Counted(k))
    BY DEF ResultInv, CountInv
  <2>6. \A k \in Hubs : sums'[k] <= Cardinality(Counted(k)')
    <3> SUFFICES ASSUME NEW k \in Hubs PROVE sums'[k] <= Cardinality(Counted(k)')
      OBVIOUS
    <3>1. CASE k # h
      <4>1. Cardinality(Counted(k)') = Cardinality(Counted(k))
        BY <2>1, <3>1, Zenon
      <4>2. sums'[k] = sums[k]
        BY <1>1, <2>5, <3>1
      <4>. QED  BY <2>5, <4>1, <4>2
    <3>2. CASE k = h
      <4>1. sums'[h] = sums[h] + 1 /\ sums[h] <= Cardinality(Counted(h)) /\ sums[h] \in Nat
        BY <1>1, <2>5
      <4>. QED  BY <2>3, <2>4, <3>2, <4>1
    <3>. QED  BY <3>1, <3>2
  <2>7. sums' \in [Hubs -> Nat]
    BY <1>1, <2>5
  <2>. QED  BY <2>6, <2>7 DEF CountInv
<1>. QED  BY <1>1, <1>3, <1>4, <1>5, HubGoesOn

LEMMA PackResults == ASSUME ResultInv, NEW h \in Hubs, Results!Pack(h) PROVE ResultInv'
<1> DEFINE told == IF Head(inbox[h]) \in smallRun THEN meta ELSE packer[h]
<1>1. /\ hubAt[h] = "pack"
      /\ UNCHANGED <<okRun, smallRun, runAt, packer, sums, readerDead, older>>
      /\ Results!Finished(h) \/ Results!Continues(h, "plain")
      /\ value' = value \/ Results!Written(Results!Form(h), Head(inbox[h]))
      /\ meta' = meta \/ meta' = told
      /\ Results!Fault \/ resultFaults' = resultFaults
  BY DEF Results!Pack, Results!given
<1>2. inbox[h] # <<>> /\ inbox[h] \in Seq(Runs) /\ Head(inbox[h]) \in Runs
  <2>1. inbox[h] \in Seq(Runs) /\ inbox[h] # <<>>
    BY <1>1 DEF ResultInv, BoxInv
  <2>. QED  BY <2>1
<1>3. ResultFieldsOK'
  <2>1. hubAt' \in [Hubs -> {"idle", "store", "chain", "pack", "plain"}]
          /\ handledBy' \in [Hubs -> SUBSET Runs]
    BY <1>1, <1>2 DEF ResultInv, ResultFieldsOK, Results!Continues, Results!Finished, Results!Goto
  <2>2. packer[h] \in Results!Packed
    BY DEF ResultInv, ResultFieldsOK
  <2>3. meta' \in Results!Packed \union {"absent"}
    BY <1>1, <2>2 DEF ResultInv, ResultFieldsOK
  <2>4. value' \in [form : Results!Packed \union {"absent", "json"}, run : Runs \union {Results!NoRun}]
    BY <1>1, <1>2, <2>2 DEF ResultInv, ResultFieldsOK, Results!Written, Results!Form
  <2>5. resultFaults' \in 0..MaxResultFaults
    BY <1>1, ResultFaultTyped DEF ResultInv
  <2>. QED  BY <1>1, <2>1, <2>3, <2>4, <2>5 DEF ResultInv, ResultFieldsOK
<1>4. value' = value \/ \E form : Results!Written(form, Head(inbox[h]))
  BY <1>1
<1>5. CASE Results!Continues(h, "plain")
  <2>1. CountInv'
    <3>1. hubAt' = [hubAt EXCEPT ![h] = "plain"] /\ UNCHANGED <<inbox, handledBy>>
      BY <1>5 DEF Results!Continues, Results!Goto
    <3>. QED  BY <1>1, <3>1, SameCounts
  <2>. QED  BY <1>1, <1>2, <1>3, <1>4, <1>5, <2>1, HubGoesOn
<1>6. CASE Results!Finished(h)
  BY <1>1, <1>2, <1>3, <1>4, <1>6, HubFinished
<1>. QED  BY <1>1, <1>5, <1>6

LEMMA ResultsStep == ASSUME ResultInv, [Results!ResultsNext]_resultPart PROVE ResultInv'
<1>1. ASSUME UNCHANGED <<okRun, smallRun, runAt, value, meta, inbox, hubAt, handledBy, packer, sums,
                         older, resultFaults>>,
             readerDead' \in BOOLEAN
      PROVE  ResultInv'
  <2>1. ResultFieldsOK'
    BY <1>1 DEF ResultInv, ResultFieldsOK
  <2>2. BoxInv' /\ OlderInv' /\ Results!NotOverwritten'
    BY <1>1 DEF ResultInv, BoxInv, OlderInv, Results!Over, Results!NotOverwritten
  <2>3. CountInv'
    BY <1>1 DEF ResultInv, CountInv, Counted
  <2>. QED  BY <2>1, <2>2, <2>3 DEF ResultInv
<1>2. ASSUME NEW h \in Hubs, Results!OptimizedGet(h) PROVE ResultInv'
  <2>1. readerDead' \in BOOLEAN
    BY <1>2 DEF Results!OptimizedGet, Results!CanDecode
  <2>. QED  BY <1>1, <1>2, <2>1 DEF Results!OptimizedGet, Results!given, Results!listening
<1>3. CASE UNCHANGED resultPart
  <2>1. readerDead' \in BOOLEAN
    BY <1>3 DEF resultPart, ResultInv, ResultFieldsOK
  <2>. QED  BY <1>1, <1>3, <2>1 DEF resultPart, Results!listening
<1>. QED  BY <1>2, <1>3, NodeResults, PublishResults, BeginResults, StoreResults, ChainResults,
             PackResults DEF Results!ResultsNext, Results!Hub

LEMMA ResultsTyped == ResultInv => Results!ResultTypeOK
<1> SUFFICES ASSUME ResultInv PROVE Results!ResultTypeOK
  OBVIOUS
<1>1. sums \in [Hubs -> 0..Cardinality(Runs)]
  <2>1. \A h \in Hubs : sums[h] \in 0..Cardinality(Runs)
    BY CountedFinite DEF ResultInv, CountInv
  <2>. QED  BY <2>1 DEF ResultInv, CountInv
<1>2. inbox \in [Hubs -> UNION {[1..n -> Runs] : n \in 0..Cardinality(Runs)}]
  <2>1. ASSUME NEW h \in Hubs PROVE inbox[h] \in UNION {[1..n -> Runs] : n \in 0..Cardinality(Runs)}
    <3>1. /\ inbox[h] \in Seq(Runs) /\ Len(inbox[h]) \in Nat
               /\ inbox[h] \in [1..Len(inbox[h]) -> Runs]
          /\ \A i, j \in 1..Len(inbox[h]) : inbox[h][i] = inbox[h][j] => i = j
      BY LenProperties DEF ResultInv, BoxInv
    <3>2. inbox[h] \in Injection(1..Len(inbox[h]), Runs)
      BY <3>1 DEF Injection, IsInjective
    <3>3. Cardinality(1..Len(inbox[h])) <= Cardinality(Runs)
      BY <3>2, ResultBounds, FS_Injection
    <3>4. Cardinality(1..Len(inbox[h])) = Len(inbox[h]) /\ Cardinality(Runs) \in Nat
      <4>1. \A a, b \in Int : Cardinality(a..b) = IF a > b THEN 0 ELSE b - a + 1
        BY FS_Interval
      <4>2. Cardinality(1..Len(inbox[h])) = IF 1 > Len(inbox[h]) THEN 0 ELSE Len(inbox[h]) - 1 + 1
        BY <3>1, <4>1
      <4>3. Cardinality(1..Len(inbox[h])) = Len(inbox[h])
        BY <3>1, <4>2
      <4>. QED  BY <4>3, FS_CardinalityType, ResultBounds
    <3>5. Len(inbox[h]) \in 0..Cardinality(Runs)
      BY <3>1, <3>3, <3>4
    <3>. QED  BY <3>1, <3>5
  <2>. QED  BY <2>1 DEF ResultInv, BoxInv
<1>. QED  BY <1>1, <1>2, SameCount DEF ResultInv, ResultFieldsOK, Results!ResultTypeOK

-----------------------------------------------------------------------------
(* Documents with short names.                                             *)

LEMMA TablesInvert ==
  ASSUME NEW p \in Results!ShortNames, NEW q \in Results!ShortNames
  PROVE  /\ p[1] = q[1] => p = q
         /\ p[2] = q[2] => p = q
BY DEF Results!ShortNames

\* A key that is not a short name itself is found again.
LEMMA NameComesBack == ASSUME NEW k, ~Results!IsShort(k)
                       PROVE  Results!Expanded(Results!Compacted(k)) = k
<1>1. CASE \E p \in Results!ShortNames : p[1] = k
  <2>1. PICK p \in Results!ShortNames : p[1] = k /\ p = (CHOOSE q \in Results!ShortNames : q[1] = k)
    BY <1>1
  <2>2. Results!Compacted(k) = p[2]
    BY <1>1, <2>1 DEF Results!Compacted
  <2>3. PICK r \in Results!ShortNames : r[2] = p[2]
          /\ r = (CHOOSE q \in Results!ShortNames : q[2] = p[2])
    BY <2>1
  <2>4. Results!IsShort(p[2]) /\ Results!Expanded(p[2]) = r[1]
    BY <2>1, <2>3 DEF Results!IsShort, Results!Expanded
  <2>5. r = p
    BY <2>3, TablesInvert
  <2>. QED  BY <2>1, <2>2, <2>4, <2>5
<1>2. CASE ~ \E p \in Results!ShortNames : p[1] = k
  BY <1>2 DEF Results!Compacted, Results!Expanded
<1>. QED  BY <1>1, <1>2

Plain == \A k \in DOMAIN original : ~Results!IsShort(k)
Packs(v) == IF v = "long" THEN "packed" ELSE v
\* What is stored has the caller's keys, or their short forms, each with the value of one of
\* the caller's keys that have this form.
StoredInv ==
  stored # Results!NoDoc =>
    \/ ~marked /\ DOMAIN stored = DOMAIN original
       /\ \A k \in DOMAIN original : original[k] = "short" => stored[k] = "short"
    \/ marked /\ DOMAIN stored = {Results!Compacted(k) : k \in DOMAIN original}
       /\ \A c \in DOMAIN stored : \E j \in DOMAIN original :
            Results!Compacted(j) = c /\ stored[c] = Packs(original[j])
DocInv ==
  /\ DOMAIN original \subseteq FieldNames
  /\ marked \in BOOLEAN
  /\ StoredInv /\ Results!DocumentRestored
  /\ restored = Results!NoDoc \/ DOMAIN restored \subseteq FieldNames

LEMMA DocsInitially == Results!DocsInit => DocInv
<1> SUFFICES ASSUME Results!DocsInit PROVE DocInv
  OBVIOUS
<1>1. DOMAIN original \subseteq FieldNames
  BY SameCount DEF Results!DocsInit, Results!Docs
<1>2. marked \in BOOLEAN
  BY DEF Results!DocsInit
<1>. QED  BY <1>1, <1>2 DEF Results!DocsInit, DocInv, StoredInv, Results!DocumentRestored

LEMMA DocsInserted == ASSUME DocInv, Results!Insert PROVE DocInv'
<1>1. UNCHANGED <<original, restored>>
  BY DEF Results!Insert
<1>2. CASE stored' = original /\ marked' = FALSE
  BY <1>1, <1>2 DEF DocInv, StoredInv, Results!DocumentRestored
<1>3. CASE stored' = Results!FieldsPacked(original) /\ marked' = FALSE
  BY <1>1, <1>3 DEF DocInv, StoredInv, Results!DocumentRestored, Results!FieldsPacked
<1>4. CASE /\ marked' = TRUE
           /\ \E e \in Results!Renamed(original, [k \in DOMAIN original |-> Results!Compacted(k)]) : stored' = Results!FieldsPacked(e)
  <2> DEFINE name == [k \in DOMAIN original |-> Results!Compacted(k)]
  <2>1. PICK e \in Results!Renamed(original, name) : stored' = Results!FieldsPacked(e)
    BY <1>4
  <2>2. /\ DOMAIN e = {name[k] : k \in DOMAIN original}
        /\ \A c \in DOMAIN e : \E j \in DOMAIN original : name[j] = c /\ e[c] = original[j]
    BY DEF Results!Renamed
  <2>3. DOMAIN stored' = {Results!Compacted(k) : k \in DOMAIN original}
    BY <2>1, <2>2 DEF Results!FieldsPacked
  <2>4. \A c \in DOMAIN stored' : \E j \in DOMAIN original :
          Results!Compacted(j) = c /\ stored'[c] = Packs(original[j])
    BY <2>1, <2>2 DEF Results!FieldsPacked, Packs
  <2>. QED  BY <1>1, <1>4, <2>3, <2>4 DEF DocInv, StoredInv, Results!DocumentRestored, Packs
<1>. QED  BY <1>2, <1>3, <1>4 DEF Results!Insert

LEMMA DocsRestored == ASSUME DocInv, Results!Restore PROVE DocInv'
<1>1. UNCHANGED <<original, stored, marked>> /\ stored # Results!NoDoc
  BY DEF Results!Restore
<1>2. StoredInv'
  BY <1>1 DEF DocInv, StoredInv, Packs
<1>3. CASE ~marked
  <2>1. restored' = stored
    BY <1>3 DEF Results!Restore
  <2>. QED  BY <1>1, <1>2, <1>3, <2>1 DEF DocInv, StoredInv, Results!DocumentRestored
<1>4. CASE marked
  <2> DEFINE name == [k \in DOMAIN stored |-> Results!Expanded(k)]
  <2>1. restored' \in Results!Renamed(stored, name)
    BY <1>4 DEF Results!Restore
  <2>2. /\ DOMAIN restored' = {name[c] : c \in DOMAIN stored}
        /\ \A k \in DOMAIN restored' : \E c \in DOMAIN stored : name[c] = k
             /\ restored'[k] = stored[c]
    BY <2>1 DEF Results!Renamed
  <2>3. /\ DOMAIN stored = {Results!Compacted(k) : k \in DOMAIN original}
        /\ \A c \in DOMAIN stored : \E j \in DOMAIN original :
             Results!Compacted(j) = c /\ stored[c] = Packs(original[j])
    BY <1>1, <1>4 DEF DocInv, StoredInv
  <2>4. DOMAIN restored' = {Results!Expanded(Results!Compacted(k)) : k \in DOMAIN original}
    <3>1. DOMAIN restored' = {Results!Expanded(c) : c \in DOMAIN stored}
      BY <2>2
    <3>. QED  BY <2>3, <3>1
  <2>5. DOMAIN restored' \subseteq FieldNames
    BY <2>4, DocBounds DEF DocInv
  <2>6. ASSUME Plain PROVE DOMAIN restored' = DOMAIN original
    <3>1. \A k \in DOMAIN original : Results!Expanded(Results!Compacted(k)) = k
      BY <2>6, NameComesBack DEF Plain
    <3>. QED  BY <2>4, <3>1
  <2>7. ASSUME Plain, NEW k \in DOMAIN original, original[k] = "short" PROVE restored'[k] = "short"
    <3>1. PICK c \in DOMAIN stored : Results!Expanded(c) = k /\ restored'[k] = stored[c]
      BY <2>2, <2>6, <2>7
    <3>2. PICK j \in DOMAIN original : Results!Compacted(j) = c /\ stored[c] = Packs(original[j])
      BY <2>3
    <3>3. j = k
      BY <2>7, <3>1, <3>2, NameComesBack DEF Plain
    <3>. QED  BY <2>7, <3>1, <3>2, <3>3 DEF Packs
  <2>8. Results!DocumentRestored'
    BY <1>1, <2>6, <2>7 DEF Results!DocumentRestored, Plain
  <2>. QED  BY <1>1, <1>2, <2>5, <2>8 DEF DocInv
<1>. QED  BY <1>3, <1>4

LEMMA DocsStep == ASSUME DocInv, [Results!DocsNext]_docPart PROVE DocInv'
<1>1. CASE UNCHANGED docPart
  BY <1>1 DEF docPart, DocInv, StoredInv, Results!DocumentRestored, Packs
<1>. QED  BY <1>1, DocsInserted, DocsRestored DEF Results!DocsNext

-----------------------------------------------------------------------------
(* A step of the specification is a step of each component, or leaves it   *)
(* alone.                                                                  *)

Parts == {"mongo", "queues", "cron", "manager", "crawler", "registry", "exec", "pipes",
         "stores", "results", "docs"}

LEMMA PartsStep ==
  ASSUME part \in Parts, [Next]_all
  PROVE  /\ part' = part
         /\ [Mongo!Next]_mongoPart
         /\ [Queues!Next]_queuePart
         /\ [Cron!Next]_cronPart
         /\ [Manager!Next]_managerPart
         /\ [Crawl!Next]_crawlerPart
         /\ [Registry!Next]_registryPart
         /\ [Exec!Next]_execPart
         /\ [Pipes!Next]_pipePart
         /\ [Stores!Next]_storesPart
         /\ [Results!ResultsNext]_resultPart
         /\ [Results!DocsNext]_docPart
<1>1. CASE UNCHANGED all
  BY <1>1 DEF all
<1>2. CASE Only("mongo") /\ Mongo!Next
  <2>1. part' = part /\ UNCHANGED <<queuePart, cronPart, managerPart, crawlerPart, registryPart,
                                    execPart, pipePart, storesPart, resultPart, docPart>>
    BY <1>2 DEF Only
  <2>. QED  BY <1>2, <2>1
<1>3. CASE Only("queues") /\ Queues!Next
  <2>1. part' = part /\ UNCHANGED <<mongoPart, cronPart, managerPart, crawlerPart, registryPart,
                                    execPart, pipePart, storesPart, resultPart, docPart>>
    BY <1>3 DEF Only
  <2>. QED  BY <1>3, <2>1
<1>4. CASE Only("cron") /\ Cron!Next
  <2>1. part' = part /\ UNCHANGED <<mongoPart, queuePart, managerPart, crawlerPart, registryPart,
                                    execPart, pipePart, storesPart, resultPart, docPart>>
    BY <1>4 DEF Only
  <2>. QED  BY <1>4, <2>1
<1>5. CASE Only("manager") /\ Manager!Next
  <2>1. part' = part /\ UNCHANGED <<mongoPart, queuePart, cronPart, crawlerPart, registryPart,
                                    execPart, pipePart, storesPart, resultPart, docPart>>
    BY <1>5 DEF Only
  <2>. QED  BY <1>5, <2>1
<1>6. CASE Only("crawler") /\ Crawl!Next
  <2>1. part' = part /\ UNCHANGED <<mongoPart, queuePart, cronPart, managerPart, registryPart,
                                    execPart, pipePart, storesPart, resultPart, docPart>>
    BY <1>6 DEF Only
  <2>. QED  BY <1>6, <2>1
<1>7. CASE Only("registry") /\ Registry!Next
  <2>1. part' = part /\ UNCHANGED <<mongoPart, queuePart, cronPart, managerPart, crawlerPart,
                                    execPart, pipePart, storesPart, resultPart, docPart>>
    BY <1>7 DEF Only
  <2>. QED  BY <1>7, <2>1
<1>8. CASE Only("exec") /\ Exec!Next
  <2>1. part' = part /\ UNCHANGED <<mongoPart, queuePart, cronPart, managerPart, crawlerPart,
                                    registryPart, pipePart, storesPart, resultPart, docPart>>
    BY <1>8 DEF Only
  <2>. QED  BY <1>8, <2>1
<1>9. CASE Only("pipes") /\ Pipes!Next
  <2>1. part' = part /\ UNCHANGED <<mongoPart, queuePart, cronPart, managerPart, crawlerPart,
                                    registryPart, execPart, storesPart, resultPart, docPart>>
    BY <1>9 DEF Only
  <2>. QED  BY <1>9, <2>1
<1>10. CASE Only("stores") /\ Stores!Next
  <2>1. part' = part /\ UNCHANGED <<mongoPart, queuePart, cronPart, managerPart, crawlerPart,
                                    registryPart, execPart, pipePart, resultPart, docPart>>
    BY <1>10 DEF Only
  <2>. QED  BY <1>10, <2>1
<1>11. CASE Only("results") /\ Results!ResultsNext
  <2>1. part' = part /\ UNCHANGED <<mongoPart, queuePart, cronPart, managerPart, crawlerPart,
                                    registryPart, execPart, pipePart, storesPart, docPart>>
    BY <1>11 DEF Only
  <2>. QED  BY <1>11, <2>1
<1>12. CASE Only("docs") /\ Results!DocsNext
  <2>1. part' = part /\ UNCHANGED <<mongoPart, queuePart, cronPart, managerPart, crawlerPart,
                                    registryPart, execPart, pipePart, storesPart, resultPart>>
    BY <1>12 DEF Only
  <2>. QED  BY <1>12, <2>1
<1>. QED  BY <1>1, <1>2, <1>3, <1>4, <1>5, <1>6, <1>7, <1>8, <1>9, <1>10, <1>11, <1>12 DEF Next

LEMMA PartsHold == Spec => [](part \in Parts)
<1>1. Init => part \in Parts
  BY DEF Init, Parts
<1>2. part \in Parts /\ [Next]_all => (part \in Parts)'
  BY PartsStep
<1>. QED  BY <1>1, <1>2, PTL DEF Spec

LEMMA MongoInvHolds == Spec => []SchedInv
<1>1. Init => SchedInv
  BY MongoInitially DEF Init
<1>2. (part \in Parts) /\ SchedInv /\ [Next]_all => SchedInv'
  BY MongoStep, PartsStep
<1>. QED  BY <1>1, <1>2, PartsHold, PTL DEF Spec

LEMMA QueueInvHolds == Spec => []QueueInv
<1>1. Init => QueueInv
  BY QueuesInitially DEF Init
<1>2. (part \in Parts) /\ QueueInv /\ [Next]_all => QueueInv'
  BY QueuesStep, PartsStep
<1>. QED  BY <1>1, <1>2, PartsHold, PTL DEF Spec

LEMMA RunsAssumed == RunsFinite
  BY RunBounds DEF RunsFinite

LEMMA RunsInvHolds == Spec => []RunsInv
<1>1. Init => RunsInv
  BY RunsInitially, RunsAssumed DEF Init
<1>2. (part \in Parts) /\ RunsInv /\ [Next]_all => RunsInv'
  BY RunsStep, PartsStep, RunsAssumed
<1>. QED  BY <1>1, <1>2, PartsHold, PTL DEF Spec

LEMMA CronInvHolds == Spec => []CronInv
<1>1. Init => CronInv
  BY CronInitially DEF Init
<1>2. (part \in Parts) /\ CronInv /\ [Next]_all => CronInv'
  BY CronStep, PartsStep
<1>. QED  BY <1>1, <1>2, PartsHold, PTL DEF Spec

LEMMA ManagerInvHolds == Spec => []ManagerInv
<1>1. Init => ManagerInv
  BY ManagerInitially DEF Init
<1>2. (part \in Parts) /\ ManagerInv /\ [Next]_all => ManagerInv'
  BY ManagerStep, PartsStep
<1>. QED  BY <1>1, <1>2, PartsHold, PTL DEF Spec

LEMMA CrawlInvHolds == Spec => []CrawlInv
<1>1. Init => CrawlInv
  BY CrawlInitially DEF Init
<1>2. (part \in Parts) /\ CrawlInv /\ [Next]_all => CrawlInv'
  BY CrawlStep, PartsStep
<1>. QED  BY <1>1, <1>2, PartsHold, PTL DEF Spec

LEMMA RegInvHolds == Spec => []RegInv
<1>1. Init => RegInv
  BY RegistryInitially DEF Init
<1>2. (part \in Parts) /\ RegInv /\ [Next]_all => RegInv'
  BY RegistryStep, PartsStep
<1>. QED  BY <1>1, <1>2, PartsHold, PTL DEF Spec

LEMMA ExecInvHolds == Spec => []ExecInv
<1>1. Init => ExecInv
  BY ExecInitially DEF Init
<1>2. (part \in Parts) /\ ExecInv /\ [Next]_all => ExecInv'
  BY ExecStep, PartsStep
<1>. QED  BY <1>1, <1>2, PartsHold, PTL DEF Spec

LEMMA PipeInvHolds == Spec => []PipeInv
<1>1. Init => PipeInv
  BY PipesInitially DEF Init
<1>2. (part \in Parts) /\ PipeInv /\ [Next]_all => PipeInv'
  BY PipesStep, PartsStep
<1>. QED  BY <1>1, <1>2, PartsHold, PTL DEF Spec

LEMMA StoreInvHolds == Spec => []StoreInv
<1>1. Init => StoreInv
  BY StoresInitially DEF Init
<1>2. (part \in Parts) /\ StoreInv /\ [Next]_all => StoreInv'
  BY StoresStep, PartsStep
<1>. QED  BY <1>1, <1>2, PartsHold, PTL DEF Spec

LEMMA ResultInvHolds == Spec => []ResultInv
<1>1. Init => ResultInv
  BY ResultsInitially DEF Init
<1>2. (part \in Parts) /\ ResultInv /\ [Next]_all => ResultInv'
  BY ResultsStep, PartsStep
<1>. QED  BY <1>1, <1>2, PartsHold, PTL DEF Spec

LEMMA DocInvHolds == Spec => []DocInv
<1>1. Init => DocInv
  BY DocsInitially DEF Init
<1>2. (part \in Parts) /\ DocInv /\ [Next]_all => DocInv'
  BY DocsStep, PartsStep
<1>. QED  BY <1>1, <1>2, PartsHold, PTL DEF Spec


\* However many processors poll the delayed set and however many fail or die in the middle of
\* a move: until somebody clears the queue a task handed over is delayed, queued or popped, and
\* it is copied once by each processor at most and once more for each fault (queue.go:573-604).
THEOREM DelayedTasksAreKept == Spec => []DelayedFate
<1>1. QueueInv => DelayedFate
  BY QueueFates DEF DelayedFate
<1>. QED  BY <1>1, QueueInvHolds, PTL

\* However many executions run side by side, and whatever is added, removed, switched on or
\* off meanwhile, the runs of a schedule and those under way stay below MaxRuns plus the
\* number of executions (scheduler.go:265-302).
THEOREM RunsAreLimited == Spec => []MaxRunsHolds
<1>1. RunsInv => MaxRunsHolds
  BY DEF RunsInv, MaxRunsHolds
<1>. QED  BY <1>1, RunsInvHolds, PTL

\* Whatever is reported of however many instances, in whatever order and however often, each is
\* counted as started once and as ended once (manager.go:286-349).
THEOREM InstancesCountedOnce == Spec => []CountedOnce
<1>1. ManagerInv => CountedOnce
  BY DEF ManagerInv, CountsInv, CountedOnce, Manager!CountedOnce
<1>. QED  BY <1>1, ManagerInvHolds, PTL

\* With any number of goroutines, nodes' starts and retry limits: a task that was made is queued,
\* with one worker, completed, or out of retries, unless its Push failed, and it is never in two
\* places (processTask and handleTaskError of crawler.go).
THEOREM CrawlKeepsTasks == Spec => []TaskKept
<1>1. CrawlInv => TaskKept
  BY CrawlKeeps DEF TaskKept
<1>. QED  BY <1>1, CrawlInvHolds, PTL

\* In any number of processes that load, register and look up side by side: who finds a template
\* finds its definition, unless Redis refused the SET, and a definition that names a script was
\* made by it, unless that script failed half-way (definition.go, config_loader.go).
THEOREM RegistryFindsWhatItRegistered == Spec => []RegistryWorks
<1>1. RegInv => RegistryWorks
  BY RegistryFinds DEF RegistryWorks
<1>. QED  BY <1>1, RegInvHolds, PTL

\* However often an execution or a pipeline is retried, by however many workers, and whatever
\* fails: a task that succeeded has left one record beside those of failed executions, and what
\* the crawler passes reaches its storage unless that storage failed.
THEOREM RecordsAreKept == Spec => []RecordsKept
<1>1. ExecInv /\ PipeInv => RecordsKept
  BY ExecRecords, PipesKeep DEF RecordsKept
<1>. QED  BY <1>1, ExecInvHolds, PipeInvHolds, PTL

\* Over any keys, expiries, runs and field names: a reader of a storage finds what was stored
\* last until it is due, the result of an older run does not come back over a newer one, and a
\* document without short names of its own comes back with its keys (crawler/storage,
\* coordinator.go:489-506, storage_optimizer.go:180-341).
THEOREM WhatIsStoredIsReadBack == Spec => []ReadBack
<1>1. StoreInv /\ ResultInv /\ DocInv => ReadBack
  BY StoresRead DEF ReadBack, ResultInv, DocInv
<1>. QED  BY <1>1, StoreInvHolds, ResultInvHolds, DocInvHolds, PTL

\* The states of the eleven components have their types: among others no entry of cron is counted
\* below zero, no channel is filled beyond its capacity and no retry goes beyond its limit.
THEOREM SchedulingTypesHold == Spec => []TypesOK
<1> DEFINE All == /\ part \in Parts /\ SchedInv /\ QueueInv /\ CronInv /\ ManagerInv /\ CrawlInv
                  /\ RegInv /\ ExecInv /\ PipeInv /\ StoreInv /\ ResultInv /\ DocInv
<1>1. All => TypesOK
  <2> SUFFICES ASSUME All PROVE TypesOK
    OBVIOUS
  <2>1. /\ Mongo!SchedTypeOK /\ Queues!RedisQTypeOK /\ Cron!CronTypeOK /\ Manager!MgrTypeOK
        /\ Crawl!CrawlTypeOK /\ Stores!StoresTypeOK
    BY DEF SchedInv, QueueInv, CronInv, ManagerInv, CrawlInv, StoreInv
  <2>2. /\ Registry!RegistryTypeOK /\ Exec!ExecTypeOK /\ Pipes!PipesTypeOK /\ Results!ResultTypeOK
    BY RegistryTyped, ExecTyped, PipesTyped, ResultsTyped
  <2>3. restored = Results!NoDoc \/ DOMAIN restored \subseteq FieldNames
    BY DEF DocInv
  <2>. QED  BY <2>1, <2>2, <2>3 DEF TypesOK, Parts
<1> HIDE DEF All
<1>2. Spec => []All
  BY PartsHold, MongoInvHolds, QueueInvHolds, CronInvHolds, ManagerInvHolds, CrawlInvHolds,
     RegInvHolds, ExecInvHolds, PipeInvHolds, StoreInvHolds, ResultInvHolds, DocInvHolds, PTL
     DEF All
<1>. QED  BY <1>1, <1>2, PTL
=============================================================================
