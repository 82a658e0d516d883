----------------------------- MODULE HubProofs -----------------------------
(***************************************************************************)
(* Proofs about a node's workers, for any sets of tasks and workers,       *)
(* capacities and number of retries, with or without pauses and a stop;    *)
(* and about what joins nodes and viewers to the hub, for any bounds,      *)
(* capacities and sets of callers, viewers and tasks: the link, the calls  *)
(* over a connection, the viewers and the batch counter, each over the     *)
(* specification of MCHub, whose every step is a step of one of them.      *)
(***************************************************************************)
EXTENDS MCHub, FiniteSetTheorems, SequenceTheorems, TLAPS

-----------------------------------------------------------------------------
(* The workers of a node.                                                  *)

TasksOf(s) == {s[i].task : i \in DOMAIN s}
NoTwins(s) == \A i, j \in DOMAIN s : s[i].task = s[j].task => i = j
Fetched == IF fetched = None THEN {} ELSE {fetched.task}
Working == {held[w].task : w \in {v \in Workers : held[v] # None}}
Homes == UNION {TasksOf(taskQueue), TasksOf(store), Fetched, pending, Working}

\* OnePlace in terms of sets of tasks: each place holds a task once, no two hold the same,
\* and together they hold the acknowledged tasks whose last execution has not ended.
HomeInv ==
  /\ NoTwins(taskQueue) /\ NoTwins(store)
  /\ \A v, w \in Workers :
       held[v] # None /\ held[w] # None /\ held[v].task = held[w].task => v = w
  /\ TasksOf(taskQueue) \intersect UNION {TasksOf(store), Fetched, pending, Working} = {}
  /\ TasksOf(store) \intersect UNION {Fetched, pending, Working} = {}
  /\ Fetched \intersect (pending \union Working) = {}
  /\ pending \intersect Working = {}
  /\ Homes = {t \in given : outcome[t] = "none"}
  /\ \A t \in Tasks : t \notin given => outcome[t] = "none"

\* An entry counts the executions of its task, all but the one under way.
RetryInv ==
  /\ \A i \in DOMAIN taskQueue : attempts[taskQueue[i].task] = taskQueue[i].retry
  /\ \A i \in DOMAIN store : attempts[store[i].task] = store[i].retry
  /\ fetched # None => attempts[fetched.task] = fetched.retry
  /\ \A w \in Workers : held[w] # None =>
       attempts[held[w].task] = IF pc[w] = "busy" THEN held[w].retry + 1 ELSE held[w].retry
  /\ \A t \in Tasks : t \notin given => attempts[t] = 0

NodeInv == TypeOK /\ HomeInv /\ RetryInv

-----------------------------------------------------------------------------
\* Sequences of entries: what Append adds and Tail takes away.
LEMMA Appended ==
  ASSUME NEW s \in Seq(Entry), NEW e \in Entry
  PROVE  /\ Append(s, e) \in Seq(Entry) /\ Len(Append(s, e)) = Len(s) + 1
         /\ \A i \in DOMAIN Append(s, e) :
              (i \in DOMAIN s /\ Append(s, e)[i] = s[i]) \/ Append(s, e)[i] = e
         /\ TasksOf(Append(s, e)) = TasksOf(s) \union {e.task}
         /\ NoTwins(s) /\ e.task \notin TasksOf(s) => NoTwins(Append(s, e))
<1> DEFINE a == Append(s, e)
<1>1. /\ a \in Seq(Entry) /\ Len(a) = Len(s) + 1 /\ Len(s) \in Nat
      /\ DOMAIN s = 1..Len(s) /\ DOMAIN a = 1..Len(s) + 1
      /\ \A i \in 1..Len(s) : a[i] = s[i]
      /\ a[Len(s) + 1] = e
  BY AppendProperties, LenProperties
<1> HIDE DEF a
<1>2. \A i \in DOMAIN a : (i \in DOMAIN s /\ a[i] = s[i]) \/ (i = Len(s) + 1 /\ a[i] = e)
  BY <1>1
<1>3. TasksOf(a) = TasksOf(s) \union {e.task}
  BY <1>1, <1>2 DEF TasksOf
<1>4. ASSUME NoTwins(s), e.task \notin TasksOf(s) PROVE NoTwins(a)
  BY <1>1, <1>2, <1>4 DEF NoTwins, TasksOf
<1>. QED  BY <1>1, <1>2, <1>3, <1>4 DEF a

LEMMA Removed ==
  ASSUME NEW s \in Seq(Entry), s # <<>>
  PROVE  /\ Head(s) \in Entry /\ Tail(s) \in Seq(Entry) /\ Len(Tail(s)) = Len(s) - 1
         /\ 1 \in DOMAIN s /\ Head(s) = s[1] /\ Head(s).task \in TasksOf(s)
         /\ \A i \in DOMAIN Tail(s) : i + 1 \in DOMAIN s /\ Tail(s)[i] = s[i + 1]
         /\ NoTwins(s) => NoTwins(Tail(s)) /\ TasksOf(Tail(s)) = TasksOf(s) \ {Head(s).task}
<1> DEFINE r == Tail(s)
<1>1. /\ Head(s) \in Entry /\ Head(s) = s[1] /\ r \in Seq(Entry) /\ Len(r) = Len(s) - 1
      /\ Len(s) \in Nat /\ Len(s) # 0 /\ DOMAIN s = 1..Len(s) /\ DOMAIN r = 1..Len(s) - 1
      /\ \A i \in 1..Len(s) - 1 : r[i] = s[i + 1]
  BY HeadTailProperties, LenProperties, EmptySeq
<1> HIDE DEF r
<1>2. 1 \in DOMAIN s /\ Head(s).task \in TasksOf(s)
  BY <1>1 DEF TasksOf
<1>3. \A i \in DOMAIN r : i + 1 \in DOMAIN s /\ r[i] = s[i + 1]
  BY <1>1
<1>4. ASSUME NoTwins(s) PROVE NoTwins(r) /\ TasksOf(r) = TasksOf(s) \ {Head(s).task}
  <2>1. NoTwins(r)
    BY <1>1, <1>3, <1>4 DEF NoTwins
  <2>2. TasksOf(r) \subseteq TasksOf(s) \ {Head(s).task}
    BY <1>1, <1>2, <1>3, <1>4 DEF NoTwins, TasksOf
  <2>3. ASSUME NEW i \in DOMAIN s, s[i].task # Head(s).task PROVE s[i].task \in TasksOf(r)
    <3>1. i - 1 \in DOMAIN r /\ r[i - 1] = s[i]
      BY <1>1, <2>3
    <3>. QED  BY <3>1 DEF TasksOf
  <2>4. TasksOf(s) \ {Head(s).task} \subseteq TasksOf(r)
    BY <2>3 DEF TasksOf
  <2>. QED  BY <2>1, <2>2, <2>4
<1>. QED  BY <1>1, <1>2, <1>3, <1>4 DEF r

\* What a worker receives and what it gives away.
LEMMA Received ==
  ASSUME NEW w \in Workers, held[w] = None, NEW e \in Entry, held' = [held EXCEPT ![w] = e], TypeOK
  PROVE  Working' = Working \union {e.task}
<1>1. e # None
  BY NoneAssumption
<1>. QED  BY <1>1 DEF Working, TypeOK

LEMMA GivenAway ==
  ASSUME NEW w \in Workers, held[w] # None, held' = [held EXCEPT ![w] = None], TypeOK, HomeInv
  PROVE  Working' = Working \ {held[w].task} /\ held[w].task \in Working
  BY DEF Working, HomeInv, TypeOK

-----------------------------------------------------------------------------
\* Steps that move no task.
LEMMA NothingMoves ==
  ASSUME NodeInv, UNCHANGED <<taskQueue, store, pending, fetched, held, given, attempts, outcome>>,
         \A w \in Workers : held[w] # None => pc'[w] = pc[w]
  PROVE  HomeInv' /\ RetryInv'
<1>1. HomeInv'
  <2>1. /\ TasksOf(taskQueue)' = TasksOf(taskQueue) /\ TasksOf(store)' = TasksOf(store)
        /\ NoTwins(taskQueue)' = NoTwins(taskQueue) /\ NoTwins(store)' = NoTwins(store)
        /\ Fetched' = Fetched /\ Working' = Working
    BY DEF TasksOf, NoTwins, Fetched, Working
  <2>. QED  BY <2>1 DEF NodeInv, HomeInv, Homes
<1>2. RetryInv'
  BY DEF NodeInv, RetryInv
<1>. QED  BY <1>1, <1>2

\* One lemma for every step that moves a task: out of one place and into another.
LEMMA AssignmentKeeps ==
  ASSUME NodeInv, NEW t \in Tasks, HandleTaskAssignment(t) PROVE NodeInv'
<1> DEFINE e == [task |-> t, retry |-> 0]
<1> USE NoneAssumption, SizesAssumption
<1>1. TypeOK /\ HomeInv /\ RetryInv /\ t \notin given /\ e \in Entry /\ e.task = t /\ e.retry = 0
  BY DEF NodeInv, HandleTaskAssignment, Entry
<1>2. UNCHANGED <<status, closed, store, pending, fetching, fetched, fetcher, pc, held, result,
                  resultQueue, publisher, attempts, outcome, published, dropped, taskStatus>>
  BY DEF HandleTaskAssignment, fetch, worker
<1>3. CASE RoomInQueue
  <2>1. taskQueue' = Append(taskQueue, e) /\ given' = given \union {t} /\ refused' = refused
    BY <1>3 DEF HandleTaskAssignment
  <2>2. /\ taskQueue' \in Seq(Entry) /\ Len(taskQueue') = Len(taskQueue) + 1
        /\ \A i \in DOMAIN taskQueue' :
             (i \in DOMAIN taskQueue /\ taskQueue'[i] = taskQueue[i]) \/ taskQueue'[i] = e
        /\ TasksOf(taskQueue') = TasksOf(taskQueue) \union {t}
        /\ NoTwins(taskQueue) /\ t \notin TasksOf(taskQueue) => NoTwins(taskQueue')
    BY <1>1, <2>1, Appended DEF TypeOK
  <2>3. TypeOK'
    BY <1>1, <1>2, <1>3, <2>1, <2>2 DEF TypeOK, RoomInQueue
  <2>4. /\ TasksOf(store)' = TasksOf(store) /\ Fetched' = Fetched /\ Working' = Working
        /\ NoTwins(store)' = NoTwins(store) /\ TasksOf(taskQueue)' = TasksOf(taskQueue')
        /\ NoTwins(taskQueue)' = NoTwins(taskQueue')
    BY <1>2 DEF TasksOf, Fetched, Working, NoTwins
  <2>5. t \notin Homes /\ outcome[t] = "none"
    BY <1>1 DEF HomeInv
  <2>6. HomeInv'
    BY <1>1, <1>2, <2>1, <2>2, <2>4, <2>5 DEF HomeInv, Homes
  <2>7. RetryInv'
    BY <1>1, <1>2, <2>1, <2>2 DEF RetryInv
  <2>. QED  BY <2>3, <2>6, <2>7 DEF NodeInv
<1>4. CASE ~RoomInQueue
  <2>1. UNCHANGED <<taskQueue, given>> /\ refused' = refused \union {t}
    BY <1>4 DEF HandleTaskAssignment
  <2>2. TypeOK'
    BY <1>1, <1>2, <2>1 DEF TypeOK
  <2>. QED  BY <1>2, <2>1, <2>2, NothingMoves DEF NodeInv
<1>. QED  BY <1>3, <1>4

LEMMA PopKeeps == ASSUME NodeInv, FetchPop PROVE NodeInv'
<1> USE NoneAssumption, SizesAssumption
<1>1. /\ TypeOK /\ HomeInv /\ RetryInv /\ fetching > 0 /\ fetched = None
      /\ UNCHANGED <<status, closed, taskQueue, pending, fetcher, pc, held, result, resultQueue,
                     publisher, given, refused, attempts, outcome, published, dropped, taskStatus>>
  BY DEF NodeInv, FetchPop, worker, history
<1>2. CASE store = <<>>
  <2>1. fetching' = 0 /\ UNCHANGED <<store, fetched>>
    BY <1>2 DEF FetchPop
  <2>2. TypeOK'
    BY <1>1, <2>1 DEF TypeOK
  <2>. QED  BY <1>1, <2>1, <2>2, NothingMoves DEF NodeInv
<1>3. CASE store # <<>>
  <2>1. fetched' = Head(store) /\ store' = Tail(store) /\ fetching' = fetching - 1
    BY <1>3 DEF FetchPop
  <2>2. /\ fetched' \in Entry /\ store' \in Seq(Entry)
        /\ 1 \in DOMAIN store /\ fetched' = store[1] /\ fetched'.task \in TasksOf(store)
        /\ \A i \in DOMAIN store' : i + 1 \in DOMAIN store /\ store'[i] = store[i + 1]
        /\ NoTwins(store) => NoTwins(store') /\ TasksOf(store') = TasksOf(store) \ {fetched'.task}
    BY <1>1, <1>3, <2>1, Removed DEF TypeOK
  <2>3. TypeOK'
    BY <1>1, <2>1, <2>2 DEF TypeOK
  <2>4. /\ TasksOf(taskQueue)' = TasksOf(taskQueue) /\ Working' = Working
        /\ NoTwins(taskQueue)' = NoTwins(taskQueue) /\ NoTwins(store)' = NoTwins(store')
        /\ TasksOf(store)' = TasksOf(store') /\ Fetched = {} /\ Fetched' = {fetched'.task}
    BY <1>1, <2>2 DEF TasksOf, Fetched, Working, NoTwins
  <2>5. HomeInv'
    BY <1>1, <2>2, <2>4 DEF HomeInv, Homes
  <2>6. RetryInv'
    BY <1>1, <2>2 DEF RetryInv
  <2>. QED  BY <2>3, <2>5, <2>6 DEF NodeInv
<1>. QED  BY <1>2, <1>3

LEMMA QueueKeeps == ASSUME NodeInv, FetchQueue PROVE NodeInv'
<1> USE NoneAssumption, SizesAssumption
<1>1. /\ TypeOK /\ HomeInv /\ RetryInv /\ fetched \in Entry /\ fetched' = None
      /\ UNCHANGED <<status, closed, store, fetcher, pc, held, result, resultQueue, publisher,
                     given, refused, attempts, outcome, published, dropped, taskStatus>>
  BY DEF NodeInv, FetchQueue, worker, history, TypeOK
<1>2. /\ Fetched = {fetched.task} /\ Fetched' = {} /\ fetched.task \in Tasks
      /\ TasksOf(store)' = TasksOf(store) /\ NoTwins(store)' = NoTwins(store) /\ Working' = Working
      /\ TasksOf(taskQueue)' = TasksOf(taskQueue') /\ NoTwins(taskQueue)' = NoTwins(taskQueue')
  BY <1>1 DEF TasksOf, Fetched, Working, NoTwins, Entry
<1>3. CASE RoomInQueue
  <2>1. taskQueue' = Append(taskQueue, fetched) /\ UNCHANGED <<pending, fetching>>
    BY <1>1, <1>3 DEF FetchQueue
  <2>2. /\ taskQueue' \in Seq(Entry) /\ Len(taskQueue') = Len(taskQueue) + 1
        /\ \A i \in DOMAIN taskQueue' :
             (i \in DOMAIN taskQueue /\ taskQueue'[i] = taskQueue[i]) \/ taskQueue'[i] = fetched
        /\ TasksOf(taskQueue') = TasksOf(taskQueue) \union {fetched.task}
        /\ NoTwins(taskQueue) /\ fetched.task \notin TasksOf(taskQueue) => NoTwins(taskQueue')
    BY <1>1, <2>1, Appended DEF TypeOK
  <2>3. TypeOK'
    BY <1>1, <1>3, <2>1, <2>2 DEF TypeOK, RoomInQueue
  <2>4. HomeInv'
    BY <1>1, <1>2, <2>1, <2>2 DEF HomeInv, Homes
  <2>5. RetryInv'
    BY <1>1, <2>2 DEF RetryInv
  <2>. QED  BY <2>3, <2>4, <2>5 DEF NodeInv
<1>4. CASE ~RoomInQueue
  <2>1. pending' = pending \union {fetched.task} /\ fetching' = 0 /\ taskQueue' = taskQueue
    BY <1>1, <1>4 DEF FetchQueue, Divert
  <2>2. TypeOK'
    BY <1>1, <1>2, <2>1 DEF TypeOK
  <2>3. HomeInv'
    BY <1>1, <1>2, <2>1 DEF HomeInv, Homes
  <2>4. RetryInv'
    BY <1>1, <2>1 DEF RetryInv
  <2>. QED  BY <2>2, <2>3, <2>4 DEF NodeInv
<1>. QED  BY <1>3, <1>4

LEMMA TakeKeeps == ASSUME NodeInv, NEW w \in Workers, Take(w) PROVE NodeInv'
<1> USE NoneAssumption, SizesAssumption
<1> DEFINE e == Head(taskQueue)
<1>1. /\ TypeOK /\ HomeInv /\ RetryInv /\ pc[w] = "idle" /\ taskQueue # <<>>
      /\ held' = [held EXCEPT ![w] = e] /\ taskQueue' = Tail(taskQueue)
      /\ pc' = [pc EXCEPT ![w] = "taken"]
      /\ UNCHANGED <<status, closed, store, pending, fetching, fetched, fetcher, result, resultQueue,
                     publisher, given, refused, attempts, outcome, published, dropped, taskStatus>>
  BY DEF NodeInv, Take, Goto, fetch, history
<1>2. held[w] = None /\ held \in [Workers -> Entry \union {None}]
  BY <1>1 DEF TypeOK
<1>3. /\ e \in Entry /\ taskQueue' \in Seq(Entry) /\ Len(taskQueue') = Len(taskQueue) - 1
      /\ 1 \in DOMAIN taskQueue /\ e = taskQueue[1] /\ e.task \in TasksOf(taskQueue)
      /\ \A i \in DOMAIN taskQueue' : i + 1 \in DOMAIN taskQueue /\ taskQueue'[i] = taskQueue[i + 1]
      /\ NoTwins(taskQueue) =>
           NoTwins(taskQueue') /\ TasksOf(taskQueue') = TasksOf(taskQueue) \ {e.task}
  BY <1>1, Removed DEF TypeOK
<1> HIDE DEF e
<1>4. Working' = Working \union {e.task}
  BY <1>1, <1>2, <1>3, Received
<1>5. TypeOK'
  BY <1>1, <1>2, <1>3 DEF TypeOK
<1>6. /\ TasksOf(store)' = TasksOf(store) /\ NoTwins(store)' = NoTwins(store) /\ Fetched' = Fetched
      /\ TasksOf(taskQueue)' = TasksOf(taskQueue') /\ NoTwins(taskQueue)' = NoTwins(taskQueue')
  BY <1>1 DEF TasksOf, Fetched, NoTwins
<1>7. \A v \in Workers : held[v] # None => held[v].task # e.task
  BY <1>1, <1>3 DEF HomeInv, Working
<1>8. \A v, u \in Workers :
        held'[v] # None /\ held'[u] # None /\ held'[v].task = held'[u].task => v = u
  BY <1>1, <1>2, <1>7 DEF HomeInv
<1>9. HomeInv'
  BY <1>1, <1>3, <1>4, <1>6, <1>8 DEF HomeInv, Homes
<1>10. RetryInv'
  <2>1. \A v \in Workers : v # w => held'[v] = held[v] /\ pc'[v] = pc[v]
    BY <1>1, <1>2 DEF TypeOK
  <2>2. held'[w] = e /\ pc'[w] = "taken" /\ attempts[e.task] = e.retry
    BY <1>1, <1>2, <1>3 DEF TypeOK, RetryInv
  <2>. QED  BY <1>1, <1>3, <2>1, <2>2 DEF RetryInv
<1>. QED  BY <1>5, <1>9, <1>10 DEF NodeInv

\* The one step that counts an execution: no other entry is of the same task.
LEMMA CheckKeeps == ASSUME NodeInv, NEW w \in Workers, Check(w) PROVE NodeInv'
<1> USE NoneAssumption, SizesAssumption
<1> DEFINE t == held[w].task
<1>1. /\ TypeOK /\ HomeInv /\ RetryInv /\ pc[w] = "taken" /\ held[w] \in Entry
      /\ UNCHANGED <<status, closed, taskQueue, store, pending, fetching, fetched, fetcher, held,
                     result, resultQueue, publisher, given, refused, outcome, published, dropped,
                     taskStatus>>
  BY DEF NodeInv, Check, fetch, TypeOK
<1>2. t \in Tasks /\ held[w].retry \in 0..MaxRetries /\ attempts[t] = held[w].retry
  BY <1>1 DEF Entry, RetryInv
<1>3. HomeInv'
  <2>1. /\ TasksOf(taskQueue)' = TasksOf(taskQueue) /\ TasksOf(store)' = TasksOf(store)
        /\ NoTwins(taskQueue)' = NoTwins(taskQueue) /\ NoTwins(store)' = NoTwins(store)
        /\ Fetched' = Fetched /\ Working' = Working
    BY <1>1 DEF TasksOf, NoTwins, Fetched, Working
  <2>. QED  BY <1>1, <2>1 DEF HomeInv, Homes
<1>4. CASE status = "active"
  <2>1. pc' = [pc EXCEPT ![w] = "busy"] /\ attempts' = [attempts EXCEPT ![t] = @ + 1]
    BY <1>4 DEF Check, Goto
  <2>2. attempts'[t] = held[w].retry + 1 /\ \A u \in Tasks : u # t => attempts'[u] = attempts[u]
    BY <1>1, <1>2, <2>1 DEF TypeOK
  <2>3. TypeOK'
    BY <1>1, <1>2, <2>1, <2>2 DEF TypeOK
  <2>4. t \in Working
    BY <1>1 DEF Working
  <2>5. t \in given /\ t \notin TasksOf(taskQueue) /\ t \notin TasksOf(store) /\ t \notin Fetched
    BY <1>1, <2>4 DEF HomeInv, Homes
  <2>6. /\ \A i \in DOMAIN taskQueue : taskQueue[i].task \in Tasks \ {t}
        /\ \A i \in DOMAIN store : store[i].task \in Tasks \ {t}
        /\ fetched # None => fetched.task \in Tasks \ {t}
    <3>1. /\ \A i \in DOMAIN taskQueue : taskQueue[i] \in Entry
          /\ \A i \in DOMAIN store : store[i] \in Entry
          /\ fetched # None => fetched \in Entry
      BY <1>1 DEF TypeOK
    <3>2. \A e \in Entry : e.task \in Tasks
      BY DEF Entry
    <3>. QED  BY <2>5, <3>1, <3>2 DEF TasksOf, Fetched
  <2>7. \A v \in Workers : held[v] # None /\ v # w => held[v].task \in Tasks \ {t}
    BY <1>1 DEF HomeInv, TypeOK, Entry
  <2>8. RetryInv'
    <3>1. \A v \in Workers : v # w => pc'[v] = pc[v]
      BY <1>1, <2>1 DEF TypeOK
    <3>2. pc'[w] = "busy"
      BY <1>1, <2>1 DEF TypeOK
    <3> HIDE DEF t
    <3>. QED  BY <1>1, <2>2, <2>5, <2>6, <2>7, <3>1, <3>2 DEF RetryInv, t
  <2>. QED  BY <1>3, <2>3, <2>8 DEF NodeInv
<1>5. CASE status # "active"
  <2>1. pc' = [pc EXCEPT ![w] = "returning"] /\ attempts' = attempts
    BY <1>5 DEF Check, Goto
  <2>2. TypeOK'
    BY <1>1, <2>1 DEF TypeOK
  <2>3. RetryInv'
    BY <1>1, <2>1 DEF RetryInv, TypeOK
  <2>. QED  BY <1>3, <2>2, <2>3 DEF NodeInv
<1>. QED  BY <1>4, <1>5

LEMMA GiveBackKeeps == ASSUME NodeInv, NEW w \in Workers, GiveBack(w) PROVE NodeInv'
<1> USE NoneAssumption, SizesAssumption
<1> DEFINE e == held[w]
<1>1. /\ TypeOK /\ HomeInv /\ RetryInv /\ pc[w] = "returning" /\ RoomInQueue /\ e \in Entry
      /\ held' = [held EXCEPT ![w] = None] /\ taskQueue' = Append(taskQueue, e)
      /\ pc' = [pc EXCEPT ![w] = "idle"]
      /\ UNCHANGED <<status, closed, store, pending, fetching, fetched, fetcher, result, resultQueue,
                     publisher, given, refused, attempts, outcome, published, dropped, taskStatus>>
  BY DEF NodeInv, GiveBack, Goto, fetch, history, TypeOK
<1>2. /\ taskQueue' \in Seq(Entry) /\ Len(taskQueue') = Len(taskQueue) + 1
      /\ \A i \in DOMAIN taskQueue' :
           (i \in DOMAIN taskQueue /\ taskQueue'[i] = taskQueue[i]) \/ taskQueue'[i] = e
      /\ TasksOf(taskQueue') = TasksOf(taskQueue) \union {e.task}
      /\ NoTwins(taskQueue) /\ e.task \notin TasksOf(taskQueue) => NoTwins(taskQueue')
  BY <1>1, Appended DEF TypeOK
<1>3. Working' = Working \ {e.task} /\ e.task \in Working /\ attempts[e.task] = e.retry
  BY <1>1, GivenAway DEF RetryInv
<1>4. TypeOK'
  BY <1>1, <1>2 DEF TypeOK, RoomInQueue
<1>5. /\ TasksOf(store)' = TasksOf(store) /\ NoTwins(store)' = NoTwins(store) /\ Fetched' = Fetched
      /\ TasksOf(taskQueue)' = TasksOf(taskQueue') /\ NoTwins(taskQueue)' = NoTwins(taskQueue')
  BY <1>1 DEF TasksOf, Fetched, NoTwins
<1>6. \A v \in Workers : held'[v] # None => held'[v] = held[v] /\ v # w /\ pc'[v] = pc[v]
  BY <1>1 DEF TypeOK
<1> HIDE DEF e
<1>7. HomeInv'
  BY <1>1, <1>2, <1>3, <1>5, <1>6 DEF HomeInv, Homes
<1>8. RetryInv'
  BY <1>1, <1>2, <1>3, <1>6 DEF RetryInv
<1>. QED  BY <1>4, <1>7, <1>8 DEF NodeInv

\* The end of an execution, whatever becomes of its entry.
LEMMA ExecutedKeeps ==
  ASSUME NodeInv, NEW w \in Workers, NEW s \in {"success", "failed"}, Executed(w, s)
  PROVE  /\ held[w] \in Entry /\ held[w].task \in Working /\ held[w].task \in Tasks
         /\ attempts[held[w].task] = held[w].retry + 1
         /\ Working' = Working \ {held[w].task}
         /\ \A v \in Workers : held'[v] # None => held'[v] = held[v] /\ v # w /\ pc'[v] = pc[v]
         /\ UNCHANGED <<taskQueue, pending, fetched, given, attempts>>
         /\ TasksOf(taskQueue)' = TasksOf(taskQueue) /\ NoTwins(taskQueue)' = NoTwins(taskQueue)
         /\ Fetched' = Fetched
         /\ store' \in Seq(Entry) /\ outcome' \in [Tasks -> {"none", "success", "failed"}] => TypeOK'
<1> USE NoneAssumption, SizesAssumption
<1> DEFINE r == [task |-> held[w].task, status |-> s]
<1>1. /\ TypeOK /\ HomeInv /\ RetryInv /\ pc[w] = "busy" /\ held[w] \in Entry
      /\ held' = [held EXCEPT ![w] = None] /\ result' = [result EXCEPT ![w] = r]
      /\ pc' = [pc EXCEPT ![w] = "reporting"]
      /\ UNCHANGED <<status, closed, taskQueue, pending, fetching, fetched, fetcher, resultQueue,
                     publisher, given, refused, attempts, published, dropped, taskStatus>>
  BY DEF NodeInv, Executed, Goto, fetch, TypeOK
<1>2. held[w].task \in Tasks /\ r \in Result
  BY <1>1 DEF Entry, Result
<1>3. /\ attempts[held[w].task] = held[w].retry + 1 /\ Working' = Working \ {held[w].task}
      /\ held[w].task \in Working
  BY <1>1, GivenAway DEF RetryInv
<1>4. \A v \in Workers : held'[v] # None => held'[v] = held[v] /\ v # w /\ pc'[v] = pc[v]
  BY <1>1 DEF TypeOK
<1>5. /\ TasksOf(taskQueue)' = TasksOf(taskQueue) /\ NoTwins(taskQueue)' = NoTwins(taskQueue)
      /\ Fetched' = Fetched
  BY <1>1 DEF TasksOf, Fetched, NoTwins
<1> HIDE DEF r
<1>6. store' \in Seq(Entry) /\ outcome' \in [Tasks -> {"none", "success", "failed"}] => TypeOK'
  BY <1>1, <1>2 DEF TypeOK
<1>. QED  BY <1>1, <1>2, <1>3, <1>4, <1>5, <1>6

LEMMA SucceedKeeps == ASSUME NodeInv, NEW w \in Workers, Succeed(w) PROVE NodeInv'
<1> DEFINE t == held[w].task
<1>1. /\ Executed(w, "success") /\ outcome' = [outcome EXCEPT ![t] = "success"] /\ store' = store
      /\ TypeOK /\ HomeInv /\ RetryInv
  BY DEF NodeInv, Succeed
<1>2. /\ t \in Tasks /\ t \in Working /\ Working' = Working \ {t}
      /\ \A v \in Workers : held'[v] # None => held'[v] = held[v] /\ v # w /\ pc'[v] = pc[v]
      /\ UNCHANGED <<taskQueue, pending, fetched, given, attempts>>
      /\ TasksOf(taskQueue)' = TasksOf(taskQueue) /\ NoTwins(taskQueue)' = NoTwins(taskQueue)
      /\ Fetched' = Fetched
      /\ store' \in Seq(Entry) /\ outcome' \in [Tasks -> {"none", "success", "failed"}] => TypeOK'
  BY <1>1, ExecutedKeeps
<1>3. TypeOK'
  BY <1>1, <1>2 DEF TypeOK
<1>4. outcome'[t] = "success" /\ \A u \in Tasks : u # t => outcome'[u] = outcome[u]
  BY <1>1, <1>2 DEF TypeOK
<1>5. TasksOf(store)' = TasksOf(store) /\ NoTwins(store)' = NoTwins(store)
  BY <1>1 DEF TasksOf, NoTwins
<1>6. given \subseteq Tasks
  BY <1>1 DEF TypeOK
<1> HIDE DEF t
<1>7. HomeInv'
  BY <1>1, <1>2, <1>4, <1>5, <1>6 DEF HomeInv, Homes
<1>8. RetryInv'
  BY <1>1, <1>2 DEF RetryInv
<1>. QED  BY <1>3, <1>7, <1>8 DEF NodeInv

LEMMA FailFinallyKeeps == ASSUME NodeInv, NEW w \in Workers, FailFinally(w) PROVE NodeInv'
<1> DEFINE t == held[w].task
<1>1. /\ Executed(w, "failed") /\ outcome' = [outcome EXCEPT ![t] = "failed"] /\ store' = store
      /\ TypeOK /\ HomeInv /\ RetryInv
  BY DEF NodeInv, FailFinally
<1>2. /\ t \in Tasks /\ t \in Working /\ Working' = Working \ {t}
      /\ \A v \in Workers : held'[v] # None => held'[v] = held[v] /\ v # w /\ pc'[v] = pc[v]
      /\ UNCHANGED <<taskQueue, pending, fetched, given, attempts>>
      /\ TasksOf(taskQueue)' = TasksOf(taskQueue) /\ NoTwins(taskQueue)' = NoTwins(taskQueue)
      /\ Fetched' = Fetched
      /\ store' \in Seq(Entry) /\ outcome' \in [Tasks -> {"none", "success", "failed"}] => TypeOK'
  BY <1>1, ExecutedKeeps
<1>3. TypeOK'
  BY <1>1, <1>2 DEF TypeOK
<1>4. outcome'[t] = "failed" /\ \A u \in Tasks : u # t => outcome'[u] = outcome[u]
  BY <1>1, <1>2 DEF TypeOK
<1>5. TasksOf(store)' = TasksOf(store) /\ NoTwins(store)' = NoTwins(store)
  BY <1>1 DEF TasksOf, NoTwins
<1>6. given \subseteq Tasks
  BY <1>1 DEF TypeOK
<1> HIDE DEF t
<1>7. HomeInv'
  BY <1>1, <1>2, <1>4, <1>5, <1>6 DEF HomeInv, Homes
<1>8. RetryInv'
  BY <1>1, <1>2 DEF RetryInv
<1>. QED  BY <1>3, <1>7, <1>8 DEF NodeInv

LEMMA FailRetryKeeps == ASSUME NodeInv, NEW w \in Workers, FailRetry(w) PROVE NodeInv'
<1> USE SizesAssumption
<1> DEFINE t == held[w].task
           e == [held[w] EXCEPT !.retry = @ + 1]
<1>1. /\ Executed(w, "failed") /\ store' = Append(store, e) /\ outcome' = outcome
      /\ held[w].retry < MaxRetries /\ TypeOK /\ HomeInv /\ RetryInv
  BY DEF NodeInv, FailRetry, CanRetry
<1>2. /\ held[w] \in Entry /\ t \in Tasks /\ t \in Working /\ Working' = Working \ {t}
      /\ attempts[t] = held[w].retry + 1
      /\ \A v \in Workers : held'[v] # None => held'[v] = held[v] /\ v # w /\ pc'[v] = pc[v]
      /\ UNCHANGED <<taskQueue, pending, fetched, given, attempts>>
      /\ TasksOf(taskQueue)' = TasksOf(taskQueue) /\ NoTwins(taskQueue)' = NoTwins(taskQueue)
      /\ Fetched' = Fetched
      /\ store' \in Seq(Entry) /\ outcome' \in [Tasks -> {"none", "success", "failed"}] => TypeOK'
  BY <1>1, ExecutedKeeps
<1>3. e \in Entry /\ e.task = t /\ attempts[t] = e.retry
  BY <1>1, <1>2 DEF Entry
<1> HIDE DEF e
<1>4. /\ store' \in Seq(Entry)
      /\ \A i \in DOMAIN store' : (i \in DOMAIN store /\ store'[i] = store[i]) \/ store'[i] = e
      /\ TasksOf(store') = TasksOf(store) \union {t}
      /\ NoTwins(store) /\ t \notin TasksOf(store) => NoTwins(store')
  BY <1>1, <1>3, Appended DEF TypeOK
<1>5. TypeOK'
  BY <1>1, <1>2, <1>4 DEF TypeOK
<1>6. TasksOf(store)' = TasksOf(store') /\ NoTwins(store)' = NoTwins(store')
  BY DEF TasksOf, NoTwins
<1> HIDE DEF t
<1>7. HomeInv'
  BY <1>1, <1>2, <1>4, <1>6 DEF HomeInv, Homes
<1>8. RetryInv'
  BY <1>1, <1>2, <1>3, <1>4 DEF RetryInv
<1>. QED  BY <1>5, <1>7, <1>8 DEF NodeInv

\* What moves results, goroutines and the status, but no task.
LEMMA OtherStepsKeep ==
  ASSUME NodeInv,
         \/ FetchTasks \/ HandleResult \/ FetcherExits \/ PublisherExits
         \/ \E w \in Workers : Report(w) \/ WorkerExits(w)
         \/ Pause \/ Resume \/ Stop \/ Stopped \/ UNCHANGED vars
  PROVE  NodeInv'
<1> USE NoneAssumption, SizesAssumption
<1>0. TypeOK /\ \A w \in Workers : held[w] # None => pc[w] \in {"taken", "busy", "returning"}
  BY DEF NodeInv, TypeOK
<1>1. CASE FetchTasks
  <2>1. TypeOK'
    BY <1>0, <1>1 DEF FetchTasks, TypeOK, worker, history
  <2>. QED  BY <1>1, <2>1, NothingMoves DEF FetchTasks, worker, history, NodeInv
<1>2. CASE HandleResult
  <2>1. /\ Head(resultQueue) \in Result /\ Tail(resultQueue) \in Seq(Result)
        /\ Len(Tail(resultQueue)) = Len(resultQueue) - 1
    BY <1>0, <1>2, HeadTailProperties DEF HandleResult, TypeOK
  <2>2. Head(resultQueue).task \in Tasks /\ Head(resultQueue).status \in {"success", "failed"}
    BY <2>1 DEF Result
  <2>3. TypeOK'
    BY <1>0, <1>2, <2>1, <2>2 DEF HandleResult, TypeOK, fetch, worker
  <2>. QED  BY <1>2, <2>3, NothingMoves DEF HandleResult, fetch, worker, NodeInv
<1>3. CASE FetcherExits \/ PublisherExits
  <2>1. TypeOK'
    BY <1>0, <1>3 DEF FetcherExits, PublisherExits, TypeOK, fetch, worker, history
  <2>. QED  BY <1>3, <2>1, NothingMoves DEF FetcherExits, PublisherExits, fetch, worker, history, NodeInv
<1>4. ASSUME NEW w \in Workers, Report(w) PROVE NodeInv'
  <2>1. /\ UNCHANGED <<status, closed, taskQueue, store, pending, fetching, fetched, fetcher, held,
                       publisher, given, refused, attempts, outcome, published, taskStatus>>
        /\ pc[w] = "reporting" /\ result[w] \in Result /\ pc' = [pc EXCEPT ![w] = "idle"]
        /\ result' = [result EXCEPT ![w] = None]
    BY <1>0, <1>4 DEF Report, Goto, fetch, TypeOK
  <2>2. /\ resultQueue' \in Seq(Result) /\ Len(resultQueue') <= ResultSize
        /\ dropped' \subseteq Result
    <3>1. CASE Len(resultQueue) < ResultSize
      <4>1. resultQueue' = Append(resultQueue, result[w]) /\ dropped' = dropped
        BY <1>4, <3>1 DEF Report
      <4>2. resultQueue' \in Seq(Result) /\ Len(resultQueue') = Len(resultQueue) + 1
        BY <1>0, <2>1, <4>1, AppendProperties DEF TypeOK
      <4>3. Len(resultQueue) \in Nat
        BY <1>0, LenProperties DEF TypeOK
      <4>. QED  BY <1>0, <3>1, <4>1, <4>2, <4>3 DEF TypeOK
    <3>2. CASE ~(Len(resultQueue) < ResultSize)
      BY <1>0, <1>4, <2>1, <3>2 DEF Report, TypeOK
    <3>. QED  BY <3>1, <3>2
  <2>3. TypeOK'
    BY <1>0, <2>1, <2>2 DEF TypeOK
  <2>4. \A v \in Workers : held[v] # None => pc'[v] = pc[v]
    BY <1>0, <2>1 DEF TypeOK
  <2>. QED  BY <2>1, <2>3, <2>4, NothingMoves DEF NodeInv
<1>5. ASSUME NEW w \in Workers, WorkerExits(w) PROVE NodeInv'
  <2>1. /\ UNCHANGED <<status, closed, taskQueue, store, pending, fetch, held, result, resultQueue,
                       publisher, history>>
        /\ pc[w] = "idle" /\ pc' = [pc EXCEPT ![w] = "exited"]
    BY <1>5 DEF WorkerExits, Goto
  <2>2. TypeOK'
    BY <1>0, <2>1 DEF TypeOK, fetch, history
  <2>3. \A v \in Workers : held[v] # None => pc'[v] = pc[v]
    BY <1>0, <2>1 DEF TypeOK
  <2>. QED  BY <2>1, <2>2, <2>3, NothingMoves DEF fetch, history, NodeInv
<1>6. CASE Pause \/ Resume \/ Stop \/ Stopped
  <2>1. /\ UNCHANGED <<taskQueue, store, pending, fetch, worker, resultQueue, publisher, history>>
        /\ status' \in {"active", "paused", "stopping", "stopped"} /\ closed' \in BOOLEAN
        /\ closed' <=> status' \in {"stopping", "stopped"}
    <3>1. closed \in BOOLEAN /\ (closed <=> status \in {"stopping", "stopped"})
      BY <1>0 DEF TypeOK
    <3>2. CASE Pause
      BY <3>1, <3>2 DEF Pause, SetStatus
    <3>3. CASE Resume
      BY <3>1, <3>3 DEF Resume, SetStatus
    <3>4. CASE Stop
      BY <3>4 DEF Stop, SetStatus
    <3>5. CASE Stopped
      BY <3>1, <3>5 DEF Stopped, SetStatus
    <3>. QED  BY <1>6, <3>2, <3>3, <3>4, <3>5
  <2>2. TypeOK'
    BY <1>0, <2>1 DEF TypeOK, fetch, worker, history
  <2>. QED  BY <2>1, <2>2, NothingMoves DEF fetch, worker, history, NodeInv
<1>7. CASE UNCHANGED vars
  <2>1. TypeOK'
    BY <1>0, <1>7 DEF TypeOK, vars, fetch, worker, history
  <2>. QED  BY <1>7, <2>1, NothingMoves DEF vars, fetch, worker, history, NodeInv
<1>. QED  BY <1>1, <1>2, <1>3, <1>4, <1>5, <1>6, <1>7

-----------------------------------------------------------------------------
LEMMA NodeInvHolds == Spec => []NodeInv
<1>1. Init => NodeInv
  <2> SUFFICES ASSUME Init PROVE NodeInv
    OBVIOUS
  <2> USE NoneAssumption, SizesAssumption
  <2>1. TypeOK
    <3>1. \A S : <<>> \in Seq(S) /\ Len(<<>>) = 0
      BY EmptySeq
    <3>2. 0 \in 0..FetchMax /\ 0 \in 0..(MaxRetries + 1) /\ 0 <= QueueSize /\ 0 <= ResultSize
      OBVIOUS
    <3>. QED  BY <3>1, <3>2 DEF Init, TypeOK
  <2>2. /\ DOMAIN taskQueue = {} /\ DOMAIN store = {} /\ fetched = None
        /\ \A w \in Workers : held[w] = None
    BY DEF Init
  <2>3. HomeInv
    BY <2>2 DEF Init, HomeInv, Homes, TasksOf, NoTwins, Fetched, Working
  <2>4. RetryInv
    BY <2>2 DEF Init, RetryInv
  <2>. QED  BY <2>1, <2>3, <2>4 DEF NodeInv
<1>2. NodeInv /\ [Next]_vars => NodeInv'
  BY AssignmentKeeps, PopKeeps, QueueKeeps, TakeKeeps, CheckKeeps, GiveBackKeeps, SucceedKeeps,
     FailRetryKeeps, FailFinallyKeeps, OtherStepsKeep DEF Next, Fetch, Work, Done
<1>. QED  BY <1>1, <1>2, PTL DEF Spec

\* The state has its types; in particular no task is executed more than MaxRetries + 1 times,
\* however its entries travel (CanRetry, node.go:831-842).
THEOREM NodeTypes == Spec => []TypeOK
<1>1. NodeInv => TypeOK
  BY DEF NodeInv
<1>. QED  BY <1>1, NodeInvHolds, PTL

\* For any number of tasks and workers and any capacities: an acknowledged task that has not
\* ended is in exactly one place, any other in none (node.go:547-642, 831-842).
THEOREM TasksHaveOnePlace == Spec => []OnePlace
<1>1. NodeInv => OnePlace
  <2> SUFFICES ASSUME NodeInv, NEW t \in Tasks
               PROVE  Cardinality(Places(t)) = IF t \in given /\ outcome[t] = "none" THEN 1 ELSE 0
    BY DEF OnePlace
  <2> USE NoneAssumption
  <2>1. HomeInv
    BY DEF NodeInv
  <2>2. \A p : p \in Places(t) <=>
          \/ \E i \in DOMAIN taskQueue : taskQueue[i].task = t /\ p = <<"queue", i>>
          \/ \E i \in DOMAIN store : store[i].task = t /\ p = <<"store", i>>
          \/ fetched # None /\ fetched.task = t /\ p = <<"fetcher", 0>>
          \/ t \in pending /\ p = <<"pending", 0>>
          \/ \E w \in Workers : held[w] # None /\ held[w].task = t /\ p = <<"worker", w>>
    BY DEF Places
  <2>3. Places(t) # {} <=> t \in Homes
    BY <2>2 DEF Homes, TasksOf, Fetched, Working
  <2>4. \A p, q \in Places(t) : p = q
    BY <2>1, <2>2 DEF HomeInv, NoTwins, TasksOf, Fetched, Working
  <2>5. CASE t \in given /\ outcome[t] = "none"
    <3>1. PICK p : p \in Places(t)
      BY <2>1, <2>3, <2>5 DEF HomeInv
    <3>2. Places(t) = {p}
      BY <2>4, <3>1
    <3>. QED  BY <2>5, <3>2, FS_Singleton
  <2>6. CASE ~(t \in given /\ outcome[t] = "none")
    <3>1. Places(t) = {}
      BY <2>1, <2>3, <2>6 DEF HomeInv
    <3>. QED  BY <2>6, <3>1, FS_EmptySet
  <2>. QED  BY <2>5, <2>6
<1>. QED  BY <1>1, NodeInvHolds, PTL

-----------------------------------------------------------------------------
\* The components count with the one Cardinality.
LEMMA SameCount == /\ \A S : Link!Cardinality(S) = Cardinality(S)
                   /\ \A S : Batch!Cardinality(S) = Cardinality(S)
  BY DEF Cardinality, Link!Cardinality, Batch!Cardinality

-----------------------------------------------------------------------------
(* The link of a node.                                                     *)

\* Threads of the client that have noticed a break, dial or register.
Dialers == noticing + dialing["start"] + dialing["reconnect"] + Cardinality(opening)

\* What OneDialer rests on: there is a stream before anybody registers on it, the loops
\* begin when Start's own Connect is over, and a stopped node leaves no stream open.
LinkInv ==
  /\ Link!LinkTypeOK /\ IsFiniteSet(opening)
  /\ Link!StreamsOwned
  /\ opening # {} \/ connected \/ heartbeats => stream # 0
  /\ dialing["start"] > 0 \/ (\E o \in opening : o.kind = "start") => ~heartbeats
  /\ halted => ~heartbeats /\ ~connected /\ \A s \in Link!Streams : wire[s] # "open"

LEMMA LinkInitially == Link!Init => LinkInv
<1> SUFFICES ASSUME Link!Init PROVE LinkInv
  OBVIOUS
<1> USE LinkBounds
<1>1. Link!LinkTypeOK
  <2>1. dialing \in [Link!Kinds -> Nat] /\ finishing \in [Link!Kinds -> Nat]
    BY DEF Link!Init, Link!Kinds
  <2>2. /\ recvOn \in [Link!Streams -> Nat] /\ wire \in [Link!Streams -> {"unused", "open", "broken"}]
        /\ handler \in [Link!Streams -> {"none", "registered", "serving", "closing", "gone"}]
    BY DEF Link!Init
  <2>3. /\ nodes \in 0..MaxStreams /\ expired \in 0..MaxStreams /\ asked \in 0..MaxStreams
        /\ linkFaults \in 0..MaxLinkFaults /\ asks \in 0..MaxAsks /\ stream \in 0..MaxStreams
    BY DEF Link!Init
  <2>4. /\ opening \subseteq [kind : Link!Kinds, on : Link!Streams]
        /\ toHub \subseteq Link!Streams /\ open \subseteq Link!Streams /\ stopped \subseteq Link!Streams
    BY DEF Link!Init
  <2>. QED  BY <2>1, <2>2, <2>3, <2>4 DEF Link!Init, Link!LinkTypeOK
<1>2. IsFiniteSet(opening) /\ Cardinality(opening) = 0
  BY FS_EmptySet DEF Link!Init
<1>3. Link!OneDialer
  BY <1>2, SameCount DEF Link!Init, Link!OneDialer, Link!Kinds
<1>4. Link!NoOrphan
  BY DEF Link!Init, Link!NoOrphan
<1>. QED  BY <1>1, <1>2, <1>3, <1>4 DEF Link!Init, LinkInv, Link!StreamsOwned, Link!Kinds,
             Link!Streams

\* Steps of the hub leave the client as it is and open no stream.
HubStep == /\ UNCHANGED Link!clientVars
           /\ \A s \in Link!Streams : wire'[s] = "open" => wire[s] = "open"

LEMMA HubSteps ==
  ASSUME LinkInv,
         Link!Checks \/ Link!Ask \/ Link!HubCrash \/ \E s \in Link!Streams : Link!Handle(s) \/ Link!Break(s)
  PROVE  HubStep
  BY DEF HubStep, Link!Checks, Link!Handle, Link!Break, Link!Ask, Link!HubCrash, Link!FindExpired,
     Link!Expire, Link!Cleanup, Link!AskTimeout,
         Link!HubDies, Link!SendLoopFails, Link!Accept, Link!Acknowledge, Link!HandleMessages,
         Link!Leave, Link!Ends, Link!HubEnds,
         LinkInv, Link!LinkTypeOK

LEMMA OpeningCounted ==
  ASSUME LinkInv
  PROVE  /\ Cardinality(opening) \in Nat /\ Dialers \in Nat /\ noticing \in Nat
         /\ dialing["start"] \in Nat /\ dialing["reconnect"] \in Nat
         /\ opening = {} <=> Cardinality(opening) = 0
         /\ Dialers <= 1 /\ (connected => Dialers = 0) /\ (heartbeats /\ ~connected => Dialers = 1)
<1>1. Cardinality(opening) \in Nat /\ (opening = {} <=> Cardinality(opening) = 0)
  BY FS_CardinalityType, FS_EmptySet DEF LinkInv
<1>2. noticing \in Nat /\ dialing["start"] \in Nat /\ dialing["reconnect"] \in Nat
  BY DEF LinkInv, Link!LinkTypeOK, Link!Kinds
<1>. QED  BY <1>1, <1>2, SameCount DEF LinkInv, Link!StreamsOwned, Link!OneDialer, Dialers

LEMMA OpeningTaken ==
  ASSUME LinkInv, NEW o \in opening, opening' = opening \ {o}
  PROVE  IsFiniteSet(opening') /\ Cardinality(opening') = Cardinality(opening) - 1
  BY FS_RemoveElement DEF LinkInv

LEMMA OpeningAdded ==
  ASSUME LinkInv, NEW o, o \notin opening, opening' = opening \union {o}
  PROVE  IsFiniteSet(opening') /\ Cardinality(opening') = Cardinality(opening) + 1
  BY FS_AddElement DEF LinkInv

\* The parts of LinkInv: types of the client and of the hub, the thread that dials, and
\* what goes with it.
ClientTypes ==
  /\ nodeStatus \in {"starting", "active", "disconnected", "stopped"}
  /\ connected \in BOOLEAN /\ stream \in 0..MaxStreams
  /\ noticing \in Nat /\ halted \in BOOLEAN
  /\ dialing \in [Link!Kinds -> Nat] /\ finishing \in [Link!Kinds -> Nat]
  /\ opening \subseteq [kind : Link!Kinds, on : Link!Streams]
  /\ recvOn \in [Link!Streams -> Nat] /\ heartbeats \in BOOLEAN
WireTypes ==
  /\ wire \in [Link!Streams -> {"unused", "open", "broken"}] /\ toHub \subseteq Link!Streams
  /\ linkFaults \in 0..MaxLinkFaults /\ asks \in 0..MaxAsks
HubTypes ==
  /\ handler \in [Link!Streams -> {"none", "registered", "serving", "closing", "gone"}]
  /\ open \subseteq Link!Streams /\ stopped \subseteq Link!Streams
  /\ nodes \in 0..MaxStreams /\ expired \in 0..MaxStreams /\ asked \in 0..MaxStreams
ClientInv ==
  /\ IsFiniteSet(opening) /\ Link!OneDialer
  /\ opening # {} \/ connected \/ heartbeats => stream # 0
  /\ dialing["start"] > 0 \/ (\E o \in opening : o.kind = "start") => ~heartbeats
  /\ halted => ~heartbeats /\ ~connected
NoneOpen == halted => \A s \in Link!Streams : wire[s] # "open"

LEMMA LinkParts == LinkInv <=> ClientTypes /\ WireTypes /\ HubTypes /\ ClientInv /\ NoneOpen /\ Link!NoOrphan
  BY DEF LinkInv, Link!LinkTypeOK, ClientTypes, WireTypes, HubTypes, ClientInv, NoneOpen,
     Link!StreamsOwned

LEMMA LinkPartsNext ==
  ASSUME ClientTypes', WireTypes', HubTypes', ClientInv', NoneOpen', Link!NoOrphan'
  PROVE  LinkInv'
  BY DEF LinkInv, Link!LinkTypeOK, ClientTypes, WireTypes, HubTypes, ClientInv, NoneOpen,
     Link!StreamsOwned

LEMMA OpenKeeps ==
  ASSUME LinkInv, NEW k \in Link!Kinds, Link!Open(k)
  PROVE  ClientTypes' /\ WireTypes' /\ ClientInv' /\ NoneOpen'
<1> DEFINE o == [kind |-> k, on |-> stream + 1]
<1>1. stream \in Nat /\ MaxStreams \in Nat /\ stream + 1 \in Link!Streams /\ stream + 1 \in 0..MaxStreams
  BY LinkBounds DEF Link!Open, LinkInv, Link!LinkTypeOK, Link!Streams
<1>2. ClientTypes'
  <2>1. dialing' \in [Link!Kinds -> Nat]
    BY DEF Link!Open, LinkInv, Link!LinkTypeOK
  <2>2. opening' \subseteq [kind : Link!Kinds, on : Link!Streams]
    BY <1>1 DEF Link!Open, LinkInv, Link!LinkTypeOK
  <2>. QED  BY <1>1, <2>1, <2>2 DEF Link!Open, LinkInv, Link!LinkTypeOK, ClientTypes
<1>3. WireTypes'
  BY <1>1 DEF Link!Open, LinkInv, Link!LinkTypeOK, WireTypes
<1>4. o \notin opening
  BY OpeningCounted, FS_EmptySet DEF Link!Open, LinkInv, Link!LinkTypeOK, Link!Kinds, Dialers
<1>5. IsFiniteSet(opening') /\ Cardinality(opening') = Cardinality(opening) + 1
  BY <1>4, OpeningAdded DEF Link!Open
<1>6. Link!OneDialer'
  <2>1. dialing'["start"] + dialing'["reconnect"] = dialing["start"] + dialing["reconnect"] - 1
    BY OpeningCounted DEF Link!Open, LinkInv, Link!LinkTypeOK, Link!Kinds
  <2>2. dialing'["start"] \in Nat /\ dialing'["reconnect"] \in Nat
    BY <1>2 DEF ClientTypes, Link!Kinds
  <2>3. connected' = connected /\ heartbeats' = heartbeats /\ noticing' = noticing
    BY DEF Link!Open
  <2>. QED  BY <1>5, <2>1, <2>2, <2>3, OpeningCounted, SameCount DEF Link!OneDialer, Dialers
<1>7. dialing'["start"] > 0 \/ (\E q \in opening' : q.kind = "start") => ~heartbeats'
  <2>1. dialing'["start"] > 0 => dialing["start"] > 0
    BY OpeningCounted DEF Link!Open, LinkInv, Link!LinkTypeOK, Link!Kinds
  <2>2. ASSUME NEW q \in opening', q.kind = "start"
        PROVE  dialing["start"] > 0 \/ \E r \in opening : r.kind = "start"
    BY <2>2 DEF Link!Open
  <2>. QED  BY <2>1, <2>2 DEF Link!Open, LinkInv
<1>8. (opening' # {} \/ connected' \/ heartbeats' => stream' # 0) /\ (halted' => ~heartbeats' /\ ~connected')
  BY <1>1 DEF Link!Open, LinkInv
<1>9. NoneOpen'
  BY DEF Link!Open, NoneOpen
<1>. QED  BY <1>2, <1>3, <1>5, <1>6, <1>7, <1>8, <1>9 DEF ClientInv

LEMMA RegisteredKeeps ==
  ASSUME LinkInv, NEW o \in opening, Link!Registered(o)
  PROVE  ClientTypes' /\ WireTypes' /\ ClientInv' /\ NoneOpen'
<1>1. stream \in Link!Streams
  BY LinkBounds DEF LinkInv, Link!LinkTypeOK, Link!Streams
<1>2. IsFiniteSet(opening') /\ Cardinality(opening') = Cardinality(opening) - 1
  BY OpeningTaken DEF Link!Registered
<1>3. /\ Cardinality(opening) = 1 /\ noticing = 0 /\ dialing["start"] = 0 /\ dialing["reconnect"] = 0
  BY OpeningCounted DEF Dialers
<1>4. opening' = {}
  BY <1>2, <1>3, FS_EmptySet
<1>5. ~halted
  BY <1>1 DEF Link!Registered, LinkInv
<1>6. ClientTypes'
  <2>1. recvOn' \in [Link!Streams -> Nat] /\ finishing' \in [Link!Kinds -> Nat]
    BY <1>1 DEF Link!Registered, LinkInv, Link!LinkTypeOK
  <2>. QED  BY <1>4, <2>1 DEF Link!Registered, LinkInv, Link!LinkTypeOK, ClientTypes
<1>7. WireTypes' /\ NoneOpen'
  BY <1>1, <1>5 DEF Link!Registered, LinkInv, Link!LinkTypeOK, WireTypes, NoneOpen
<1>8. Link!OneDialer'
  BY <1>2, <1>3, SameCount DEF Link!Registered, Link!OneDialer
<1>9. ClientInv'
  BY <1>1, <1>2, <1>3, <1>4, <1>5, <1>8 DEF Link!Registered, ClientInv, Link!Streams
<1>. QED  BY <1>6, <1>7, <1>9

LEMMA RegisterFailsKeeps ==
  ASSUME LinkInv, NEW o \in opening, Link!RegisterFails(o)
  PROVE  ClientTypes' /\ WireTypes' /\ ClientInv' /\ NoneOpen'
<1>1. o.kind \in Link!Kinds /\ o.on \in Link!Streams
  BY DEF LinkInv, Link!LinkTypeOK
<1>2. IsFiniteSet(opening') /\ Cardinality(opening') = Cardinality(opening) - 1
  BY OpeningTaken DEF Link!RegisterFails
<1>3. /\ Cardinality(opening) = 1 /\ noticing = 0 /\ dialing["start"] = 0 /\ dialing["reconnect"] = 0
      /\ ~connected
  BY OpeningCounted DEF Dialers
<1>4. opening' = {}
  BY <1>2, <1>3, FS_EmptySet
<1>5. ClientTypes'
  <2>1. dialing' \in [Link!Kinds -> Nat]
    BY DEF Link!RegisterFails, LinkInv, Link!LinkTypeOK, Link!Kinds
  <2>. QED  BY <1>4, <2>1 DEF Link!RegisterFails, LinkInv, Link!LinkTypeOK, ClientTypes
<1>6. WireTypes' /\ NoneOpen'
  BY <1>1 DEF Link!RegisterFails, LinkInv, Link!LinkTypeOK, WireTypes, NoneOpen
<1>7. Link!OneDialer' /\ dialing'["start"] = 0
  <2>1. CASE o.kind = "reconnect"
    <3>1. dialing'["start"] = 0 /\ dialing'["reconnect"] = 1
      BY <1>3, <2>1 DEF Link!RegisterFails, LinkInv, Link!LinkTypeOK, Link!Kinds
    <3>. QED  BY <1>2, <1>3, <3>1, SameCount DEF Link!RegisterFails, Link!OneDialer
  <2>2. CASE o.kind # "reconnect"
    <3>1. o.kind = "start" /\ ~heartbeats
      BY <1>1, <2>2 DEF Link!Kinds, LinkInv
    <3>2. dialing' = dialing /\ heartbeats' = heartbeats /\ connected' = connected /\ noticing' = noticing
      BY <2>2 DEF Link!RegisterFails
    <3>. QED  BY <1>2, <1>3, <3>1, <3>2, SameCount DEF Link!OneDialer
  <2>. QED  BY <2>1, <2>2
<1>8. ClientInv'
  BY <1>2, <1>4, <1>7 DEF Link!RegisterFails, ClientInv, LinkInv
<1>. QED  BY <1>5, <1>6, <1>8

\* Threads that give up or hand over the dialling.
LEMMA ThreadsKeep ==
  ASSUME LinkInv, Link!StartAlone \/ Link!Reconnect \/ Link!ReconnectEnds
  PROVE  ClientTypes' /\ WireTypes' /\ ClientInv' /\ NoneOpen'
<1>1. dialing' \in [Link!Kinds -> Nat] /\ noticing' \in Nat
  BY DEF Link!StartAlone, Link!Reconnect, Link!ReconnectEnds, LinkInv, Link!LinkTypeOK, Link!Kinds
<1>2. ClientTypes'
  BY <1>1 DEF Link!StartAlone, Link!Reconnect, Link!ReconnectEnds, LinkInv, Link!LinkTypeOK,
     ClientTypes
<1>3. WireTypes' /\ NoneOpen'
  BY LinkBounds DEF Link!StartAlone, Link!Reconnect, Link!ReconnectEnds, LinkInv, Link!LinkTypeOK,
     WireTypes, NoneOpen
<1>4. opening' = opening /\ connected' = connected /\ heartbeats' = heartbeats
      /\ stream' = stream /\ halted' = halted
  BY DEF Link!StartAlone, Link!Reconnect, Link!ReconnectEnds
<1>5. Link!OneDialer' /\ (dialing'["start"] > 0 => dialing["start"] > 0)
  <2>1. CASE Link!StartAlone
    <3>1. dialing'["start"] = dialing["start"] - 1 /\ dialing'["reconnect"] = dialing["reconnect"]
          /\ noticing' = noticing /\ ~heartbeats /\ dialing["start"] > 0
      BY <2>1 DEF Link!StartAlone, LinkInv, Link!LinkTypeOK, Link!Kinds
    <3>. QED  BY <1>4, <3>1, OpeningCounted, SameCount DEF Link!OneDialer, Dialers
  <2>2. CASE Link!Reconnect
    <3>1. dialing'["start"] = dialing["start"] /\ dialing'["reconnect"] = dialing["reconnect"] + 1
          /\ noticing' = noticing - 1
      BY <2>2 DEF Link!Reconnect, LinkInv, Link!LinkTypeOK, Link!Kinds
    <3>. QED  BY <1>4, <3>1, OpeningCounted, SameCount DEF Link!OneDialer, Dialers
  <2>3. CASE Link!ReconnectEnds
    <3>1. dialing'["start"] = dialing["start"] /\ dialing'["reconnect"] = dialing["reconnect"] - 1
          /\ noticing' = noticing /\ ~heartbeats /\ dialing["reconnect"] > 0
      BY <2>3 DEF Link!ReconnectEnds, LinkInv, Link!LinkTypeOK, Link!Kinds
    <3>. QED  BY <1>4, <3>1, OpeningCounted, SameCount DEF Link!OneDialer, Dialers
  <2>. QED  BY <2>1, <2>2, <2>3
<1>6. ClientInv'
  BY <1>4, <1>5 DEF ClientInv, LinkInv
<1>. QED  BY <1>2, <1>3, <1>6

\* Threads that notice a break, and loops that go on.
LEMMA LoopsKeep ==
  ASSUME LinkInv, NEW k \in Link!Kinds, NEW s \in Link!Streams,
         Link!SetActive(k) \/ Link!ReceiveFails(s) \/ Link!Receive(s) \/ Link!SendHeartbeat
  PROVE  ClientTypes' /\ WireTypes' /\ ClientInv' /\ NoneOpen'
<1>1. /\ opening' = opening /\ dialing' = dialing /\ heartbeats' = heartbeats /\ wire' = wire
      /\ stream' = stream /\ halted' = halted /\ linkFaults' = linkFaults /\ asks' = asks
  BY DEF Link!SetActive, Link!ReceiveFails, Link!Receive, Link!SendHeartbeat
<1>2. \/ connected' = connected /\ noticing' = noticing
      \/ connected' = FALSE /\ noticing' = IF connected THEN noticing + 1 ELSE noticing
  BY DEF Link!SetActive, Link!ReceiveFails, Link!Receive, Link!SendHeartbeat, Link!HandleDisconnect
<1>3. /\ nodeStatus' \in {"starting", "active", "disconnected", "stopped"}
      /\ finishing' \in [Link!Kinds -> Nat]
  BY DEF Link!SetActive, Link!ReceiveFails, Link!Receive, Link!SendHeartbeat, LinkInv,
     Link!LinkTypeOK
<1>4. recvOn' \in [Link!Streams -> Nat]
  <2>1. CASE Link!SetActive(k) \/ Link!SendHeartbeat
    BY <2>1 DEF Link!SetActive, Link!SendHeartbeat, LinkInv, Link!LinkTypeOK
  <2>2. CASE Link!ReceiveFails(s)
    BY <2>2 DEF Link!ReceiveFails, LinkInv, Link!LinkTypeOK
  <2>3. CASE Link!Receive(s)
    <3> DEFINE less == [recvOn EXCEPT ![s] = @ - 1]
    <3>1. less \in [Link!Streams -> Nat]
      BY <2>3 DEF Link!Receive, LinkInv, Link!LinkTypeOK
    <3>2. recvOn' = [less EXCEPT ![stream] = @ + 1]
      BY <2>3 DEF Link!Receive
    <3>3. recvOn' = [x \in Link!Streams |-> IF x = stream THEN less[x] + 1 ELSE less[x]]
      BY <3>1, <3>2, Zenon
    <3> HIDE DEF less
    <3>. QED  BY <3>1, <3>3
  <2>. QED  BY <2>1, <2>2, <2>3
<1>5. toHub' \subseteq Link!Streams
  <2>1. stream # 0 => stream \in Link!Streams
    BY LinkBounds DEF LinkInv, Link!LinkTypeOK, Link!Streams
  <2>2. toHub' = toHub \/ (stream # 0 /\ toHub' = toHub \union {stream})
    BY DEF Link!SetActive, Link!ReceiveFails, Link!Receive, Link!SendHeartbeat, LinkInv
  <2>. QED  BY <2>1, <2>2 DEF LinkInv, Link!LinkTypeOK
<1>6. ClientTypes' /\ WireTypes' /\ NoneOpen'
  <2> connected \in BOOLEAN /\ noticing \in Nat
    BY DEF LinkInv, Link!LinkTypeOK
  <2>4. connected' \in BOOLEAN
    BY <1>2
  <2>5. noticing' \in Nat
    <3>1. noticing' = noticing \/ noticing' = noticing + 1
      BY <1>2, Zenon
    <3>. QED  BY <3>1
  <2>1. connected' \in BOOLEAN /\ noticing' \in Nat
    BY <2>4, <2>5
  <2>2. WireTypes' /\ NoneOpen'
    BY <1>1, <1>5 DEF WireTypes, NoneOpen, LinkInv, Link!LinkTypeOK
  <2>3. /\ stream' \in 0..MaxStreams /\ halted' \in BOOLEAN /\ heartbeats' \in BOOLEAN
        /\ dialing' \in [Link!Kinds -> Nat] /\ opening' \subseteq [kind : Link!Kinds, on : Link!Streams]
    BY <1>1 DEF LinkInv, Link!LinkTypeOK
  <2>. QED  BY <1>3, <1>4, <2>1, <2>2, <2>3 DEF ClientTypes
<1>7. Link!OneDialer'
  BY <1>1, <1>2, OpeningCounted, SameCount DEF Link!OneDialer, Dialers
<1>8. ClientInv'
  BY <1>1, <1>2, <1>7 DEF ClientInv, LinkInv
<1>. QED  BY <1>6, <1>8

LEMMA StopKeeps ==
  ASSUME LinkInv, Link!StopNode
  PROVE  ClientTypes' /\ WireTypes' /\ ClientInv' /\ NoneOpen'
<1>1. ClientTypes'
  BY DEF Link!StopNode, LinkInv, Link!LinkTypeOK, ClientTypes
<1>2. WireTypes' /\ NoneOpen'
  BY DEF Link!StopNode, LinkInv, Link!LinkTypeOK, WireTypes, NoneOpen
<1>3. Link!OneDialer'
  BY OpeningCounted, SameCount DEF Link!StopNode, Link!OneDialer, Dialers
<1>4. ClientInv'
  BY <1>3 DEF Link!StopNode, ClientInv, LinkInv
<1>. QED  BY <1>1, <1>2, <1>4

\* The hub's steps, as far as the client and the types are concerned.
LEMMA HubStepKeeps ==
  ASSUME LinkInv, HubStep
  PROVE  ClientTypes' /\ ClientInv' /\ NoneOpen'
<1>1. ClientTypes' /\ ClientInv'
  BY LinkParts, SameCount DEF HubStep, Link!clientVars, ClientTypes, ClientInv, Link!OneDialer
<1>2. NoneOpen'
  BY LinkParts DEF HubStep, Link!clientVars, NoneOpen
<1>. QED  BY <1>1, <1>2

LEMMA WireKept ==
  ASSUME LinkInv,
         Link!Checks \/ Link!Ask \/ Link!HubCrash \/ \E s \in Link!Streams : Link!Handle(s) \/ Link!Break(s)
  PROVE  WireTypes'
<1> USE LinkBounds
<1>1. /\ wire' \in [Link!Streams -> {"unused", "open", "broken"}] /\ toHub' \subseteq Link!Streams
  <2>1. CASE Link!Checks
    BY <2>1 DEF Link!Checks, Link!FindExpired, Link!Expire, Link!Cleanup, Link!AskTimeout,
       Link!HubDies, Link!HubEnds, Link!SendLoopFails,
                LinkInv, Link!LinkTypeOK
  <2>2. CASE \E s \in Link!Streams : Link!Handle(s)
    BY <2>2 DEF Link!Handle, Link!Accept, Link!Acknowledge, Link!HandleMessages, Link!Leave,
       Link!Ends, LinkInv, Link!LinkTypeOK
  <2>3. CASE Link!Ask \/ Link!HubCrash \/ \E s \in Link!Streams : Link!Break(s)
    BY <2>3 DEF Link!Break, Link!Ask, Link!HubCrash, Link!HubEnds, LinkInv, Link!LinkTypeOK
  <2>. QED  BY <2>1, <2>2, <2>3
<1>2. linkFaults' \in 0..MaxLinkFaults /\ asks' \in 0..MaxAsks
  <2>1. /\ linkFaults' = linkFaults \/ (linkFaults < MaxLinkFaults /\ linkFaults' = linkFaults + 1)
        /\ asks' = asks \/ (asks < MaxAsks /\ asks' = asks + 1)
    BY DEF Link!Checks, Link!Handle, Link!Break, Link!Ask, Link!HubCrash, Link!FindExpired,
       Link!Expire, Link!Cleanup, Link!AskTimeout,
           Link!HubDies, Link!SendLoopFails, Link!Accept, Link!Acknowledge, Link!HandleMessages,
           Link!Leave
  <2>. QED  BY <2>1 DEF LinkInv, Link!LinkTypeOK
<1>. QED  BY <1>1, <1>2 DEF WireTypes

\* The table and the connections: Unregister leaves none open, and the rest closes or opens
\* the one that the table leads to.
LEMMA TableChecked ==
  ASSUME LinkInv, Link!FindExpired \/ Link!Expire \/ Link!Cleanup \/ Link!AskTimeout \/ Link!HubDies \/ Link!Ask \/ Link!HubCrash
  PROVE  HubTypes' /\ Link!NoOrphan'
<1> HubTypes /\ Link!NoOrphan /\ 0 \in 0..MaxStreams
  BY LinkParts, LinkBounds
<1>1. CASE Link!FindExpired \/ Link!AskTimeout \/ Link!Ask
  <2>1. UNCHANGED <<nodes, handler, open, stopped>>
    BY <1>1 DEF Link!FindExpired, Link!AskTimeout, Link!Ask
  <2>2. expired' \in 0..MaxStreams /\ asked' \in 0..MaxStreams
    BY <1>1 DEF Link!FindExpired, Link!AskTimeout, Link!Ask, HubTypes
  <2>. QED  BY <2>1, <2>2 DEF HubTypes, Link!NoOrphan
<1>2. CASE Link!HubDies \/ Link!HubCrash
  BY <1>2 DEF Link!HubDies, Link!HubCrash, Link!HubEnds, HubTypes, Link!NoOrphan
<1>3. CASE Link!Expire
  BY <1>3 DEF Link!Expire, Link!Unregister, Link!Closing, HubTypes, Link!NoOrphan
<1>4. CASE Link!Cleanup
  BY <1>4 DEF Link!Cleanup, HubTypes, Link!NoOrphan
<1>. QED  BY <1>1, <1>2, <1>3, <1>4

LEMMA TableHandled ==
  ASSUME LinkInv, NEW s \in Link!Streams, Link!SendLoopFails(s) \/ Link!Handle(s) \/ Link!Break(s)
  PROVE  HubTypes' /\ Link!NoOrphan'
<1> HubTypes /\ Link!NoOrphan /\ 0 \in 0..MaxStreams /\ s \in 0..MaxStreams
  BY LinkParts, LinkBounds DEF Link!Streams
<1>1. CASE Link!SendLoopFails(s)
  BY <1>1 DEF Link!SendLoopFails, HubTypes, Link!NoOrphan
<1>2. CASE Link!Accept(s)
  BY <1>2 DEF Link!Accept, Link!RegisterNode, HubTypes, Link!NoOrphan
<1>3. CASE Link!Acknowledge(s)
  <2>1. CASE wire[s] = "open"
    BY <1>3, <2>1 DEF Link!Acknowledge, HubTypes, Link!NoOrphan
  <2>2. CASE wire[s] # "open"
    BY <1>3, <2>2 DEF Link!Acknowledge, Link!Unregister, Link!Closing, Link!Ends, HubTypes,
       Link!NoOrphan
  <2>. QED  BY <2>1, <2>2
<1>4. CASE Link!HandleMessages(s)
  <2>1. CASE s \in stopped \/ wire[s] = "broken"
    <3>1. /\ handler' = [handler EXCEPT ![s] = "closing"] /\ Link!Closing(s)
          /\ UNCHANGED <<nodes, expired, asked>>
      BY <1>4, <2>1 DEF Link!HandleMessages
    <3>. QED  BY <3>1 DEF Link!Closing, HubTypes, Link!NoOrphan
  <2>2. CASE ~(s \in stopped \/ wire[s] = "broken")
    BY <1>4, <2>2 DEF Link!HandleMessages, HubTypes, Link!NoOrphan
  <2>. QED  BY <2>1, <2>2
<1>5. CASE Link!Leave(s)
  <2>1. open' \subseteq open /\ stopped' \subseteq stopped \union open /\ nodes' = 0
    BY <1>5 DEF Link!Leave, Link!Unregister, Link!Closing, HubTypes
  <2>2. open' = {}
    <3>1. CASE nodes = 0
      <4>1. \A x \in Link!Streams : x # 0
        BY DEF Link!Streams
      <4>2. open = {}
        BY <3>1, <4>1 DEF HubTypes, Link!NoOrphan
      <4>. QED  BY <1>5, <3>1, <4>2 DEF Link!Leave, Link!Unregister
    <3>2. CASE nodes # 0
      BY <1>5, <3>2 DEF Link!Leave, Link!Unregister, Link!Closing, Link!NoOrphan
    <3>. QED  BY <3>1, <3>2
  <2>3. handler' \in [Link!Streams -> {"none", "registered", "serving", "closing", "gone"}]
    BY <1>5 DEF Link!Leave, Link!Ends, HubTypes
  <2>. QED  BY <1>5, <2>1, <2>2, <2>3 DEF Link!Leave, HubTypes, Link!NoOrphan
<1>6. CASE Link!Break(s)
  <2>1. UNCHANGED <<nodes, handler, open, stopped, expired, asked>>
    BY <1>6 DEF Link!Break, Link!hubVars
  <2>. QED  BY <2>1 DEF HubTypes, Link!NoOrphan
<1>. QED  BY <1>1, <1>2, <1>3, <1>4, <1>5, <1>6 DEF Link!Handle

LEMMA LinkStep == LinkInv /\ [Link!Next]_linkPart => LinkInv'
<1> SUFFICES ASSUME LinkInv, [Link!Next]_linkPart PROVE LinkInv'
  OBVIOUS
<1>1. CASE Link!Client \/ Link!SendHeartbeat \/ Link!StartAlone \/ Link!StopNode \/ \E s \in Link!Streams : Link!Receive(s)
  <2>1. HubTypes' /\ Link!NoOrphan'
    <3>1. UNCHANGED Link!hubVars
      BY <1>1 DEF Link!Client, Link!SendHeartbeat, Link!Receive, Link!StartAlone, Link!StopNode,
         Link!Open, Link!SetActive,
             Link!Registered, Link!RegisterFails, Link!Reconnect, Link!ReconnectEnds,
             Link!ReceiveFails
    <3>. QED  BY <3>1, LinkParts DEF Link!hubVars, HubTypes, Link!NoOrphan
  <2>2. ClientTypes' /\ WireTypes' /\ ClientInv' /\ NoneOpen'
    <3>1. CASE \E k \in Link!Kinds : Link!Open(k) \/ Link!SetActive(k)
      <4>1. CASE \E k \in Link!Kinds : Link!Open(k)
        BY <4>1, OpenKeeps
      <4>2. CASE \E k \in Link!Kinds : Link!SetActive(k)
        <5>1. PICK k \in Link!Kinds : Link!SetActive(k)
          BY <4>2
        <5>2. CASE Link!Streams = {}
          BY <5>1, <5>2, LinkParts, SameCount
             DEF Link!SetActive, ClientTypes, WireTypes, ClientInv, Link!OneDialer, NoneOpen
        <5>3. CASE Link!Streams # {}
          BY <5>1, <5>3, LoopsKeep
        <5>. QED  BY <5>2, <5>3
      <4>. QED  BY <3>1, <4>1, <4>2
    <3>2. CASE \E o \in opening : Link!Registered(o) \/ Link!RegisterFails(o)
      BY <3>2, RegisteredKeeps, RegisterFailsKeeps
    <3>3. CASE Link!StartAlone \/ Link!Reconnect \/ Link!ReconnectEnds
      BY <3>3, ThreadsKeep
    <3>4. CASE Link!SendHeartbeat \/ \E s \in Link!Streams : Link!ReceiveFails(s) \/ Link!Receive(s)
      <4>1. "start" \in Link!Kinds
        BY DEF Link!Kinds
      <4>2. Link!SendHeartbeat => stream \in Link!Streams
        BY LinkBounds DEF Link!SendHeartbeat, LinkInv, Link!LinkTypeOK, Link!Streams
      <4>. QED  BY <3>4, <4>1, <4>2, LoopsKeep
    <3>5. CASE Link!StopNode
      BY <3>5, StopKeeps
    <3>. QED  BY <1>1, <3>1, <3>2, <3>3, <3>4, <3>5 DEF Link!Client
  <2>. QED  BY <2>1, <2>2, LinkPartsNext
<1>2. CASE Link!Checks \/ Link!Ask \/ Link!HubCrash \/ \E s \in Link!Streams : Link!Handle(s) \/ Link!Break(s)
  <2>1. HubStep
    BY <1>2, HubSteps
  <2>2. WireTypes'
    BY <1>2, WireKept
  <2>3. HubTypes' /\ Link!NoOrphan'
    <3>1. CASE \E s \in Link!Streams : Link!Handle(s) \/ Link!Break(s)
      BY <3>1, TableHandled
    <3>2. CASE Link!Checks \/ Link!Ask \/ Link!HubCrash
      BY <3>2, TableChecked, TableHandled DEF Link!Checks
    <3>. QED  BY <1>2, <3>1, <3>2
  <2>. QED  BY <2>1, <2>2, <2>3, HubStepKeeps, LinkPartsNext
<1>4. CASE UNCHANGED linkPart
  <2>1. ClientTypes' /\ WireTypes' /\ HubTypes'
    BY <1>4, LinkParts DEF linkPart, Link!clientVars, Link!hubVars, ClientTypes, WireTypes, HubTypes
  <2>2. ClientInv' /\ NoneOpen' /\ Link!NoOrphan'
    BY <1>4, LinkParts, SameCount DEF linkPart, Link!clientVars, Link!hubVars, ClientInv,
       Link!OneDialer, NoneOpen, Link!NoOrphan
  <2>. QED  BY <2>1, <2>2, LinkPartsNext
<1>. QED  BY <1>1, <1>2, <1>4 DEF Link!Next

-----------------------------------------------------------------------------
(* Calls over a connection.                                                *)

CallMessages == [call : Callers, type : {"request", "command"}]
CallTypes == Calls!CmdTypeOK /\ sendCh \in Seq(CallMessages) /\ toNode \in Seq(CallMessages)

\* An entry of pendingRequests belongs to an ExecuteCommand under way or to the response in
\* hand; a response in a channel whose entry is still there is the one in hand; and what
\* handleResponse has stored is there to be received unless the caller has given up.
EntriesOwned ==
  /\ \A c \in requests : callAt[c] \in {"send", "wait", "forget"} \/ responding = c
  /\ \A c \in Callers : callAt[c] \in {"send", "wait"} /\ kind[c] = "execute" /\ respCh[c] = "open"
                          => c \in requests \union answered
  /\ \A c \in Callers : callAt[c] \in {"register", "wait", "forget"} \/ c \in requests
                          => kind[c] = "execute"
  /\ \A c \in answered : callAt[c] \notin {"idle", "register"} /\ (c \in requests => responding = c)
  /\ responding # "none" => callAt[responding] \notin {"idle", "register"}
  /\ stored => responding # "none"
               /\ (responding \in answered \/ callAt[responding] \in {"done", "forget"})

CallInv == CallTypes /\ EntriesOwned

LEMMA CallInitially == Calls!Init => CallInv
<1> SUFFICES ASSUME Calls!Init PROVE CallInv
  OBVIOUS
<1>1. sendCh \in Seq(CallMessages) /\ toNode \in Seq(CallMessages) /\ Len(sendCh) = 0
  BY EmptySeq DEF Calls!Init
<1>2. CallTypes
  <2>1. /\ kind \in [Callers -> {"execute", "tell"}]
        /\ callAt \in [Callers -> {"idle", "register", "send", "wait", "forget", "done"}]
        /\ reply \in [Callers -> {"none", "refused", "sent", "answered", "error"}]
        /\ respCh \in [Callers -> {"open", "closed"}] /\ Len(sendCh) <= SendCapacity
    BY <1>1, CallBounds DEF Calls!Init
  <2>2. /\ {connUp, connStopped, closing, streamUp, stored, reading, hubDead} \subseteq BOOLEAN
        /\ requests \subseteq Callers /\ answered \subseteq Callers /\ carriedOut \subseteq Callers
        /\ responses \subseteq Callers /\ responding \in Callers \union {"none"} /\ sendLoop \in {"on", "off"}
    BY DEF Calls!Init
  <2>. QED  BY <1>1, <2>1, <2>2 DEF CallTypes, Calls!CmdTypeOK
<1>3. EntriesOwned
  BY DEF Calls!Init, EntriesOwned
<1>. QED  BY <1>2, <1>3 DEF CallInv

LEMMA CallerTypes ==
  ASSUME CallInv, NEW c \in Callers, Calls!Caller(c)
  PROVE  CallTypes'
<1> USE CallBounds
<1>1. UNCHANGED <<kind, Calls!conn, respCh, Calls!node, Calls!response>>
  BY DEF Calls!Caller, Calls!Call, Calls!Register, Calls!Send, Calls!Receive, Calls!TimeOut,
     Calls!Forget
<1>2. callAt' \in [Callers -> {"idle", "register", "send", "wait", "forget", "done"}]
  BY DEF Calls!Caller, Calls!Call, Calls!Register, Calls!Send, Calls!Receive, Calls!TimeOut,
     Calls!Forget, Calls!NotSent, Calls!Goto, Calls!Return,
         CallInv, CallTypes, Calls!CmdTypeOK
<1>3. reply' \in [Callers -> {"none", "refused", "sent", "answered", "error"}]
  BY DEF Calls!Caller, Calls!Call, Calls!Register, Calls!Send, Calls!Receive, Calls!TimeOut,
     Calls!Forget, Calls!NotSent, Calls!Goto, Calls!Return,
         CallInv, CallTypes, Calls!CmdTypeOK
<1>4. sendCh' \in Seq(CallMessages) /\ Len(sendCh') <= SendCapacity
  <2>1. sendCh' = sendCh \/ (Len(sendCh) < SendCapacity /\ sendCh' = Append(sendCh, Calls!MessageOf(c)))
    BY DEF Calls!Caller, Calls!Call, Calls!Register, Calls!Send, Calls!Receive, Calls!TimeOut,
       Calls!Forget
  <2>2. Calls!MessageOf(c) \in CallMessages
    BY DEF Calls!MessageOf, CallMessages
  <2>3. sendCh \in Seq(CallMessages) /\ Len(sendCh) <= SendCapacity /\ Len(sendCh) \in Nat
    BY LenProperties DEF CallInv, CallTypes, Calls!CmdTypeOK
  <2>4. /\ Append(sendCh, Calls!MessageOf(c)) \in Seq(CallMessages)
        /\ Len(Append(sendCh, Calls!MessageOf(c))) = Len(sendCh) + 1
    BY <2>2, <2>3, AppendProperties
  <2>. QED  BY <2>1, <2>3, <2>4
<1>5. requests' \subseteq Callers /\ answered' \subseteq Callers /\ hubDead' \in BOOLEAN
  BY DEF Calls!Caller, Calls!Call, Calls!Register, Calls!Send, Calls!Receive, Calls!TimeOut,
     Calls!Forget, CallInv, CallTypes, Calls!CmdTypeOK
<1>. QED  BY <1>1, <1>2, <1>3, <1>4, <1>5
          DEF Calls!conn, Calls!node, Calls!response, CallInv, CallTypes, Calls!CmdTypeOK

LEMMA CallerOwned ==
  ASSUME CallInv, NEW c \in Callers, Calls!Caller(c)
  PROVE  EntriesOwned'
<1> /\ callAt \in [Callers -> {"idle", "register", "send", "wait", "forget", "done"}]
    /\ requests \subseteq Callers /\ answered \subseteq Callers /\ EntriesOwned
    /\ kind \in [Callers -> {"execute", "tell"}] /\ responding \in Callers \union {"none"}
  BY DEF CallInv, CallTypes, Calls!CmdTypeOK
<1>1. CASE Calls!Call(c)
  BY <1>1 DEF Calls!Call, Calls!Goto, Calls!Return, EntriesOwned, Calls!conn, Calls!node,
     Calls!response
<1>2. CASE Calls!Register(c)
  BY <1>2 DEF Calls!Register, Calls!Goto, EntriesOwned, Calls!conn, Calls!node, Calls!response
<1>3. CASE Calls!Send(c)
  BY <1>3 DEF Calls!Send, Calls!NotSent, Calls!Goto, Calls!Return, EntriesOwned, Calls!conn,
     Calls!node, Calls!response
<1>4. CASE Calls!Receive(c)
  BY <1>4 DEF Calls!Receive, Calls!Return, Calls!Goto, EntriesOwned, Calls!conn, Calls!node,
     Calls!response
<1>5. CASE Calls!TimeOut(c)
  BY <1>5 DEF Calls!TimeOut, Calls!Goto, EntriesOwned, Calls!conn, Calls!node, Calls!response
<1>6. CASE Calls!Forget(c)
  BY <1>6 DEF Calls!Forget, Calls!Return, Calls!Goto, EntriesOwned, Calls!conn, Calls!node,
     Calls!response
<1>. QED  BY <1>1, <1>2, <1>3, <1>4, <1>5, <1>6 DEF Calls!Caller

LEMMA ConnectionTypes ==
  ASSUME CallInv, Calls!Connection
  PROVE  CallTypes'
<1> USE CallBounds
<1>1. UNCHANGED <<kind, callAt, reply, carriedOut, streamUp>>
  BY DEF Calls!Connection, Calls!SendNext, Calls!SendLoopEnds, Calls!StartClose,
     Calls!CloseRequests, Calls!LookUp, Calls!StoreResponse,
         Calls!EndResponse, Calls!ReaderEnds, Calls!conn, Calls!node, Calls!response
<1>2. {connUp', connStopped', closing', stored', reading', hubDead'} \subseteq BOOLEAN
  BY DEF Calls!Connection, Calls!SendNext, Calls!SendLoopEnds, Calls!StartClose,
     Calls!CloseRequests, Calls!LookUp, Calls!StoreResponse,
         Calls!EndResponse, Calls!ReaderEnds, Calls!conn, Calls!node, Calls!response, CallInv,
         CallTypes, Calls!CmdTypeOK
<1>3. /\ sendCh' \in Seq(CallMessages) /\ Len(sendCh') <= SendCapacity
      /\ toNode' \in Seq(CallMessages) /\ sendLoop' \in {"on", "off"}
  <2>1. CASE Calls!SendNext
    <3>1. /\ Head(sendCh) \in CallMessages /\ Tail(sendCh) \in Seq(CallMessages)
          /\ Len(Tail(sendCh)) = Len(sendCh) - 1 /\ Len(sendCh) \in Nat
      BY <2>1, HeadTailProperties, LenProperties DEF Calls!SendNext, CallInv, CallTypes
    <3>2. Append(toNode, Head(sendCh)) \in Seq(CallMessages)
      BY <3>1, AppendProperties DEF CallInv, CallTypes
    <3>3. Len(sendCh) <= SendCapacity /\ toNode \in Seq(CallMessages) /\ sendLoop \in {"on", "off"}
      BY DEF CallInv, CallTypes, Calls!CmdTypeOK
    <3>4. /\ sendCh' = Tail(sendCh)
          /\ toNode' = toNode \/ toNode' = Append(toNode, Head(sendCh))
          /\ sendLoop' = sendLoop \/ sendLoop' = "off"
      BY <2>1 DEF Calls!SendNext
    <3>. QED  BY <3>1, <3>2, <3>3, <3>4
  <2>2. CASE ~Calls!SendNext
    BY <2>2 DEF Calls!Connection, Calls!SendLoopEnds, Calls!StartClose, Calls!CloseRequests,
       Calls!LookUp, Calls!StoreResponse,
                Calls!EndResponse, Calls!ReaderEnds, Calls!conn, Calls!node, CallInv, CallTypes,
                Calls!CmdTypeOK
  <2>. QED  BY <2>1, <2>2
<1>4. /\ requests' \subseteq Callers /\ answered' \subseteq Callers /\ responses' \subseteq Callers
      /\ responding' \in Callers \union {"none"}
  BY DEF Calls!Connection, Calls!SendNext, Calls!SendLoopEnds, Calls!StartClose,
     Calls!CloseRequests, Calls!LookUp, Calls!StoreResponse,
         Calls!EndResponse, Calls!ReaderEnds, Calls!conn, Calls!node, Calls!response, CallInv,
         CallTypes, Calls!CmdTypeOK
<1>5. respCh' \in [Callers -> {"open", "closed"}]
  BY DEF Calls!Connection, Calls!SendNext, Calls!SendLoopEnds, Calls!StartClose,
     Calls!CloseRequests, Calls!LookUp, Calls!StoreResponse,
         Calls!EndResponse, Calls!ReaderEnds, CallInv, CallTypes, Calls!CmdTypeOK
<1>. QED  BY <1>1, <1>2, <1>3, <1>4, <1>5 DEF CallInv, CallTypes, Calls!CmdTypeOK

LEMMA ConnectionOwned ==
  ASSUME CallInv, Calls!Connection
  PROVE  EntriesOwned'
<1> /\ callAt \in [Callers -> {"idle", "register", "send", "wait", "forget", "done"}]
    /\ requests \subseteq Callers /\ answered \subseteq Callers /\ EntriesOwned
    /\ kind \in [Callers -> {"execute", "tell"}] /\ responding \in Callers \union {"none"}
    /\ respCh \in [Callers -> {"open", "closed"}] /\ "none" \notin Callers
  BY CallBounds DEF CallInv, CallTypes, Calls!CmdTypeOK
<1>1. CASE Calls!SendNext \/ Calls!SendLoopEnds \/ Calls!StartClose \/ Calls!ReaderEnds
  <2>1. UNCHANGED <<kind, callAt, requests, respCh, answered, responding, stored>>
    BY <1>1 DEF Calls!SendNext, Calls!SendLoopEnds, Calls!StartClose, Calls!ReaderEnds,
       Calls!response
  <2>. QED  BY <2>1 DEF EntriesOwned
<1>2. CASE Calls!CloseRequests
  BY <1>2 DEF Calls!CloseRequests, EntriesOwned, Calls!node, Calls!response
<1>3. CASE Calls!LookUp
  <2>1. PICK c \in responses : responding' = (IF c \in requests THEN c ELSE "none")
    BY <1>3 DEF Calls!LookUp
  <2>2. /\ responding = "none" /\ ~stored /\ (responding' = "none" \/ responding' \in requests)
        /\ UNCHANGED <<kind, callAt, requests, respCh, answered, stored>>
    BY <1>3, <2>1 DEF Calls!LookUp, EntriesOwned
  <2>3. /\ \A d \in requests : callAt[d] \in {"send", "wait", "forget"}
        /\ \A d \in answered : d \notin requests
    BY <2>2 DEF EntriesOwned
  <2>. QED  BY <2>2, <2>3 DEF EntriesOwned
<1>4. CASE Calls!StoreResponse
  BY <1>4 DEF Calls!StoreResponse, EntriesOwned, Calls!conn, Calls!node
<1>5. CASE Calls!EndResponse
  BY <1>5 DEF Calls!EndResponse, EntriesOwned, Calls!conn, Calls!node
<1>. QED  BY <1>1, <1>2, <1>3, <1>4, <1>5 DEF Calls!Connection

LEMMA NodeEndTypes ==
  ASSUME CallInv, Calls!HandleMessage \/ Calls!Break
  PROVE  CallInv'
<1>1. UNCHANGED <<kind, callAt, reply, connUp, connStopped, closing, sendCh, sendLoop, reading,
                  requests, respCh, answered, Calls!response, hubDead>>
  BY DEF Calls!HandleMessage, Calls!Break, Calls!conn
<1>2. EntriesOwned'
  BY <1>1 DEF Calls!response, CallInv, EntriesOwned
<1>3. /\ toNode' \in Seq(CallMessages) /\ carriedOut' \subseteq Callers /\ responses' \subseteq Callers
      /\ streamUp' \in BOOLEAN
  <2>1. CASE Calls!HandleMessage
    <3>1. PICK i \in DOMAIN toNode :
            /\ toNode' = SubSeq(toNode, 1, i - 1) \o SubSeq(toNode, i + 1, Len(toNode))
            /\ carriedOut' = carriedOut \union (IF toNode[i].type = "command" THEN {toNode[i].call} ELSE {})
            /\ responses' = responses \union (IF Answers /\ toNode[i].type = "request"
                                      THEN {toNode[i].call} ELSE {})
      BY <2>1 DEF Calls!HandleMessage
    <3>2. /\ DOMAIN toNode = 1..Len(toNode) /\ Len(toNode) \in Nat
          /\ \A j \in 1..Len(toNode) : toNode[j] \in CallMessages
      BY LenProperties, ElementOfSeq DEF CallInv, CallTypes
    <3>3. /\ SubSeq(toNode, 1, i - 1) \in Seq(CallMessages)
          /\ SubSeq(toNode, i + 1, Len(toNode)) \in Seq(CallMessages)
      <4>1. /\ \A j \in 1..(i - 1) : toNode[j] \in CallMessages
            /\ \A j \in (i + 1)..Len(toNode) : toNode[j] \in CallMessages
        BY <3>2
      <4>. QED  BY <3>2, <4>1, SubSeqProperties
    <3>4. toNode' \in Seq(CallMessages)
      BY <3>1, <3>3, ConcatProperties
    <3>5. toNode[i].call \in Callers
      BY <3>2 DEF CallMessages
    <3>. QED  BY <2>1, <3>1, <3>4, <3>5 DEF Calls!HandleMessage, Calls!conn, CallInv, CallTypes,
                 Calls!CmdTypeOK
  <2>2. CASE Calls!Break
    BY <2>2, EmptySeq DEF Calls!Break, CallInv, CallTypes, Calls!CmdTypeOK
  <2>. QED  BY <2>1, <2>2
<1>4. CallTypes'
  BY <1>1, <1>3 DEF Calls!response, CallInv, CallTypes, Calls!CmdTypeOK
<1>. QED  BY <1>2, <1>4 DEF CallInv

LEMMA CallStep == CallInv /\ [Calls!Next]_callPart => CallInv'
<1> SUFFICES ASSUME CallInv, [Calls!Next]_callPart PROVE CallInv'
  OBVIOUS
<1>1. CASE \E c \in Callers : Calls!Caller(c)
  BY <1>1, CallerTypes, CallerOwned DEF CallInv
<1>2. CASE Calls!Connection
  BY <1>2, ConnectionTypes, ConnectionOwned DEF CallInv
<1>3. CASE Calls!HandleMessage \/ Calls!Break
  BY <1>3, NodeEndTypes
<1>4. CASE UNCHANGED callPart
  BY <1>4 DEF callPart, CallInv, CallTypes, Calls!CmdTypeOK, EntriesOwned
<1>. QED  BY <1>1, <1>2, <1>3, <1>4 DEF Calls!Next

LEMMA CallInvImplies == CallInv => Calls!CmdTypeOK /\ Calls!RequestsOwned
  BY DEF CallInv, CallTypes, EntriesOwned, Calls!RequestsOwned, Calls!CmdTypeOK

-----------------------------------------------------------------------------
(* Viewers.                                                                *)

\* The fields that registering and closing work on.
TableTypeOK ==
  /\ active \in [Viewers -> BOOLEAN]
  /\ at \in [Viewers -> {"made", "registered", "started", "lock", "unregister", "closed"}]
  /\ viewers \in [Views!Ids -> Viewers \union {Views!Nobody}]

\* A client that unregisters has lost its flag before, the table has at an ID the client of
\* that ID, and the one who holds the mutex is about to unregister.
CloseInv ==
  /\ TableTypeOK
  /\ \A v \in Viewers : at[v] \in {"lock", "unregister", "closed"} => ~active[v]
  /\ \A v \in Viewers : viewers[v] \in {v, Views!Nobody}
  /\ \A v \in Viewers : clientsMu = v => at[v] = "unregister"

LEMMA CloseInvStep == ASSUME CloseInv, [Views!Next]_viewerPart PROVE CloseInv'
<1> USE DEF CloseInv, TableTypeOK
<1> {Views!Free, Views!Nobody, "cleaner"} \intersect Viewers = {}
  BY ViewBounds DEF Views!Free, Views!Nobody
<1>0. \A v \in Viewers : v \in Views!Ids
  BY DEF Views!Ids
<1>1. CASE Views!StartHub \/ Views!StopHub \/ (\E e \in News : Views!Tell(e)) \/ UNCHANGED viewerPart
  BY <1>1 DEF Views!StartHub, Views!StopHub, Views!Tell, Views!feed, Views!lifecycle, viewerPart
<1>2. CASE Views!LockCleanup
  BY <1>2 DEF Views!LockCleanup, Views!feed
<1>3. CASE Views!Cleanup
  <2>1. viewers' \in [Views!Ids -> Viewers \union {Views!Nobody}] /\ \A i \in Views!Ids : viewers'[i] \in {viewers[i], Views!Nobody}
    BY <1>3 DEF Views!Cleanup
  <2>2. active' = active /\ at' = at /\ clientsMu' = Views!Free
    BY <1>3 DEF Views!Cleanup
  <2>. QED  BY <1>0, <2>1, <2>2
<1>4. CASE \E x \in invoked : Views!HandleEvent(x)
  BY <1>4 DEF Views!HandleEvent, Views!lifecycle
<1>5. ASSUME NEW v \in Viewers, Views!View(v) PROVE CloseInv'
  <2>1. CASE Views!RegisterTUIClient(v)
    <3>1. viewers' = [viewers EXCEPT ![v] = v] /\ at' = [at EXCEPT ![v] = "registered"]
          /\ active' = active /\ clientsMu' = Views!Free
      BY <2>1 DEF Views!RegisterTUIClient, Views!Goto
    <3>2. \A w \in Viewers : viewers'[w] \in {w, Views!Nobody}
      BY <1>0, <3>1
    <3>. QED  BY <1>0, <3>1, <3>2
  <2>2. CASE Views!Start(v)
    BY <2>2 DEF Views!Start, Views!Goto
  <2>3. CASE Views!ProcessEvent(v) \/ Views!EndLoop(v) \/ Views!TakeUpdate(v)
    BY <2>3 DEF Views!ProcessEvent, Views!EndLoop, Views!TakeUpdate
  <2>4. CASE Views!Close(v)
    BY <2>4 DEF Views!Close, Views!WinsFlag, Views!Goto
  <2>5. CASE Views!Lock(v)
    BY <2>5 DEF Views!Lock, Views!Goto
  <2>6. CASE Views!Unregister(v)
    <3>1. at[v] = "unregister" /\ ~(viewers[v] # Views!Nobody /\ active[viewers[v]])
      BY <2>6 DEF Views!Unregister
    <3>2. viewers' = [viewers EXCEPT ![v] = Views!Nobody] /\ at' = [at EXCEPT ![v] = "closed"]
          /\ active' = active /\ clientsMu' = Views!Free
      BY <2>6, <3>1 DEF Views!Unregister, Views!Goto
    <3>3. \A w \in Viewers : viewers'[w] \in {w, Views!Nobody}
      BY <1>0, <3>2
    <3>. QED  BY <1>0, <3>1, <3>2, <3>3
  <2>. QED  BY <1>5, <2>1, <2>2, <2>3, <2>4, <2>5, <2>6 DEF Views!View
<1>. QED  BY <1>1, <1>2, <1>3, <1>4, <1>5 DEF Views!Next

FeedTypes ==
  /\ viewLoop \in [Viewers -> {"none", "on", "off"}] /\ handlers \subseteq Viewers
  /\ eventCh \in [Viewers -> Seq(News)] /\ updateCh \in [Viewers -> Seq(News)]
  /\ \A v \in Viewers : Len(eventCh[v]) <= ViewCapacity /\ Len(updateCh[v]) <= ViewCapacity
  /\ invoked \subseteq [viewer : Viewers, event : News]
  /\ shown \in [Viewers -> SUBSET News] /\ missed \in [Viewers -> SUBSET News]
  /\ told \subseteq News
HoldTypes ==
  /\ TableTypeOK
  /\ clientsMu \in Viewers \union {Views!Free, "cleaner"} /\ cleaner \in {"idle", "cleaning"}
  /\ {hubRunning, hubStopped} \subseteq BOOLEAN /\ hubStarts \in 0..MaxHubStarts

LEMMA ViewTypesImply == FeedTypes /\ HoldTypes => Views!ViewTypeOK
  BY DEF FeedTypes, HoldTypes, TableTypeOK, Views!ViewTypeOK

LEMMA ViewTypesInitially == Views!Init => FeedTypes /\ HoldTypes
<1> SUFFICES ASSUME Views!Init PROVE FeedTypes /\ HoldTypes
  OBVIOUS
<1>1. <<>> \in Seq(News) /\ Len(<<>>) = 0
  BY EmptySeq
<1>2. FeedTypes
  <2>1. /\ eventCh \in [Viewers -> Seq(News)] /\ updateCh \in [Viewers -> Seq(News)]
        /\ \A v \in Viewers : Len(eventCh[v]) <= ViewCapacity /\ Len(updateCh[v]) <= ViewCapacity
    BY <1>1, ViewBounds DEF Views!Init
  <2>. QED  BY <2>1 DEF Views!Init, FeedTypes
<1>3. HoldTypes
  <2>1. TableTypeOK
    BY DEF Views!Init, TableTypeOK
  <2>2. {hubRunning, hubStopped} \subseteq BOOLEAN
    BY DEF Views!Init
  <2>3. hubStarts \in 0..MaxHubStarts
    BY ViewBounds DEF Views!Init
  <2>. QED  BY <2>1, <2>2, <2>3 DEF Views!Init, HoldTypes
<1>. QED  BY <1>2, <1>3

LEMMA HoldTypesStep ==
  ASSUME HoldTypes, FeedTypes, [Views!Next]_viewerPart
  PROVE  HoldTypes'
<1> \A v \in Viewers : v \in Views!Ids
  BY DEF Views!Ids
<1>1. CASE UNCHANGED <<active, at, viewers, clientsMu, cleaner, Views!lifecycle>>
  BY <1>1 DEF HoldTypes, TableTypeOK, Views!lifecycle
<1>2. CASE Views!StartHub \/ Views!StopHub
  <2>1. UNCHANGED <<active, at, viewers, clientsMu, cleaner>>
    BY <1>2 DEF Views!StartHub, Views!StopHub
  <2>2. {hubRunning', hubStopped'} \subseteq BOOLEAN
    BY <1>2 DEF Views!StartHub, Views!StopHub, HoldTypes
  <2>3. hubStarts' \in 0..MaxHubStarts
    BY <1>2, ViewBounds DEF Views!StartHub, Views!StopHub, HoldTypes
  <2>. QED  BY <2>1, <2>2, <2>3 DEF HoldTypes, TableTypeOK
<1>3. CASE Views!LockCleanup
  BY <1>3 DEF Views!LockCleanup, HoldTypes, TableTypeOK, Views!lifecycle
<1>4. CASE Views!Cleanup
  BY <1>4 DEF Views!Cleanup, HoldTypes, TableTypeOK, Views!lifecycle
<1>5. ASSUME NEW v \in Viewers, Views!RegisterTUIClient(v) \/ Views!Start(v) \/ Views!Close(v) \/ Views!Lock(v) PROVE HoldTypes'
  BY <1>5 DEF Views!RegisterTUIClient, Views!Start, Views!Close, Views!Lock, Views!WinsFlag,
     Views!Goto, HoldTypes, TableTypeOK, Views!lifecycle
<1>6. ASSUME NEW v \in Viewers, Views!Unregister(v) PROVE HoldTypes'
  BY <1>6 DEF Views!Unregister, Views!Goto, HoldTypes, TableTypeOK, Views!lifecycle
<1>7. CASE \E e \in News : Views!Tell(e)
  BY <1>1, <1>7 DEF Views!Tell
<1>8. CASE \E x \in invoked : Views!HandleEvent(x)
  BY <1>1, <1>8 DEF Views!HandleEvent
<1>9. ASSUME NEW v \in Viewers, Views!ProcessEvent(v) \/ Views!EndLoop(v) \/ Views!TakeUpdate(v) PROVE HoldTypes'
  BY <1>1, <1>9 DEF Views!ProcessEvent, Views!EndLoop, Views!TakeUpdate
<1>10. CASE UNCHANGED viewerPart
  BY <1>1, <1>10 DEF viewerPart, Views!lifecycle
<1>. QED  BY <1>2, <1>3, <1>4, <1>5, <1>6, <1>7, <1>8, <1>9, <1>10 DEF Views!Next, Views!View

\* A channel of a viewer with room takes one more, and gives its first.
LEMMA ChannelStep ==
  ASSUME NEW ch \in [Viewers -> Seq(News)], \A u \in Viewers : Len(ch[u]) <= ViewCapacity,
         NEW v \in Viewers, NEW e \in News
  PROVE  /\ ch[v] # <<>> => /\ Head(ch[v]) \in News
                            /\ [ch EXCEPT ![v] = Tail(@)] \in [Viewers -> Seq(News)]
                            /\ \A u \in Viewers : Len([ch EXCEPT ![v] = Tail(@)][u]) <= ViewCapacity
         /\ Len(ch[v]) # ViewCapacity =>
              /\ [ch EXCEPT ![v] = Append(@, e)] \in [Viewers -> Seq(News)]
              /\ \A u \in Viewers : Len([ch EXCEPT ![v] = Append(@, e)][u]) <= ViewCapacity
<1>1. ch[v] \in Seq(News) /\ Len(ch[v]) \in Nat /\ Len(ch[v]) <= ViewCapacity
  BY LenProperties
<1>2. ch[v] # <<>> => Head(ch[v]) \in News /\ Tail(ch[v]) \in Seq(News) /\ Len(Tail(ch[v])) <= ViewCapacity
  BY <1>1, HeadTailProperties, ViewBounds
<1>3. Append(ch[v], e) \in Seq(News) /\ Len(Append(ch[v], e)) = Len(ch[v]) + 1
  BY <1>1, AppendProperties
<1>4. Len(ch[v]) # ViewCapacity => Len(Append(ch[v], e)) <= ViewCapacity
  BY <1>1, <1>3, ViewBounds
<1>. QED  BY <1>2, <1>3, <1>4

LEMMA FeedTypesStep ==
  ASSUME HoldTypes, FeedTypes, [Views!Next]_viewerPart
  PROVE  FeedTypes'
<1>1. CASE UNCHANGED Views!feed
  BY <1>1 DEF Views!feed, FeedTypes
<1>2. ASSUME NEW e \in News, Views!Tell(e) PROVE FeedTypes'
  BY <1>2 DEF Views!Tell, FeedTypes
<1>3. ASSUME NEW x \in invoked, Views!HandleEvent(x) PROVE FeedTypes'
  <2>1. x.viewer \in Viewers /\ x.event \in News
    BY DEF FeedTypes
  <2>2. CASE Len(eventCh[x.viewer]) = ViewCapacity
    <3>1. /\ missed' = [missed EXCEPT ![x.viewer] = @ \union {x.event}] /\ invoked' = invoked \ {x}
          /\ UNCHANGED <<viewLoop, handlers, eventCh, updateCh, shown, told>>
      BY <1>3, <2>2 DEF Views!HandleEvent
    <3>2. missed' \in [Viewers -> SUBSET News]
      BY <2>1, <3>1 DEF FeedTypes
    <3>. QED  BY <3>1, <3>2 DEF FeedTypes
  <2>3. CASE Len(eventCh[x.viewer]) # ViewCapacity
    <3>1. /\ eventCh' = [eventCh EXCEPT ![x.viewer] = Append(@, x.event)] /\ invoked' = invoked \ {x}
          /\ UNCHANGED <<viewLoop, handlers, updateCh, shown, missed, told>>
      BY <1>3, <2>3 DEF Views!HandleEvent
    <3>2. eventCh' \in [Viewers -> Seq(News)] /\ \A u \in Viewers : Len(eventCh'[u]) <= ViewCapacity
      BY <2>1, <2>3, <3>1, ChannelStep DEF FeedTypes
    <3>. QED  BY <3>1, <3>2 DEF FeedTypes
  <2>. QED  BY <2>2, <2>3
<1>4. ASSUME NEW v \in Viewers, Views!ProcessEvent(v) PROVE FeedTypes'
  <2> DEFINE e == Head(eventCh[v])
  <2>1. /\ eventCh' = [eventCh EXCEPT ![v] = Tail(@)] /\ eventCh[v] # <<>>
        /\ UNCHANGED <<viewLoop, handlers, invoked, shown, told>>
    BY <1>4 DEF Views!ProcessEvent
  <2>2. /\ e \in News /\ eventCh' \in [Viewers -> Seq(News)]
        /\ \A u \in Viewers : Len(eventCh'[u]) <= ViewCapacity
    <3>1. \E n \in News : TRUE
      BY <2>1, HeadTailProperties DEF FeedTypes
    <3>. QED  BY <2>1, <3>1, ChannelStep DEF FeedTypes
  <2>3. CASE Len(updateCh[v]) = ViewCapacity
    <3>1. missed' = [missed EXCEPT ![v] = @ \union {e}] /\ updateCh' = updateCh
      BY <1>4, <2>3 DEF Views!ProcessEvent
    <3> HIDE DEF e
    <3>. QED  BY <2>1, <2>2, <3>1 DEF FeedTypes
  <2>4. CASE Len(updateCh[v]) # ViewCapacity
    <3>1. updateCh' = [updateCh EXCEPT ![v] = Append(@, e)] /\ missed' = missed
      BY <1>4, <2>4 DEF Views!ProcessEvent
    <3> HIDE DEF e
    <3>2. updateCh' \in [Viewers -> Seq(News)] /\ \A u \in Viewers : Len(updateCh'[u]) <= ViewCapacity
      BY <2>2, <2>4, <3>1, ChannelStep DEF FeedTypes
    <3>. QED  BY <2>1, <2>2, <3>1, <3>2 DEF FeedTypes
  <2>. QED  BY <2>3, <2>4
<1>5. ASSUME NEW v \in Viewers, Views!TakeUpdate(v) PROVE FeedTypes'
  <2> DEFINE e == Head(updateCh[v])
  <2>1. /\ updateCh' = [updateCh EXCEPT ![v] = Tail(@)] /\ updateCh[v] # <<>>
        /\ shown' = [shown EXCEPT ![v] = @ \union {e}]
        /\ UNCHANGED <<viewLoop, handlers, eventCh, invoked, missed, told>>
    BY <1>5 DEF Views!TakeUpdate
  <2>2. /\ e \in News /\ updateCh' \in [Viewers -> Seq(News)]
        /\ \A u \in Viewers : Len(updateCh'[u]) <= ViewCapacity
    <3>1. \E n \in News : TRUE
      BY <2>1, HeadTailProperties DEF FeedTypes
    <3>. QED  BY <2>1, <3>1, ChannelStep DEF FeedTypes
  <2> HIDE DEF e
  <2>. QED  BY <2>1, <2>2 DEF FeedTypes
<1>6. ASSUME NEW v \in Viewers, Views!Start(v) \/ Views!EndLoop(v) PROVE FeedTypes'
  BY <1>6 DEF Views!Start, Views!EndLoop, FeedTypes
<1>7. CASE Views!StartHub \/ Views!StopHub \/ Views!LockCleanup \/ Views!Cleanup
  BY <1>1, <1>7 DEF Views!StartHub, Views!StopHub, Views!LockCleanup, Views!Cleanup
<1>8. ASSUME NEW v \in Viewers, Views!RegisterTUIClient(v) \/ Views!Close(v) \/ Views!Lock(v) \/ Views!Unregister(v) PROVE FeedTypes'
  BY <1>1, <1>8 DEF Views!RegisterTUIClient, Views!Close, Views!Lock, Views!Unregister
<1>9. CASE UNCHANGED viewerPart
  BY <1>1, <1>9 DEF viewerPart, Views!feed
<1>. QED  BY <1>2, <1>3, <1>4, <1>5, <1>6, <1>7, <1>8, <1>9 DEF Views!Next, Views!View

-----------------------------------------------------------------------------
(* The batch counter.                                                      *)

\* A batch is finite, and each of its tasks has one result: a second one may make the counter
\* reach the size of the batch too early, or twice.
OneResultEach == IsFiniteSet(BatchTasks) /\ MaxReports = 1

Counted == {t \in BatchTasks : counted[t] > 0}
DrewLast(t) == counted[t] >= Batch!BatchSize

\* Counting is a way of one direction: no number drawn exceeds the tasks counted so far, so
\* that only the last task draws the size of the batch.
CountInv ==
  /\ Batch!BatchTypeOK
  /\ \A t \in BatchTasks :
       /\ aggregating[t] # "idle" \/ counted[t] > 0 => reports[t] = 1
       /\ aggregating[t] = "count" => counted[t] = 0
       /\ aggregating[t] \in {"expire", "publish", "delete"} => counted[t] > 0
       /\ aggregating[t] \in {"publish", "delete"} => DrewLast(t)
       /\ counted[t] <= Cardinality(Counted)
       /\ aggregating[t] \in {"expire", "publish"} /\ DrewLast(t) => completions = 0
  /\ \A t, u \in BatchTasks : DrewLast(t) /\ DrewLast(u) => t = u
  /\ processed <= Cardinality(Counted)
  /\ completions <= 1
  /\ completions = 1 => \E t \in BatchTasks : DrewLast(t)

\* Sizes of the sets of tasks; a batch with a task is not empty.
LEMMA Sizes ==
  ASSUME OneResultEach
  PROVE  /\ Batch!BatchSize \in Nat /\ IsFiniteSet(Counted) /\ Cardinality(Counted) \in Nat
         /\ Cardinality(Counted) <= Batch!BatchSize
         /\ Cardinality(Counted) = Batch!BatchSize => Counted = BatchTasks
         /\ BatchTasks # {} => Batch!BatchSize > 0
<1>1. IsFiniteSet(BatchTasks) /\ Counted \in SUBSET BatchTasks
  BY DEF OneResultEach, Counted
<1>2. IsFiniteSet(Counted) /\ Cardinality(Counted) <= Cardinality(BatchTasks)
      /\ (Cardinality(BatchTasks) = Cardinality(Counted) => BatchTasks = Counted)
  BY <1>1, FS_Subset
<1>3. Cardinality(Counted) \in Nat /\ Cardinality(BatchTasks) \in Nat
  BY <1>1, <1>2, FS_CardinalityType
<1>4. BatchTasks # {} => Cardinality(BatchTasks) # 0
  BY <1>1, FS_EmptySet
<1>. QED  BY <1>2, <1>3, <1>4, SameCount DEF Batch!BatchSize

\* INCR: the one step that draws a number.
LEMMA CountStep ==
  ASSUME OneResultEach, CountInv, NEW t \in BatchTasks, Batch!Count(t)
  PROVE  CountInv'
<1> DEFINE n == Cardinality(Counted)
<1>1. /\ aggregating[t] = "count" /\ counted[t] = 0 /\ reports[t] = 1
      /\ processed \in Nat /\ processed <= n /\ n \in Nat
  BY Sizes DEF Batch!Count, CountInv, Batch!BatchTypeOK
<1>2. /\ processed' = processed + 1
      /\ counted' = [counted EXCEPT ![t] = processed + 1]
      /\ aggregating' = [aggregating EXCEPT ![t] = "expire"]
      /\ reports' = reports /\ expiring' = expiring /\ expiredOnce' = expiredOnce
      /\ completions' = completions
  BY DEF Batch!Count
<1>3. Batch!BatchTypeOK'
  BY <1>1, <1>2 DEF CountInv, Batch!BatchTypeOK
<1>4. counted'[t] = processed + 1 /\ \A u \in BatchTasks : u # t => counted'[u] = counted[u]
  BY <1>2 DEF CountInv, Batch!BatchTypeOK
<1>5. Counted' = Counted \union {t} /\ t \notin Counted
  BY <1>1, <1>4 DEF Counted
<1>6. Cardinality(Counted') = n + 1 /\ n + 1 <= Batch!BatchSize
  <2>1. Cardinality(Counted \union {t}) = n + 1 /\ IsFiniteSet(Counted \union {t})
    BY <1>5, Sizes, FS_AddElement
  <2>2. IsFiniteSet(BatchTasks) /\ Counted \union {t} \in SUBSET BatchTasks
    BY DEF OneResultEach, Counted
  <2>. QED  BY <1>5, <2>1, <2>2, FS_Subset, SameCount DEF Batch!BatchSize
<1>7. \A u \in BatchTasks : counted[u] \in Nat /\ counted[u] <= n
  BY DEF CountInv, Batch!BatchTypeOK
<1>8. \A u \in BatchTasks : ~DrewLast(u)
  BY <1>1, <1>6, <1>7, Sizes DEF DrewLast
<1>9. completions = 0
  BY <1>8 DEF CountInv, Batch!BatchTypeOK
<1>10. \A u \in BatchTasks : DrewLast(u)' => u = t
  BY <1>4, <1>8 DEF DrewLast
<1>11. ASSUME NEW u \in BatchTasks
       PROVE  /\ (aggregating'[u] # "idle" \/ counted'[u] > 0 => reports'[u] = 1)
              /\ (aggregating'[u] = "count" => counted'[u] = 0)
              /\ (aggregating'[u] \in {"expire", "publish", "delete"} => counted'[u] > 0)
              /\ (aggregating'[u] \in {"publish", "delete"} => DrewLast(u)')
              /\ counted'[u] <= n + 1
  <2>1. CASE u = t
    BY <1>1, <1>2, <1>4, <2>1 DEF CountInv, Batch!BatchTypeOK
  <2>2. CASE u # t
    <3>1. aggregating'[u] = aggregating[u] /\ counted'[u] = counted[u] /\ reports'[u] = reports[u]
      BY <1>2, <1>4, <2>2 DEF CountInv, Batch!BatchTypeOK
    <3>. QED  BY <1>1, <1>7, <3>1 DEF CountInv, DrewLast
  <2>. QED  BY <2>1, <2>2
<1>. QED
  <2>1. processed' <= Cardinality(Counted)'
    BY <1>1, <1>2, <1>6
  <2>. QED  BY <1>2, <1>3, <1>6, <1>9, <1>10, <1>11, <2>1 DEF CountInv

\* Every other step leaves the numbers as they are.
LEMMA CountInvStep == ASSUME OneResultEach, CountInv, [Batch!Next]_batchPart PROVE CountInv'
<1>1. CASE Batch!ExpireCounter
  <2>1. /\ processed' = 0 /\ expiring' = FALSE /\ expiredOnce' = TRUE
        /\ reports' = reports /\ aggregating' = aggregating
        /\ counted' = counted /\ completions' = completions
    BY <1>1 DEF Batch!ExpireCounter
  <2>2. Batch!BatchTypeOK' /\ Counted' = Counted
    BY <2>1 DEF CountInv, Batch!BatchTypeOK, Counted
  <2>3. \A u \in BatchTasks : DrewLast(u)' <=> DrewLast(u)
    BY <2>1 DEF DrewLast
  <2>4. processed' <= Cardinality(Counted)
    BY <2>1, Sizes
  <2>. QED  BY <2>1, <2>2, <2>3, <2>4 DEF CountInv
<1>2. CASE UNCHANGED batchPart
  BY <1>2 DEF batchPart, CountInv, Batch!BatchTypeOK, Counted, DrewLast
<1>3. ASSUME NEW t \in BatchTasks, Batch!Report(t) PROVE CountInv'
  <2>1. aggregating[t] = "idle" /\ reports[t] = 0 /\ counted[t] = 0
    BY <1>3 DEF Batch!Report, CountInv, Batch!BatchTypeOK, OneResultEach
  <2>2. /\ reports' = [reports EXCEPT ![t] = 1] /\ aggregating' = [aggregating EXCEPT ![t] = "count"]
        /\ counted' = counted /\ processed' = processed /\ completions' = completions
        /\ expiring' = expiring /\ expiredOnce' = expiredOnce
    BY <1>3, <2>1 DEF Batch!Report
  <2>3. Batch!BatchTypeOK' /\ Counted' = Counted
    BY <2>2 DEF CountInv, Batch!BatchTypeOK, OneResultEach, Counted
  <2>4. \A u \in BatchTasks : DrewLast(u)' <=> DrewLast(u)
    BY <2>2 DEF DrewLast
  <2>. QED  BY <2>1, <2>2, <2>3, <2>4 DEF CountInv, Batch!BatchTypeOK
<1>4. ASSUME NEW t \in BatchTasks, Batch!SetTTL(t) PROVE CountInv'
  <2>1. /\ aggregating[t] = "expire" /\ counted[t] > 0
        /\ aggregating' = [aggregating EXCEPT ![t] = IF DrewLast(t) THEN "publish" ELSE "idle"]
        /\ reports' = reports /\ counted' = counted /\ processed' = processed
        /\ completions' = completions /\ expiredOnce' = expiredOnce /\ expiring' \in BOOLEAN
    BY <1>4 DEF Batch!SetTTL, Batch!BatchComplete, DrewLast, CountInv, Batch!BatchTypeOK
  <2>2. Batch!BatchTypeOK' /\ Counted' = Counted
    BY <2>1 DEF CountInv, Batch!BatchTypeOK, Counted
  <2>3. \A u \in BatchTasks : DrewLast(u)' <=> DrewLast(u)
    BY <2>1 DEF DrewLast
  <2>. QED  BY <2>1, <2>2, <2>3 DEF CountInv, Batch!BatchTypeOK
<1>5. ASSUME NEW t \in BatchTasks, Batch!PublishComplete(t) PROVE CountInv'
  <2>1. /\ aggregating[t] = "publish" /\ DrewLast(t) /\ completions = 0 /\ completions' = 1
        /\ aggregating' = [aggregating EXCEPT ![t] = "delete"]
        /\ reports' = reports /\ counted' = counted /\ processed' = processed
        /\ expiredOnce' = expiredOnce /\ expiring' = expiring
    BY <1>5 DEF Batch!PublishComplete, CountInv
  <2>2. Batch!BatchTypeOK' /\ Counted' = Counted
    BY <2>1 DEF CountInv, Batch!BatchTypeOK, Counted
  <2>3. \A u \in BatchTasks : DrewLast(u)' <=> DrewLast(u)
    BY <2>1 DEF DrewLast
  <2>4. \A u \in BatchTasks : aggregating'[u] \in {"expire", "publish"} => ~DrewLast(u)
    BY <2>1 DEF CountInv, Batch!BatchTypeOK
  <2>. QED  BY <2>1, <2>2, <2>3, <2>4 DEF CountInv, Batch!BatchTypeOK
<1>6. ASSUME NEW t \in BatchTasks, Batch!DeleteCounter(t) PROVE CountInv'
  <2>1. /\ aggregating[t] = "delete" /\ processed' = 0 /\ expiring' = FALSE
        /\ aggregating' = [aggregating EXCEPT ![t] = "idle"]
        /\ reports' = reports /\ counted' = counted
        /\ completions' = completions /\ expiredOnce' = expiredOnce
    BY <1>6 DEF Batch!DeleteCounter
  <2>2. Batch!BatchTypeOK' /\ Counted' = Counted
    BY <2>1 DEF CountInv, Batch!BatchTypeOK, Counted
  <2>3. \A u \in BatchTasks : DrewLast(u)' <=> DrewLast(u)
    BY <2>1 DEF DrewLast
  <2>. QED  BY <2>1, <2>2, <2>3, Sizes DEF CountInv, Batch!BatchTypeOK
<1>. QED  BY <1>1, <1>2, <1>3, <1>4, <1>5, <1>6, CountStep DEF Batch!Next, Batch!Aggregate

LEMMA BatchTypesStep ==
  ASSUME MaxReports \in Nat, Batch!BatchTypeOK, [Batch!Next]_batchPart
  PROVE  Batch!BatchTypeOK'
<1>1. CASE Batch!ExpireCounter \/ UNCHANGED batchPart
  <2>1. CASE Batch!ExpireCounter
    BY <2>1 DEF Batch!ExpireCounter, Batch!BatchTypeOK
  <2>2. CASE UNCHANGED batchPart
    BY <2>2 DEF batchPart, Batch!BatchTypeOK
  <2>. QED  BY <1>1, <2>1, <2>2
<1>2. ASSUME NEW t \in BatchTasks, Batch!Report(t) PROVE Batch!BatchTypeOK'
  <2>1. reports' \in [BatchTasks -> 0..MaxReports]
    BY <1>2 DEF Batch!Report, Batch!BatchTypeOK
  <2>. QED  BY <1>2, <2>1 DEF Batch!Report, Batch!BatchTypeOK
<1>3. ASSUME NEW t \in BatchTasks, Batch!Aggregate(t) PROVE Batch!BatchTypeOK'
  <2>1. CASE Batch!Count(t)
    BY <2>1 DEF Batch!Count, Batch!BatchTypeOK
  <2>2. CASE Batch!SetTTL(t)
    BY <2>2 DEF Batch!SetTTL, Batch!BatchTypeOK
  <2>3. CASE Batch!PublishComplete(t)
    BY <2>3 DEF Batch!PublishComplete, Batch!BatchTypeOK
  <2>4. CASE Batch!DeleteCounter(t)
    BY <2>4 DEF Batch!DeleteCounter, Batch!BatchTypeOK
  <2>. QED  BY <1>3, <2>1, <2>2, <2>3, <2>4 DEF Batch!Aggregate
<1>. QED  BY <1>1, <1>2, <1>3 DEF Batch!Next
LEMMA BatchTypesInitially == ASSUME MaxReports \in Nat PROVE Batch!Init => Batch!BatchTypeOK
<1> SUFFICES ASSUME Batch!Init PROVE Batch!BatchTypeOK
  OBVIOUS
<1>1. /\ reports \in [BatchTasks -> 0..MaxReports] /\ counted \in [BatchTasks -> Nat]
      /\ aggregating \in [BatchTasks -> {"idle", "count", "expire", "publish", "delete"}]
  BY DEF Batch!Init
<1>. QED  BY <1>1 DEF Batch!Init, Batch!BatchTypeOK

LEMMA CountInitially == ASSUME OneResultEach PROVE Batch!Init => CountInv
<1> SUFFICES ASSUME Batch!Init PROVE CountInv
  OBVIOUS
<1>0. \A t \in BatchTasks : 0 \in 0..MaxReports /\ 0 \in Nat
  BY DEF OneResultEach
<1>1. Batch!BatchTypeOK
  BY <1>0 DEF Batch!Init, Batch!BatchTypeOK
<1>2. BatchTasks # {} => Batch!BatchSize \in Nat /\ Batch!BatchSize > 0
  BY Sizes
<1>3. \A t \in BatchTasks : counted[t] = 0 /\ aggregating[t] = "idle"
  BY DEF Batch!Init
<1>4. \A t \in BatchTasks : ~DrewLast(t)
  BY <1>2, <1>3 DEF DrewLast
<1>5. Cardinality(Counted) \in Nat /\ processed = 0 /\ completions = 0
  BY Sizes DEF Batch!Init
<1>. QED  BY <1>1, <1>3, <1>4, <1>5 DEF CountInv

LEMMA CountImplies == ASSUME OneResultEach PROVE CountInv => Batch!OneCompletion
<1> SUFFICES ASSUME CountInv, completions = 1
             PROVE  \A t \in BatchTasks : reports[t] > 0 /\ counted[t] > 0
  BY DEF CountInv, Batch!OneCompletion
<1>1. PICK t \in BatchTasks : DrewLast(t)
  BY DEF CountInv
<1>2. counted[t] \in Nat /\ counted[t] <= Cardinality(Counted) /\ counted[t] >= Batch!BatchSize
  BY <1>1 DEF CountInv, Batch!BatchTypeOK, DrewLast
<1>3. Counted = BatchTasks
  BY <1>2, Sizes
<1>. QED  BY <1>3 DEF Counted, CountInv

-----------------------------------------------------------------------------
(* A step of the hub's specification is a step of each component, or leaves it alone. *)

hubAll == <<part, vars, linkPart, callPart, viewerPart, batchPart>>

LEMMA PartsStep ==
  ASSUME [HubNext]_hubAll
  PROVE  /\ part' = part /\ [Next]_vars /\ [Link!Next]_linkPart /\ [Calls!Next]_callPart
         /\ [Views!Next]_viewerPart /\ [Batch!Next]_batchPart
<1>1. CASE UNCHANGED hubAll
  BY <1>1 DEF hubAll
<1>2. CASE HubNext
  <2>1. part' = part
    BY <1>2 DEF HubNext, Frame
  <2>2. [Next]_vars
    BY <1>2 DEF HubNext, Frame, Still
  <2>3. [Link!Next]_linkPart
    BY <1>2 DEF HubNext, Frame, Still
  <2>4. [Calls!Next]_callPart
    BY <1>2 DEF HubNext, Frame, Still
  <2>5. [Views!Next]_viewerPart
    BY <1>2 DEF HubNext, Frame, Still
  <2>6. [Batch!Next]_batchPart
    BY <1>2 DEF HubNext, Frame, Still
  <2>. QED  BY <2>1, <2>2, <2>3, <2>4, <2>5, <2>6
<1>. QED  BY <1>1, <1>2

LEMMA HubSpecIsWorkers == HubSpec => Spec
<1>1. HubInit => Init
  BY DEF HubInit
<1>2. [HubNext]_hubAll => [Next]_vars
  BY PartsStep
<1>. QED  BY <1>1, <1>2, PTL DEF HubSpec, Spec, hubAll

LEMMA LinkInvHolds == HubSpec => []LinkInv
<1>1. HubInit => LinkInv
  BY LinkInitially DEF HubInit
<1>2. LinkInv /\ [HubNext]_hubAll => LinkInv'
  BY LinkStep, PartsStep
<1>. QED  BY <1>1, <1>2, PTL DEF HubSpec, hubAll

LEMMA CallInvHolds == HubSpec => []CallInv
<1>1. HubInit => CallInv
  BY CallInitially DEF HubInit
<1>2. CallInv /\ [HubNext]_hubAll => CallInv'
  BY CallStep, PartsStep
<1>. QED  BY <1>1, <1>2, PTL DEF HubSpec, hubAll

\* However many streams the client opens and whatever breaks: no two threads of it dial at a time,
\* once linked it is linked or has a thread that dials again (client.go:619-622), and a
\* connection marked as connected is the one the hub's table leads to (hub.go:321-354).
THEOREM LinkHasOneOwner == HubSpec => []StreamsOwned
<1>1. LinkInv => StreamsOwned
  BY DEF LinkInv, StreamsOwned
<1>. QED  BY <1>1, LinkInvHolds, PTL

\* For any number of callers, with responses, timeouts, failing sends and a Close in any order: an
\* entry of pendingRequests is of a call under way or of the response in hand, and a caller that
\* waits on an open channel has its entry or its answer (connection.go:260-267, 328-353, 477-482).
THEOREM NoRequestIsLost == HubSpec => []RequestsOwned
<1>1. CallInv => RequestsOwned
  BY CallInvImplies DEF RequestsOwned
<1>. QED  BY <1>1, CallInvHolds, PTL

\* For any number of viewers with IDs of their own: neither Close nor UnregisterTUIClient ever asks
\* for clientsMu while holding it, although each calls the other (helpers.go:336-342,
\* hub.go:542-551).
THEOREM CloseNeverWaitsForItself == HubSpec => []NoSelfWait
<1>1. HubInit => CloseInv
  <2> SUFFICES ASSUME Views!Init PROVE CloseInv
    BY DEF HubInit
  <2>1. \A v \in Viewers : v \in Views!Ids /\ clientsMu # v
    BY ViewBounds DEF Views!Init, Views!Ids, Views!Free
  <2>. QED  BY <2>1 DEF Views!Init, CloseInv, TableTypeOK
<1>2. CloseInv /\ [HubNext]_hubAll => CloseInv'
  BY CloseInvStep, PartsStep
<1>3. CloseInv => NoSelfWait
  BY DEF CloseInv, NoSelfWait, Views!NoSelfWait
<1>. QED  BY <1>1, <1>2, <1>3, PTL DEF HubSpec, hubAll

\* A batch of any size whose tasks report once is completed at most once, by the result that is
\* counted last, whatever the order of the threads and whenever the counter expires
\* (batch_middleware.go:61-101).
THEOREM BatchCompletesOnce == ASSUME OneResultEach PROVE HubSpec => []OneCompletion
<1>1. HubInit => CountInv
  BY CountInitially DEF HubInit
<1>2. CountInv /\ [HubNext]_hubAll => CountInv'
  BY CountInvStep, PartsStep
<1>3. CountInv => OneCompletion
  BY CountImplies DEF OneCompletion
<1>. QED  BY <1>1, <1>2, <1>3, PTL DEF HubSpec, hubAll

\* The states of every component have their types: in particular the client never holds a stream
\* it did not open, and no channel of a connection or a viewer exceeds its capacity.
THEOREM HubTypesHold == HubSpec => []TypesOK
<1> DEFINE Types == FeedTypes /\ HoldTypes /\ Batch!BatchTypeOK
                    /\ part \in {"worker", "link", "calls", "viewers", "batch"}
<1>1. HubInit => Types
  BY ViewTypesInitially, BatchTypesInitially, BatchBounds DEF HubInit
<1>2. Types /\ [HubNext]_hubAll => Types'
  BY HoldTypesStep, FeedTypesStep, BatchTypesStep, BatchBounds, PartsStep
<1>3. Types /\ LinkInv /\ CallInv /\ TypeOK => TypesOK
  BY ViewTypesImply, CallInvImplies DEF TypesOK, LinkInv
<1> HIDE DEF Types
<1>. QED  BY <1>1, <1>2, <1>3, LinkInvHolds, CallInvHolds, HubSpecIsWorkers, NodeTypes, PTL
          DEF HubSpec, hubAll
=============================================================================
