----------------------- MODULE DistributedLockProofs -----------------------
(***************************************************************************)
(* What the lock of lock/distributed_lock.go guarantees for any number of  *)
(* clients and any times: TypeOK always; mutual exclusion when Redis       *)
(* answers, a refresh comes before the extended key expires, and a plain   *)
(* function returns before its key does.                                   *)
(***************************************************************************)
EXTENDS DistributedLock, TLAPS

\* A duration cut to whole seconds is a duration, and no longer one.
LEMMA WholeSecondsBound ==
  ASSUME NEW t \in Nat
  PROVE  WholeSeconds(t) \in Nat /\ WholeSeconds(t) <= t
BY TimesAssumption, Z3 DEF WholeSeconds

LEMMA StepType ==
  ASSUME TypeOK, [Next]_vars
  PROVE  TypeOK'
<1> USE NobodyAssumption, TimesAssumption DEF TypeOK, redis, client
<1>e. WholeSeconds(Expiration) \in Nat
  BY WholeSecondsBound
<1>1. ASSUME NEW c \in Clients, NEW m \in Modes, Begin(c, m) PROVE TypeOK'
  BY <1>1 DEF Begin, Goto
<1>2. ASSUME NEW c \in Clients, Acquire(c) PROVE TypeOK'
  BY <1>2 DEF Acquire, Take, Goto
<1>3. ASSUME NEW c \in Clients, Refused(c) PROVE TypeOK'
  BY <1>3 DEF Refused, LastTry, Goto
<1>4. ASSUME NEW c \in Clients, GiveUp(c) PROVE TypeOK'
  BY <1>4 DEF GiveUp, Goto
<1>5. ASSUME NEW c \in Clients, AcquireFails(c) PROVE TypeOK'
  BY <1>5 DEF AcquireFails, Goto
<1>6. ASSUME NEW c \in Clients, Extend(c) PROVE TypeOK'
  BY <1>e, <1>6 DEF Extend, Refresh, Expire, ExtendRefused
<1>7. ASSUME NEW c \in Clients, ExtendFails(c) PROVE TypeOK'
  BY <1>e, <1>7 DEF ExtendFails, ExtendErrs, Expire, ExtendRefused
<1>8. ASSUME NEW c \in Clients, Finish(c) PROVE TypeOK'
  BY <1>8 DEF Finish, Goto
<1>9. ASSUME NEW c \in Clients, Join(c) PROVE TypeOK'
  BY <1>9 DEF Join, Joined, Goto
<1>10. ASSUME NEW c \in Clients, Release(c) PROVE TypeOK'
  BY <1>10 DEF Release, Delete, Goto
<1>11. ASSUME NEW c \in Clients, Crash(c) PROVE TypeOK'
  BY <1>11 DEF Crash, Goto
<1>12. CASE Tick
  <2>1. /\ owner' \in Clients \union {Nobody} /\ ttl' \in Nat
        /\ owner' = Nobody <=> ttl' = 0
    BY <1>12 DEF Tick, Age
  <2>2. since' \in [Clients -> Nat]
    BY <1>12 DEF Tick
  <2> QED
    BY <1>12, <2>1, <2>2 DEF Tick
<1>13. CASE UNCHANGED vars
  BY <1>13 DEF vars
<1> QED
  BY <1>1, <1>2, <1>3, <1>4, <1>5, <1>6, <1>7, <1>8, <1>9, <1>10, <1>11, <1>12,
     <1>13 DEF Next

\* The type invariant, whatever fails and whatever the durations are.
THEOREM LockTypes == Spec => []TypeOK
<1>1. Init => TypeOK
  BY TimesAssumption DEF Init, TypeOK
<1>2. TypeOK /\ [Next]_vars => TypeOK'
  BY StepType
<1> QED
  BY <1>1, <1>2, PTL DEF Spec

-----------------------------------------------------------------------------
\* The conditions under which the lease outlasts the work.
Timely == /\ ~RedisFails
          /\ RefreshInterval + Slack < WholeSeconds(Expiration)
          /\ WorkBound < Expiration

\* A client at work holds the key, and what is left of it (ttl) and what it has
\* used since the last extension (since) make up a whole lease.
Lease(c) ==
  pc[c] = "working"
    => /\ owner = c
       /\ mode[c] = "refresh"
            => /\ refresher[c] = "on"
               /\ since[c] <= RefreshInterval + Slack
               /\ ttl + since[c] >= WholeSeconds(Expiration)
       /\ mode[c] = "plain"
            => /\ refresher[c] = "off"
               /\ since[c] <= WorkBound
               /\ ttl + since[c] >= Expiration
LeaseInv == TypeOK /\ \A c \in Clients : Lease(c)

LEMMA StepLease ==
  ASSUME Timely, LeaseInv, [Next]_vars, NEW d \in Clients
  PROVE  Lease(d)'
<1> USE NobodyAssumption, ModesAssumption, TimesAssumption
    DEF Lease, TypeOK, redis, client
<1>e. WholeSeconds(Expiration) \in Nat /\ WholeSeconds(Expiration) <= Expiration
  BY WholeSecondsBound
<1>f. ~RedisFails /\ RefreshInterval + Slack < WholeSeconds(Expiration)
      /\ WorkBound < Expiration
  BY DEF Timely
<1>i. TypeOK /\ Lease(d)
  BY DEF LeaseInv
<1>1. ASSUME NEW c \in Clients, NEW m \in Modes, Begin(c, m) PROVE Lease(d)'
  BY <1>i, <1>1 DEF Begin, Goto
<1>2. ASSUME NEW c \in Clients, Acquire(c) PROVE Lease(d)'
  <2>1. CASE c = d
    BY <1>e, <1>f, <1>i, <1>2, <2>1 DEF Acquire, Take, Goto
  <2>2. CASE c # d
    BY <1>i, <1>2, <2>2 DEF Acquire, Take, Goto
  <2> QED
    BY <2>1, <2>2
<1>3. ASSUME NEW c \in Clients, Refused(c) PROVE Lease(d)'
  BY <1>i, <1>3 DEF Refused, LastTry, Goto
<1>4. ASSUME NEW c \in Clients, GiveUp(c) PROVE Lease(d)'
  BY <1>i, <1>4 DEF GiveUp, Goto
<1>5. ASSUME NEW c \in Clients, AcquireFails(c) PROVE Lease(d)'
  <2>1. owner = Nobody => pc[d] # "working"
    BY <1>i
  <2>2. pc[d] # "working" \/ UNCHANGED redis
    BY <1>5, <2>1 DEF AcquireFails
  <2>3. /\ pc[c] = "trying" /\ pc' = [pc EXCEPT ![c] = "idle"]
        /\ UNCHANGED <<mode, tries, refresher, since>>
    BY <1>5 DEF AcquireFails, Goto
  <2>4. pc'[d] = "working" => pc[d] = "working"
    BY <1>i, <2>3
  <2>5. CASE pc[d] # "working"
    BY <2>4, <2>5
  <2>6. CASE UNCHANGED redis
    BY <1>i, <2>3, <2>4, <2>6
  <2> HIDE DEF Lease
  <2> QED
    BY <2>2, <2>5, <2>6
<1>6. ASSUME NEW c \in Clients, Extend(c) PROVE Lease(d)'
  <2>1. /\ owner = c /\ refresher' = refresher /\ UNCHANGED client
        /\ since' = [since EXCEPT ![c] = 0]
    BY <1>6 DEF Extend, Refresh, ExtendRefused
  <2>2. ttl' = WholeSeconds(Expiration) /\ owner' = owner
    BY <1>e, <1>f, <1>6 DEF Extend, Refresh, Expire
  <2>3. CASE c = d
    <3>1. since'[d] = 0
      BY <1>i, <2>1, <2>3
    <3> SUFFICES ASSUME pc[d] = "working" PROVE Lease(d)'
      BY <2>1
    <3>2. CASE mode[d] = "refresh"
      BY <1>e, <1>i, <2>1, <2>2, <3>1, <3>2
    <3>3. CASE mode[d] = "plain"
      BY <1>i, <1>6, <2>1, <3>3 DEF Extend, Refresh
    <3> QED
      BY <1>i, <2>1, <3>2, <3>3
  <2>4. CASE c # d
    BY <1>i, <2>1, <2>2, <2>4
  <2> QED
    BY <2>3, <2>4
<1>7. ASSUME NEW c \in Clients, ExtendFails(c) PROVE Lease(d)'
  <2>0. ExtendErrs(c) => pc[c] = "joining"
    BY <1>f DEF ExtendErrs
  <2>1. pc[c] = "joining" \/ (owner # c /\ UNCHANGED redis)
    <3>1. (ExtendRefused(c) /\ UNCHANGED redis) \/ ExtendErrs(c)
      BY <1>7, Zenon DEF ExtendFails
    <3> QED
      BY <2>0, <3>1, Zenon DEF ExtendRefused
  <2>2. pc[d] = "working" => c # d /\ UNCHANGED redis
    BY <1>i, <1>7, <2>1 DEF ExtendFails, ExtendRefused
  <2> QED
    BY <1>i, <1>7, <2>1, <2>2 DEF ExtendFails
<1>8. ASSUME NEW c \in Clients, Finish(c) PROVE Lease(d)'
  BY <1>i, <1>8 DEF Finish, Goto
<1>9. ASSUME NEW c \in Clients, Join(c) PROVE Lease(d)'
  BY <1>i, <1>9 DEF Join, Joined, Goto
<1>10. ASSUME NEW c \in Clients, Release(c) PROVE Lease(d)'
  BY <1>f, <1>i, <1>10 DEF Release, Delete, Goto
<1>11. ASSUME NEW c \in Clients, Crash(c) PROVE Lease(d)'
  BY <1>i, <1>11 DEF Crash, Goto
<1>12. CASE Tick
  <2> SUFFICES ASSUME pc[d] = "working" PROVE Lease(d)'
    BY <1>12 DEF Tick
  <2>1. mode[d] \in {"plain", "refresh"} /\ OnTime(d) /\ Counting(d)
    BY <1>i, <1>12 DEF Tick, Counting
  <2>2. since'[d] = since[d] + 1
    BY <1>12, <2>1 DEF Tick
  <2>3. ttl > 1
    BY <1>e, <1>f, <1>i, <2>1 DEF OnTime
  <2>4. ttl' = ttl - 1 /\ owner' = owner
    BY <1>12, <2>3 DEF Tick, Age
  <2> QED
    BY <1>e, <1>i, <1>12, <2>1, <2>2, <2>4 DEF Tick, OnTime
<1>13. CASE UNCHANGED vars
  BY <1>i, <1>13 DEF vars
<1> QED
  BY <1>1, <1>2, <1>3, <1>4, <1>5, <1>6, <1>7, <1>8, <1>9, <1>10, <1>11, <1>12,
     <1>13 DEF Next

LEMMA LeaseHolds ==
  ASSUME Timely
  PROVE  Spec => []LeaseInv
<1>1. Init => LeaseInv
  <2>1. Init => TypeOK
    BY TimesAssumption DEF Init, TypeOK
  <2> QED
    BY <2>1 DEF Init, LeaseInv, Lease
<1>2. LeaseInv /\ [Next]_vars => LeaseInv'
  BY StepType, StepLease DEF LeaseInv
<1> QED
  BY <1>1, <1>2, PTL DEF Spec

\* WithLock and WithAutoRefresh run their function while holding the key
\* (distributed_lock.go:144, 282), under the conditions of Timely.
THEOREM HolderWorks ==
  ASSUME Timely
  PROVE  Spec => []HeldWhileWorking
<1>1. LeaseInv => HeldWhileWorking
  BY DEF LeaseInv, Lease, HeldWhileWorking
<1> QED
  BY <1>1, LeaseHolds, PTL

\* A step of the lock is a client entering or leaving the protected function,
\* or concerns neither.
LEMMA StepExclusion ==
  ASSUME LeaseInv, [Next]_vars
  PROVE  [Excl!Next]_Inside
<1> USE NobodyAssumption DEF Inside, redis, client, Goto
<1>i. TypeOK /\ \A c \in Clients : pc[c] = "working" => owner = c
  BY DEF LeaseInv, Lease
<1>p. DOMAIN pc = Clients
  BY <1>i DEF TypeOK
<1>1. ASSUME NEW c \in Clients, Acquire(c) PROVE Excl!Next
  <2>1. Inside = {}
    BY <1>i, <1>1 DEF Acquire
  <2>2. Inside' = {c}
    BY <1>i, <1>1, <2>1 DEF Acquire, Take, TypeOK
  <2> QED
    BY <2>1, <2>2 DEF Excl!Next, Excl!Enter
<1>2. ASSUME NEW c \in Clients, Finish(c) PROVE Excl!Next
  <2>1. c \in Inside /\ Inside' = Inside \ {c}
    BY <1>i, <1>2 DEF Finish, TypeOK
  <2> QED
    BY <2>1 DEF Excl!Next, Excl!Leave
<1>3. ASSUME NEW c \in Clients, Crash(c) PROVE [Excl!Next]_Inside
  <2>1. Inside' = Inside \ {c}
    BY <1>i, <1>3 DEF Crash, TypeOK
  <2>2. CASE c \in Inside
    BY <2>1, <2>2 DEF Excl!Next, Excl!Leave
  <2>3. CASE c \notin Inside
    BY <2>1, <2>3
  <2> QED
    BY <2>2, <2>3
<1>4. ASSUME NEW c \in Clients, NEW m \in Modes, Begin(c, m) PROVE Inside' = Inside
  BY <1>i, <1>4 DEF Begin, TypeOK
<1>5. ASSUME NEW c \in Clients, Refused(c) \/ GiveUp(c) \/ AcquireFails(c)
      PROVE  Inside' = Inside
  BY <1>i, <1>5 DEF Refused, LastTry, GiveUp, AcquireFails, TypeOK
<1>6. ASSUME NEW c \in Clients, Extend(c) \/ ExtendFails(c) PROVE Inside' = Inside
  BY <1>6 DEF Extend, Refresh, ExtendFails
<1>7. ASSUME NEW c \in Clients, Join(c) \/ Release(c) PROVE Inside' = Inside
  BY <1>i, <1>7 DEF Join, Joined, Release, TypeOK
<1>8. CASE Tick
  BY <1>8 DEF Tick
<1>9. CASE UNCHANGED vars
  BY <1>9 DEF vars
<1> QED
  BY <1>1, <1>2, <1>3, <1>4, <1>5, <1>6, <1>7, <1>8, <1>9 DEF Next

\* Under the conditions of Timely the lock implements mutual exclusion.
THEOREM LockExcludes ==
  ASSUME Timely
  PROVE  Spec => Exclusive
<1>1. Init => Excl!Init
  BY DEF Init, Excl!Init, Inside
<1>2. LeaseInv /\ [Next]_vars => [Excl!Next]_Inside
  BY StepExclusion
<1> QED
  BY <1>1, <1>2, LeaseHolds, PTL DEF Spec, Exclusive, Excl!Spec
=============================================================================
