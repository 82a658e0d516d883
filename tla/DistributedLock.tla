-------------------------- MODULE DistributedLock --------------------------
(***************************************************************************)
(* The Redis lock of lock/distributed_lock.go. Each client runs, again and *)
(* again, one call of WithLock ("plain") or WithAutoRefresh ("refresh") on *)
(* the same key; a call is its goroutine and, when refreshing, a second    *)
(* goroutine with a ticker. Redis runs one command at a time. The value of *)
(* the key names the client: a client makes one call at a time, and a call *)
(* draws a fresh value.                                                    *)
(*                                                                         *)
(* Time is counted in ticks. Redis takes an expiration in milliseconds     *)
(* from SETNX but in whole seconds from EXPIRE.                            *)
(***************************************************************************)
EXTENDS Integers

CONSTANTS
  Clients,
  Nobody,           \* the key does not exist
  Modes,            \* calls the clients make, of {"plain", "refresh"}
  Second,           \* ticks in a second
  Expiration,       \* LockOptions.Expiration
  RefreshInterval,  \* LockOptions.RefreshInterval
  Slack,            \* how late the ticker's goroutine may run
  WorkBound,        \* how long the function of a plain call may run
  MaxRetries,       \* LockOptions.MaxRetries
  RedisFails        \* may Redis answer ExtendLock or ReleaseLock with an error?

ASSUME NobodyAssumption == Nobody \notin Clients
ASSUME ModesAssumption  == Modes \subseteq {"plain", "refresh"}
ASSUME TimesAssumption  == /\ Second \in Nat \ {0}
                           /\ Expiration \in Nat \ {0}
                           /\ RefreshInterval \in Nat
                           /\ Slack \in Nat
                           /\ WorkBound \in Nat
                           /\ MaxRetries \in Nat
                           /\ RedisFails \in BOOLEAN

VARIABLES
  owner,      \* whose value the key "lock:<key>" has, or Nobody
  ttl,        \* ticks until it expires
  pc,         \* where each client's call is
  mode,       \* which call it is
  tries,      \* failed attempts of TryLock
  refresher,  \* the auto-refresh goroutine
  since       \* ticks since the lock was taken or the last refresh

redis  == <<owner, ttl>>
client == <<pc, mode, tries>>
vars   == <<redis, client, refresher, since>>

-----------------------------------------------------------------------------
Init ==
  /\ owner = Nobody /\ ttl = 0
  /\ pc = [c \in Clients |-> "idle"]
  /\ mode \in [Clients -> Modes]
  /\ tries = [c \in Clients |-> 0]
  /\ refresher = [c \in Clients |-> "off"]
  /\ since = [c \in Clients |-> 0]

\* int(extension.Seconds()), back in ticks.
WholeSeconds(t) == (t \div Second) * Second

Goto(c, l) == pc' = [pc EXCEPT ![c] = l]

Begin(c, m) ==
  /\ pc[c] = "idle"
  /\ Goto(c, "trying")
  /\ mode' = [mode EXCEPT ![c] = m]
  /\ tries' = [tries EXCEPT ![c] = 0]
  /\ UNCHANGED <<redis, refresher, since>>

\* AcquireLock: SETNX succeeds, and WithAutoRefresh starts its goroutine.
Take(c) ==
  /\ pc[c] = "trying"
  /\ owner' = c /\ ttl' = Expiration
  /\ Goto(c, "working")
  /\ refresher' = [refresher EXCEPT ![c] = IF mode[c] = "refresh" THEN "on" ELSE "off"]
  /\ since' = [since EXCEPT ![c] = 0]
  /\ UNCHANGED <<mode, tries>>
AcquireAnyway(c) == Take(c)  \* bug: SET without NX
Acquire(c) == owner = Nobody /\ Take(c)

\* SETNX finds the key: WithLock gives up, TryLock after its last attempt.
LastTryLate(c) == tries[c] > MaxRetries  \* bug: off by one
LastTry(c) == tries[c] = MaxRetries
Refused(c) ==
  /\ pc[c] = "trying"
  /\ owner # Nobody
  /\ IF mode[c] = "plain" \/ LastTry(c)
     THEN Goto(c, "idle") /\ UNCHANGED tries
     ELSE tries' = [tries EXCEPT ![c] = @ + 1] /\ UNCHANGED pc
  /\ UNCHANGED <<redis, mode, refresher, since>>

\* The caller's context ends while TryLock waits for its next attempt.
GiveUp(c) ==
  /\ pc[c] = "trying" /\ tries[c] > 0
  /\ Goto(c, "idle")
  /\ UNCHANGED <<redis, mode, tries, refresher, since>>

\* SETNX returns an error, from Redis or because the caller's context ends. When only
\* the reply was lost, the key was set.
AcquireFails(c) ==
  /\ pc[c] = "trying"
  /\ \/ UNCHANGED redis
     \/ owner = Nobody /\ owner' = c /\ ttl' = Expiration
  /\ Goto(c, "idle")
  /\ UNCHANGED <<mode, tries, refresher, since>>

\* The script of ExtendLock: EXPIRE with no whole second left deletes the key.
Expire(c) ==
  IF WholeSeconds(Expiration) = 0 THEN owner' = Nobody /\ ttl' = 0
                                  ELSE ttl' = WholeSeconds(Expiration) /\ UNCHANGED owner
ExtendRefused(c) == owner # c  \* the script compares the values

\* The ticker fires and ExtendLock finds its own value.
Refresh(c) ==
  /\ refresher[c] = "on"
  /\ since[c] >= RefreshInterval
  /\ ~ExtendRefused(c)
  /\ Expire(c)
  /\ since' = [since EXCEPT ![c] = 0]
  /\ UNCHANGED client
ExtendOnce(c) ==  \* bug: a timer where a ticker is needed
  Refresh(c) /\ refresher' = [refresher EXCEPT ![c] = "done"]
Extend(c) == Refresh(c) /\ UNCHANGED refresher

\* ExtendLock finds another value or none, or an error comes back with or without
\* the command done, from Redis or, once the function has returned, because the
\* context is cancelled: the goroutine logs it and ends.
ExtendErrs(c) == RedisFails \/ pc[c] = "joining"
ExtendFails(c) ==
  /\ refresher[c] = "on"
  /\ since[c] >= RefreshInterval
  /\ \/ ExtendRefused(c) /\ UNCHANGED redis
     \/ ExtendErrs(c) /\ UNCHANGED redis
     \/ ExtendErrs(c) /\ ~ExtendRefused(c) /\ Expire(c)
  /\ refresher' = [refresher EXCEPT ![c] = "done"]
  /\ since' = [since EXCEPT ![c] = 0]
  /\ UNCHANGED client

\* The protected function returns; WithAutoRefresh cancels its goroutine.
Finish(c) ==
  /\ pc[c] = "working"
  /\ Goto(c, IF mode[c] = "refresh" THEN "joining" ELSE "releasing")
  /\ UNCHANGED <<redis, mode, tries, refresher, since>>

\* <-refreshDone.
Joined(c) ==
  /\ pc[c] = "joining"
  /\ Goto(c, "releasing")
  /\ UNCHANGED <<redis, mode, tries>>
JoinLeaks(c) ==  \* bug: the goroutine is not cancelled
  Joined(c) /\ UNCHANGED <<refresher, since>>
Join(c) ==
  /\ Joined(c)
  /\ refresher' = [refresher EXCEPT ![c] = "off"]
  /\ since' = [since EXCEPT ![c] = 0]

\* The script of ReleaseLock; an error is only logged.
DeleteBlind(c) == owner' = Nobody /\ ttl' = 0  \* bug: DEL without the GET
Delete(c) ==
  IF owner = c THEN owner' = Nobody /\ ttl' = 0 ELSE UNCHANGED redis
Release(c) ==
  /\ pc[c] = "releasing"
  /\ \/ Delete(c)
     \/ RedisFails /\ UNCHANGED redis
  /\ Goto(c, "idle")
  /\ UNCHANGED <<mode, tries, refresher, since>>

\* The client's process dies and starts afresh.
Crash(c) ==
  /\ pc[c] # "idle"
  /\ Goto(c, "idle")
  /\ refresher' = [refresher EXCEPT ![c] = "off"]
  /\ since' = [since EXCEPT ![c] = 0]
  /\ UNCHANGED <<redis, mode, tries>>

\* A tick of the clock. A due refresh waits for at most Slack ticks, and the
\* function of a plain call runs for at most WorkBound.
Counting(c) == \/ refresher[c] = "on"
               \/ pc[c] = "working" /\ mode[c] = "plain"
OnTime(c) == /\ refresher[c] = "on" => since[c] < RefreshInterval + Slack
             /\ pc[c] = "working" /\ mode[c] = "plain" => since[c] < WorkBound
Age == IF ttl > 1 THEN ttl' = ttl - 1 /\ UNCHANGED owner
                  ELSE ttl' = 0 /\ owner' = Nobody
Tick ==
  /\ \A c \in Clients : OnTime(c)
  /\ Age
  /\ since' = [c \in Clients |-> IF Counting(c) THEN since[c] + 1 ELSE since[c]]
  /\ UNCHANGED <<client, refresher>>

Next == \/ \E c \in Clients :
             \/ \E m \in Modes : Begin(c, m)
             \/ Acquire(c) \/ Refused(c) \/ GiveUp(c) \/ AcquireFails(c)
             \/ Extend(c) \/ ExtendFails(c)
             \/ Finish(c) \/ Join(c) \/ Release(c)
             \/ Crash(c)
        \/ Tick

Spec == Init /\ [][Next]_vars

\* Time passes, a due refresh runs, the protected function returns and its call
\* ends. Nothing is assumed of the attempts to take the lock.
Fairness == /\ WF_vars(Tick)
            /\ \A c \in Clients : /\ WF_vars(Extend(c) \/ ExtendFails(c))
                                  /\ WF_vars(Finish(c))
                                  /\ WF_vars(Join(c))
                                  /\ WF_vars(Release(c))

FairSpec == Spec /\ Fairness

-----------------------------------------------------------------------------
(* Properties.                                                             *)

\* Types of the state (LockResult and the key, distributed_lock.go:29-34).
TypeOK ==
  /\ owner \in Clients \union {Nobody}
  /\ ttl \in Nat
  /\ owner = Nobody <=> ttl = 0
  /\ pc \in [Clients -> {"idle", "trying", "working", "joining", "releasing"}]
  /\ mode \in [Clients -> Modes]
  /\ tries \in [Clients -> 0..MaxRetries]
  /\ refresher \in [Clients -> {"off", "on", "done"}]
  /\ since \in [Clients -> Nat]

\* The function given to WithLock or WithAutoRefresh runs while its client
\* holds the key ("executes a function while holding a distributed lock",
\* distributed_lock.go:144, 282). It holds when Redis answers, a refresh comes
\* before the extended key expires and a plain function before the first one.
HeldWhileWorking == \A c \in Clients : pc[c] = "working" => owner = c

\* Under the same conditions the lock implements mutual exclusion.
Inside == {c \in Clients : pc[c] = "working"}
Excl == INSTANCE Exclusion WITH inside <- Inside
Exclusive == Excl!Spec

\* Whatever fails and however late a client is, nobody takes the key from it:
\* it goes by the client's own release or refresh or because its time is up.
\* A client that overran its lease must not delete the key of the next one
\* (the scripts of ReleaseLock and ExtendLock, distributed_lock.go:75-81).
NotRobbed ==
  [][\A c \in Clients :
       owner = c /\ owner' # c
         => \/ pc[c] = "releasing" /\ pc'[c] = "idle"
            \/ ttl = 1 /\ client' = client]_vars

\* Whoever crashes or fails to release, the key does not stay for ever
\* (the expiration of SETNX, distributed_lock.go:42).
LockFreed == \A c \in Clients : owner = c ~> owner # c

-----------------------------------------------------------------------------
(* What the comments say.                                                  *)

\* "ExtendLock extends the expiration time of an existing lock"
\* (distributed_lock.go:106): after a refresh that found its value the client
\* still holds the key.
ExtendedIsHeld ==
  [][\A c \in Clients :
       owner = c /\ refresher[c] = "on" /\ refresher'[c] = "on"
       /\ since[c] > 0 /\ since'[c] = 0
         => owner' = c]_vars
=============================================================================
