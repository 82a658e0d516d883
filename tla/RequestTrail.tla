----------------------------- MODULE RequestTrail -----------------------------
(***************************************************************************)
(* What the middleware writes down of requests. AuditLogger (audit.go)     *)
(* with storage in Redis: every request that is audited adds its entry to  *)
(* the sorted set of its day, whose expiry it renews, and to two indexes,  *)
(* in commands of their own. Time passes in days. Redis is external.       *)
(*                                                                         *)
(* RequestLifecycleMiddleware (request_id.go): it calls the request ID     *)
(* middleware, which runs every later handler of the request before it     *)
(* returns, and only then tracks the request and finishes it. The ID may   *)
(* come from the caller, so that two requests have one; the map of the     *)
(* tracker has no lock. The two share no state.                            *)
(***************************************************************************)
EXTENDS Integers, FiniteSets

CONSTANTS
  Audited,         \* requests that are audited
  Anonymous,       \* those of no user
  RetentionDays,
  MaxTaking,       \* bound on the days from a request's begin to the end of its entry
  MaxDay,          \* bound on time
  MaxAuditFaults,  \* bound on commands that fail and on crashes
  WebRequests,
  SentIDs   \* IDs a caller may send in X-Request-ID

VARIABLES
  today,
  auditAt,    \* the command each request is about to give
  day,        \* the day of its Timestamp
  addedOn,    \* the day of its ZADD
  kept,       \* the members of each key
  expiry,     \* the day each key expires
  unexpired,  \* requests whose EXPIRE of a key failed, or was never given
  auditFaults,
  webAt,     \* "idle", "handling", "track", "finish", "sweep" (5 minutes), "over"
  idOf,      \* the ID of each request
  tracked,   \* rt.requests: by ID, the request and whether its EndTime is set
  mapBroken  \* has the runtime ended the program for concurrent map writes?

auditVars == <<today, auditAt, day, addedOn, kept, expiry, unexpired, auditFaults>>

Never == MaxDay + RetentionDays + 1   \* after every day there is
Days == 0..MaxDay
KeyKinds == {"log", "user", "action"}
AuditKeys == KeyKinds \X Days

AuditInit ==
  /\ today = 0
  /\ auditAt = [e \in Audited |-> "idle"]
  /\ day = [e \in Audited |-> 0] /\ addedOn = [e \in Audited |-> Never]
  /\ kept = [k \in AuditKeys |-> {}] /\ expiry = [k \in AuditKeys |-> Never]
  /\ unexpired = {} /\ auditFaults = 0

-----------------------------------------------------------------------------
\* The middleware reads the time before the handler and writes after it.
BeginRequest(e) ==
  /\ auditAt[e] = "idle"
  /\ day' = [day EXCEPT ![e] = today]
  /\ auditAt' = [auditAt EXCEPT ![e] = "add log"]
  /\ UNCHANGED <<today, addedOn, kept, expiry, unexpired, auditFaults>>

\* storeInRedis: ZADD and EXPIRE for the day, then for the user if there is one, then
\* for the action.
Adds == [log |-> "add log", user |-> "add user", action |-> "add action"]
Expires == [log |-> "expire log", user |-> "expire user", action |-> "expire action"]
AfterExpire(e, k) == CASE k = "log"    -> IF e \in Anonymous THEN "add action" ELSE "add user"
                       [] k = "user"   -> "add action"
                       [] k = "action" -> "done"

\* The log holds the entry as JSON, the indexes its ID only. Only the failure to add to
\* the log is looked at.
ZAdd(e, k) ==
  /\ auditAt[e] = Adds[k]
  /\ kept' = [kept EXCEPT ![<<k, day[e]>>] = @ \union {e}]
  /\ addedOn' = (IF k = "log" THEN [addedOn EXCEPT ![e] = today] ELSE addedOn)
  /\ auditAt' = [auditAt EXCEPT ![e] = Expires[k]]
  /\ UNCHANGED <<today, day, expiry, unexpired, auditFaults>>

ZAddFails(e, k) ==
  /\ auditAt[e] = Adds[k] /\ auditFaults < MaxAuditFaults
  /\ auditAt' = [auditAt EXCEPT ![e] = IF k = "log" THEN "failed" ELSE Expires[k]]
  /\ auditFaults' = auditFaults + 1
  /\ UNCHANGED <<today, day, addedOn, kept, expiry, unexpired>>

\* Retention begins with the last entry added; a key that is gone has no expiry to set.
SinceRequest(e) == day[e] + RetentionDays   \* bug: it begins with the request
NewExpiry(e) == today + RetentionDays
Expire(e, k) ==
  /\ auditAt[e] = Expires[k]
  /\ expiry' = (IF kept[<<k, day[e]>>] = {} THEN expiry
                ELSE [expiry EXCEPT ![<<k, day[e]>>] = NewExpiry(e)])
  /\ auditAt' = [auditAt EXCEPT ![e] = AfterExpire(e, k)]
  /\ UNCHANGED <<today, day, addedOn, kept, unexpired, auditFaults>>

ExpireFails(e, k) ==
  /\ auditAt[e] = Expires[k] /\ auditFaults < MaxAuditFaults
  /\ auditFaults' = auditFaults + 1 /\ unexpired' = unexpired \union {e}
  /\ auditAt' = [auditAt EXCEPT ![e] = AfterExpire(e, k)]
  /\ UNCHANGED <<today, day, addedOn, kept, expiry>>

\* The server stops between two commands.
Crash(e) ==
  /\ auditAt[e] \notin {"idle", "done", "failed"} /\ auditFaults < MaxAuditFaults
  /\ auditAt' = [auditAt EXCEPT ![e] = "failed"]
  /\ unexpired' = unexpired \union {e} /\ auditFaults' = auditFaults + 1
  /\ UNCHANGED <<today, day, addedOn, kept, expiry>>

UnderWay(e) == auditAt[e] \notin {"idle", "done", "failed"}
NextDay ==
  /\ today < MaxDay
  /\ \A e \in Audited : UnderWay(e) => today < day[e] + MaxTaking
  /\ today' = today + 1
  /\ LET gone == {k \in AuditKeys : expiry[k] <= today'}
     IN  /\ kept' = [k \in AuditKeys |-> IF k \in gone THEN {} ELSE kept[k]]
         /\ expiry' = [k \in AuditKeys |-> IF k \in gone THEN Never ELSE expiry[k]]
  /\ UNCHANGED <<auditAt, day, addedOn, unexpired, auditFaults>>

\* QueryAuditLogs reads the index when a user or an action is asked for, and skips the
\* members that are not JSON: all of them.
QueryAuditLogs(k, d) == IF k = "log" THEN kept[<<k, d>>] ELSE {}

AuditNext ==
  \/ NextDay
  \/ \E e \in Audited :
       \/ BeginRequest(e) \/ Crash(e)
       \/ \E k \in KeyKinds :
            ZAdd(e, k) \/ ZAddFails(e, k) \/ Expire(e, k) \/ ExpireFails(e, k)

-----------------------------------------------------------------------------
(* Properties.                                                             *)

AuditTypeOK ==
  /\ today \in Days /\ day \in [Audited -> Days] /\ addedOn \in [Audited -> Days \union {Never}]
  /\ auditAt \in [Audited -> {"idle", "done", "failed"}
                     \union {Adds[k] : k \in KeyKinds} \union {Expires[k] : k \in KeyKinds}]
  /\ kept \in [AuditKeys -> SUBSET Audited]
  /\ expiry \in [AuditKeys -> 0..(MaxDay + RetentionDays) \union {Never}]
  /\ unexpired \subseteq Audited /\ auditFaults \in 0..MaxAuditFaults

\* storeInRedis gives up to six commands per entry and requests interleave theirs
\* (audit.go:282-323): an entry is found for RetentionDays after it was added even when
\* others share its key, and no key lives on without an expiry once its writers are
\* done, unless an EXPIRE failed.
AuditKept ==
  /\ \A e \in Audited \ unexpired :
       addedOn[e] <= today /\ today < addedOn[e] + RetentionDays =>
         e \in QueryAuditLogs("log", day[e])
  /\ \A k \in KeyKinds, d \in Days :
       kept[<<k, d>>] # {} /\ expiry[<<k, d>>] = Never =>
         \E e \in Audited : day[e] = d /\ (auditAt[e] = Expires[k] \/ e \in unexpired)

-----------------------------------------------------------------------------
(* The tracker of requests.                                                *)

trackerVars == <<webAt, idOf, tracked, mapBroken>>

NoID == <<"none", "none">>
Absent == [of |-> "none", ended |-> FALSE]
Generated(r) == <<"generated", r>>
Sent == {"sent"} \X SentIDs
RequestIDs == Sent \union {Generated(r) : r \in WebRequests}

TrackerInit ==
  /\ webAt = [r \in WebRequests |-> "idle"] /\ idOf = [r \in WebRequests |-> NoID]
  /\ tracked = [i \in RequestIDs |-> Absent] /\ mapBroken = FALSE

-----------------------------------------------------------------------------
GoesTo(r, s) == webAt' = [webAt EXCEPT ![r] = s]

\* A path that is skipped gets no ID. A request that is over may be another's later.
RequestIDMiddleware(r) ==
  /\ webAt[r] = "idle"
  /\ \E i \in Sent \union {Generated(r), NoID} : idOf' = [idOf EXCEPT ![r] = i]
  /\ GoesTo(r, "handling")
  /\ UNCHANGED <<tracked, mapBroken>>

HandlersReturn(r) ==
  /\ webAt[r] = "handling"
  /\ GoesTo(r, IF idOf[r] = NoID THEN "over" ELSE "track")
  /\ UNCHANGED <<idOf, tracked, mapBroken>>

TrackRequest(r) ==
  /\ webAt[r] = "track"
  /\ tracked' = [tracked EXCEPT ![idOf[r]] = [of |-> r, ended |-> FALSE]]
  /\ GoesTo(r, "finish")
  /\ UNCHANGED <<idOf, mapBroken>>

\* The entry that is there is marked, whoever's it is; the goroutine sweeps it later.
MarksOwn(r) ==   \* bug: an entry another request of the ID has replaced is left to it
  /\ webAt[r] = "finish"
  /\ IF tracked[idOf[r]] = Absent THEN GoesTo(r, "over") /\ UNCHANGED tracked
     ELSE /\ tracked' = [tracked EXCEPT ![idOf[r]] = [of |-> @.of, ended |-> TRUE]]
          /\ GoesTo(r, IF tracked[idOf[r]].of = r THEN "sweep" ELSE "over")
  /\ UNCHANGED <<idOf, mapBroken>>
FinishRequest(r) ==
  /\ webAt[r] = "finish"
  /\ IF tracked[idOf[r]] = Absent THEN GoesTo(r, "over") /\ UNCHANGED tracked
     ELSE GoesTo(r, "sweep") /\ tracked' = [tracked EXCEPT ![idOf[r]] = [of |-> @.of, ended |-> TRUE]]
  /\ UNCHANGED <<idOf, mapBroken>>

Sweep(r) ==
  /\ webAt[r] = "sweep"
  /\ tracked' = [tracked EXCEPT ![idOf[r]] = Absent]
  /\ GoesTo(r, "over")
  /\ UNCHANGED <<idOf, mapBroken>>

\* Two goroutines write the map at once and the runtime notices.
ConcurrentMapWrites ==
  /\ Cardinality({r \in WebRequests : webAt[r] \in {"track", "sweep"}}) > 1
  /\ mapBroken' = TRUE
  /\ UNCHANGED <<webAt, idOf, tracked>>

TrackerNext == ~mapBroken /\ (
  \/ ConcurrentMapWrites
  \/ \E r \in WebRequests : \/ RequestIDMiddleware(r) \/ HandlersReturn(r)
                            \/ TrackRequest(r) \/ FinishRequest(r) \/ Sweep(r))

-----------------------------------------------------------------------------
(* Properties.                                                             *)

TrackerTypeOK ==
  /\ webAt \in [WebRequests -> {"idle", "handling", "track", "finish", "sweep", "over"}]
  /\ idOf \in [WebRequests -> RequestIDs \union {NoID}]
  /\ tracked \in [RequestIDs -> [of : WebRequests \union {"none"}, ended : BOOLEAN]]
  /\ mapBroken \in BOOLEAN

\* Requests of one ID overwrite, mark and sweep each other's entry (request_id.go:245-279):
\* an entry counted as active is of a request that has not finished, and one that has
\* ended has a goroutine that will remove it.
EntriesEnd ==
  \A i \in RequestIDs : tracked[i] # Absent =>
    IF tracked[i].ended THEN \E r \in WebRequests : idOf[r] = i /\ webAt[r] = "sweep"
    ELSE webAt[tracked[i].of] = "finish"
=============================================================================
