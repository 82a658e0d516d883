----------------------------- MODULE Pipelines -----------------------------
(***************************************************************************)
(* The data pipeline of the crawler (src/crawler/pipeline), from the       *)
(* extracted records of a task to the storage: the cleaner, the validator  *)
(* and the deduplicator, which initPipeline (crawler.go) puts together,    *)
(* and storeData. All workers share one pipeline. Each task has one record *)
(* and is executed again when its storage fails.                           *)
(***************************************************************************)
EXTENDS Naturals, FiniteSets

CONSTANTS Records, PipeWorkers,
          KeyOf,          \* the deduplication key of each record
          Invalid,        \* records that break a validation rule
          Shapes,         \* the Go types callers pass, out of "maps", "map" and "list"
          PipeRetries, MaxPipeFaults

VARIABLES shape,       \* crawler.go passes "maps", a []map[string]interface{}
          processors,  \* those the configuration enables
          seen,        \* DeduplicatorProcessor.seen
          pAt, pItem,  \* per worker: its next step, the record it works on
          pValue,      \* ... and what the last processor made of it
          pTries, finished,
          wrote, wroteNil,  \* per record: times the storage wrote it, or a nil in its place
          invalidKept, \* records the validator reported and the pipeline kept
          marks,       \* executions that found their key unseen
          raced,       \* keys two workers looked up before either had marked it
          pipeDead,    \* Go has ended the process: concurrent map access
          pipeFaults

pipelineVars == <<shape, processors, seen, pAt, pItem, pValue, pTries, finished, wrote, wroteNil,
                  invalidKept, marks, raced, pipeDead, pipeFaults>>
config == <<shape, processors>>
dedup == <<seen, marks, raced>>
written == <<wrote, wroteNil>>

NoRecord == "no record"

PipesInit ==
  /\ shape \in Shapes /\ processors \in SUBSET {"cleaner", "validator", "deduplicator"}
  /\ seen = {} /\ pAt = [w \in PipeWorkers |-> "idle"]
  /\ pItem = [w \in PipeWorkers |-> NoRecord] /\ pValue = [w \in PipeWorkers |-> "raw"]
  /\ pTries = [r \in Records |-> 0] /\ finished = {}
  /\ wrote = [r \in Records |-> 0] /\ wroteNil = [r \in Records |-> 0]
  /\ invalidKept = {} /\ marks = {} /\ raced = {} /\ pipeDead = FALSE /\ pipeFaults = 0

InHand(r) == \E w \in PipeWorkers : pItem[w] = r
Key(w) == KeyOf[pItem[w]]
Moves(w, from, to) == ~pipeDead /\ pAt[w] = from /\ pAt' = [pAt EXCEPT ![w] = to]

-----------------------------------------------------------------------------
TakeRecord(w, r) ==
  /\ Moves(w, "idle", "clean") /\ ~InHand(r) /\ r \notin finished
  /\ pItem' = [pItem EXCEPT ![w] = r] /\ pValue' = [pValue EXCEPT ![w] = "raw"]
  /\ pTries' = [pTries EXCEPT ![r] = @ + 1]
  /\ UNCHANGED <<config, dedup, finished, written, invalidKept, pipeDead, pipeFaults>>

\* The types the processors look into; anything else passes as it is.
InspectsAll == {"map", "list", "maps"}  \* bug: records in a Go slice of maps, too
Inspected == {"map", "list"}

CleanRecord(w) ==
  /\ Moves(w, "clean", "validate")
  /\ pValue' = IF "cleaner" \in processors /\ shape \in Inspected
               THEN [pValue EXCEPT ![w] = "clean"] ELSE pValue
  /\ UNCHANGED <<config, dedup, pItem, pTries, finished, written, invalidKept, pipeDead,
                 pipeFaults>>

\* Of the validator's errors, which are plain ones, IsRecoverable says yes: the pipeline
\* goes on with what it had. Only a single map is validated at all.
Validate(w) ==
  /\ Moves(w, "validate", "look up")
  /\ invalidKept' = IF "validator" \in processors /\ (shape # "map" \/ pItem[w] \in Invalid)
                    THEN invalidKept \cup {pItem[w]} ELSE invalidKept
  /\ UNCHANGED <<config, dedup, pItem, pValue, pTries, finished, written, pipeDead, pipeFaults>>

\* The deduplicator reads seen and writes it, without a lock. A duplicate becomes nil, or
\* leaves a list empty.
Deduplicates == "deduplicator" \in processors /\ shape \in Inspected
LookUpKey(w) ==
  /\ pAt[w] = "look up"
  /\ Moves(w, "look up", IF Deduplicates /\ Key(w) \notin seen THEN "mark" ELSE "store")
  /\ pValue' = IF Deduplicates /\ Key(w) \in seen THEN [pValue EXCEPT ![w] = "dropped"]
                                                  ELSE pValue
  /\ UNCHANGED <<config, dedup, pItem, pTries, finished, written, invalidKept, pipeDead,
                 pipeFaults>>
MarkKey(w) ==
  /\ Moves(w, "mark", "store") /\ seen' = seen \cup {Key(w)}
  /\ raced' = IF Key(w) \in seen THEN raced \cup {Key(w)} ELSE raced
  /\ marks' = marks \cup {<<pItem[w], pTries[pItem[w]]>>}
  /\ UNCHANGED <<config, pItem, pValue, pTries, finished, written, invalidKept, pipeDead,
                 pipeFaults>>

\* Go may notice that a goroutine writes the map while another one is at it.
MapRace ==
  /\ ~pipeDead /\ Deduplicates
  /\ \E v, w \in PipeWorkers : v # w /\ pAt[v] = "mark" /\ pAt[w] \in {"look up", "mark"}
  /\ pipeDead' = TRUE
  /\ UNCHANGED <<config, dedup, pAt, pItem, pValue, pTries, finished, written, invalidKept,
                 pipeFaults>>

-----------------------------------------------------------------------------
\* storeData: a map, or whatever it cannot name and therefore wraps, a nil included; of an
\* empty list it saves nothing. The storage fails before or after it wrote.
Writes(w) ==
  LET nil == pValue[w] = "dropped"
  IN /\ wrote' = IF nil THEN wrote ELSE [wrote EXCEPT ![pItem[w]] = @ + 1]
     /\ wroteNil' = IF nil /\ shape # "list" THEN [wroteNil EXCEPT ![pItem[w]] = @ + 1]
                                             ELSE wroteNil
Lets(w) == /\ Moves(w, "store", "idle") /\ pItem' = [pItem EXCEPT ![w] = NoRecord]
           /\ UNCHANGED <<config, dedup, pValue, pTries, invalidKept, pipeDead>>
StoreRecord(w) ==
  /\ Lets(w) /\ Writes(w) /\ finished' = finished \cup {pItem[w]} /\ UNCHANGED pipeFaults

\* handleTaskError: the task runs again from the start while it may be retried.
StoreFails(w) ==
  /\ Lets(w) /\ pipeFaults < MaxPipeFaults /\ pipeFaults' = pipeFaults + 1
  /\ Writes(w) \/ UNCHANGED written
  /\ finished' = IF pTries[pItem[w]] > PipeRetries THEN finished \cup {pItem[w]} ELSE finished

Next == \/ MapRace
        \/ \E w \in PipeWorkers :
             \/ (\E r \in Records : TakeRecord(w, r)) \/ CleanRecord(w) \/ Validate(w)
             \/ LookUpKey(w) \/ MarkKey(w) \/ StoreRecord(w) \/ StoreFails(w)

Spec == PipesInit /\ [][Next]_pipelineVars

-----------------------------------------------------------------------------
\* Types of the state.
PipesTypeOK ==
  /\ shape \in Shapes /\ processors \subseteq {"cleaner", "validator", "deduplicator"}
  /\ seen \subseteq {KeyOf[r] : r \in Records} /\ raced \subseteq seen
  /\ \A w \in PipeWorkers :
       /\ pAt[w] \in {"idle", "clean", "validate", "look up", "mark", "store"}
       /\ pItem[w] \in Records \cup {NoRecord} /\ (pItem[w] = NoRecord <=> pAt[w] = "idle")
       /\ pValue[w] \in {"raw", "clean", "dropped"}
  /\ pTries \in [Records -> 0 .. PipeRetries + 1]
  /\ finished \subseteq Records /\ invalidKept \subseteq Records
  /\ wrote \in [Records -> Nat] /\ wroteNil \in [Records -> Nat]
  /\ marks \subseteq Records \X (1 .. PipeRetries + 1)
  /\ pipeDead \in BOOLEAN /\ pipeFaults \in 0 .. MaxPipeFaults

\* What the crawler passes, a slice of maps, comes to the storage as it was extracted,
\* however it is configured and retried: no nil in its place, and a failure of the storage
\* is the only reason for none. Of a caller that passes a map or a list, a record is missing
\* only if an earlier execution, perhaps one of its own that failed at the storage, had
\* found the key unseen; and two executions find a key unseen only when they look
\* it up at the same time.
RecordFate ==
  /\ \A r \in Records :
       LET marked == \E m \in marks : KeyOf[m[1]] = KeyOf[r]
       IN /\ wroteNil[r] > 0 => shape = "map" /\ marked
          /\ r \in finished /\ wrote[r] = 0 => marked \/ pTries[r] > PipeRetries
          /\ shape = "maps" => ~marked
  /\ \A m, n \in marks : m # n /\ KeyOf[m[1]] = KeyOf[n[1]] => KeyOf[m[1]] \in raced
=============================================================================
