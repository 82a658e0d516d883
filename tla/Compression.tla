---------------------------- MODULE Compression ----------------------------
(***************************************************************************)
(* The stored results of one task (crawler/distributed/node.go, handleResult; *)
(* coordinator.go, handleTaskResult; middleware.go) and their compression  *)
(* (crawler/compression). A task that was queued twice or is run again has *)
(* several results, which share a key. A node stores its result and        *)
(* publishes it; every coordinator that listens stores a successful one    *)
(* again and, with EnableCompression, once more compressed.                *)
(*                                                                         *)
(* Documents that StorageOptimizer shortens for MongoDB and restores       *)
(* (storage_optimizer.go). Values that are themselves documents are        *)
(* treated like the document they are in, and are left out.                *)
(***************************************************************************)
EXTENDS Naturals, Sequences, FiniteSets

CONSTANTS
  Runs,         \* runs of the task, one result each
  Hubs,         \* coordinators, with a StorageOptimizer each
  BestForms,    \* forms that selectBestCompression may choose
  MaxResultFaults,
  FieldNames,  \* keys of the documents
  MaxFields

VARIABLES
  okRun,      \* runs whose result has no error
  smallRun,   \* runs whose result is smaller than MinSizeForCompression
  runAt,      \* where the node's publisher is with each
  value,      \* the Redis value of the key: [form, run]
  meta,       \* the form the metadata hash tells
  inbox,      \* results on the way to each coordinator
  hubAt,      \* where handleTaskResult is
  handledBy,  \* runs whose result each coordinator has handled
  packer,     \* CompressionType of so.compressor
  sums,       \* successCount of MetricsMiddleware
  readerDead, \* has a Get panicked?
  older,      \* runs that were over when a run was stored for the first time
  resultFaults,
  original,  \* a document of the caller: keys, with values that are short or long
  stored,    \* as stored, and whether its keys are marked as compacted ("_cpt")
  marked,
  restored   \* as restored

listening == <<inbox, hubAt, handledBy>>
resultVars == <<okRun, smallRun, runAt, value, meta, listening, packer, sums,
                readerDead, older, resultFaults>>
given == <<okRun, smallRun>>

NoRun == "none"
Absent == [form |-> "absent", run |-> NoRun]
ZstdForms == {"zstd", "msgpack+zstd"}
Packed == {"gzip", "zlib", "msgpack"} \union ZstdForms

ResultsInit ==
  /\ okRun \in SUBSET Runs /\ smallRun \in SUBSET Runs
  /\ runAt = [r \in Runs |-> "running"]
  /\ value = Absent /\ meta = "absent"
  /\ inbox = [h \in Hubs |-> <<>>]
  /\ hubAt = [h \in Hubs |-> "idle"] /\ handledBy = [h \in Hubs |-> {}]
  /\ packer = [h \in Hubs |-> "msgpack+zstd"]
  /\ sums = [h \in Hubs |-> 0]
  /\ readerDead = FALSE
  /\ older = [r \in Runs |-> {}]
  /\ resultFaults = 0

Goto(h, l) == hubAt' = [hubAt EXCEPT ![h] = l]
Written(form, r) == value' = [form |-> form, run |-> r]
Fault == resultFaults < MaxResultFaults /\ resultFaults' = resultFaults + 1
\* A SET whose error is only logged; one that reports an error may have been executed.
SetJSON(r) == \/ Written("json", r) /\ UNCHANGED resultFaults
              \/ Fault /\ (UNCHANGED value \/ Written("json", r))

-----------------------------------------------------------------------------
(* The node.                                                               *)

\* Is nobody going to store the result of r again?
Over(r) == \/ runAt[r] = "lost"
           \/ runAt[r] = "published" /\ \A h \in Hubs : r \in handledBy[h]

StoreResult(r) ==
  /\ runAt[r] = "running"
  /\ older' = [older EXCEPT ![r] = {s \in Runs : Over(s)}]
  /\ \/ Written("json", r) /\ runAt' = [runAt EXCEPT ![r] = "stored"] /\ UNCHANGED resultFaults
     \/ Fault /\ runAt' = [runAt EXCEPT ![r] = "lost"] /\ (UNCHANGED value \/ Written("json", r))
  /\ UNCHANGED <<given, meta, listening, packer, sums, readerDead>>

Publish(r) ==
  /\ runAt[r] = "stored"
  /\ \/ inbox' = [h \in Hubs |-> Append(inbox[h], r)] /\ UNCHANGED resultFaults
        /\ runAt' = [runAt EXCEPT ![r] = "published"]
     \/ Fault /\ UNCHANGED inbox /\ runAt' = [runAt EXCEPT ![r] = "lost"]
  /\ UNCHANGED <<given, value, meta, hubAt, handledBy, packer, sums, readerDead, older>>

-----------------------------------------------------------------------------
(* A coordinator works on the first result of its inbox.                   *)

LeavesNot(h) == UNCHANGED inbox  \* bug: the message is handled again
Leaves(h) == inbox' = [inbox EXCEPT ![h] = Tail(@)]
Finished(h) == /\ Goto(h, "idle") /\ Leaves(h)
               /\ handledBy' = [handledBy EXCEPT ![h] = @ \union {Head(inbox[h])}]
Continues(h, l) == Goto(h, l) /\ UNCHANGED <<inbox, handledBy>>

Begin(h) ==
  /\ hubAt[h] = "idle" /\ inbox[h] # <<>>
  /\ IF Head(inbox[h]) \in okRun THEN Continues(h, "store") ELSE Finished(h)
  /\ UNCHANGED <<given, runAt, value, meta, packer, sums, readerDead, older, resultFaults>>

\* An error of the SET is only logged.
StoreAgain(h) ==
  /\ hubAt[h] = "store"
  /\ SetJSON(Head(inbox[h]))
  /\ Continues(h, "chain")
  /\ UNCHANGED <<given, runAt, meta, packer, sums, readerDead, older>>

\* The middlewares before compression; then the type that packs the result best, if it
\* is large enough. The compressor is replaced for good.
Form(h) == IF Head(inbox[h]) \in smallRun THEN "json" ELSE packer[h]
Chain(h) ==
  /\ hubAt[h] = "chain"
  /\ sums' = [sums EXCEPT ![h] = @ + 1]
  /\ IF Head(inbox[h]) \in smallRun THEN UNCHANGED packer
     ELSE \E t \in BestForms : packer' = [packer EXCEPT ![h] = t]
  /\ Continues(h, "pack")
  /\ UNCHANGED <<given, runAt, value, meta, readerDead, older, resultFaults>>

\* The pipeline is no transaction: the value may be stored without its metadata.
Pack(h) ==
  LET r == Head(inbox[h])
      told == IF r \in smallRun THEN meta ELSE packer[h]
  IN  /\ hubAt[h] = "pack"
      /\ \/ Written(Form(h), r) /\ meta' = told /\ Finished(h) /\ UNCHANGED resultFaults
         \/ /\ Fault /\ Continues(h, "plain")
            /\ \/ UNCHANGED <<value, meta>>
               \/ Written(Form(h), r) /\ meta' \in {meta, told}
      /\ UNCHANGED <<given, runAt, packer, sums, readerDead, older>>

\* The fallback.
StorePlain(h) ==
  /\ hubAt[h] = "plain"
  /\ SetJSON(Head(inbox[h]))
  /\ Finished(h)
  /\ UNCHANGED <<given, runAt, meta, packer, sums, readerDead, older>>

-----------------------------------------------------------------------------
(* Readers. The dashboard parses every value as JSON: a packed one is not  *)
(* shown.                                                                  *)

\* OptimizedRedisGet tells the form from the first byte, but the zstd decoder is that
\* of its own compressor, nil when this is of another type.
CanDecode(h) == value.form \in ZstdForms => packer[h] \in ZstdForms
OptimizedGet(h) ==
  /\ value # Absent
  /\ readerDead' = ~CanDecode(h)
  /\ UNCHANGED <<given, runAt, value, meta, listening, packer, sums, older, resultFaults>>

-----------------------------------------------------------------------------
Hub(h) == Begin(h) \/ StoreAgain(h) \/ Chain(h) \/ Pack(h) \/ StorePlain(h) \/ OptimizedGet(h)
ResultsNext == ~readerDead /\ (\/ \E r \in Runs : StoreResult(r) \/ Publish(r)
                               \/ \E h \in Hubs : Hub(h))

-----------------------------------------------------------------------------
(* Properties.                                                             *)

ResultTypeOK ==
  /\ okRun \subseteq Runs /\ smallRun \subseteq Runs
  /\ runAt \in [Runs -> {"running", "stored", "published", "lost"}]
  /\ value \in [form : Packed \union {"absent", "json"}, run : Runs \union {NoRun}]
  /\ handledBy \in [Hubs -> SUBSET Runs]
  /\ meta \in Packed \union {"absent"}
  /\ inbox \in [Hubs -> UNION {[1..n -> Runs] : n \in 0..Cardinality(Runs)}]
  /\ hubAt \in [Hubs -> {"idle", "store", "chain", "pack", "plain"}]
  /\ packer \in [Hubs -> Packed] /\ sums \in [Hubs -> 0..Cardinality(Runs)]
  /\ readerDead \in BOOLEAN
  /\ older \in [Runs -> SUBSET Runs]
  /\ resultFaults \in 0..MaxResultFaults

\* Node, coordinators, compression and its fallback all write the key
\* (node.go:878-890, coordinator.go:489-506, middleware.go:94-107), yet the result of
\* a run that was over before another was stored does not come back over it.
NotOverwritten ==
  \A r, s \in Runs : s \in older[r] /\ runAt[r] \in {"stored", "published"} => value.run # s

-----------------------------------------------------------------------------
(* Documents.                                                              *)

docVars == <<original, stored, marked, restored>>

\* The two tables of the code, which are inverse to each other.
ShortNames == {
  <<"task_id", "tid">>, <<"venue_id", "vid">>, <<"venue_name", "vn">>, <<"time_slot", "ts">>,
  <<"status", "st">>, <<"price", "pr">>, <<"available", "av">>, <<"capacity", "cp">>,
  <<"created_at", "ca">>, <<"updated_at", "ua">>, <<"crawled_at", "cra">>, <<"source", "src">>,
  <<"metadata", "md">>, <<"raw_data", "rd">>, <<"state_md5", "sm5">>, <<"error", "err">>,
  <<"result", "res">>, <<"data", "d">>, <<"parent_id", "pid">>, <<"retry_count", "rc">>,
  <<"max_retries", "mr">>, <<"priority", "pri">>, <<"type", "typ">>, <<"url", "u">>,
  <<"method", "m">>, <<"headers", "h">>, <<"body", "b">>, <<"cookies", "ck">>}
IsShort(k) == \E p \in ShortNames : p[2] = k
Compacted(k) == IF \E p \in ShortNames : p[1] = k
                THEN (CHOOSE p \in ShortNames : p[1] = k)[2] ELSE k
Kept(k) == k  \* bug: the key stays short
Expanded(k) == IF IsShort(k) THEN (CHOOSE p \in ShortNames : p[2] = k)[1] ELSE k

\* The documents d may become when its keys get new names. Of two keys that become one, either value may be the
\* one that is left, in the order of a Go map.
Renamed(d, name) ==
  {e \in [{name[k] : k \in DOMAIN d} -> {"short", "long", "packed"}] :
     \A k \in DOMAIN e : \E j \in DOMAIN d : name[j] = k /\ e[k] = d[j]}
FieldsPacked(d) == [k \in DOMAIN d |-> IF d[k] = "long" THEN "packed" ELSE d[k]]

Docs == UNION {[ks -> {"short", "long"}] :
                 ks \in {s \in SUBSET FieldNames : Cardinality(s) \in 1..MaxFields}}
NoDoc == [k \in {} |-> "short"]

DocsInit == /\ original \in Docs
            /\ stored = NoDoc /\ marked = FALSE /\ restored = NoDoc

\* A small document, or any with compression off, is stored as it is. Otherwise its
\* keys are compacted, if that is enabled, and then its long values packed.
Insert ==
  /\ stored = NoDoc
  /\ \/ stored' = original /\ marked' = FALSE
     \/ stored' = FieldsPacked(original) /\ marked' = FALSE
     \/ marked' = TRUE /\ \E e \in Renamed(original, [k \in DOMAIN original |-> Compacted(k)]) :
                           stored' = FieldsPacked(e)
  /\ UNCHANGED <<original, restored>>

\* RestoreDocument finds packed data that is a []byte in a map; what the MongoDB
\* driver returns, and what Insert made, is of other types: packed values stay packed.
Restore ==
  /\ stored # NoDoc /\ restored = NoDoc
  /\ restored' \in (IF marked THEN Renamed(stored, [k \in DOMAIN stored |-> Expanded(k)]) ELSE {stored})
  /\ UNCHANGED <<original, stored, marked>>

DocsNext == Insert \/ Restore

-----------------------------------------------------------------------------
\* Two keys may meet in one short name, and a short name may have been the caller's
\* own: a document without such names comes back with its keys and its short values,
\* however it was stored (storage_optimizer.go:180-216, 242-252, 274-341).
DocumentRestored ==
  restored # NoDoc /\ (\A k \in DOMAIN original : ~IsShort(k))
    => /\ DOMAIN restored = DOMAIN original
       /\ \A k \in DOMAIN original : original[k] = "short" => restored[k] = "short"
=============================================================================
