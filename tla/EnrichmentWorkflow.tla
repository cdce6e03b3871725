-------------------------- MODULE EnrichmentWorkflow --------------------------
(***************************************************************************)
(* The state machine that enriches pending files                           *)
(* (step-functions/enrichment-workflow.asl.json) with the functions it     *)
(* calls: fetch-pending-records at its start, then for every record, with  *)
(* bounded concurrency, enrich-document or enrich-image,                   *)
(* generate-embedding, detect-pii and update-metadata.  An execution fails *)
(* as soon as one item does and schedules nothing further.  It reads the   *)
(* table; that it never adds a row to it is what the columns of            *)
(* update-metadata's frame come to.                                        *)
(***************************************************************************)
EXTENDS SharedTable

CONSTANTS
  Executions,
  MaxRecords,      \* max_records
  MaxConcurrency

ASSUME WorkflowAssumption ==
  /\ MaxRecords \in Nat \ {0}
  /\ MaxConcurrency \in Nat \ {0}

VARIABLES
  execution,   \* where each execution is
  fetches,     \* attempts of FetchPendingRecords
  item         \* the items of its Map

workflowVars == <<execution, fetches, item>>

Slots == 1 .. MaxRecords

Writes == {"update", "updateWithoutPII", "markFailed"}

Item == [id      : Ids,
         step    : {"unused", "waiting", "enrich", "embed", "detect", "done"} \cup Writes,
         attempt : 0 .. 3,     \* attempts of the write so far
         failed  : BOOLEAN]    \* the item failed in that step

WorkflowTypeOK ==
  /\ execution \in [Executions -> {"idle", "fetch", "process", "succeeded", "failed"}]
  /\ fetches \in [Executions -> 0 .. 3]
  /\ item \in [Executions -> [Slots -> Item]]

NewItem(id, step) == [id |-> id, step |-> step, attempt |-> 0, failed |-> FALSE]

WorkflowInit ==
  /\ execution = [x \in Executions |-> "idle"]
  /\ fetches = [x \in Executions |-> 0]
  /\ item = [x \in Executions |->
               [i \in Slots |-> NewItem(CHOOSE id \in Ids : TRUE, "unused")]]

-----------------------------------------------------------------------------
(* FetchPendingRecords                                                     *)

StartExecution(x) ==
  /\ execution[x] = "idle"
  /\ execution' = [execution EXCEPT ![x] = "fetch"]
  /\ UNCHANGED <<table, clock, fetches, item>>

(* The first max_records pending rows that the scan comes upon: rows, not  *)
(* files, and no row ever stops being pending.                             *)
Batches ==
  LET n == AtMost(MaxRecords, PendingRows)
  IN  {b \in [1 .. n -> PendingRows] : \A i, j \in 1 .. n : b[i] = b[j] => i = j}

Fetch(x) ==
  /\ execution[x] = "fetch"
  /\ fetches' = [fetches EXCEPT ![x] = @ + 1]
  /\ execution' = [execution EXCEPT ![x] = "process"]
  /\ \E b \in Batches :
       item' = [item EXCEPT ![x] =
                  [i \in Slots |-> IF i \in DOMAIN b THEN NewItem(b[i].file, "waiting")
                                   ELSE item[x][i]]]
  /\ UNCHANGED <<table, clock>>

(* The query fails, three times at most.                                   *)
FetchFails(x) ==
  /\ execution[x] = "fetch"
  /\ fetches' = [fetches EXCEPT ![x] = @ + 1]
  /\ execution' = [execution EXCEPT ![x] = IF fetches[x] < 2 THEN "fetch" ELSE "failed"]
  /\ UNCHANGED <<table, clock, item>>

-----------------------------------------------------------------------------
(* An item, up to its write.  A state is entered only while the execution  *)
(* goes on.                                                                *)

At(x, i, step) == execution[x] = "process" /\ item[x][i].step = step

Goto(x, i, step) ==
  /\ item' = [item EXCEPT ![x][i].step = step]
  /\ UNCHANGED <<table, clock, execution, fetches>>

Underway(x) == {i \in Slots : item[x][i].step \notin {"unused", "waiting", "done"}}

(* DetermineFileType; SkipLargeMedia sets a result and goes on like the    *)
(* default, which leaves the item without one.                             *)
DetermineFileType(x, i) ==
  /\ At(x, i, "waiting")
  /\ Cardinality(Underway(x)) < MaxConcurrency
  /\ Goto(x, i, IF Kind[item[x][i].id] = "readable" THEN "enrich" ELSE "embed")

(* The item fails, and with it the Map and the execution.                  *)
FailItem(x, i, tried) ==
  /\ item' = [item EXCEPT ![x][i] = [@ EXCEPT !.failed = TRUE, !.attempt = tried]]
  /\ execution' = [execution EXCEPT ![x] = "failed"]
  /\ UNCHANGED <<table, clock, fetches>>

EnrichUncaught(x, i) ==  \* mutant: no Catch
  /\ At(x, i, "enrich")
  /\ Goto(x, i, "embed") \/ FailItem(x, i, 0)

(* EnrichDocument or EnrichImage, then GenerateEmbedding; every error of   *)
(* theirs is caught.                                                       *)
Enrich(x, i) ==
  /\ At(x, i, "enrich")
  /\ Goto(x, i, "embed") \/ Goto(x, i, "markFailed")

GenerateEmbedding(x, i) ==
  /\ At(x, i, "embed")
  /\ Goto(x, i, "detect") \/ Goto(x, i, "markFailed")

HasResult(x, i) == Kind[item[x][i].id] # "other"

DetectPII(x, i) ==
  /\ At(x, i, "detect")
  /\ HasResult(x, i)
  /\ Goto(x, i, "update") \/ Goto(x, i, "updateWithoutPII")

(* $.enrichment_result.summary does not exist: States.Runtime, which a     *)
(* Catch of States.ALL does not catch.                                     *)
DetectPIIWithoutResult(x, i) ==
  /\ At(x, i, "detect")
  /\ ~HasResult(x, i)
  /\ FailItem(x, i, 0)

-----------------------------------------------------------------------------
(* UpdateMetadata, UpdateMetadataWithoutPII, MarkEnrichmentFailed: all     *)
(* call update-metadata, and only the first is retried.                    *)

MaxAttemptsPlus(step) == IF step = "update" THEN 4 ELSE 1  \* mutant: one retry more

MaxAttempts(step) == IF step = "update" THEN 3 ELSE 1

(* What update-metadata declares non-null among the ten columns of its     *)
(* frame: nothing, and of the required columns it has only file_id.        *)
ResultFrame == {}

UpdateSwallowed(x, i) ==  \* mutant: the error is logged and not raised again
  /\ execution[x] = "process"
  /\ item[x][i].step \in Writes
  /\ Goto(x, i, "done")

(* The table refuses the frame, and update-metadata raises.  Where it is   *)
(* killed before that, or finds no table to load, the attempt fails alike. *)
(* An item would be done if an attempt returned; none does.                *)
UpdateRaises(x, i) ==
  LET tried == item[x][i].attempt + 1
  IN  /\ execution[x] = "process"
      /\ item[x][i].step \in Writes
      /\ ~Accepts(ResultFrame)
      /\ IF tried < MaxAttempts(item[x][i].step)
         THEN /\ item' = [item EXCEPT ![x][i].attempt = tried]
              /\ UNCHANGED <<table, clock, execution, fetches>>
         ELSE FailItem(x, i, tried)

(* NoFilesToProcess when nothing was fetched, WorkflowComplete when the    *)
(* Map is through.                                                         *)
Succeed(x) ==
  /\ execution[x] = "process"
  /\ \A i \in Slots : item[x][i].step \in {"unused", "done"}
  /\ execution' = [execution EXCEPT ![x] = "succeeded"]
  /\ UNCHANGED <<table, clock, fetches, item>>

ItemNext(x, i) ==
  \/ DetermineFileType(x, i)
  \/ Enrich(x, i)
  \/ GenerateEmbedding(x, i)
  \/ DetectPII(x, i)
  \/ DetectPIIWithoutResult(x, i)
  \/ UpdateRaises(x, i)

WorkflowNext ==
  \E x \in Executions :
    \/ StartExecution(x)
    \/ Fetch(x)
    \/ FetchFails(x)
    \/ Succeed(x)
    \/ \E i \in Slots : ItemNext(x, i)
=============================================================================
