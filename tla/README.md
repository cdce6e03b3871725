# Formal models of the FSx for ONTAP lakehouse integrations

This directory holds TLA+ models of the stateful programs of the repository, the
TLC configurations that check them on small instances, and TLAPS proofs of what
matters most about them for every instance.

## 1. Inventory

Most of the repository is documentation, SQL, evidence and sample data. The
programs that keep state, run concurrently or must survive failures are the
following.

### Detecting files and delivering events

| Component | State it keeps | Operations | Hard parts | Correct when |
|---|---|---|---|---|
| Snowpipe poller (`integrations/snowflake/snowpipe-lambda/handler.py`) | DynamoDB checkpoint, SNS topic, locals of each invocation | read checkpoint, list pages, publish batches, save checkpoint | clients write during a paged listing; invocations overlap; a publish fails half-way; the checkpoint read or write fails; one-second timestamps | the checkpoint never passes an object that was not notified, other than in seconds it is known to skip; nothing is published twice in calm weather |
| FPolicy server (`shared/fpolicy-server/fpolicy_server.py`) | one thread and context per ONTAP connection | frame, negotiate, delay, normalise, send to SQS or log | threads, the write-complete delay, send failures that are swallowed | events of a connection stay in order; each notification is sent at most once |
| Bridge Lambda (`shared/cloudformation/fpolicy-ingestion.yaml`) | SQS visibility, receive count, DLQ, SNS topic | validate, publish, optional EventBridge put | batch semantics, partial failure, redelivery | no message vanishes: published, dropped on purpose, or in the DLQ |
| Engine IP updater (`shared/cloudformation/fpolicy-ip-updater.yaml`) | ONTAP external engine address, ECS tasks | task event, list tasks, read and patch engine | rolling deployment, concurrent invocations, unchecked HTTP status | the engine points at a running task in the end |
| FPolicy configuration (`integrations/snowflake/scripts/configure_fpolicy.py`) | engine, event, policy, enablement in ONTAP | inspect, delete, create, enable, verify | partial failure and re-run | a run that reports success leaves a complete, enabled policy |

### Metadata catalogue

| Component | State it keeps | Operations | Hard parts | Correct when |
|---|---|---|---|---|
| Metadata sync handler (`integrations/iceberg-metadata-catalog/lambda/metadata-sync-handler`) | append-only Iceberg table | create, write, rename, delete rows; partial batch response | redelivery, reordering, batch write failure, a message whose values fit no column | no event vanishes; the current row of a file tells the file's last event |
| Enrichment workflow (`step-functions/enrichment-workflow.asl.json`, `lambda/*`) | Step Functions execution | fetch pending, per-file state machine, detection, write back | per-item failure, what is caught and what is retried, a write-back that the table refuses, pending rows that are never retired | it is known when an execution succeeds, and a failure has a cause |
| Initial scan (`scripts/initial-metadata-scan.py`) | rows | list, build, append in batches | races with live events | the view agrees with the volume once scan and events are through |
| Embedding sync (`search/opensearch/sync-embeddings.py`) | search index | select completed rows, bulk index | rows instead of versions, nothing is ever removed | what the search finds and the view hides was deleted after its enrichment |
| Demonstration enrichment (`demo/scripts/demo-enrich.py`) | rows | query pending rows, append a completed row each | files deleted between its query and its write | its effect on view and index is known |
| Anonymisation (`anonymization/lambda/*`) | anonymised copies | detect, redact, write | offsets, service failure | nothing detected survives in the copy |

### Serving and orchestration

| Component | State it keeps | Operations | Hard parts | Correct when |
|---|---|---|---|---|
| OpenSharing server (`integrations/opensharing-server/src`) | token table, share catalogue, temporary credentials | authenticate, authorise, vend credentials | several tokens of one recipient, prefix scope, expiry | a recipient reads only what one of its tokens grants |
| Glue pipeline (`integrations/glue/scripts`, `template.yaml`) | crawler and job runs | start, poll, abort | timeouts, runs started by somebody else, stale last status | success means that what lay there at the start went through |
| Glue ETL jobs (`integrations/glue/etl`) | bookmark, silver tables, gold reports | append, overwrite, aggregate, commit | a failure between two writes, Glue's own retry, an aggregation beside a transformation | duplicates and gaps only for failed runs; the reports agree |
| Athena scripts (`integrations/athena/scripts`) | query executions | start, poll | the same as the crawler's | the same |
| Databricks and DuckDB jobs | none of their own | queries | data semantics | reference results |
| Repository tooling (`scripts/`, `shared/scripts/`) | none | lint, parity, evidence checks | pure text processing | - |

## 2. Modules

Each arrow reads "uses" (EXTENDS or INSTANCE).

```
MCSnowpipePoller ─► SnowpipePoller ◄─ SnowpipePollerProofs
MCBridgeLambda ──► BridgeLambda ──► SqsQueue ◄─ SqsQueueProofs
      │                 └─► Delivery (refinement)      ▲
      └─► FPolicyEvent                                 │
BridgeLambdaProofs ─► BridgeLambda, SqsQueueProofs ────┤
MCMetadataSync ──► MetadataSync ──► SqsQueue, CatalogTable
                        ├─► Delivery (refinement)      │
                        └─► LatestWins (refinement)    │
MetadataSyncProofs ─► MetadataSync, SqsQueueProofs ────┘
MCFPolicyServer ─► FPolicyServer ◄─ FPolicyServerProofs
                        └─► OrderedLanes (refinement)

MCCatalogue ─► Catalogue ─► EnrichmentWorkflow ─► SharedTable ─► CatalogTable
                   │   └──► InitialScan ─────────────▲
                   └◄─ CatalogueProofs
MCConfigureFPolicy ─► ConfigureFPolicy ─► IpUpdater ─► OntapFPolicy
                           └◄─ ConfigureFPolicyProofs
MCGluePipeline ─► GluePipeline ─► EtlJobs ─► GlueCrawler
                       └◄─ GluePipelineProofs
```

### SnowpipePoller — `integrations/snowflake/snowpipe-lambda/handler.py`

The state outside the function is the file system (`objects`, one version per
key, with a `LastModified` of one second), the DynamoDB item (`checkpoint`) and
the SNS topic (`notified`). The state of an invocation is the local variables of
`handler()`: `cutoff`, `token`, `found` (`new_files`) and `unsent`. One action
per call that another party can come before or after:

| Action | Code |
|---|---|
| `BeginAtCheckpoint`, `BeginWithLookback` | `get_last_processed_time()`: the item, or the lookback window when there is no table or no item, *or when `get_item` fails* |
| `ListPage` | one `list_objects_v2` page, with the strict comparison against the cutoff, and the early return when nothing is new |
| `PublishBatch` | one SNS message; the record limit is `BatchSize`, and the byte limit shows as "any shorter prefix" |
| `SaveCheckpoint` | newest `LastModified`, unconditional `put_item` |
| `Fail` | an exception or a timeout; also the `put_item` whose failure is swallowed |
| `Tick`, `Write`, `Delete` | the clock and the clients, between any two of the above |

`started`, `base` and `skipped` observe: `skipped` collects the seconds which the
code is known to pass without covering them: those between the start of a
listing and the newest file it saw, and those between the stored checkpoint and a
lookback cutoff used in place of it. The properties say that nothing is missed
anywhere else. `overlapped` observes whether two invocations have ever run side by
side; until then, and until a call fails, the checkpoint only moves forward and a
poller with a state table notifies nothing twice.

### SqsQueue, Delivery

`SqsQueue` is the standard queue and the event source mapping that
`fpolicy-ingestion.yaml` and `metadata-sync-pipeline.yaml` configure: unordered
batches, `ApproximateReceiveCount`, redrive to the dead-letter queue after
`maxReceiveCount` receives, redelivery of an acknowledged message. The function
timeout is below the visibility timeout in both templates (60 s, 300 s), so a
message does not become visible while an invocation holds it. It has operators
and no specification of its own; the two functions are composed with it.

`Delivery` is the abstract promise of a function behind a queue: a message takes
effect only while the queue has it, and one that owes an effect is acknowledged
only after it took it. Both functions are shown to implement it. That
nothing is acknowledged without the effect it owes is part of this promise, so
`AcknowledgedIsRecorded` and `AcknowledgedIsPublished` are stated and
proved but are not checked by runs of their own.

### BridgeLambda — the inline function of `shared/cloudformation/fpolicy-ingestion.yaml`

An invocation goes through its batch record by record (`todo`; `current` is the
record between `sns.publish` and `put_events`). `Skip`, `Reject`, `Publish`,
`PutEvent` are the four ways through the loop body, `Crash` and `Fail` the ways
out of it by an exception, `Return` the end of the handler with
`if errors and not processed: raise`. The mapping does not report single
failures, so `Leave` settles the whole batch. `sent` observes what an invocation has
published, `lost` how many receives of a message ended in a fault. Bodies are records of the fields
that decide (`event_type`), `NotJson`, or `NotAnObject` (JSON whose
`.get` raises what the loop does not catch). The order of the records within a
batch is arbitrary, as a standard queue leaves it.

### CatalogTable, MetadataSync — `integrations/iceberg-metadata-catalog`

`CatalogTable` holds the columns that decide which version of a file is current
and the ranking of `latest_records.sql`; rows that tie may rank in any order.
`MetadataSync` composes the volume (create, write, delete, rename), the queue
and the function: `Invoke` (parse the batch, load the table), `Append` (one commit,
only on the snapshot that was loaded), `Conflict` (another commit came first: the
whole batch is reported), `Respond` (`batchItemFailures` holds the malformed
messages), `Kill` (timeout, or another exception of the append). A message without
a usable event is of one of two kinds. `parse_fpolicy_event()` rejects a `Malformed`
one, which fails alone; a `Mistyped` one passes and has a value that fits no column
(a `file_size` that is text), so that `pa.table()` raises for the batch and
`ConversionFails` reports all of it, at each delivery (`spoiled` counts them). Messages
are numbered in the order of the file operations and the number is the event's
timestamp.

`LatestWins` is what the readers of the view may rely on while events are still on
their way: of each file they see something that was reported of it, and what they see
is only replaced by something more recent. `Reports(f)` and `Visible(f)` map the
events and the rows of a file to it; an append is a `Learn`, a file operation an
`Announce`. `ViewAgreesWithVolume` adds where this ends, when all is processed.

### FPolicyEvent, FPolicyServer — `shared/fpolicy-server/fpolicy_server.py`

`FPolicyEvent` is the body the server sends (`_normalize_operation()` and the
fields of `_handle_noti_req()`); the bridge is checked against it.
`FPolicyServer` has one thread per connection. `ReadFrame` is one turn of
`handle_client()` (negotiation, notification, keep-alive or other, malformed
frame); a notification is `held` during the write-complete delay, while other
threads go on, and `Emit` or `FailToEmit` is what follows the delay.
`AfterError` is the difference between the modes: `_send_to_sqs()` swallows its
exception, `_write_to_log()` does not. `EndOfStream`, `Reset`, `StopTask` are the
ways a thread ends. ONTAP's side (`Connect`, `Negotiate`, `Notify`, `KeepAlive`,
`Garble`, `Disconnect`) is asynchronous: it writes into a socket and waits for
nothing.

`OrderedLanes` is what the server promises of the events it makes: each connection
is a lane from which messages may be lost, but are neither overtaken nor repeated,
and come out under the name they were sent with. The lane of a connection is
`UnderWay(c)`: what lies unread in its buffer (`Unread`) and what is held in the
delay. An event is stamped when its delay ends, so that two connections may stamp
two operations of one file in the wrong order; `together` observes which
notifications were under way at one time on two connections, and
`InvertedOnlyIfTogether` says that only those can be inverted.

### SharedTable, EnrichmentWorkflow, InitialScan, Catalogue — `integrations/iceberg-metadata-catalog`

The table has several writers that know nothing of each other. `SharedTable`
adds to the rows of `CatalogTable` what enrichment writes and the five columns that
the repository's definitions of the table make non-null (`Required`:
`initial-metadata-scan.py:70-94`, `docs/poc-guide.md:223-234`); a frame without them
is refused (`Accepts`). One clock stamps operations and enrichments.

| Action | Code |
|---|---|
| `Fetch`, `FetchFails` | `fetch-pending-records`: the first `max_records` pending *rows*, with two retries |
| `DetermineFileType`, `Enrich`, `GenerateEmbedding`, `DetectPII` | the states of the Map's item processor and the functions they call; a caught error goes to `MarkEnrichmentFailed`, or for the detection to `UpdateMetadataWithoutPII` |
| `DetectPIIWithoutResult` | a file of no known type reaches `DetectPII` without the `$.enrichment_result` that its parameters name |
| `UpdateRaises` | `update-metadata`: a frame of ten columns, of which none is declared non-null and four required ones are missing, so that the append raises; two retries for `UpdateMetadata`, none for the two others |
| `Succeed` | `NoFilesToProcess`, or `WorkflowComplete` when every item is through |
| `ListPage`, `ListFails`, `WriteBatch`, `WriteFails` | `initial-metadata-scan.py`: one page, an error that ends the listing, one batch, an append that raises |
| `SyncEvent` | the live synchronisation, whose queue and retries `MetadataSync` details: an event reaches the table some time, in any order |
| `DemoFetch`, `DemoWrite` | `demo-enrich.py` |
| `SyncEmbeddings` | `sync-embeddings.py`: selected rows, of which the bulk request may refuse some |

`Kind` is what the state machine makes of a file's type, `ScannedAs` the file_id
that the scan gives to a file. `missed` observes the files that changed after
their page and before FPolicy was enabled.

### OntapFPolicy, IpUpdater, ConfigureFPolicy

`OntapFPolicy` is the state of the REST API that both programs change. `IpUpdater`
has the ECS service (`Launch`, `Run`, `FailToRun`, `Drain`, `Stop`, `Crash`) whose
RUNNING events start the function, and the function: `List`, `FindEngine`,
`WriteEngine`, `WriteRefused` (a response whose status is printed), `Raise` (an
exception, after which Lambda repeats the event). `ConfigureFPolicy` has the
script beside it, one action per request: `Find` is a look-up in which an error
counts as nothing found, `Request` a change that is accepted, refused, or fails
perhaps after it was carried out. A run ends in `exit0`, `exit1`, `traceback`
(an error that `delete_fpolicy_config()` does not catch) or `left` (something
exists and there is no `--force`). `causes` and `troubled` observe what the
properties name.

### GlueCrawler, EtlJobs, GluePipeline — `integrations/glue`

`GlueCrawler` adds the folders it lists to the catalogue when it ends.
`EtlJobs` has the two jobs write by write. `silver` counts how often a table
holds rows of a bronze file; `ProcessTransactions` and `ProcessEvents` begin an
append, `ProcessCustomers` deletes the old customers (the first half of
`mode("overwrite")`), and `WritePart` is what either write puts into its folder,
part by part: a run that fails in between leaves the parts it wrote. `CommitEtl` is
`job.commit()`. `ReadSilver`, `ReadFails`,
`WriteReport`, `CommitAgg` are the lines of `silver_to_gold.py`. `EtlFails` and
`AggFails` strike anywhere; Glue repeats a failed run once, as a run of its own,
so that the script reads FAILED of the run it started. `GluePipeline` is
`run_etl_pipeline.py`, several at a time, beside others who start the crawler.
`torn`, `blind`, `mixed`, `seen` and `crawled` observe; `seen` is what lay in bronze
when a script started its own crawl.

## 3. Runs

| Run | Instance | What it shows |
|---|---|---|
| `poller_overlap` | 2 overlapping invocations, 2 keys, 3 writes, pages and batches of 1, 1 failed call | the checkpoint passes an unnotified object only in a skipped second; a save claims only what is on the topic; before the first overlap and failure the checkpoint never goes back and nothing is notified twice |
| `poller_fair` | 1 invocation at a time, 4 seconds, 1 failed call, weak fairness | every version that stays is notified or lies in a skipped second |
| `poller_at_least_once` | no failure at all | *violated*: see section 5 |
| `sync_parallel` | 2 invocations, 3 messages of 2 files, one malformed or mistyped, 1 kill, 1 redelivery, `maxReceiveCount` 2 | `Delivery` is implemented (no event vanishes), `LatestWins` is implemented (a reader sees what some event said of a file and is never taken back to older news), the view agrees with the volume, a valid event is dead-lettered only for rival appends, kills, repetitions and a mistyped message in its batch |
| `sync_fair` | 2 conflicting invocations, 3 messages, one malformed or mistyped, `maxReceiveCount` 3, weak fairness | every event is settled |
| `bridge` | 2 invocations, 2 messages of any of four bodies, event bus, 2 faults, 1 redelivery | `Delivery` is implemented (nothing is acknowledged unpublished), nothing is published more often than delivered, bus after topic, a malformed body is acknowledged only by an invocation that published another record of its batch, unless a body raises in the loop a creation is dead-lettered for faults and repetitions only, every message is settled |
| `bridge_server` | no failure at all | *violated*: see section 5 |
| `server` | 2 connections, 2 notifications, 1 failed send, 1 break, both modes | `OrderedLanes` is implemented (order, no repetition and SVM per connection), stamps of two connections are inverted only for notifications under way together, what a failure costs in each mode, every notification on a running connection is served |
| `catalogue` | 2 files, one readable and one of no known type, 1 execution with 2 items, pages of 1, 2 file operations, 1 demonstration | the view catches up with the volume, only an execution without files succeeds, failure has a cause, a file the search finds and the view hides was deleted after its enrichment |
| `catalogue_view` | 1 file with two file_ids | *violated*: see section 5 |
| `control` | 2 tasks, 2 invocations, 2 attempts, 2 runs of the script, 2 faults, symmetry | exit 0 leaves a complete configuration, a run fails only for a fault of its own time, a stale engine has a listed cause |
| `glue` | 2 files of transactions, 2 of customers, 2 pipelines, 2 starts, 2 faults, symmetry | duplicates in silver are failed runs, customers are missing only after one, the reports agree, success covers what lay there when the own crawl began |

Why the bounds are enough to meet the interesting cases:

- *Poller.* With pages and batches of one object, two keys already give a listing
  of two pages with a write behind the continuation token and a publish that
  fails half-way; three writes in three seconds give two versions in one second
  and one in the next; two invocations give every overlap of two saves.
- *Sync.* Three messages of two files give create-write-delete of one file in
  every order, a rename between the two, a malformed message in a batch with a
  valid one, and a mistyped one in a batch with any; two invocations give conflicts. `maxReceiveCount` is the template's 3 in
  `sync_fair` and 2 in `sync_parallel`, where a kill or a lost append followed by a
  second one is enough to reach it. The proofs in section 4 remove the bounds for
  the safety properties.
- *Bridge.* Every batch that mixes two of the four kinds of body, each way out at
  each point of the loop, three receives.
- *Server.* A buffer of one frame is the smallest in which a frame waits behind a
  held notification and one is written to a connection already given up. Longer
  buffers only add frames of the same connection, and the proofs hold for any.
- *Catalogue.* The scan, the events and the demonstration script append in any
  order; the two kinds of file reach every state of the item processor and each of
  its three writes; two operations fall before, between and after the two pages,
  before or after FPolicy is enabled, and change and delete a file around its
  enrichment. A second execution would read the same rows once more; the proofs cover
  any number of them.
- *Control.* Two tasks are a deployment in progress, two invocations every
  order of look-up and write. Lambda's three attempts are cut to two: both
  outcomes, repeated and dropped, occur. Two runs give a half-finished
  configuration and its repetition with `--force`; two faults let both fail.
- *Glue.* Two folders, of which the crawler may have seen none, one or both;
  two files of transactions make an append that fails half-way, a second file of
  customers replaces the first; one failure for a run and one for its repetition. Events are appended like transactions; the proofs are for
  any files.

`CHECK_DEADLOCK FALSE` is set in every run: the bounds on writes, messages,
notifications, faults, runs and the clock let every system come to rest, an
execution or a scan ends for good, and a script ends when it has exited.

### Fairness

- *Poller*: EventBridge Scheduler invokes the function at a fixed rate, an
  invocation that does not fail runs to its end, and time passes: weak fairness of
  `Invoke`, `Advance` and `Tick`. No fairness for clients and failures.
- *Queue consumers*: the event source mapping polls as long as messages are
  visible (weak fairness of "some worker is invoked", not of each), and an
  invocation runs on until it returns, conflicts or is killed.
- *Server*: a thread that has something to read or to send is scheduled. There is no
  fairness for ONTAP, for ends of connections, or for failures.
- *Catalogue, control, glue*: no liveness is claimed: people start these programs, and
  failures end them.

## 4. Theorems

All hold for every value of the constants that satisfies the named assumptions
of the modules. The proofs of the theorems are by an inductive invariant which was
first checked by TLC on the runs' instances or follows their checked properties.

**Poller** (`SnowpipePollerProofs`). `TypeCorrect`, `MissedOnlyInSkipped`,
`SavedWhatWasPublished`, `OnceInCalmWeather`, `CheckpointForward`.
`MissedOnlyInSkippedSeconds` is not inductive: it needs
to know what every invocation in flight is about to claim. `IInv` adds that what
lies under an invocation's cutoff is notified, already skipped, or above the checkpoint it
began with (`BelowCutoff`), that it has found all it passed in the listing
(`Listed`), that what it found is published or unsent (`Published`), and that no
time is in the future (`InThePast`, `Settled`). `OnceInCalmWeather` and
`CheckpointForward` hold for any number of invocations and with or without a state
table; what they speak of is the `Weather`: a state table, no overlap yet
and no failed call yet. Bad weather never clears, so `Calm` may assume good weather
before and after a step: one invocation at most is in flight, its cutoff is
the checkpoint, what it found lies above it, and what is on the topic lies below it
unless that invocation published it; `Dated` says that a missing checkpoint is below
every file. Without a state table the checkpoint stays `NoItem`.

**Queue** (`SqsQueueProofs`). `QInv` says what each operation of the queue
preserves; the strengthening is the receive count of a visible message.
Both functions' proofs cite these lemmas.

**Bridge** (`BridgeLambdaProofs`). `BridgeTypeCorrect`, `NoCreationVanishes`,
`AtMostOncePerDelivery`, `TopicBeforeBus`, `MalformedInCompany`, `CreationsDieOfFaults`,
`BridgeRefines`. `BInv` adds to `QInv`
what the loop has done with the part of the batch that is not in `todo`, and that
a record still in `todo` was published less often than received: that margin is
what the publish uses up. The refinement maps queue places to `Delivery`'s
status, `Publish` to `TakeEffect` and `Leave` to `Settle`. For `MalformedInCompany`,
`CountInv` says what the two counters of the handler stand for: a record that was
rejected is in `errors`, and `processed` above zero has a record behind it that this
invocation published, of the batch it still holds.
`CreationsDieOfFaults` counts as the sync function's dead letters are counted: an
invocation that has come past a creation has `processed` above zero, so that it
cannot raise at its end, and every receive of a creation but the one in progress, or
the one that succeeded, ended in a fault (`lost`) or came of a repeated delivery, of
which only the total of all messages is counted (`DeathInv`). A `NotAnObject` body raises inside the loop and takes its batch along, so the property
is about batches without one.

**Metadata sync** (`MetadataSyncProofs`). `SyncTypeCorrect`, `NoEventVanishes`,
`SyncRefines` from `SInv` (an invocation about to respond has the rows of its
valid messages in the table), `ViewIsRight`, `ViewNeverTurnsBack` and
`DeadLettersHaveCauses`. `ViewIsRight`:
if the senders supply `new_file_path`, then once the events of a file are
processed, in any order, any number of times and over any number of conflicts,
kills and redeliveries, the view shows the file if and only if it exists. `VInv`
is the argument: the volume is what the *last* event that touches a file says
(`VolumeInv`), each row says what its event said, and each recorded event has a
row for each file it touches (`TableInv`); the row of the last event has the
greatest `modified_at`, so it ranks first. `ViewNeverTurnsBack` is the refinement of
`LatestWins` under the same assumption: whatever is recorded so far, the row that ranks first is
that of the newest recorded event of the file and shows what it said
(`VisibleIsNewest`; the greatest of finitely many timestamps exists by `Greatest`),
an append keeps all rows and so can only move this to a newer event
(`AppendLearns`), and an operation is later than every event before it
(`NotifyAnnounces`). `DeadLettersHaveCauses` (if the senders
supply the required fields) counts the receives of a message against the commits
that did not carry it: `LogInv` says that commits are numbered without gaps and
that a message has no row above the snapshot its holder loaded, so a conflict is
always a rival not counted before; a receive that a mistyped message of the batch
cost is in `spoiled`; `CauseInv` allows one receive more than the
causes to a message that is being processed or has succeeded.

**Server** (`FPolicyServerProofs`). `ServerTypeCorrect`, `ServerKeepsOrder`,
`ServerNamesRightSvm`, `BatchLogHasNoGap`, `RealtimeAccounts`, `StampsFollowOperations`,
`ServerImplementsLanes`. `FInv` orders the
whole pipeline of a connection: emitted < held < buffered < still to be sent; and
it says in which context a buffered notification will be read (`SvmAfter`: the name
the connection will have been given when the frames before it are read), which
is why the look-up finds the name that ONTAP had in mind. For the
last two theorems every step of server and ONTAP is put into one of three kinds by what it
does to the lanes (`StepEffects`): a notification enters one, the held one leaves it for the
output, or some are lost. The refinement and the stamps then have three cases
instead of twelve actions. `ApartInv` says that of two notifications under way on
two connections the pair is in `together`, and `StampInv` that what has come out is
older than what is under way elsewhere or was under way with it. Order and SVM per
connection are contained in `OrderedLanes`, and so are not checked by the run again.

**Catalogue** (`CatalogueProofs`). `CatalogueTypeOK`, `NoSuccessWithFiles`,
`FailureHasCause`, `HiddenHitsAreDeletions`, `ViewDoesCatchUp`. The first are from
`CatalogueInv`: what a row of the table can be (`RowOK`: one with a vector is the
demonstration script's, dated when it was enriched), what an item knows at each of its
steps (`ItemOK`: none is ever done), what stands behind an execution that ended
(`ExecutionOK`, `Cause`), and that a document comes from a row with a vector
(`IndexInv`). `HiddenHitsAreDeletions` is then a fact about the ranking: a row of a
deletion that ranks above the enriched one is later, because the two cannot tie.
`ViewDoesCatchUp` assumes that the keys of the access point are the paths
of the events and that there are finitely many files. Its invariant `ViewInv` is not
about the table but about all that is *claimed* of a file (`Claims`): its dated rows,
its events on their way, the scan's records not written yet. Moving a claim to
the table changes nothing, so the arrival order does not matter; what is left is that
the claims since the last change of a file agree with the volume (`Agrees`), and that
a page lists every existing file it passes (`PageTakesFirst`).

**Control** (`ConfigureFPolicyProofs`). `ConfigureTypeOK`, `ExitZeroConfigured`,
`FailuresHaveCauses`, `EngineFollowsTasks`. What a run of the script may rely
on at each step is an invariant only while it is not `troubled`. For the
engine, `AddressInv` says that as long as nothing is to blame, one program
works at a time (`Alone`), and an event is waiting, an invocation is on its way with the
address of a running task, or the engine has it already (`UpToDate`).

**Glue** (`GluePipelineProofs`). `PipelineTypeOK`, `RunsAreCounted`,
`CustomersMissingOnlyAfterFailure`, `ReportsAgree`, `SuccessMeansCovered`, from
`PipelineInv`: how `silver` relates to `bookmark`, to the run in progress and to
the failed ones at each stage of a run (`EtlInv`, `CustomersInv`), which reports a
run has written at its stage (`GoldInv`), and what each stage of a script
guarantees of the files it saw (`SeenInv`, `ReportsInv`).

Model-checked only: the liveness properties (`NotifiedUnlessSkipped`,
`EventuallySettled`, `NotificationServed`), which are out of the proof system's
reach together with ENABLED. Every invariant, action property and refinement that the
passing runs check is a theorem.

## 5. Where code and documents disagree

Each of the three runs named *violated* shows the code doing something else than a document says.

- `poller_at_least_once`: `handler.py:102-104` advises to configure `STATE_TABLE`
  "for at-least-once delivery". A file written in the second of the checkpoint, after
  the listing that set it, is never notified: the comparison is strict.
- `bridge_server`: the server sends `operation_type`, the bridge reads
  `event_type`; every creation the server reports is skipped and acknowledged.
- `catalogue_view`: `latest_records.sql:5` promises "only the latest version of each
  file". The scan derives a file_id from the object key, the sync handler from the
  event's path, which begins with a slash: the view shows a file of both twice.

Met while modelling, where a property says exactly what the code does instead:

- `comprehensive-test-results.yaml:213-215` says that SQS retries absorb commit
  conflicts; three conflicts in a row put a valid event on the dead-letter queue.
  `DeadOnlyForACause` is the list of what can.
- `runbooks/02-fpolicy-lambda-failure.md:59`, `:119` looks for unparseable bodies on
  the dead-letter queue; one that shares a batch with a published record is
  acknowledged (`MalformedLeavesWithPublished`).
- `deployment-guide.md:144` has the engine's address updated "on task restart";
  `StaleOnlyForACause` is the list of what stands in the way.
- `glue/README.md:49`, `:62` says that only new files are processed and old data not
  again; a run that fails after an append, or in the middle of one, is repeated and
  appends again
  (`SilverCountsRuns`). The customers are *replaced* by the new files' rows.
- No enrichment of the workflow is ever recorded. `update-metadata/handler.py:121-151`
  appends a frame without `file_path`, `file_name`, `access_point_arn` and `is_deleted`
  and with a nullable `file_id`; the table as `docs/poc-guide.md:223-234`,
  `initial-metadata-scan.py:70-94` and `demo-enrich.py:132-151` define it requires
  them, and PyIceberg checks a frame's schema before it writes. Every execution that
  finds a pending file fails (`SucceedsOnlyWithoutFiles`, `FailsOnlyForACause`),
  although `enrichment-workflow.asl.json:288` comments its end with "All pending files
  processed" and `update-metadata/handler.py:62-63` takes its row to be the current
  state of the file. The append is also the only thing a pending row could be retired
  by: it stays pending, and every execution and the demonstration script pick files
  again that are enriched, changed or deleted.
- `metadata-sync-handler/handler.py:331` says that each message of a batch is processed
  independently. A message whose values fit no column makes the append of the whole
  batch fail (`handler.py:298`, `:382-388`), so that valid messages lose a receive for
  each time they share its batch (`DeadOnlyForACause`).
- `demo-enrich.py` dates its row when it writes it and brings a deleted file back into
  the view (`RevivedByDemo`). The search index keeps files that are deleted after
  their enrichment, which the view hides (`SearchOutlivesOnlyDeletions`).
- The scan's next steps (`initial-metadata-scan.py:390-397`) enable FPolicy after the scan:
  what changes between a page and that moment is in no listing and no event
  (`missed`).

And without a property: a rename event without `new_file_path`, which the FPolicy
server never sends, makes two rows of the old path with one timestamp, of which
the view may show either (`ViewAgreesWithVolume` is checked and proved for senders
that do name the new path); a failed `get_item` falls back to the lookback
window although `handler.py:22-24` says that the window is only used when
`STATE_TABLE` is unset; a redelivered event appends duplicate rows although
`sqs-lambda-processing-pattern.md:33-34` has the handler check for a record with the
same key before it writes (the view hides the duplicates); the sync handler requires
`event_type` and the server does not send it (`handler.py:127-129`,
`fpolicy_server.py:322-330`).

## 6. Abstractions

- Event timestamps are unique per message; files that two events change within one
  timestamp tie in the view.
- `sqs.send_message` and `sns.publish` either take effect or raise; retries inside
  the AWS client that duplicate a call which had succeeded are not modelled.
- `put_events()` may reject an entry in its response; this is a fault in the model
  (the record is not on the bus), because nobody reads the response.
- A realtime server without a queue URL drops every event with a log line; the
  model's server has one. SVM names are not empty.
- Names, paths and payloads are model values; XML extraction, record layout and
  byte counts are left out except where they decide (empty path, malformed frame,
  batch prefix).
- The table has the schema the repository defines for it. Since update-metadata cannot
  append, a conflict, a timeout or a failed look-up in it ends an attempt no differently
  from the refusal, and is not told apart. Model calls answer or fail; what they answer
  decides nothing else. A path that only a successful write-back could take (an item
  that is `done`) is kept in the model, and unreachable.
- A mistyped message is one whose rows `pa.table()` refuses. A value that fits its column
  but means something else (a timestamp without a zone) is not distinguished.
- A poller's `Write` stamps the object with the current second. A copy that preserves
  timestamps, or a rename into the watched prefix, brings an older `LastModified` with it
  and is missed if that lies below the checkpoint; the properties are about writes.
- The server settles an event's SVM before the write-complete delay
  (`fpolicy_server.py:306-310`), the model in `Emit` behind it: the context belongs to
  the sleeping thread and nobody else writes to it, so the two come to the same.
- The server strips the slash a path begins with (`fpolicy_server.py:293`); the slash of
  `catalogue_view` is that of the event the sync handler documents
  (`metadata-sync-handler/handler.py:130`).
- Properties that account for losses do not rule them out: what a 300 s idle connection
  or a stopped task loses is allowed by `RealtimeLosesOnlyFailed`, `NothingAfterFailedWrite`
  and `OrderedLanes`, which say that nothing else goes wrong because of it.
- The scan's conflicts are failures at any time; directory markers, the dry run and the
  Parquet fallback are left out. The embedding sync is the full one.
- ONTAP refuses a second object of a name, a policy without its parts, the deletion of
  a part in use or of an enabled policy. It documents that it also refuses to change the
  engine of an enabled policy, which the updater does without disabling it
  (`fpolicy-ip-updater.yaml:207-213`); the model accepts that PATCH, and a refusal is
  among the bounded faults as "refused", which is one of the causes that
  `StaleOnlyForACause` lists. The script's verification reads only, and
  its result does not change the exit code. Each task has an address of its own.
- Glue: a crawl lists once, somewhere between its start and its end; a crawl that the
  script joined may have listed before the script started, which is why
  `SuccessCoversBronze` speaks of own crawls. A report or the customers that are being
  overwritten are gone until they are written. The rows of a bronze file are one unit
  that appears when their first part does, and files of one run have no keys in common:
  `deduplicate()` (`bronze_to_silver.py:141`, `:238`) drops a row of one for a row of
  another otherwise. The bookmark is a set of files; Glue's goes by modification time
  and may skip a file whose folder is catalogued only after a later file was committed,
  which `SuccessCoversBronze` does not cover. Start calls that fail for other
  reasons than a run in progress are `GiveUp`.
- Queue retention (14 days) and SQS limits on messages in flight are left out.

## 7. Not modelled

- The composition of two server connections with the sync handler. Which stamps the
  server may invert is stated and proved (`InvertedOnlyIfTogether`); `MetadataSync`
  takes the stamps as given, in the order of the operations, so the view is right for
  files whose notifications are not under way on two connections at once.
- The scripts of `integrations/athena/scripts`: `run_crawler.py` repeats the Glue one;
  `execute_queries.py` polls a query of its own id.
- The OpenSharing server decides each request on its own over a configuration that
  does not change while it runs; anonymisation maps one text to another per call.
  Neither has behaviour over time.
- EventBridge rules are declarative. Databricks and DuckDB jobs, the demonstration
  scripts other than `demo-enrich.py`, the sample-data generators and the metric
  compilers are queries and formatting without state.
- Repository tooling (`scripts/`, `shared/scripts/`): stateless text checks with unit
  tests; the largest part of the repository's Python.
