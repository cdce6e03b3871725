---------------------------- MODULE CatalogueProofs ----------------------------
(***************************************************************************)
(* Theorems about Catalogue, for every set of files and executions and any *)
(* bounds: what the success and the failure of the workflow mean, how far  *)
(* the search index may be from the view, and that the view agrees with    *)
(* the volume in the end.                                                  *)
(***************************************************************************)
EXTENDS Catalogue, FiniteSetTheorems, TLAPS

(* A row is dated, it is enriched when it is dated or not at all, and only *)
(* rows of files that exist are enriched.                                  *)
RowOK(r) ==
  /\ r.modified > 0
  /\ r.enriched \in {Null, r.modified}
  /\ r.vector => r.enriched # Null
  /\ r.deleted = "yes" => r.enriched = Null

(* No stamp lies in the future.                                            *)
TableInv ==
  /\ \A r \in table : RowOK(r) /\ r.modified <= clock
  /\ \A f \in Files : mtime[f] > 0 /\ mtime[f] <= clock
  /\ \A e \in events : e.time > 0 /\ e.time <= clock
  /\ \A r \in records : r.time > 0 /\ r.time <= clock

(* What is in the index was copied from an enriched row, and rows stay.    *)
IndexInv == \A id \in index : \E r \in table : r.file = id /\ r.vector

(* Why an item may fail.                                                   *)
Cause(it) ==
  /\ it.failed
  /\ \/ it.step = "detect" /\ Kind[it.id] = "other"
     \/ it.step \in Writes /\ it.attempt = IF it.step = "update" THEN 3 ELSE 1

(* An item that has not failed has attempts left, and none is ever done.   *)
ItemOK(it) ==
  /\ it.step # "done"
  /\ ~it.failed => it.attempt < 3 /\ (it.step # "update" => it.attempt = 0)

ExecutionOK(x) ==
  /\ execution[x] = "idle" => fetches[x] = 0
  /\ execution[x] = "fetch" => fetches[x] < 3
  /\ execution[x] \in {"idle", "fetch", "succeeded"} =>
       \A i \in Slots : item[x][i].step = "unused"
  /\ execution[x] # "failed" => \A i \in Slots : ~item[x][i].failed
  /\ execution[x] = "failed" => fetches[x] = 3 \/ \E i \in Slots : Cause(item[x][i])

ItemsInv ==
  /\ \A x \in Executions : ExecutionOK(x)
  /\ \A x \in Executions, i \in Slots : ItemOK(item[x][i])

CatalogueInv == TypeOK /\ TableInv /\ IndexInv /\ ItemsInv

-----------------------------------------------------------------------------
(* The assumptions, in one place.                                          *)
LEMMA Constants ==
  /\ Files \subseteq Ids /\ ScannedAs \in [Files -> Ids]
  /\ \A f \in Files : ScannedAs[f] \in Ids
  /\ MaxRecords \in Nat /\ Embeddings \in BOOLEAN
BY IdsAssumption, ScanAssumption, WorkflowAssumption, CatalogueAssumption

(* Stamps are positive.                                                    *)
LEMMA Stamps == TypeOK => clock \in Nat /\ Now = clock + 1 /\ Now \in Nat /\ Now > 0
<1> SUFFICES ASSUME TypeOK PROVE clock \in Nat /\ Now = clock + 1 /\ Now \in Nat /\ Now > 0
  OBVIOUS
<1>1. clock \in Nat
  BY DEF TypeOK, TableTypeOK
<1> QED BY <1>1 DEF Now

(* The types of the stamps.                                                *)
LEMMA StampTypes ==
  ASSUME TypeOK
  PROVE  /\ \A r \in table : r.modified \in Nat /\ r.enriched \in Nat /\ r.file \in Ids
         /\ \A f \in Files : mtime[f] \in Nat
         /\ \A e \in events : e.time \in Nat /\ e.file \in Files
         /\ \A r \in records : r.time \in Nat /\ r.file \in Files
BY DEF TypeOK, TableTypeOK, CatalogRow, ScanTypeOK, Record, FileEvent

(* A new item has its type.                                                *)
LEMMA NewItemType ==
  ASSUME NEW id \in Ids, NEW step \in {"unused", "waiting"}
  PROVE  NewItem(id, step) \in Item
BY DEF NewItem, Item

(* Nothing has happened at first.                                          *)
LEMMA InitInv == Init => CatalogueInv
<1> SUFFICES ASSUME Init PROVE CatalogueInv
  OBVIOUS
<1> USE DEF Init, TableInit, WorkflowInit, ScanInit
<1>1. TableTypeOK /\ ScanTypeOK
  BY DEF TableTypeOK, ScanTypeOK
<1>2. WorkflowTypeOK
  <2>1. (CHOOSE id \in Ids : TRUE) \in Ids
    BY IdsAssumption
  <2>2. NewItem(CHOOSE id \in Ids : TRUE, "unused") \in Item
    BY <2>1, NewItemType
  <2> QED BY <2>2 DEF WorkflowTypeOK
<1>3. TypeOK
  BY <1>1, <1>2 DEF TypeOK
<1>4. TableInv /\ IndexInv
  BY DEF TableInv, IndexInv
<1>5. ItemsInv
  <2>1. ASSUME NEW x \in Executions, NEW i \in Slots
        PROVE  item[x][i].step = "unused" /\ ~item[x][i].failed /\ item[x][i].attempt = 0
    BY <2>1 DEF NewItem
  <2>2. \A x \in Executions : execution[x] = "idle" /\ fetches[x] = 0
    OBVIOUS
  <2>3. ASSUME NEW x \in Executions
        PROVE  ExecutionOK(x)
    BY <2>1, <2>2 DEF ExecutionOK
  <2>4. ASSUME NEW x \in Executions, NEW i \in Slots
        PROVE  ItemOK(item[x][i])
    <3>1. item[x][i].step = "unused" /\ item[x][i].attempt = 0
      BY <2>1
    <3> QED BY <3>1 DEF ItemOK
  <2> QED BY <2>3, <2>4 DEF ItemsInv
<1> QED BY <1>3, <1>4, <1>5 DEF CatalogueInv

-----------------------------------------------------------------------------
(* What the table, the items and the index need of a step.                 *)

(* Rows are only added.                                                    *)
LEMMA IndexKept ==
  ASSUME IndexInv, index' = index, table \subseteq table'
  PROVE  IndexInv'
BY DEF IndexInv

(* Somebody else's step.                                                   *)
LEMMA ItemsKept ==
  ASSUME ItemsInv, UNCHANGED workflowVars
  PROVE  ItemsInv'
<1>1. item' = item /\ execution' = execution /\ fetches' = fetches
  BY DEF workflowVars
<1> QED BY <1>1 DEF ItemsInv, ItemOK, ExecutionOK, Cause

(* The clock only moves on.                                                *)
LEMMA ClockMoves ==
  ASSUME TypeOK, TableInv, clock' = clock \/ clock' = clock + 1
  PROVE  /\ clock' \in Nat /\ clock <= clock'
         /\ \A r \in table : r.modified <= clock'
         /\ \A f \in Files : mtime[f] <= clock'
         /\ \A e \in events : e.time <= clock'
         /\ \A r \in records : r.time <= clock'
BY Stamps, StampTypes DEF TableInv

(* A step that appends rows, if any, and leaves the workflow, the files    *)
(* and the index alone.                                                    *)
LEMMA Appending ==
  ASSUME CatalogueInv, TypeOK', UNCHANGED <<workflowVars, mtime, index>>,
         clock' = clock \/ clock' = clock + 1,
         NEW rows, \A r \in rows : RowOK(r) /\ r.modified <= clock',
         table' = table \cup rows,
         \A e \in events' : e \in events,
         \A r \in records' : r \in records \/ (r.time > 0 /\ r.time <= clock')
  PROVE  CatalogueInv'
<1>1. TypeOK /\ TableInv
  BY DEF CatalogueInv
<1>2. TableInv'
  BY <1>1, ClockMoves DEF TableInv, RowOK
<1>3. ItemsInv'
  BY ItemsKept DEF CatalogueInv
<1>4. IndexInv'
  BY IndexKept DEF CatalogueInv
<1> QED BY <1>2, <1>3, <1>4 DEF CatalogueInv

(* The rows of files nobody has enriched.                                  *)
LEMMA RowOf ==
  ASSUME NEW id \in Ids, NEW time \in Nat, time > 0,
         NEW status \in {"pending", "not_applicable"}, NEW deleted \in {"yes", "no"}
  PROVE  FileRow(id, time, status, deleted) \in CatalogRow
         /\ RowOK(FileRow(id, time, status, deleted))
         /\ FileRow(id, time, status, deleted).modified = time
BY DEF FileRow, CatalogRow, RowOK, Null

-----------------------------------------------------------------------------
(* Steps of the volume and of the scan.                                    *)

(* A file changes, now.                                                    *)
LEMMA OperateInv ==
  ASSUME CatalogueInv, NEW f \in Files, NEW op \in {"create", "write", "delete"}, Operate(f, op)
  PROVE  CatalogueInv'
<1>1. /\ UNCHANGED <<workflowVars, table, scanVars, live, consumers>>
      /\ ops' = ops + 1 /\ clock' = clock + 1 /\ mtime' = [mtime EXCEPT ![f] = Now]
      /\ existing' \subseteq existing \cup {f} /\ missed' \subseteq missed \cup {f}
      /\ events' \subseteq events \cup {[file |-> f, time |-> Now, op |-> op]}
  BY DEF Operate, Tick
<1>2. TypeOK /\ TableInv
  BY DEF CatalogueInv
<1>3. [file |-> f, time |-> Now, op |-> op] \in FileEvent
  BY <1>2, Stamps DEF FileEvent
<1>4. TableTypeOK' /\ WorkflowTypeOK'
  BY <1>1, <1>2, Stamps DEF TypeOK, TableTypeOK, WorkflowTypeOK, workflowVars
<1>5. ScanTypeOK'
  BY <1>1, <1>2, Stamps DEF TypeOK, ScanTypeOK, scanVars
<1>6. ops' \in Nat
  BY <1>1, <1>2 DEF TypeOK
<1>7. TypeOK'
  BY <1>1, <1>2, <1>3, <1>4, <1>5, <1>6 DEF TypeOK, consumers
<1>8. TableInv'
  <2>1. \A g \in Files : mtime'[g] > 0 /\ mtime'[g] <= clock'
    BY <1>1, <1>2, Stamps, ClockMoves DEF TableInv, TypeOK, ScanTypeOK
  <2>2. \A e \in events' : e.time > 0 /\ e.time <= clock'
    BY <1>1, <1>2, Stamps, ClockMoves DEF TableInv
  <2>3. table' = table /\ records' = records
    BY <1>1 DEF scanVars
  <2> QED BY <1>1, <1>2, <2>1, <2>2, <2>3, ClockMoves DEF TableInv, RowOK
<1>9. ItemsInv'
  BY <1>1, ItemsKept DEF CatalogueInv
<1>10. IndexInv'
  BY <1>1, IndexKept DEF CatalogueInv, consumers
<1> QED BY <1>7, <1>8, <1>9, <1>10 DEF CatalogueInv

(* A step that appends nothing and touches neither the workflow nor the    *)
(* files.                                                                  *)
LEMMA Quiet ==
  ASSUME CatalogueInv, TypeOK', UNCHANGED <<workflowVars, table, clock, mtime, events, index>>,
         \A r \in records' : r \in records \/ (r.time > 0 /\ r.time <= clock')
  PROVE  CatalogueInv'
<1> DEFINE rows == {}
<1>1. table' = table \cup rows /\ \A r \in rows : RowOK(r) /\ r.modified <= clock'
  OBVIOUS
<1> HIDE DEF rows
<1> QED BY <1>1, Appending

(* FPolicy is enabled.                                                     *)
LEMMA EnableFPolicyInv ==
  ASSUME CatalogueInv, EnableFPolicy
  PROVE  CatalogueInv'
<1> USE DEF EnableFPolicy, volumeVars, scanVars, consumers, workflowVars
<1>1. TableTypeOK' /\ WorkflowTypeOK' /\ ScanTypeOK'
  BY DEF CatalogueInv, TypeOK, TableTypeOK, WorkflowTypeOK, ScanTypeOK
<1>2. TypeOK'
  BY <1>1 DEF CatalogueInv, TypeOK
<1> QED BY <1>2, Quiet

(* The listing, and the end of it.                                         *)
LEMMA ListInv ==
  ASSUME CatalogueInv, StartScan \/ ListPage \/ ListFails \/ WriteFails,
         UNCHANGED <<workflowVars, live, events, ops, consumers, missed>>
  PROVE  CatalogueInv'
<1>1. /\ UNCHANGED <<table, clock, volumeVars>>
      /\ scan' \in {"idle", "list", "write", "done", "failed"}
      /\ passed' = passed \/ passed' = passed \cup Behind
      /\ records' = records \/
           records' = records \cup {[file |-> f, time |-> mtime[f]] : f \in Page}
  BY DEF StartScan, ListPage, ListFails, WriteFails
<1>2. TypeOK /\ TableInv
  BY DEF CatalogueInv
<1>3. Page \subseteq Files /\ Behind \subseteq Files
  <2>1. existing \subseteq Files
    BY <1>2 DEF TypeOK, ScanTypeOK
  <2> QED BY <2>1 DEF Page, Left, Behind
<1>4. mtime \in [Files -> Nat] /\ passed \subseteq Files /\ records \subseteq Record
  BY <1>2 DEF TypeOK, ScanTypeOK
<1>5. {[file |-> f, time |-> mtime[f]] : f \in Page} \subseteq Record
  BY <1>3, <1>4 DEF Record
<1>6. ScanTypeOK'
  BY <1>1, <1>2, <1>3, <1>4, <1>5 DEF TypeOK, ScanTypeOK, volumeVars
<1>7. TableTypeOK' /\ WorkflowTypeOK'
  BY <1>1, <1>2 DEF TypeOK, TableTypeOK, WorkflowTypeOK, workflowVars
<1>8. TypeOK'
  BY <1>2, <1>6, <1>7 DEF TypeOK, consumers
<1>9. \A r \in records' : r \in records \/ (r.time > 0 /\ r.time <= clock')
  BY <1>1, <1>2, <1>3 DEF TableInv
<1> QED BY <1>1, <1>8, <1>9, Quiet DEF volumeVars, consumers

(* The scan writes pending rows, dated by LastModified.                    *)
LEMMA WriteBatchInv ==
  ASSUME CatalogueInv, WriteBatch,
         UNCHANGED <<workflowVars, live, events, ops, consumers, missed>>
  PROVE  CatalogueInv'
<1>1. PICK b \in NextBatches :
        /\ AppendRows({ScanRow(r) : r \in b})
        /\ records' = records \ b
        /\ scan' = IF b = records THEN "done" ELSE "write"
  BY DEF WriteBatch
<1>2. UNCHANGED <<clock, volumeVars, passed>> /\ TypeOK /\ TableInv
  BY DEF WriteBatch, CatalogueInv
<1>3. b \subseteq records
  BY DEF NextBatches
<1>4. ASSUME NEW r \in b
      PROVE  ScanRow(r) \in CatalogRow /\ RowOK(ScanRow(r)) /\ ScanRow(r).modified <= clock'
  <2>1. ScannedAs[r.file] \in Ids /\ r.time \in Nat /\ r.time > 0 /\ r.time <= clock
    BY <1>2, <1>3, Constants, StampTypes DEF TableInv
  <2> QED BY <1>2, <2>1, RowOf DEF ScanRow
<1> DEFINE rows == {ScanRow(r) : r \in b}
<1>5. /\ rows \in SUBSET CatalogRow /\ table' = table \cup rows
      /\ \A r \in rows : RowOK(r) /\ r.modified <= clock'
  BY <1>1, <1>4 DEF AppendRows
<1> HIDE DEF rows
<1>6. TableTypeOK'
  BY <1>2, <1>5 DEF TypeOK, TableTypeOK
<1>7. ScanTypeOK' /\ WorkflowTypeOK'
  BY <1>1, <1>2 DEF TypeOK, ScanTypeOK, WorkflowTypeOK, volumeVars, workflowVars
<1>8. TypeOK'
  BY <1>2, <1>6, <1>7 DEF TypeOK, consumers
<1> QED BY <1>1, <1>2, <1>5, <1>8, Appending DEF volumeVars, consumers

(* A live event.                                                           *)
LEMMA SyncEventInv ==
  ASSUME CatalogueInv, NEW e \in events, SyncEvent(e)
  PROVE  CatalogueInv'
<1>1. /\ events' = events \ {e} /\ table' = table \cup {EventRow(e)}
      /\ UNCHANGED <<workflowVars, clock, volumeVars, scanVars, live, ops, consumers, missed>>
  BY DEF SyncEvent, AppendRows
<1>2. TypeOK /\ TableInv
  BY DEF CatalogueInv
<1>3. e.file \in Ids /\ e.time \in Nat /\ e.time > 0 /\ e.time <= clock
  BY <1>2, Constants, StampTypes DEF TableInv
<1>4. EventRow(e) \in CatalogRow /\ RowOK(EventRow(e)) /\ EventRow(e).modified <= clock'
  BY <1>1, <1>3, RowOf DEF EventRow
<1> DEFINE rows == {EventRow(e)}
<1>5. /\ rows \in SUBSET CatalogRow /\ table' = table \cup rows
      /\ \A r \in rows : RowOK(r) /\ r.modified <= clock'
  BY <1>1, <1>4
<1> HIDE DEF rows
<1>6. TableTypeOK'
  BY <1>1, <1>2, <1>5 DEF TypeOK, TableTypeOK
<1>7. ScanTypeOK' /\ WorkflowTypeOK'
  BY <1>1, <1>2 DEF TypeOK, ScanTypeOK, WorkflowTypeOK, volumeVars, scanVars, workflowVars
<1>8. TypeOK'
  BY <1>1, <1>2, <1>6, <1>7 DEF TypeOK, consumers
<1> QED BY <1>1, <1>5, <1>8, Appending DEF volumeVars, scanVars, consumers

-----------------------------------------------------------------------------
(* Steps of the demonstration script and of the embedding sync.            *)

(* The script fetches.                                                     *)
LEMMA DemoFetchInv ==
  ASSUME CatalogueInv, DemoFetch
  PROVE  CatalogueInv'
<1>1. /\ demoRuns' = TRUE
      /\ UNCHANGED <<workflowVars, table, clock, volumeVars, scanVars, live, events, ops,
                     index, missed>>
  BY DEF DemoFetch
<1>2. TypeOK
  BY DEF CatalogueInv
<1>3. demo' \in SUBSET Ids
  <2>1. PICK rows \in SUBSET PendingRows : demo' = {r.file : r \in rows}
    BY DEF DemoFetch
  <2> QED BY <1>2, <2>1, StampTypes DEF PendingRows
<1>4. TableTypeOK' /\ ScanTypeOK' /\ WorkflowTypeOK'
  BY <1>1, <1>2 DEF TypeOK, TableTypeOK, ScanTypeOK, WorkflowTypeOK, volumeVars,
     scanVars, workflowVars
<1>5. TypeOK'
  BY <1>1, <1>2, <1>3, <1>4 DEF TypeOK
<1> QED BY <1>1, <1>5, Quiet DEF volumeVars, scanVars

(* It writes a full row, dated now on both counts.                         *)
LEMMA DemoWriteInv ==
  ASSUME CatalogueInv, NEW id \in demo, DemoWrite(id)
  PROVE  CatalogueInv'
<1>1. /\ demo' = demo \ {id}
      /\ UNCHANGED <<workflowVars, volumeVars, scanVars, live, events, ops, demoRuns, index,
                     missed>>
      /\ \/ table' = table \cup {DemoRow(id)} /\ clock' = clock + 1
         \/ UNCHANGED <<table, clock>>
  BY DEF DemoWrite, AppendRows, Tick
<1>2. TypeOK
  BY DEF CatalogueInv
<1>3. ScanTypeOK' /\ WorkflowTypeOK'
  BY <1>1, <1>2 DEF TypeOK, ScanTypeOK, WorkflowTypeOK, volumeVars, scanVars, workflowVars
<1>4. demo' \subseteq Ids /\ id \in Ids
  BY <1>1, <1>2 DEF TypeOK
<1>5. CASE UNCHANGED <<table, clock>>
  <2>1. TableTypeOK'
    BY <1>2, <1>5 DEF TypeOK, TableTypeOK
  <2>2. TypeOK'
    BY <1>1, <1>2, <1>3, <1>4, <2>1 DEF TypeOK
  <2> QED BY <1>1, <1>5, <2>2, Quiet DEF volumeVars, scanVars
<1>6. CASE table' = table \cup {DemoRow(id)} /\ clock' = clock + 1
  <2>1. DemoRow(id) \in CatalogRow /\ RowOK(DemoRow(id)) /\ DemoRow(id).modified <= clock'
    <3>1. Now \in Nat /\ Now > 0 /\ Now = clock' /\ Embeddings \in BOOLEAN
      BY <1>2, <1>6, Stamps, Constants
    <3> QED BY <1>4, <3>1 DEF DemoRow, CatalogRow, RowOK, Null
  <2> DEFINE rows == {DemoRow(id)}
  <2>2. /\ rows \in SUBSET CatalogRow /\ table' = table \cup rows
        /\ \A r \in rows : RowOK(r) /\ r.modified <= clock'
    BY <1>6, <2>1
  <2> HIDE DEF rows
  <2>3. TableTypeOK'
    <3>1. clock' \in Nat
      BY <1>2, <1>6, Stamps
    <3> QED BY <1>2, <2>2, <3>1 DEF TypeOK, TableTypeOK
  <2>4. TypeOK'
    BY <1>1, <1>2, <1>3, <1>4, <2>3 DEF TypeOK
  <2> QED BY <1>1, <1>6, <2>2, <2>4, Appending DEF volumeVars, scanVars
<1> QED BY <1>1, <1>5, <1>6

(* Only enriched rows are copied to the index.                             *)
LEMMA SyncEmbeddingsInv ==
  ASSUME CatalogueInv, SyncEmbeddings
  PROVE  CatalogueInv'
<1>1. PICK docs \in SUBSET {r.file : r \in Indexable} : index' = index \cup docs
  BY DEF SyncEmbeddings
<1>2. UNCHANGED <<workflowVars, table, clock, volumeVars, scanVars, live, events, ops, demo,
                  demoRuns, missed>>
  BY DEF SyncEmbeddings
<1>3. TypeOK /\ TableInv
  BY DEF CatalogueInv
<1>4. \A id \in docs : \E r \in table : r.file = id /\ r.vector
  BY <1>1 DEF Indexable
<1>5. IndexInv'
  BY <1>1, <1>2, <1>4 DEF CatalogueInv, IndexInv
<1>6. index' \subseteq Ids
  BY <1>1, <1>3, <1>4, StampTypes DEF TypeOK
<1>7. TableTypeOK' /\ ScanTypeOK' /\ WorkflowTypeOK'
  BY <1>2, <1>3 DEF TypeOK, TableTypeOK, ScanTypeOK, WorkflowTypeOK, volumeVars,
     scanVars, workflowVars
<1>8. TypeOK'
  BY <1>2, <1>3, <1>6, <1>7 DEF TypeOK
<1>9. TableInv'
  BY <1>2, <1>3 DEF TableInv, RowOK, volumeVars, scanVars
<1>10. ItemsInv'
  BY <1>2, ItemsKept DEF CatalogueInv
<1> QED BY <1>5, <1>8, <1>9, <1>10 DEF CatalogueInv

-----------------------------------------------------------------------------
(* Steps of the workflow.                                                  *)

Beside == UNCHANGED <<volumeVars, scanVars, live, events, ops, consumers, missed>>

(* The workflow reads the table and adds nothing to it.                    *)
LEMMA WorkflowReads == WorkflowNext => UNCHANGED <<table, clock>>
<1>1. ASSUME NEW x \in Executions, NEW i \in Slots, ItemNext(x, i)
      PROVE  UNCHANGED <<table, clock>>
  <2>1. CASE UpdateRaises(x, i)
    BY <2>1 DEF UpdateRaises, FailItem
  <2>2. CASE ~UpdateRaises(x, i)
    BY <1>1, <2>2 DEF ItemNext, DetermineFileType, Enrich, GenerateEmbedding, DetectPII,
                      DetectPIIWithoutResult, Goto, FailItem
  <2> QED BY <2>1, <2>2
<1> QED BY <1>1 DEF WorkflowNext, StartExecution, Fetch, FetchFails, Succeed

(* What a step of the workflow has to show.                                *)
LEMMA WorkflowStepInv ==
  ASSUME CatalogueInv, Beside, UNCHANGED <<table, clock>>, WorkflowTypeOK', ItemsInv'
  PROVE  CatalogueInv'
<1>1. ScanTypeOK' /\ TableTypeOK'
  BY DEF Beside, CatalogueInv, TypeOK, ScanTypeOK, TableTypeOK, volumeVars, scanVars
<1>2. TypeOK'
  BY <1>1 DEF Beside, CatalogueInv, TypeOK, consumers
<1>3. TableInv'
  BY DEF Beside, CatalogueInv, TableInv, RowOK, volumeVars, scanVars
<1>4. IndexInv'
  BY IndexKept DEF Beside, CatalogueInv, consumers
<1> QED BY <1>2, <1>3, <1>4 DEF CatalogueInv

(* The types of the workflow, and what is said of one execution.           *)
LEMMA WorkflowFacts ==
  ASSUME CatalogueInv, NEW x \in Executions
  PROVE  /\ execution \in [Executions -> {"idle", "fetch", "process", "succeeded", "failed"}]
         /\ fetches \in [Executions -> 0 .. 3]
         /\ item \in [Executions -> [Slots -> Item]]
         /\ ExecutionOK(x) /\ \A i \in Slots : ItemOK(item[x][i])
BY DEF CatalogueInv, TypeOK, WorkflowTypeOK, ItemsInv

(* One execution changes: the others are as they were.                     *)
LEMMA OneExecution ==
  ASSUME CatalogueInv, NEW x \in Executions, WorkflowTypeOK',
         \A y \in Executions : y # x => /\ execution'[y] = execution[y]
                                        /\ fetches'[y] = fetches[y]
                                        /\ item'[y] = item[y],
         ExecutionOK(x)', \A i \in Slots : ItemOK(item[x][i])'
  PROVE  ItemsInv'
<1>1. ASSUME NEW y \in Executions, y # x PROVE ExecutionOK(y)'
  BY <1>1, WorkflowFacts DEF ExecutionOK, Cause
<1>2. ASSUME NEW y \in Executions, y # x, NEW i \in Slots PROVE ItemOK(item[y][i])'
  BY <1>2, WorkflowFacts DEF ItemOK
<1> QED BY <1>1, <1>2 DEF ItemsInv

(* An execution starts, or succeeds.                                       *)
LEMMA StartOrSucceedInv ==
  ASSUME CatalogueInv, Beside, NEW x \in Executions, StartExecution(x) \/ Succeed(x)
  PROVE  CatalogueInv'
<1>1. PICK to \in {"fetch", "succeeded"} :
        /\ execution' = [execution EXCEPT ![x] = to] /\ execution[x] \in {"idle", "process"}
        /\ to = "fetch" => execution[x] = "idle"
        /\ to = "succeeded" => \A i \in Slots : item[x][i].step \in {"unused", "done"}
        /\ UNCHANGED <<table, clock, fetches, item>>
  BY DEF StartExecution, Succeed
<1>2. /\ execution'[x] = to /\ \A y \in Executions : y # x => execution'[y] = execution[y]
      /\ execution' \in [Executions -> {"idle", "fetch", "process", "succeeded", "failed"}]
  BY <1>1, WorkflowFacts
<1>3. WorkflowTypeOK'
  BY <1>1, <1>2, WorkflowFacts DEF WorkflowTypeOK
<1>4. \A i \in Slots : item[x][i].step = "unused" /\ ~item[x][i].failed
  BY <1>1, WorkflowFacts DEF ExecutionOK, ItemOK
<1>5. ExecutionOK(x)'
  BY <1>1, <1>2, <1>4, WorkflowFacts DEF ExecutionOK
<1>6. \A i \in Slots : ItemOK(item[x][i])'
  BY <1>1, WorkflowFacts DEF ItemOK
<1>7. ItemsInv'
  BY <1>1, <1>2, <1>3, <1>5, <1>6, OneExecution
<1> QED BY <1>1, <1>3, <1>7, WorkflowStepInv

(* It fetches, or has nothing to do.                                       *)
LEMMA FetchInv ==
  ASSUME CatalogueInv, Beside, NEW x \in Executions, Fetch(x)
  PROVE  CatalogueInv'
<1>1. /\ execution[x] = "fetch" /\ fetches' = [fetches EXCEPT ![x] = @ + 1]
      /\ execution' = [execution EXCEPT ![x] = "process"]
      /\ UNCHANGED <<table, clock>>
  BY DEF Fetch
<1>2. PICK b \in Batches :
        item' = [item EXCEPT ![x] =
                   [i \in Slots |-> IF i \in DOMAIN b THEN NewItem(b[i].file, "waiting")
                                    ELSE item[x][i]]]
  BY DEF Fetch
<1> DEFINE fresh == [i \in Slots |-> IF i \in DOMAIN b THEN NewItem(b[i].file, "waiting")
                                     ELSE item[x][i]]
<1>3. \A i \in DOMAIN b : b[i].file \in Ids
  <2>1. \A i \in DOMAIN b : b[i] \in table
    BY <1>2 DEF Batches, PendingRows
  <2> QED BY <2>1, StampTypes DEF CatalogueInv
<1>4. \A i \in Slots : \/ fresh[i] = item[x][i] /\ i \notin DOMAIN b
                       \/ i \in DOMAIN b /\ fresh[i] = NewItem(b[i].file, "waiting")
  OBVIOUS
<1>5. fresh \in [Slots -> Item]
  <2>1. \A i \in Slots : item[x][i] \in Item
    BY WorkflowFacts
  <2>2. \A i \in DOMAIN b : NewItem(b[i].file, "waiting") \in Item
    BY <1>3, NewItemType
  <2> QED BY <2>1, <2>2
<1>6. item' = [item EXCEPT ![x] = fresh]
  BY <1>2
<1> HIDE DEF fresh
<1>7. /\ item' \in [Executions -> [Slots -> Item]] /\ item'[x] = fresh
      /\ \A y \in Executions : y # x => item'[y] = item[y]
  BY <1>5, <1>6, WorkflowFacts
<1>8. /\ execution' \in [Executions -> {"idle", "fetch", "process", "succeeded", "failed"}]
      /\ execution'[x] = "process"
      /\ \A y \in Executions : y # x => execution'[y] = execution[y]
  BY <1>1, WorkflowFacts
<1>9. /\ fetches' \in [Executions -> 0 .. 3]
      /\ \A y \in Executions : y # x => fetches'[y] = fetches[y]
  <2>1. fetches[x] < 3 /\ fetches[x] \in 0 .. 3
    BY <1>1, WorkflowFacts DEF ExecutionOK
  <2> QED BY <1>1, <2>1, WorkflowFacts
<1>10. WorkflowTypeOK'
  BY <1>7, <1>8, <1>9 DEF WorkflowTypeOK
<1>11. ASSUME NEW i \in Slots PROVE ~fresh[i].failed /\ ItemOK(fresh[i])
  <2>1. CASE fresh[i] = item[x][i]
    BY <1>1, <2>1, WorkflowFacts DEF ExecutionOK
  <2>2. CASE fresh[i] = NewItem(b[i].file, "waiting")
    BY <2>2 DEF ItemOK, NewItem
  <2> QED BY <1>4, <2>1, <2>2
<1>12. ExecutionOK(x)'
  BY <1>7, <1>8, <1>11 DEF ExecutionOK
<1>13. \A i \in Slots : ItemOK(item[x][i])'
  BY <1>7, <1>11 DEF ItemOK
<1>14. ItemsInv'
  BY <1>7, <1>8, <1>9, <1>10, <1>12, <1>13, OneExecution
<1> QED BY <1>1, <1>10, <1>14, WorkflowStepInv

(* The query fails, three times at most.                                   *)
LEMMA FetchFailsInv ==
  ASSUME CatalogueInv, Beside, NEW x \in Executions, FetchFails(x)
  PROVE  CatalogueInv'
<1>1. /\ execution[x] = "fetch" /\ fetches' = [fetches EXCEPT ![x] = @ + 1]
      /\ execution' = [execution EXCEPT ![x] = IF fetches[x] < 2 THEN "fetch" ELSE "failed"]
      /\ UNCHANGED <<table, clock, item>>
  BY DEF FetchFails
<1>2. fetches[x] \in 0 .. 3 /\ fetches[x] < 3
  BY <1>1, WorkflowFacts DEF ExecutionOK
<1>3. /\ fetches' \in [Executions -> 0 .. 3] /\ fetches'[x] = fetches[x] + 1
      /\ \A y \in Executions : y # x => fetches'[y] = fetches[y]
  BY <1>1, <1>2, WorkflowFacts
<1>4. /\ execution' \in [Executions -> {"idle", "fetch", "process", "succeeded", "failed"}]
      /\ execution'[x] = IF fetches[x] < 2 THEN "fetch" ELSE "failed"
      /\ \A y \in Executions : y # x => execution'[y] = execution[y]
  BY <1>1, WorkflowFacts
<1>5. WorkflowTypeOK'
  BY <1>1, <1>3, <1>4, WorkflowFacts DEF WorkflowTypeOK
<1>6. \/ execution'[x] = "fetch" /\ fetches'[x] < 3
      \/ execution'[x] = "failed" /\ fetches'[x] = 3
  BY <1>2, <1>3, <1>4
<1>7. \A i \in Slots : item[x][i].step = "unused" /\ ~item[x][i].failed
  BY <1>1, WorkflowFacts DEF ExecutionOK
<1>8. ExecutionOK(x)'
  BY <1>1, <1>6, <1>7 DEF ExecutionOK
<1>9. \A i \in Slots : ItemOK(item[x][i])'
  BY <1>1, WorkflowFacts DEF ItemOK
<1>10. ItemsInv'
  BY <1>1, <1>3, <1>4, <1>5, <1>8, <1>9, OneExecution
<1> QED BY <1>1, <1>5, <1>10, WorkflowStepInv

-----------------------------------------------------------------------------
(* Steps of an item.                                                       *)

(* One item changes, and with it, if it fails, its execution.              *)
LEMMA ItemStep ==
  ASSUME CatalogueInv, Beside, NEW x \in Executions, NEW i \in Slots, NEW it \in Item,
         UNCHANGED <<table, clock, fetches>>, execution[x] = "process",
         item' = [item EXCEPT ![x][i] = it], ItemOK(it),
         \/ execution' = execution /\ ~it.failed
         \/ execution' = [execution EXCEPT ![x] = "failed"] /\ Cause(it)
  PROVE  CatalogueInv'
<1>1. /\ item' \in [Executions -> [Slots -> Item]] /\ item'[x][i] = it
      /\ \A j \in Slots : j # i => item'[x][j] = item[x][j]
      /\ \A y \in Executions : y # x => item'[y] = item[y]
  BY WorkflowFacts
<1>2. /\ execution' \in [Executions -> {"idle", "fetch", "process", "succeeded", "failed"}]
      /\ \A y \in Executions : y # x => execution'[y] = execution[y]
      /\ \/ execution'[x] = "process" /\ ~it.failed
         \/ execution'[x] = "failed" /\ Cause(it)
  BY WorkflowFacts
<1>3. WorkflowTypeOK'
  BY <1>1, <1>2, WorkflowFacts DEF WorkflowTypeOK
<1>4. \A j \in Slots : ~item[x][j].failed
  BY WorkflowFacts DEF ExecutionOK
<1>5. ExecutionOK(x)'
  <2>1. CASE execution'[x] = "process" /\ ~it.failed
    BY <1>1, <1>4, <2>1 DEF ExecutionOK
  <2>2. CASE execution'[x] = "failed" /\ Cause(it)
    BY <1>1, <2>2 DEF ExecutionOK, Cause
  <2> QED BY <1>2, <2>1, <2>2
<1>6. \A j \in Slots : ItemOK(item[x][j])'
  BY <1>1, WorkflowFacts DEF ItemOK
<1>7. ItemsInv'
  BY <1>1, <1>2, <1>3, <1>5, <1>6, OneExecution
<1> QED BY <1>3, <1>7, WorkflowStepInv

(* The item of an execution that goes on.                                  *)
LEMMA ItemFacts ==
  ASSUME CatalogueInv, NEW x \in Executions, NEW i \in Slots, execution[x] = "process"
  PROVE  /\ item[x][i] \in Item /\ ItemOK(item[x][i]) /\ ~item[x][i].failed
         /\ item[x][i].attempt \in 0 .. 3 /\ item[x][i].attempt < 3
         /\ item[x][i].step # "update" => item[x][i].attempt = 0
<1>1. item[x][i] \in Item /\ ItemOK(item[x][i]) /\ ~item[x][i].failed
  BY WorkflowFacts DEF ExecutionOK
<1> QED BY <1>1 DEF Item, ItemOK

(* It goes from state to state.                                            *)
LEMMA GotoInv ==
  ASSUME CatalogueInv, Beside, NEW x \in Executions, NEW i \in Slots,
         NEW to \in {"enrich", "embed", "detect"} \cup Writes, Goto(x, i, to),
         execution[x] = "process", item[x][i].step # "update"
  PROVE  CatalogueInv'
<1> DEFINE it == [item[x][i] EXCEPT !.step = to]
<1>1. it \in Item /\ ItemOK(it) /\ ~it.failed
  BY ItemFacts DEF Item, Writes, ItemOK
<1>2. /\ item' = [item EXCEPT ![x][i] = it] /\ execution' = execution
      /\ UNCHANGED <<table, clock, fetches>>
  BY DEF Goto
<1> HIDE DEF it
<1> QED BY <1>1, <1>2, ItemStep

(* An item that fails keeps its name and its step.                         *)
LEMMA FailItemInv ==
  ASSUME CatalogueInv, Beside, NEW x \in Executions, NEW i \in Slots, NEW tried \in 0 .. 3,
         FailItem(x, i, tried), execution[x] = "process",
         \/ item[x][i].step = "detect" /\ Kind[item[x][i].id] = "other"
         \/ /\ item[x][i].step \in Writes
            /\ tried = IF item[x][i].step = "update" THEN 3 ELSE 1
  PROVE  CatalogueInv'
<1> DEFINE it == [item[x][i] EXCEPT !.failed = TRUE, !.attempt = tried]
<1>1. /\ it \in Item /\ it.failed /\ it.step = item[x][i].step /\ it.id = item[x][i].id
      /\ it.attempt = tried
  BY ItemFacts DEF Item
<1>2. /\ item' = [item EXCEPT ![x][i] = it]
      /\ execution' = [execution EXCEPT ![x] = "failed"]
      /\ UNCHANGED <<table, clock, fetches>>
  BY DEF FailItem
<1> HIDE DEF it
<1>3. Cause(it) /\ ItemOK(it)
  BY <1>1, ItemFacts DEF Cause, ItemOK
<1> QED BY <1>1, <1>2, <1>3, ItemStep

(* An attempt that fails is repeated, or fails the item.                   *)
LEMMA UpdateRaisesInv ==
  ASSUME CatalogueInv, Beside, NEW x \in Executions, NEW i \in Slots, UpdateRaises(x, i)
  PROVE  CatalogueInv'
<1> DEFINE tried == item[x][i].attempt + 1
<1>1. execution[x] = "process" /\ item[x][i].step \in Writes
  BY DEF UpdateRaises
<1>2. /\ tried \in 1 .. 3 /\ tried \in 0 .. 3
      /\ item[x][i].step # "update" => tried = 1
  BY <1>1, ItemFacts
<1>3. CASE tried < MaxAttempts(item[x][i].step)
  <2> DEFINE it == [item[x][i] EXCEPT !.attempt = tried]
  <2>1. /\ item' = [item EXCEPT ![x][i] = it] /\ execution' = execution
        /\ UNCHANGED <<table, clock, fetches>>
    BY <1>3 DEF UpdateRaises
  <2>2. item[x][i].step = "update" /\ tried < 3
    <3> HIDE DEF tried
    <3> QED BY <1>2, <1>3 DEF MaxAttempts
  <2>3. it \in Item /\ it.step = "update" /\ ~it.failed /\ it.attempt = tried
    <3> HIDE DEF tried
    <3> QED BY <1>1, <1>2, <2>2, ItemFacts DEF Item
  <2> HIDE DEF it, tried
  <2>4. ItemOK(it)
    BY <2>2, <2>3 DEF ItemOK
  <2> QED BY <1>1, <2>1, <2>3, <2>4, ItemStep
<1>4. CASE ~(tried < MaxAttempts(item[x][i].step))
  <2>1. FailItem(x, i, tried)
    BY <1>4 DEF UpdateRaises
  <2> HIDE DEF tried
  <2>2. tried = IF item[x][i].step = "update" THEN 3 ELSE 1
    BY <1>2, <1>4 DEF MaxAttempts
  <2> QED BY <1>1, <1>2, <2>1, <2>2, FailItemInv
<1> QED BY <1>3, <1>4

(* A step of an item.                                                      *)
LEMMA ItemNextInv ==
  ASSUME CatalogueInv, Beside, NEW x \in Executions, NEW i \in Slots, ItemNext(x, i)
  PROVE  CatalogueInv'
<1>1. CASE DetermineFileType(x, i) \/ Enrich(x, i) \/ GenerateEmbedding(x, i) \/ DetectPII(x, i)
  <2>1. execution[x] = "process" /\ item[x][i].step # "update"
    BY <1>1 DEF DetermineFileType, Enrich, GenerateEmbedding, DetectPII, At
  <2>2. \E to \in {"enrich", "embed", "detect"} \cup Writes : Goto(x, i, to)
    BY <1>1 DEF DetermineFileType, Enrich, GenerateEmbedding, DetectPII, Writes
  <2> QED BY <2>1, <2>2, GotoInv
<1>2. CASE DetectPIIWithoutResult(x, i)
  <2>1. /\ execution[x] = "process" /\ FailItem(x, i, 0)
        /\ item[x][i].step = "detect" /\ Kind[item[x][i].id] = "other"
    BY <1>2 DEF DetectPIIWithoutResult, At, HasResult
  <2> QED BY <2>1, FailItemInv
<1>3. CASE UpdateRaises(x, i)
  BY <1>3, UpdateRaisesInv
<1> QED BY <1>1, <1>2, <1>3 DEF ItemNext

(* A step of the workflow.                                                 *)
LEMMA WorkflowNextInv ==
  ASSUME CatalogueInv, Beside, WorkflowNext
  PROVE  CatalogueInv'
<1>1. PICK x \in Executions :
        \/ StartExecution(x) \/ Fetch(x) \/ FetchFails(x) \/ Succeed(x)
        \/ \E i \in Slots : ItemNext(x, i)
  BY DEF WorkflowNext
<1>2. CASE StartExecution(x) \/ Fetch(x) \/ FetchFails(x) \/ Succeed(x)
  BY <1>2, StartOrSucceedInv, FetchInv, FetchFailsInv
<1>3. CASE \E i \in Slots : ItemNext(x, i)
  <2>1. PICK i \in Slots : ItemNext(x, i)
    BY <1>3
  <2> QED BY <2>1, ItemNextInv
<1> QED BY <1>1, <1>2, <1>3

(* A step of anybody.                                                      *)
LEMMA NextInv ==
  ASSUME CatalogueInv, [Next]_vars
  PROVE  CatalogueInv'
<1>1. CASE \E f \in Files : CreateFile(f) \/ WriteFile(f) \/ DeleteFile(f)
  <2>1. PICK f \in Files : CreateFile(f) \/ WriteFile(f) \/ DeleteFile(f)
    BY <1>1
  <2>2. Operate(f, "create") \/ Operate(f, "write") \/ Operate(f, "delete")
    BY <2>1 DEF CreateFile, WriteFile, DeleteFile
  <2> QED BY <2>2, OperateInv
<1>2. CASE EnableFPolicy
  BY <1>2, EnableFPolicyInv
<1>3. CASE \E e \in events : SyncEvent(e)
  BY <1>3, SyncEventInv
<1>4. CASE ScanNext /\ UNCHANGED <<workflowVars, live, events, ops, consumers, missed>>
  BY <1>4, ListInv, WriteBatchInv DEF ScanNext
<1>5. CASE WorkflowNext /\ UNCHANGED <<volumeVars, scanVars, live, events, ops, consumers, missed>>
  BY <1>5, WorkflowNextInv DEF Beside
<1>6. CASE DemoFetch
  BY <1>6, DemoFetchInv
<1>7. CASE \E id \in demo : DemoWrite(id)
  BY <1>7, DemoWriteInv
<1>8. CASE SyncEmbeddings
  BY <1>8, SyncEmbeddingsInv
<1>9. CASE UNCHANGED vars
  <2>1. /\ UNCHANGED <<workflowVars, table, clock, volumeVars, scanVars>>
        /\ UNCHANGED <<live, events, ops, consumers, missed>>
    BY <1>9 DEF vars
  <2>2. TypeOK'
    BY <2>1 DEF CatalogueInv, TypeOK, TableTypeOK, WorkflowTypeOK, ScanTypeOK,
                workflowVars, volumeVars, scanVars, consumers
  <2>3. UNCHANGED <<workflowVars, table, clock, mtime, events, index>> /\ records' = records
    BY <2>1 DEF volumeVars, scanVars, consumers
  <2> QED BY <2>2, <2>3, Quiet
<1> QED BY <1>1, <1>2, <1>3, <1>4, <1>5, <1>6, <1>7, <1>8, <1>9 DEF Next

(* The invariant holds of the catalogue.                                   *)
THEOREM AlwaysCatalogueInv == Spec => []CatalogueInv
<1>1. Init => CatalogueInv
  BY InitInv
<1>2. CatalogueInv /\ [Next]_vars => CatalogueInv'
  BY NextInv
<1> QED BY <1>1, <1>2, PTL DEF Spec

(* Every variable keeps its type, the rows of the table among them.        *)
THEOREM CatalogueTypeOK == Spec => []TypeOK
<1>1. CatalogueInv => TypeOK
  BY DEF CatalogueInv
<1> QED BY <1>1, AlwaysCatalogueInv, PTL

(* An execution that has fetched a file never succeeds: the table accepts  *)
(* no result of update-metadata (update-metadata/handler.py:121-151).      *)
THEOREM NoSuccessWithFiles == Spec => []SucceedsOnlyWithoutFiles
<1>1. CatalogueInv => SucceedsOnlyWithoutFiles
  BY DEF CatalogueInv, ItemsInv, ExecutionOK, SucceedsOnlyWithoutFiles
<1> QED BY <1>1, AlwaysCatalogueInv, PTL

(* An execution fails only because its query failed three times, an item   *)
(* had nothing for the detection, or a write used up its attempts.         *)
THEOREM FailureHasCause == Spec => []FailsOnlyForACause
<1>1. CatalogueInv => FailsOnlyForACause
  BY DEF CatalogueInv, ItemsInv, ExecutionOK, Cause, FailsOnlyForACause
<1> QED BY <1>1, AlwaysCatalogueInv, PTL

-----------------------------------------------------------------------------
(* The order of the rows.                                                  *)

(* A bounded set of numbers has a greatest one.                             *)
LEMMA Greatest ==
  ASSUME NEW n \in Nat, NEW S \in SUBSET (0 .. n), S # {}
  PROVE  \E x \in S : \A y \in S : y <= x
<1> DEFINE T == {n - x : x \in S}
<1>1. T \subseteq Nat /\ T # {}
  <2>1. \A x \in S : n - x \in Nat
    OBVIOUS
  <2>2. PICK x \in S : TRUE
    OBVIOUS
  <2>3. n - x \in T
    OBVIOUS
  <2> QED BY <2>1, <2>3
<1> HIDE DEF T
<1>2. PICK t \in T : \A u \in T : ~(<<u, t>> \in OpToRel(<, Nat))
  BY <1>1, WFMin, NatLessThanWellFounded
<1>3. \A u \in T : ~(u < t)
  BY <1>1, <1>2 DEF OpToRel
<1>4. PICK x \in S : t = n - x
  BY DEF T
<1>5. ASSUME NEW y \in S PROVE y <= x
  <2>1. n - y \in T
    BY DEF T
  <2>2. ~(n - y < n - x)
    BY <1>3, <1>4, <2>1
  <2>3. x \in Int /\ y \in Int /\ n \in Int
    OBVIOUS
  <2> QED BY <2>2, <2>3
<1> QED BY <1>5

(* Some row of a file that has one ranks first.                            *)
LEMMA SomeRowFirst ==
  ASSUME CatalogueInv, NEW f, Versions(table, f) # {}
  PROVE  MayRankFirst(table, f) # {}
<1>1. clock \in Nat /\ \A r \in table : /\ r.modified \in Nat /\ r.modified <= clock
                                        /\ r.modified > 0 /\ r.enriched \in {0, r.modified}
  BY Stamps, StampTypes DEF CatalogueInv, TableInv, RowOK, Null
<1> DEFINE V == Versions(table, f)
           S == {r.modified : r \in V}
<1>2. V \subseteq table /\ \A r \in V : r.modified \in 0 .. clock
  BY <1>1 DEF Versions
<1>3. S \in SUBSET (0 .. clock) /\ S # {}
  BY <1>2
<1>4. PICK m \in S : \A y \in S : y <= m
  <2> HIDE DEF S
  <2> QED BY <1>1, <1>3, Greatest
<1>5. PICK t \in V : t.modified = m
  OBVIOUS
<1>6. m > 0 /\ m \in Nat /\ \A r \in V : r.modified <= m
  BY <1>1, <1>2, <1>4, <1>5
<1>7. CASE \E r \in V : r.modified = m /\ r.enriched = m
  <2>1. PICK r \in V : r.modified = m /\ r.enriched = m
    BY <1>7
  <2>2. \A s \in V : ~RanksAbove(s, r)
    BY <1>1, <1>2, <1>6, <2>1 DEF RanksAbove
  <2> QED BY <2>2 DEF MayRankFirst
<1>8. CASE ~\E r \in V : r.modified = m /\ r.enriched = m
  <2>1. \A s \in V : s.modified = m => s.enriched = 0
    BY <1>1, <1>2, <1>6, <1>8
  <2>2. \A s \in V : ~RanksAbove(s, t)
    BY <1>2, <1>5, <1>6, <2>1 DEF RanksAbove
  <2> QED BY <2>2 DEF MayRankFirst
<1> QED BY <1>7, <1>8

(* What the search finds and the view hides was deleted after it was       *)
(* enriched (sync-embeddings.py:163-204, latest_records.sql:9-21): a row   *)
(* that says so ranks first, and an enriched row of the same date would    *)
(* rank above it.                                                          *)
THEOREM HiddenHitsAreDeletions == Spec => []SearchOutlivesOnlyDeletions
<1>1. CatalogueInv => SearchOutlivesOnlyDeletions
  <2> SUFFICES ASSUME CatalogueInv, NEW id \in index, Hides(table, id)
               PROVE  \E r, d \in Versions(table, id) :
                        r.vector /\ d.deleted = "yes" /\ d.modified > r.enriched
    BY DEF SearchOutlivesOnlyDeletions
  <2>1. PICK r \in Versions(table, id) : r.vector
    BY DEF CatalogueInv, IndexInv, Versions
  <2>2. PICK d \in MayRankFirst(table, id) : TRUE
    BY <2>1, SomeRowFirst
  <2>3. d \in Versions(table, id) /\ ~RanksAbove(r, d)
    BY <2>1, <2>2 DEF MayRankFirst
  <2>4. /\ r \in table /\ d \in table /\ RowOK(r) /\ RowOK(d)
        /\ r.modified \in Nat /\ d.modified \in Nat /\ r.enriched \in Nat /\ d.enriched \in Nat
        /\ d.deleted \in {"yes", "no"}
    BY <2>1, <2>3, StampTypes DEF Versions, CatalogueInv, TableInv, TypeOK, TableTypeOK, CatalogRow
  <2>5. d.deleted = "yes"
    BY <2>2, <2>4 DEF Hides, ViewRows
  <2>6. r.enriched = r.modified /\ r.enriched > 0 /\ d.enriched = 0
    BY <2>1, <2>4, <2>5 DEF RowOK, Null
  <2>7. d.modified > r.enriched
    BY <2>3, <2>4, <2>6 DEF RanksAbove
  <2> QED BY <2>1, <2>3, <2>5, <2>7
<1> QED BY <1>1, AlwaysCatalogueInv, PTL

-----------------------------------------------------------------------------
(* The view and the volume.  What decides about a file is what the table   *)
(* says of it or will say: its rows, the events on their way and the       *)
(* records of the scan.                                                    *)

(* One name per file: the keys of the access point are the paths.          *)
OneName == \A f \in Files : ScannedAs[f] = f

Coming(f) == {EventRow(e) : e \in {d \in events : d.file = f}}
Built(f)  == {ScanRow(r) : r \in {d \in records : d.file = f}}

Claims(f) == Versions(table, f) \cup Coming(f) \cup Built(f)

(* No claim of an existing file since its last change denies it, and once  *)
(* the listing passed the file there is one; a deleted file has no claim   *)
(* at all, or one that says so, and only the demonstration script claims   *)
(* otherwise afterwards.                                                   *)
Agrees(f) ==
  IF f \in existing
  THEN /\ \A c \in Claims(f) : c.modified >= mtime[f] => c.deleted = "no"
       /\ f \in passed => \E c \in Claims(f) : c.modified >= mtime[f]
  ELSE /\ Claims(f) = {} \/ \E c \in Claims(f) : c.deleted = "yes" /\ c.modified = mtime[f]
       /\ \A c \in Claims(f) :
            c.deleted = "no" /\ c.modified >= mtime[f] => c.modified = c.enriched

(* Nobody has claimed anything of a file that neither the events nor the   *)
(* listing have reached.                                                   *)
ClaimsOK(f) ==
  /\ ~live /\ f \notin passed => Claims(f) = {}
  /\ f \notin missed => Agrees(f)

ViewInv ==
  /\ IsFiniteSet(records)
  /\ scan = "done" => records = {}
  /\ \A id \in demo : Versions(table, id) # {}
  /\ \A f \in Files : ClaimsOK(f)

(* The fields of the rows that are appended.                                *)
LEMMA RowFields ==
  /\ \A id, time, status, deleted :
       LET r == FileRow(id, time, status, deleted)
       IN  /\ r.file = id /\ r.modified = time /\ r.enriched = Null
           /\ r.status = status /\ r.deleted = deleted
  /\ \A id : /\ DemoRow(id).file = id /\ DemoRow(id).modified = Now
             /\ DemoRow(id).enriched = Now /\ DemoRow(id).deleted = "no"
             /\ DemoRow(id).status = "completed"
  /\ \A e : /\ EventRow(e).file = e.file /\ EventRow(e).modified = e.time
            /\ EventRow(e).enriched = Null
            /\ EventRow(e).deleted = IF e.op = "delete" THEN "yes" ELSE "no"
BY DEF FileRow, DemoRow, EventRow

(* A record of the scan is a claim of its file.                             *)
LEMMA ScanRowFields ==
  ASSUME OneName, NEW r, r.file \in Files
  PROVE  /\ ScanRow(r).file = r.file /\ ScanRow(r).modified = r.time
         /\ ScanRow(r).enriched = Null /\ ScanRow(r).deleted = "no"
BY DEF OneName, ScanRow, FileRow

(* The stamps of a claim.                                                   *)
LEMMA ClaimFields ==
  ASSUME OneName, CatalogueInv, NEW f \in Files, NEW c \in Claims(f)
  PROVE  c.modified \in Nat /\ c.modified > 0 /\ c.modified <= clock
<1>1. TypeOK /\ TableInv
  BY DEF CatalogueInv
<1>2. CASE c \in Versions(table, f)
  BY <1>1, <1>2, StampTypes DEF Versions, TableInv, RowOK
<1>3. CASE c \in Coming(f)
  <2>1. PICK e \in events : c = EventRow(e)
    BY <1>3 DEF Coming
  <2> QED BY <1>1, <2>1, StampTypes, RowFields DEF TableInv
<1>4. CASE c \in Built(f)
  <2>1. PICK r \in records : c = ScanRow(r) /\ r.file = f
    BY <1>4 DEF Built
  <2> QED BY <1>1, <2>1, StampTypes, ScanRowFields DEF TableInv
<1> QED BY <1>2, <1>3, <1>4 DEF Claims

(* At first nothing is claimed and nothing passed.                          *)
LEMMA ViewInitInv == Init => ViewInv
<1> SUFFICES ASSUME Init PROVE ViewInv
  OBVIOUS
<1> USE DEF Init, TableInit, ScanInit
<1>1. \A f \in Files : Claims(f) = {}
  BY DEF Claims, Versions, Coming, Built
<1>2. \A f \in Files : ClaimsOK(f)
  BY <1>1 DEF ClaimsOK, Agrees
<1> QED BY <1>2, FS_EmptySet DEF ViewInv

(* What makes the claims of a file say the same of it after a step.         *)
LEMMA ClaimsKept ==
  ASSUME NEW f \in Files, ClaimsOK(f), Claims(f)' = Claims(f),
         f \in existing' <=> f \in existing, mtime'[f] = mtime[f],
         f \in passed' => f \in passed \/ f \notin existing,
         passed \subseteq passed', live => live', missed \subseteq missed'
  PROVE  ClaimsOK(f)'
<1>1. ~live' /\ f \notin passed' => Claims(f)' = {}
  BY DEF ClaimsOK
<1>2. ASSUME f \notin missed' PROVE Agrees(f)'
  <2>1. Agrees(f)
    BY <1>2 DEF ClaimsOK
  <2>2. CASE f \in existing
    BY <2>1, <2>2 DEF Agrees
  <2>3. CASE f \notin existing
    BY <2>1, <2>3 DEF Agrees
  <2> QED BY <2>2, <2>3
<1> QED BY <1>1, <1>2 DEF ClaimsOK

(* A file changes: the event is the claim that counts, or there will be a   *)
(* listing, or the change is one that nobody sees.                         *)
LEMMA OperateView ==
  ASSUME OneName, CatalogueInv, ViewInv, NEW f \in Files,
         NEW op \in {"create", "write", "delete"}, Operate(f, op)
  PROVE  ViewInv'
<1> DEFINE new == [file |-> f, time |-> Now, op |-> op]
<1>1. /\ UNCHANGED <<table, scan, passed, records, live, demo>>
      /\ clock' = clock + 1 /\ mtime' = [mtime EXCEPT ![f] = Now]
      /\ existing' = IF op = "delete" THEN existing \ {f} ELSE existing \cup {f}
      /\ events' = IF live THEN events \cup {new} ELSE events
      /\ missed' = IF Unseen(f) THEN missed \cup {f} ELSE missed
  BY DEF Operate, Tick, scanVars, consumers
<1>2. new.file = f /\ new.time = Now /\ new.op = op
  OBVIOUS
<1>3. TypeOK /\ clock \in Nat /\ Now = clock + 1
  BY Stamps DEF CatalogueInv
<1>4. mtime'[f] = Now /\ \A g \in Files \ {f} : mtime'[g] = mtime[g]
  BY <1>1, <1>3 DEF TypeOK, ScanTypeOK
<1> HIDE DEF new
<1>6. \A id : Versions(table, id)' = Versions(table, id) /\ Built(id)' = Built(id)
  BY <1>1 DEF Versions, Built, ScanRow, FileRow
<1>7. ASSUME NEW g \in Files, g # f PROVE ClaimsOK(g)'
  <2>1. {d \in events' : d.file = g} = {d \in events : d.file = g}
    BY <1>1, <1>2, <1>7
  <2>2. Coming(g)' = Coming(g)
    BY <2>1 DEF Coming, EventRow, FileRow
  <2>3. Claims(g)' = Claims(g)
    BY <1>6, <2>2 DEF Claims
  <2>4. g \in existing' <=> g \in existing
    BY <1>1, <1>7
  <2> QED BY <1>1, <1>4, <1>7, <2>3, <2>4, ClaimsKept DEF ViewInv
<1>8. ClaimsOK(f)'
  <2>1. CASE ~live
    <3>1. Coming(f)' = Coming(f)
      BY <1>1, <2>1 DEF Coming, EventRow, FileRow
    <3>2. Claims(f)' = Claims(f)
      BY <1>6, <3>1 DEF Claims
    <3>3. f \notin passed => Claims(f)' = {}
      BY <2>1, <3>2 DEF ViewInv, ClaimsOK
    <3>4. f \in passed => f \in missed'
      BY <1>1, <2>1 DEF Unseen
    <3>5. f \notin passed => Agrees(f)'
      BY <1>1, <3>3 DEF Agrees
    <3> QED BY <1>1, <3>3, <3>4, <3>5 DEF ClaimsOK
  <2>2. CASE live
    <3>1. {d \in events' : d.file = f} = {d \in events : d.file = f} \cup {new}
      BY <1>1, <1>2, <2>2
    <3>2. Coming(f)' = Coming(f) \cup {EventRow(new)}
      BY <3>1 DEF Coming, EventRow, FileRow
    <3>3. Claims(f)' = Claims(f) \cup {EventRow(new)}
      BY <1>6, <3>2 DEF Claims
    <3>4. \A c \in Claims(f) : ~(c.modified >= Now)
      BY <1>3, ClaimFields
    <3>5. /\ EventRow(new).modified = Now
          /\ EventRow(new).deleted = IF op = "delete" THEN "yes" ELSE "no"
      BY <1>2, RowFields
    <3>6. f \in existing' <=> op # "delete"
      BY <1>1
    <3>7. Agrees(f)'
      <4>1. CASE op = "delete"
        BY <4>1, <1>3, <1>4, <3>3, <3>4, <3>5, <3>6 DEF Agrees
      <4>2. CASE op # "delete"
        BY <4>2, <1>3, <1>4, <3>3, <3>4, <3>5, <3>6 DEF Agrees
      <4> QED BY <4>1, <4>2
    <3> QED BY <1>1, <2>2, <3>7 DEF ClaimsOK
  <2> QED BY <2>1, <2>2
<1>9. \A g \in Files : ClaimsOK(g)'
  BY <1>7, <1>8
<1> QED BY <1>1, <1>6, <1>9 DEF ViewInv

(* Steps that neither append, nor list, nor touch a file.                   *)
LEMMA QuietView ==
  ASSUME ViewInv,
         UNCHANGED <<table, existing, mtime, passed, records, events, missed>>,
         live => live', scan' = "done" => records = {},
         \A id \in demo' : Versions(table, id) # {}
  PROVE  ViewInv'
<1>1. \A id : Claims(id)' = Claims(id)
  BY DEF Claims, Versions, Coming, Built, EventRow, ScanRow, FileRow
<1>2. ASSUME NEW f \in Files PROVE ClaimsOK(f)'
  BY <1>1, ClaimsKept DEF ViewInv
<1> QED BY <1>2 DEF ViewInv, Versions

(* A step that appends and leaves the files and the listing alone.          *)
LEMMA AppendView ==
  ASSUME ViewInv, UNCHANGED <<existing, mtime, passed, live, missed>>,
         table \subseteq table', demo' \subseteq demo, records' \subseteq records,
         scan' = "done" => records' = {},
         \A f \in Files : Claims(f)' = Claims(f)
  PROVE  ViewInv'
<1>1. \A id \in demo' : Versions(table, id)' # {}
  BY DEF ViewInv, Versions
<1>2. ASSUME NEW f \in Files PROVE ClaimsOK(f)'
  BY ClaimsKept DEF ViewInv
<1>3. IsFiniteSet(records')
  BY FS_Subset DEF ViewInv
<1> QED BY <1>1, <1>2, <1>3 DEF ViewInv

(* An event that arrives claims what it claimed on its way.                 *)
LEMMA SyncEventView ==
  ASSUME OneName, CatalogueInv, ViewInv, NEW e \in events, SyncEvent(e)
  PROVE  ViewInv'
<1>1. /\ events' = events \ {e} /\ table' = table \cup {EventRow(e)}
      /\ UNCHANGED <<clock, existing, mtime, scan, passed, records, live, demo, missed>>
  BY DEF SyncEvent, AppendRows, volumeVars, scanVars, consumers
<1>4. ASSUME NEW f \in Files PROVE Claims(f)' = Claims(f)
  <2>1. Built(f)' = Built(f)
    BY <1>1 DEF Built, ScanRow, FileRow
  <2>2. CASE f = e.file
    <3>1. Versions(table, f)' = Versions(table, f) \cup {EventRow(e)}
      BY <1>1, <2>2, RowFields DEF Versions
    <3>2. Coming(f) = Coming(f)' \cup {EventRow(e)}
      BY <1>1, <2>2 DEF Coming, EventRow, FileRow
    <3> QED BY <2>1, <3>1, <3>2 DEF Claims
  <2>3. CASE f # e.file
    <3>1. Versions(table, f)' = Versions(table, f)
      BY <1>1, <2>3, RowFields DEF Versions
    <3>2. {d \in events' : d.file = f} = {d \in events : d.file = f}
      BY <1>1, <2>3
    <3>3. Coming(f)' = Coming(f)
      BY <3>2 DEF Coming, EventRow, FileRow
    <3> QED BY <2>1, <3>1, <3>3 DEF Claims
  <2> QED BY <2>2, <2>3
<1> QED BY <1>1, <1>4, AppendView DEF ViewInv

(* A batch of the scan claims what its records claimed.                     *)
LEMMA WriteBatchView ==
  ASSUME OneName, CatalogueInv, ViewInv, WriteBatch,
         UNCHANGED <<workflowVars, live, events, ops, consumers, missed>>
  PROVE  ViewInv'
<1>1. PICK b \in SUBSET records :
        /\ table' = table \cup {ScanRow(r) : r \in b}
        /\ records' = records \ b
        /\ scan' = IF b = records THEN "done" ELSE "write"
  BY DEF WriteBatch, NextBatches, AppendRows
<1>2. UNCHANGED <<clock, existing, mtime, passed, live, events, demo, missed>>
  BY DEF WriteBatch, volumeVars, consumers
<1>3. \A r \in records : r.file \in Files /\ ScanRow(r).file = r.file
  BY StampTypes, ScanRowFields DEF CatalogueInv
<1>6. ASSUME NEW f \in Files PROVE Claims(f)' = Claims(f)
  <2>1. Coming(f)' = Coming(f)
    BY <1>2 DEF Coming, EventRow, FileRow
  <2>2. \A c : c \in Versions(table, f)' <=>
          c \in Versions(table, f) \/ \E r \in b : r.file = f /\ c = ScanRow(r)
    BY <1>1, <1>3 DEF Versions
  <2>3. \A c : c \in Built(f)' <=> \E r \in records \ b : r.file = f /\ c = ScanRow(r)
    BY <1>1 DEF Built, ScanRow, FileRow
  <2>4. \A c : c \in Built(f) <=> \E r \in records : r.file = f /\ c = ScanRow(r)
    BY DEF Built
  <2> QED BY <2>1, <2>2, <2>3, <2>4 DEF Claims
<1> QED BY <1>1, <1>2, <1>6, AppendView

(* A page takes the first keys: what lies behind it is listed.              *)
LEMMA PageTakesFirst ==
  ASSUME IsFiniteSet(Files), TypeOK, IsFiniteSet(records), NEW f \in Left, f \in Behind
  PROVE  f \in Page
<1>1. CASE ~Truncated
  BY <1>1 DEF Truncated
<1>2. CASE Truncated
  <2> DEFINE room == MaxFiles - Listed
             n == IF room < PageSize THEN room ELSE PageSize
             Before(h) == {k \in Left : Order[k] < Order[h]}
  <2>1. n \in Int
    <3>1. Listed \in Nat
      BY FS_CardinalityType DEF Listed
    <3> QED BY <3>1, ScanAssumption
  <2>2. PICK g \in Page : f \in Files /\ Order[f] <= Order[g]
    BY <1>2 DEF Behind
  <2>3. g \in Left /\ Cardinality(Before(g)) < n
    BY <2>2 DEF Page
  <2>4. Left \subseteq Files
    BY DEF Left, TypeOK, ScanTypeOK
  <2>5. \A h \in Files : Order[h] \in Nat
    BY ScanAssumption
  <2>6. Before(f) \in SUBSET Before(g) /\ Before(g) \in SUBSET Files
    BY <2>2, <2>3, <2>4, <2>5
  <2>7. IsFiniteSet(Before(g))
    BY <2>6, FS_Subset
  <2>8. IsFiniteSet(Before(f)) /\ Cardinality(Before(f)) <= Cardinality(Before(g))
    BY <2>6, <2>7, FS_Subset
  <2>9. Cardinality(Before(f)) \in Nat /\ Cardinality(Before(g)) \in Nat
    BY <2>7, <2>8, FS_CardinalityType
  <2>10. Cardinality(Before(f)) < n
    BY <2>1, <2>3, <2>8, <2>9
  <2> QED BY <2>10 DEF Page
<1> QED BY <1>1, <1>2

(* A page claims of its files that they exist, as of their last change;     *)
(* what else the listing passes does not exist.                            *)
LEMMA ListPageView ==
  ASSUME OneName, IsFiniteSet(Files), CatalogueInv, ViewInv, ListPage,
         UNCHANGED <<workflowVars, live, events, ops, consumers, missed>>
  PROVE  ViewInv'
<1> DEFINE Rec(g) == [file |-> g, time |-> mtime[g]]
<1>1. /\ UNCHANGED <<table, clock, existing, mtime, live, events, demo, missed>>
      /\ records' = records \cup {Rec(g) : g \in Page}
      /\ passed' = passed \cup Behind
      /\ scan' = "done" => records' = {}
  BY DEF ListPage, volumeVars, consumers
<1>2. Page \subseteq Left /\ Left = existing \ passed /\ existing \subseteq Files
  BY DEF Page, Left, CatalogueInv, TypeOK, ScanTypeOK
<1>3. Page \subseteq Behind
  BY <1>2, ScanAssumption DEF Behind
<1>4. \A g \in Files : /\ mtime[g] \in Nat
                       /\ ScanRow(Rec(g)).modified = mtime[g]
                       /\ ScanRow(Rec(g)).deleted = "no"
  BY StampTypes, ScanRowFields DEF CatalogueInv
<1>6. IsFiniteSet(records')
  <2>1. IsFiniteSet(Page)
    BY <1>2, FS_Subset
  <2> DEFINE R == {Rec(g) : g \in Page}
             h == [g \in Page |-> Rec(g)]
  <2>2. h \in Surjection(Page, R)
    BY DEF Surjection
  <2> HIDE DEF R, h
  <2>3. IsFiniteSet(R)
    BY <2>1, <2>2, FS_Surjection
  <2> QED BY <1>1, <2>3, FS_Union DEF ViewInv, R
<1>7. \A id : Versions(table, id)' = Versions(table, id) /\ Coming(id)' = Coming(id)
  BY <1>1 DEF Versions, Coming, EventRow, FileRow
<1>8. ASSUME NEW f \in Files PROVE ClaimsOK(f)'
  <2>1. CASE f \in Page
    <3>1. {d \in records' : d.file = f} = {d \in records : d.file = f} \cup {Rec(f)}
      BY <1>1, <2>1
    <3>2. Built(f)' = Built(f) \cup {ScanRow(Rec(f))}
      BY <3>1 DEF Built, ScanRow, FileRow
    <3>3. Claims(f)' = Claims(f) \cup {ScanRow(Rec(f))}
      BY <1>7, <3>2 DEF Claims
    <3>4. f \in passed' /\ f \in existing
      BY <1>1, <1>2, <1>3, <2>1
    <3>5. ScanRow(Rec(f)).modified = mtime[f] /\ ScanRow(Rec(f)).deleted = "no"
      BY <1>4
    <3> HIDE DEF Rec
    <3>6. f \notin missed => Agrees(f)'
      BY <1>1, <1>4, <3>3, <3>4, <3>5 DEF ViewInv, ClaimsOK, Agrees
    <3> QED BY <1>1, <3>4, <3>6 DEF ClaimsOK
  <2>2. CASE f \notin Page
    <3>1. {d \in records' : d.file = f} = {d \in records : d.file = f}
      BY <1>1, <2>2
    <3>2. Built(f)' = Built(f)
      BY <3>1 DEF Built, ScanRow, FileRow
    <3>3. Claims(f)' = Claims(f)
      BY <1>7, <3>2 DEF Claims
    <3>4. f \in passed' => f \in passed \/ f \notin existing
      BY <1>1, <1>2, <2>2, PageTakesFirst DEF CatalogueInv, ViewInv
    <3>5. ClaimsOK(f) /\ passed \subseteq passed'
      BY <1>1 DEF ViewInv
    <3> HIDE DEF Rec
    <3> QED BY <1>1, <3>3, <3>4, <3>5, ClaimsKept
  <2> QED BY <2>1, <2>2
<1> QED BY <1>1, <1>6, <1>7, <1>8 DEF ViewInv

(* The demonstration script claims that a file exists whose row it read.    *)
LEMMA DemoWriteView ==
  ASSUME OneName, CatalogueInv, ViewInv, NEW id \in demo, DemoWrite(id)
  PROVE  ViewInv'
<1>1. /\ UNCHANGED <<existing, mtime, scan, passed, records, live, events, missed>>
      /\ demo' = demo \ {id}
      /\ \/ table' = table \cup {DemoRow(id)} /\ clock' = clock + 1
         \/ UNCHANGED <<table, clock>>
  BY DEF DemoWrite, volumeVars, scanVars, AppendRows, Tick
<1>2. CASE UNCHANGED <<table, clock>>
  BY <1>1, <1>2, QuietView DEF ViewInv
<1>3. CASE table' = table \cup {DemoRow(id)} /\ clock' = clock + 1
  <2>4. \A f : /\ Coming(f)' = Coming(f) /\ Built(f)' = Built(f)
               /\ Versions(table, f) \subseteq Versions(table, f)'
    BY <1>1, <1>3 DEF Coming, Built, Versions, EventRow, ScanRow, FileRow
  <2>5. ASSUME NEW f \in Files, f # id PROVE ClaimsOK(f)'
    <3>1. Versions(table, f)' = Versions(table, f)
      BY <1>3, <2>5, RowFields DEF Versions
    <3>2. Claims(f)' = Claims(f)
      BY <2>4, <3>1 DEF Claims
    <3> QED BY <1>1, <3>2, ClaimsKept DEF ViewInv
  <2>6. ASSUME NEW f \in Files, f = id PROVE ClaimsOK(f)'
    <3>1. Versions(table, f)' = Versions(table, f) \cup {DemoRow(f)}
      BY <1>3, <2>6, RowFields DEF Versions
    <3>2. Claims(f)' = Claims(f) \cup {DemoRow(f)}
      BY <2>4, <3>1 DEF Claims
    <3>3. Claims(f) # {}
      BY <2>6 DEF ViewInv, Claims
    <3>4. live \/ f \in passed
      BY <3>3 DEF ViewInv, ClaimsOK
    <3>5. DemoRow(f).deleted = "no" /\ DemoRow(f).modified = DemoRow(f).enriched
      BY RowFields
    <3>6. f \notin missed => Agrees(f)'
      BY <1>1, <3>2, <3>3, <3>5 DEF ViewInv, ClaimsOK, Agrees
    <3> QED BY <1>1, <3>4, <3>6 DEF ClaimsOK
  <2>7. \A i \in demo' : Versions(table, i)' # {}
    BY <1>1, <2>4 DEF ViewInv
  <2> QED BY <1>1, <2>5, <2>6, <2>7 DEF ViewInv
<1> QED BY <1>1, <1>2, <1>3

(* The second invariant is inductive, given the first.                      *)
LEMMA ViewNextInv ==
  ASSUME OneName, IsFiniteSet(Files), CatalogueInv, ViewInv, [Next]_vars
  PROVE  ViewInv'
<1>1. CASE \E f \in Files : CreateFile(f) \/ WriteFile(f) \/ DeleteFile(f)
  <2>1. PICK f \in Files : CreateFile(f) \/ WriteFile(f) \/ DeleteFile(f)
    BY <1>1
  <2>2. Operate(f, "create") \/ Operate(f, "write") \/ Operate(f, "delete")
    BY <2>1 DEF CreateFile, WriteFile, DeleteFile
  <2> QED BY <2>2, OperateView
<1>2. CASE EnableFPolicy
  BY <1>2, QuietView DEF EnableFPolicy, volumeVars, scanVars, consumers, ViewInv
<1>3. CASE \E e \in events : SyncEvent(e)
  BY <1>3, SyncEventView
<1>4. CASE ScanNext /\ UNCHANGED <<workflowVars, live, events, ops, consumers, missed>>
  <2>1. CASE StartScan \/ ListFails \/ WriteFails
    BY <1>4, <2>1, QuietView
       DEF StartScan, ListFails, WriteFails, volumeVars, consumers, ViewInv
  <2> QED BY <1>4, <2>1, ListPageView, WriteBatchView DEF ScanNext
<1>5. CASE WorkflowNext /\ UNCHANGED <<volumeVars, scanVars, live, events, ops, consumers, missed>>
  BY <1>5, WorkflowReads, QuietView DEF volumeVars, scanVars, consumers, ViewInv
<1>6. CASE DemoFetch
  <2>1. \A id \in demo' : \E r \in PendingRows : r.file = id
    BY <1>6 DEF DemoFetch
  <2>2. \A id \in demo' : Versions(table, id) # {}
    BY <2>1 DEF PendingRows, Versions
  <2> QED BY <1>6, <2>2, QuietView DEF DemoFetch, volumeVars, scanVars, ViewInv
<1>7. CASE \E id \in demo : DemoWrite(id)
  BY <1>7, DemoWriteView
<1>8. CASE SyncEmbeddings
  BY <1>8, QuietView DEF SyncEmbeddings, volumeVars, scanVars, ViewInv
<1>9. CASE UNCHANGED vars
  BY <1>9, QuietView DEF vars, volumeVars, scanVars, consumers, ViewInv
<1> QED BY <1>1, <1>2, <1>3, <1>4, <1>5, <1>6, <1>7, <1>8, <1>9 DEF Next

(* When all claims have arrived, the row that ranks first is one since the  *)
(* last change of the file.                                                *)
LEMMA ViewFollows ==
  ASSUME OneName, CatalogueInv, ViewInv
  PROVE  ViewCatchesUp
<1> SUFFICES ASSUME scan = "done", events = {}, NEW f \in passed \ missed
             PROVE  IF f \in existing THEN Shown(f) ELSE Hidden(f) \/ RevivedByDemo(f)
  BY DEF ViewCatchesUp
<1>1. f \in Files /\ IdsOf(f) = {f}
  BY DEF CatalogueInv, TypeOK, ScanTypeOK, OneName, IdsOf
<1>2. Claims(f) = Versions(table, f)
  BY DEF Claims, Coming, Built, ViewInv
<1>3. Agrees(f)
  BY <1>1 DEF ViewInv, ClaimsOK
<1>4. mtime[f] \in Nat /\ \A r \in Versions(table, f) : r.modified \in Nat
  BY <1>1, StampTypes DEF Versions, CatalogueInv
<1>5. CASE f \in existing
  <2>1. PICK c \in Versions(table, f) : c.modified >= mtime[f]
    BY <1>2, <1>3, <1>5 DEF Agrees
  <2>2. ASSUME NEW r \in MayRankFirst(table, f) PROVE r.deleted = "no"
    <3>1. r \in Versions(table, f) /\ ~RanksAbove(c, r)
      BY DEF MayRankFirst
    <3>2. r.modified >= mtime[f]
      BY <3>1, <2>1, <1>4 DEF RanksAbove
    <3> QED BY <3>1, <3>2, <1>2, <1>3, <1>5 DEF Agrees
  <2>3. MayRankFirst(table, f) # {}
    BY <2>1, SomeRowFirst
  <2> QED BY <2>2, <2>3, <1>1, <1>5 DEF Shown, Shows, ViewRows
<1>6. CASE f \notin existing
  <2> SUFFICES ASSUME NEW r \in ViewRows(table, f) PROVE RevivedByDemo(f)
    BY <1>1, <1>6 DEF Hidden, Hides
  <2>1. r \in Versions(table, f) /\ r \in MayRankFirst(table, f) /\ r.deleted = "no"
    BY DEF ViewRows, MayRankFirst
  <2>2. PICK d \in Versions(table, f) : d.modified = mtime[f]
    BY <2>1, <1>2, <1>3, <1>6 DEF Agrees
  <2>3. ~RanksAbove(d, r)
    BY <2>1 DEF MayRankFirst
  <2>4. r.modified >= mtime[f]
    BY <2>1, <2>2, <2>3, <1>4 DEF RanksAbove
  <2>5. r.modified = r.enriched
    BY <2>1, <2>4, <1>2, <1>3, <1>6 DEF Agrees
  <2> QED BY <2>5, <1>1 DEF RevivedByDemo
<1> QED BY <1>5, <1>6

(* If the keys of the access point are the paths of the events, then once  *)
(* the scan is through and every event has arrived, the view agrees with   *)
(* the volume about every file that the listing covered, however the scan, *)
(* the live events and the demonstration interleaved; but for changes that *)
(* nobody saw and for deleted files that the demonstration brings back     *)
(* (initial-metadata-scan.py:274-400).                                     *)
THEOREM ViewDoesCatchUp ==
  ASSUME \A f \in Files : ScannedAs[f] = f, IsFiniteSet(Files)
  PROVE  Spec => []ViewCatchesUp
<1>1. OneName
  BY DEF OneName
<1>2. Init => ViewInv
  BY ViewInitInv
<1>3. CatalogueInv /\ ViewInv /\ [Next]_vars => ViewInv'
  BY <1>1, ViewNextInv
<1>4. CatalogueInv /\ ViewInv => ViewCatchesUp
  BY <1>1, ViewFollows
<1> QED BY <1>2, <1>3, <1>4, AlwaysCatalogueInv, PTL DEF Spec
================================================================================
