------------------------------ MODULE Catalogue ------------------------------
(***************************************************************************)
(* The metadata catalogue as a whole: everything that appends to the table *)
(* and everything that reads it.  Files are created, written and deleted;  *)
(* once FPolicy is enabled their events reach the table, some time later   *)
(* and in any order (module MetadataSync has the details); the initial     *)
(* scan and the demonstration script append their own rows; the enrichment *)
(* workflow reads the table and tries to; the embedding sync copies rows   *)
(* to the search index; users read the view of the latest records.         *)
(***************************************************************************)
EXTENDS EnrichmentWorkflow, InitialScan

CONSTANTS
  MaxOps,      \* bound on file operations
  MaxDemos,    \* --max-files of the demonstration script
  Embeddings   \* whether its calls of the embedding model succeed

ASSUME CatalogueAssumption ==
  /\ MaxOps \in Nat
  /\ MaxDemos \in Nat
  /\ Embeddings \in BOOLEAN

VARIABLES
  live,        \* FPolicy is enabled
  events,      \* file events on their way to the table
  ops,
  demo,        \* what demo-enrich.py has fetched and not written yet
  demoRuns,    \* whether it has run
  index,       \* the documents of the search index
  missed       \* history: files that changed while nobody would see it

consumers == <<demo, demoRuns, index>>
vars == <<workflowVars, table, clock, volumeVars, scanVars, live, events, ops,
          consumers, missed>>

FileEvent == [file : Files, time : Nat, op : {"create", "write", "delete"}]

TypeOK ==
  /\ TableTypeOK
  /\ WorkflowTypeOK
  /\ ScanTypeOK
  /\ live \in BOOLEAN
  /\ events \in SUBSET FileEvent
  /\ ops \in Nat
  /\ demo \in SUBSET Ids
  /\ demoRuns \in BOOLEAN
  /\ index \in SUBSET Ids
  /\ missed \in SUBSET Files

Init ==
  /\ TableInit
  /\ clock = 1
  /\ WorkflowInit
  /\ ScanInit
  /\ live = FALSE
  /\ events = {}
  /\ ops = 0
  /\ demo = {}
  /\ demoRuns = FALSE
  /\ index = {}
  /\ missed = {}

-----------------------------------------------------------------------------
(* The volume                                                              *)

(* A change that no event reports, of a file the scan has gone past.       *)
Unseen(f) == ~live /\ f \in passed

Operate(f, op) ==
  /\ ops < MaxOps
  /\ ops' = ops + 1
  /\ Tick
  /\ existing' = IF op = "delete" THEN existing \ {f} ELSE existing \cup {f}
  /\ mtime' = [mtime EXCEPT ![f] = Now]
  /\ events' = IF live THEN events \cup {[file |-> f, time |-> Now, op |-> op]} ELSE events
  /\ missed' = IF Unseen(f) THEN missed \cup {f} ELSE missed
  /\ UNCHANGED <<workflowVars, table, scanVars, live, consumers>>

CreateFile(f) == f \notin existing /\ Operate(f, "create")
WriteFile(f)  == f \in existing /\ Operate(f, "write")
DeleteFile(f) == f \in existing /\ Operate(f, "delete")

-----------------------------------------------------------------------------
(* Live synchronisation                                                    *)

EnableFPolicy ==
  /\ ~live
  /\ live' = TRUE
  /\ UNCHANGED <<workflowVars, table, clock, volumeVars, scanVars, events, ops,
                 consumers, missed>>

EventRow(e) ==
  IF e.op = "delete" THEN FileRow(e.file, e.time, "not_applicable", "yes")
  ELSE FileRow(e.file, e.time, "pending", "no")

SyncEvent(e) ==
  /\ e \in events
  /\ events' = events \ {e}
  /\ AppendRows({EventRow(e)})
  /\ UNCHANGED <<workflowVars, clock, volumeVars, scanVars, live, ops, consumers, missed>>

-----------------------------------------------------------------------------
(* demo/scripts/demo-enrich.py: one query for pending rows, then a row for *)
(* each of their files, stamped when it is written.                        *)

DemoFetch ==
  /\ ~demoRuns
  /\ PendingRows # {}
  /\ demoRuns' = TRUE
  /\ \E rows \in SUBSET PendingRows :
       /\ Cardinality(rows) = AtMost(MaxDemos, PendingRows)
       /\ demo' = {r.file : r \in rows}
  /\ UNCHANGED <<workflowVars, table, clock, volumeVars, scanVars, live, events, ops,
                 index, missed>>

DemoRowUndated(id) ==  \* mutant: enriched now, but dated like the workflow's results
  [file |-> id, modified |-> Null, enriched |-> Now, status |-> "completed",
   deleted |-> "no", vector |-> Embeddings]

DemoRow(id) ==
  [file |-> id, modified |-> Now, enriched |-> Now, status |-> "completed",
   deleted |-> "no", vector |-> Embeddings]

(* A failed append is printed and the next record taken.                   *)
DemoWrite(id) ==
  /\ id \in demo
  /\ demo' = demo \ {id}
  /\ \/ AppendRows({DemoRow(id)}) /\ Tick
     \/ UNCHANGED <<table, clock>>
  /\ UNCHANGED <<workflowVars, volumeVars, scanVars, live, events, ops, demoRuns, index,
                 missed>>

-----------------------------------------------------------------------------
(* search/opensearch/sync-embeddings.py                                    *)

(* fetch_records(): rows, whatever their version.                          *)
Indexable == {r \in table : r.deleted = "no" /\ r.status = "completed" /\ r.vector}

(* bulk_index(): a document that is refused is counted and left out.       *)
SyncEmbeddings ==
  /\ \E docs \in SUBSET {r.file : r \in Indexable} :
       /\ ~(docs \subseteq index)
       /\ index' = index \cup docs
  /\ UNCHANGED <<workflowVars, table, clock, volumeVars, scanVars, live, events, ops,
                 demo, demoRuns, missed>>

-----------------------------------------------------------------------------
Next ==
  \/ \E f \in Files : CreateFile(f) \/ WriteFile(f) \/ DeleteFile(f)
  \/ EnableFPolicy
  \/ \E e \in events : SyncEvent(e)
  \/ ScanNext /\ UNCHANGED <<workflowVars, live, events, ops, consumers, missed>>
  \/ WorkflowNext /\ UNCHANGED <<volumeVars, scanVars, live, events, ops, consumers, missed>>
  \/ DemoFetch
  \/ \E id \in demo : DemoWrite(id)
  \/ SyncEmbeddings

Spec == Init /\ [][Next]_vars

-----------------------------------------------------------------------------
(* Safety                                                                  *)

IdsOf(f) == {f, ScannedAs[f]}

Shown(f)  == \E id \in IdsOf(f) : Shows(table, id)
Hidden(f) == \A id \in IdsOf(f) : Hides(table, id)

(* The demonstration script's row is a version of its own: it is dated     *)
(* when it is written, and says that the file exists.                      *)
RevivedByDemo(f) ==
  \E id \in IdsOf(f) : \E r \in ViewRows(table, id) : r.modified = r.enriched

(* Once the scan is through and every event has arrived, the view agrees   *)
(* with the volume about every file that the listing covered: the scan and *)
(* the live events may interleave in any way.  Left out are the files that *)
(* changed between their page and the enabling of FPolicy, in the order    *)
(* the scan's own next steps suggest, and the deleted files that           *)
(* demo-enrich.py brings back.                                             *)
ViewCatchesUp ==
  scan = "done" /\ events = {} =>
    \A f \in passed \ missed :
      IF f \in existing THEN Shown(f) ELSE Hidden(f) \/ RevivedByDemo(f)

(* "This view ... returns only the latest version of each file"            *)
(* (latest_records.sql): no file is shown under two file_ids.              *)
OneVersionPerFile ==
  \A f \in Files : \A i, j \in IdsOf(f) :
    ViewRows(table, i) # {} /\ ViewRows(table, j) # {} => i = j

(* An execution succeeds only if it found no file to enrich: no path that  *)
(* an item can take through the Map, whatever fails and is caught on it,   *)
(* ends in a write the table accepts.  "All pending files processed", the  *)
(* comment of WorkflowComplete, is never true of a file.                   *)
SucceedsOnlyWithoutFiles ==
  \A x \in Executions : execution[x] = "succeeded" =>
    \A i \in Slots : item[x][i].step = "unused"

(* An execution fails only because its query failed three times, because   *)
(* an item had no enrichment result for the detection, or because the      *)
(* write of an item used up its attempts: three for a labelled result, one *)
(* for the others.  An enrichment, an embedding or a detection that fails  *)
(* is not what fails it.                                                   *)
FailsOnlyForACause ==
  \A x \in Executions : execution[x] = "failed" =>
    \/ fetches[x] = 3
    \/ \E i \in Slots :
         /\ item[x][i].failed
         /\ \/ item[x][i].step = "detect" /\ Kind[item[x][i].id] = "other"
            \/ /\ item[x][i].step \in Writes
               /\ item[x][i].attempt = IF item[x][i].step = "update" THEN 3 ELSE 1

(* Nothing leaves the search index and the embedding sync reads rows of    *)
(* any version, so that the search may find a file the view hides.  Such a *)
(* file was deleted after its enrichment, however its events, its          *)
(* enrichment and the sync interleaved: what was deleted before is back in *)
(* the view, not only in the index.                                        *)
SearchOutlivesOnlyDeletions ==
  \A id \in index : Hides(table, id) =>
    \E r, d \in Versions(table, id) :
      /\ r.vector
      /\ d.deleted = "yes"
      /\ d.modified > r.enriched

=============================================================================
