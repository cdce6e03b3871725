----------------------------- MODULE InitialScan -----------------------------
(***************************************************************************)
(* The script that fills the metadata table from a listing of the volume   *)
(* (scripts/initial-metadata-scan.py), beside the file operations that go  *)
(* on meanwhile.  The listing is read page by page in key order, so that a *)
(* file may change on either side of the page that shows it; the records   *)
(* are appended in batches after the last page.                            *)
(***************************************************************************)
EXTENDS SharedTable

CONSTANTS
  Order,       \* the files in key order: a number for each
  ScannedAs,   \* generate_file_id: the file_id the scan gives to a file
  MaxFiles,    \* --max-files
  PageSize,    \* LIST_PAGE_SIZE
  BatchSize    \* BATCH_SIZE

ASSUME ScanAssumption ==
  /\ Order \in [Files -> Nat]
  /\ ScannedAs \in [Files -> Ids]
  /\ MaxFiles \in Nat \ {0}
  /\ PageSize \in Nat \ {0}
  /\ BatchSize \in Nat \ {0}

VARIABLES
  existing,    \* the files on the volume
  mtime,       \* LastModified of each
  scan,        \* where main() is
  passed,      \* the keys behind the continuation token
  records      \* the records built and not written yet

volumeVars == <<existing, mtime>>
scanVars   == <<scan, passed, records>>

Record == [file : Files, time : Nat]

ScanTypeOK ==
  /\ existing \in SUBSET Files
  /\ mtime \in [Files -> Nat]
  /\ scan \in {"idle", "list", "write", "done", "failed"}
  /\ passed \in SUBSET Files
  /\ records \in SUBSET Record

(* The volume has files from before anything watched it.                   *)
ScanInit ==
  /\ existing \in SUBSET Files
  /\ mtime = [f \in Files |-> 1]
  /\ scan = "idle"
  /\ passed = {}
  /\ records = {}

-----------------------------------------------------------------------------
(* list_objects(), build_metadata_records()                                *)

StartScan ==
  /\ scan = "idle"
  /\ scan' = "list"
  /\ UNCHANGED <<table, clock, volumeVars, passed, records>>

Listed == Cardinality(records)

(* The next page: the first keys that are not behind the token, as many as *)
(* a page and max_files allow.                                             *)
Left == existing \ passed

Page ==
  LET room == MaxFiles - Listed
      n == IF room < PageSize THEN room ELSE PageSize
  IN  {f \in Left : Cardinality({g \in Left : Order[g] < Order[f]}) < n}

Truncated == Page # Left

(* A key that comes into being behind the token is not listed any more.    *)
Behind == IF Truncated
          THEN {f \in Files : \E g \in Page : Order[f] <= Order[g]}
          ELSE Files

ListPage ==
  /\ scan = "list"
  /\ records' = records \cup {[file |-> f, time |-> mtime[f]] : f \in Page}
  /\ passed' = passed \cup Behind
  /\ scan' = IF Truncated /\ Cardinality(records') < MaxFiles THEN "list"
             ELSE IF records' = {} THEN "done"
             ELSE "write"
  /\ UNCHANGED <<table, clock, volumeVars>>

(* The error ends the loop, not the scan: what is listed is written.       *)
ListFails ==
  /\ scan = "list"
  /\ scan' = IF records = {} THEN "done" ELSE "write"
  /\ UNCHANGED <<table, clock, volumeVars, passed, records>>

-----------------------------------------------------------------------------
(* write_to_iceberg(), a batch at a time                                   *)

ScanRowNow(r) ==  \* mutant: dated by the scan, not by LastModified
  FileRow(ScannedAs[r.file], Now, "pending", "no")

ScanRow(r) == FileRow(ScannedAs[r.file], r.time, "pending", "no")

NextBatches ==
  {b \in SUBSET records :
     /\ Cardinality(b) = AtMost(BatchSize, records)
     /\ \A r \in b, s \in records \ b : Order[r.file] <= Order[s.file]}

WriteBatch ==
  /\ scan = "write"
  /\ \E b \in NextBatches :
       /\ AppendRows({ScanRow(r) : r \in b})
       /\ records' = records \ b
       /\ scan' = IF b = records THEN "done" ELSE "write"
  /\ UNCHANGED <<clock, volumeVars, passed>>

(* Somebody else's commit came between, or the catalogue did not answer.   *)
WriteFails ==
  /\ scan = "write"
  /\ scan' = "failed"
  /\ UNCHANGED <<table, clock, volumeVars, passed, records>>

ScanNext ==
  \/ StartScan
  \/ ListPage
  \/ ListFails
  \/ WriteBatch
  \/ WriteFails
=============================================================================
