----------------------------- MODULE SharedTable -----------------------------
(***************************************************************************)
(* The metadata table as its several writers share it: the initial scan,   *)
(* the live synchronisation, the demonstration script and, as far as the   *)
(* table lets it, the enrichment workflow.  Nobody updates a row: a writer *)
(* appends a frame of rows.  One clock stamps the file operations and the  *)
(* enrichments, so that two stamps never tie.                              *)
(***************************************************************************)
EXTENDS CatalogTable, FiniteSets

CONSTANTS
  Ids,         \* file_id: what identifies a file in the table
  Kind         \* what DetermineFileType makes of a file's file_type

ASSUME IdsAssumption ==
  /\ Ids # {}
  /\ Files \subseteq Ids
  /\ Kind \in [Ids -> {"readable", "media", "other"}]

VARIABLES
  table,       \* the rows
  clock        \* the last stamp

CatalogRow ==
  [file     : Ids,
   modified : Nat,                                     \* modified_at
   enriched : Nat,                                     \* enriched_at
   status   : {"pending", "completed", "not_applicable"},
   deleted  : {"yes", "no"},                           \* is_deleted
   vector   : BOOLEAN]                                 \* embedding_vector

TableTypeOK ==
  /\ table \in SUBSET CatalogRow
  /\ clock \in Nat

TableInit == table = {}

(* The columns the table requires.  PyIceberg compares the schema of a     *)
(* frame with the table's before it writes anything, and raises unless the *)
(* frame has each of them and declares it non-null.  The frames of the     *)
(* scan, the synchronisation and the demonstration script do.              *)
Required == {"file_id", "file_path", "file_name", "access_point_arn", "is_deleted"}

Accepts(nonNull) == Required \subseteq nonNull

(* table.append()                                                          *)
AppendRows(rows) == table' = table \cup rows

Tick == clock' = clock + 1

Now == clock + 1

PendingRows == {r \in table : r.status = "pending"}

(* What a query with a limit returns of the rows it finds.                 *)
AtMost(limit, rows) == IF Cardinality(rows) < limit THEN Cardinality(rows) ELSE limit

(* A row of a file nobody has enriched yet.                                *)
FileRow(id, time, status, deleted) ==
  [file |-> id, modified |-> time, enriched |-> Null, status |-> status,
   deleted |-> deleted, vector |-> FALSE]
=============================================================================
