---------------------------- MODULE CatalogTable ----------------------------
(***************************************************************************)
(* The Iceberg table of file metadata and the view its consumers read.     *)
(* Every writer appends; nothing is updated in place.  A row keeps the     *)
(* columns that decide which version of a file is current; a timestamp is  *)
(* a natural number and NULL is below every timestamp, which is where      *)
(* ORDER BY ... DESC puts it.  The path stands for file_id, the UUID5 of   *)
(* the access point and the path.                                          *)
(***************************************************************************)
EXTENDS Integers

CONSTANT Files   \* paths

Null == 0

Row == [file     : Files,
        modified : Nat,                      \* modified_at
        enriched : Nat,                      \* enriched_at
        status   : {"pending", "completed", "not_applicable"},
        deleted  : {"yes", "no"},            \* is_deleted
        commit   : Nat]                      \* the append that wrote it

Versions(rows, f) == {r \in rows : r.file = f}

(* latest_records.sql: ROW_NUMBER() ... ORDER BY modified_at DESC,          *)
(* enriched_at DESC.  Which of several rows that tie gets number 1 is up   *)
(* to the engine.                                                          *)
RanksAbove(r, s) ==
  \/ r.modified > s.modified
  \/ r.modified = s.modified /\ r.enriched > s.enriched

MayRankFirst(rows, f) ==
  {r \in Versions(rows, f) : \A s \in Versions(rows, f) : ~RanksAbove(s, r)}

(* WHERE rn = 1 AND is_deleted = false: the rows the view may show for f,   *)
(* and whether it shows one whichever row the engine ranks first.          *)
ViewRows(rows, f) == {r \in MayRankFirst(rows, f) : r.deleted = "no"}

Shows(rows, f) == MayRankFirst(rows, f) # {} /\ ViewRows(rows, f) = MayRankFirst(rows, f)

Hides(rows, f) == ViewRows(rows, f) = {}
=============================================================================
