--------------------------- MODULE MCMetadataSync ---------------------------
(* Small instances of MetadataSync.                                        *)
EXTENDS MetadataSync, TLC

CONSTANT MaxMessages

MCMessages == 1 .. MaxMessages

(* The fields of parse_fpolicy_event()'s docstring.                        *)
DocumentedFields ==
  {"event_type", "file_path", "new_file_path", "file_size", "timestamp",
   "svm_name", "volume_name", "access_point_arn"}

SyncSymmetry == Permutations(Files) \cup Permutations(Workers)
=============================================================================
