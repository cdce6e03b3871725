---------------------------- MODULE FPolicyEvent ----------------------------
(***************************************************************************)
(* The event that fpolicy_server.py makes of an ONTAP notification and     *)
(* writes to the queue as JSON.                                            *)
(***************************************************************************)

(* _normalize_operation(): an operation that is not listed is a creation.   *)
OpMap ==
  [create |-> "create", open |-> "create", write |-> "write", close |-> "write",
   delete |-> "delete", rename |-> "rename", setattr |-> "write"]

NormalizeOperation(op) == IF op \in DOMAIN OpMap THEN OpMap[op] ELSE "create"

(* fpolicy_event of _handle_noti_req().  There is no event_type and, for a  *)
(* rename, no new path.                                                    *)
EventBody(op, file, svm) ==
  [operation_type |-> NormalizeOperation(op), file_path |-> file, svm_name |-> svm]
=============================================================================
