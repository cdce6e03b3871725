--------------------------- MODULE MCBridgeLambda ---------------------------
(* Small instances of BridgeLambda.                                        *)
EXTENDS BridgeLambda

Server == INSTANCE FPolicyEvent

(* One body of each kind the handler tells apart, and what the FPolicy      *)
(* server sends.                                                           *)
DocumentedBodies ==
  {[event_type |-> "FILE_CREATE"], [event_type |-> "FILE_DELETE"],
   NotJson, NotAnObject}

ServerBodies == {Server!EventBody(op, "f", "svm") : op \in {"create", "delete"}}
=============================================================================
