---------------------------- MODULE OntapFPolicy ----------------------------
(***************************************************************************)
(* What ONTAP keeps of an FPolicy configuration on an SVM, as the two      *)
(* programs that change it through the REST API use it: an external engine *)
(* with the address of the FPolicy server, an event that lists the file    *)
(* operations, and a policy that links them and may be enabled.  ONTAP     *)
(* refuses a second object of a name, a policy without its parts, and the  *)
(* deletion of a part in use or of an enabled policy.                      *)
(***************************************************************************)
EXTENDS Naturals, FiniteSets

CONSTANTS
  Tasks,       \* the tasks of the FPolicy service, each with an address of its own
  NoAddress

ASSUME AddressAssumption == NoAddress \notin Tasks

VARIABLE ontap

Ontap == [engine : Tasks \cup {NoAddress},      \* primary_servers, or no engine
          event  : BOOLEAN,
          policy : {"none", "disabled", "enabled"}]

OntapInit == ontap = [engine |-> NoAddress, event |-> FALSE, policy |-> "none"]

Present ==
  {part \in {"engine", "event", "policy"} :
     \/ part = "engine" /\ ontap.engine # NoAddress
     \/ part = "event"  /\ ontap.event
     \/ part = "policy" /\ ontap.policy # "none"}

InUse == ontap.policy # "none"

Complete == Present = {"engine", "event", "policy"}
=============================================================================
