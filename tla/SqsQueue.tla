------------------------------ MODULE SqsQueue ------------------------------
(***************************************************************************)
(* An SQS standard queue with a dead-letter queue, read by the Lambda      *)
(* event source mapping: what fpolicy-ingestion.yaml and                   *)
(* metadata-sync-pipeline.yaml configure in front of their handlers.  A    *)
(* batch is any set of visible messages (a standard queue does not order   *)
(* them); what an invocation does not acknowledge becomes visible again,   *)
(* or goes to the dead-letter queue once it was received maxReceiveCount   *)
(* times; and an acknowledged message may be delivered once more.          *)
(*                                                                         *)
(* The function timeout is below the visibility timeout (60 s, 300 s), so  *)
(* a message never becomes visible while an invocation still holds it.     *)
(***************************************************************************)
EXTENDS Integers, FiniteSets

CONSTANTS
  Messages,       \* the messages a behaviour may send
  Workers,        \* concurrent invocations of the function
  BatchSize,      \* BatchSize of the event source mapping
  MaxReceive,     \* maxReceiveCount of the redrive policy
  MaxDuplicates   \* bound on deliveries of an acknowledged message

ASSUME QueueAssumption ==
  /\ BatchSize \in Nat \ {0}
  /\ MaxReceive \in Nat \ {0}
  /\ MaxDuplicates \in Nat

VARIABLES
  place,       \* where each message is
  receives,    \* ApproximateReceiveCount
  batch,       \* the messages each invocation holds
  duplicates   \* acknowledged messages delivered again so far

queueVars == <<place, receives, batch, duplicates>>

Places == {"unsent", "visible", "in_flight", "acknowledged", "dead"}

QueueTypeOK ==
  /\ place \in [Messages -> Places]
  /\ receives \in [Messages -> Nat]
  /\ batch \in [Workers -> SUBSET Messages]
  /\ duplicates \in Nat

(* A message that is in flight is held by exactly one invocation, and no    *)
(* message is received more often than the redrive policy allows.          *)
QueueConsistent ==
  /\ \A w \in Workers : \A m \in batch[w] : place[m] = "in_flight"
  /\ \A v, w \in Workers : v # w => batch[v] \cap batch[w] = {}
  /\ \A m \in Messages :
       /\ receives[m] <= MaxReceive + duplicates
       /\ place[m] = "in_flight" => \E w \in Workers : m \in batch[w]

QueueInit ==
  /\ place = [m \in Messages |-> "unsent"]
  /\ receives = [m \in Messages |-> 0]
  /\ batch = [w \in Workers |-> {}]
  /\ duplicates = 0

Send(m) ==
  /\ place[m] = "unsent"
  /\ place' = [place EXCEPT ![m] = "visible"]
  /\ UNCHANGED <<receives, batch, duplicates>>

Deliver(w, b) ==
  /\ batch[w] = {}
  /\ b # {}
  /\ Cardinality(b) <= BatchSize
  /\ \A m \in b : place[m] = "visible"
  /\ place' = [m \in Messages |-> IF m \in b THEN "in_flight" ELSE place[m]]
  /\ receives' = [m \in Messages |-> receives[m] + IF m \in b THEN 1 ELSE 0]
  /\ batch' = [batch EXCEPT ![w] = b]
  /\ UNCHANGED duplicates

OneTooMany(m) == IF receives[m] > MaxReceive THEN "dead" ELSE "visible"  \* mutant

AfterFailure(m) == IF receives[m] >= MaxReceive THEN "dead" ELSE "visible"

(* The invocation ends: the failed part of its batch is returned, the rest *)
(* is deleted from the queue.                                              *)
Settle(w, failed) ==
  /\ place' = [m \in Messages |->
                 IF m \in failed THEN AfterFailure(m)
                 ELSE IF m \in batch[w] THEN "acknowledged" ELSE place[m]]
  /\ batch' = [batch EXCEPT ![w] = {}]
  /\ UNCHANGED <<receives, duplicates>>

DeliverAgain(m) ==
  /\ place[m] = "acknowledged"
  /\ duplicates < MaxDuplicates
  /\ duplicates' = duplicates + 1
  /\ place' = [place EXCEPT ![m] = "visible"]
  /\ UNCHANGED <<receives, batch>>
-----------------------------------------------------------------------------
(* What the sender and the operator see of a message.                      *)
Status(m) == IF place[m] \in {"visible", "in_flight"} THEN "waiting" ELSE place[m]
=============================================================================
