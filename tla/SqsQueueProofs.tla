--------------------------- MODULE SqsQueueProofs ---------------------------
(***************************************************************************)
(* What the operations of the queue preserve, for the proofs about the     *)
(* functions behind it.  QueueTypeOK and QueueConsistent are not           *)
(* inductive: that no message is received too often rests on the messages  *)
(* that are visible, of which AfterFailure leaves only those that have a   *)
(* receive to spend.                                                       *)
(***************************************************************************)
EXTENDS SqsQueue, TLAPS

QInv ==
  /\ QueueTypeOK
  /\ QueueConsistent
  /\ \A m \in Messages :
       /\ place[m] = "unsent" => receives[m] = 0
       /\ place[m] = "visible" => receives[m] < MaxReceive + duplicates

(* Nothing is sent yet and no invocation runs.                             *)
LEMMA QueueInitInv == QueueInit => QInv
  BY QueueAssumption
     DEF QueueInit, QInv, QueueTypeOK, QueueConsistent, Places

(* A new message has not been received.                                    *)
LEMMA SendInv ==
  ASSUME QInv, NEW m \in Messages, Send(m)
  PROVE  QInv'
<1> USE QueueAssumption DEF QInv, Send
<1>1. QueueTypeOK'
  BY DEF QueueTypeOK, Places
<1>2. QueueConsistent'
  BY DEF QueueTypeOK, QueueConsistent
<1> QED BY <1>1, <1>2 DEF QueueTypeOK

(* A batch is taken from the visible messages, which nobody holds.         *)
LEMMA DeliverInv ==
  ASSUME QInv, NEW w \in Workers, NEW b \in SUBSET Messages, Deliver(w, b)
  PROVE  QInv'
<1> USE QueueAssumption DEF QInv, Deliver
<1>1. QueueTypeOK'
  BY DEF QueueTypeOK, Places
<1>2. \A v \in Workers : batch'[v] = IF v = w THEN b ELSE batch[v]
  BY DEF QueueTypeOK
<1>3. \A n \in Messages :
        /\ place'[n] = IF n \in b THEN "in_flight" ELSE place[n]
        /\ receives'[n] = receives[n] + (IF n \in b THEN 1 ELSE 0)
        /\ receives[n] \in Nat
  BY DEF QueueTypeOK
<1>4. \A v \in Workers : v # w => batch[v] \cap b = {}
  BY DEF QueueConsistent, QueueTypeOK
<1>5. QueueConsistent'
  <2>1. \A v \in Workers : \A n \in batch'[v] : place'[n] = "in_flight"
    BY <1>2, <1>3 DEF QueueConsistent, QueueTypeOK
  <2>2. \A u, v \in Workers : u # v => batch'[u] \cap batch'[v] = {}
    BY <1>2, <1>4 DEF QueueConsistent
  <2>3. \A n \in Messages : receives'[n] <= MaxReceive + duplicates'
    BY <1>3 DEF QueueConsistent, QueueTypeOK
  <2>4. ASSUME NEW n \in Messages, place'[n] = "in_flight"
        PROVE  \E v \in Workers : n \in batch'[v]
    <3>1. CASE n \in b
      BY <3>1, <1>2
    <3>2. CASE n \notin b
      BY <3>2, <2>4, <1>2, <1>3 DEF QueueConsistent
    <3> QED BY <3>1, <3>2
  <2> QED BY <2>1, <2>2, <2>3, <2>4 DEF QueueConsistent
<1>6. \A n \in Messages :
        /\ place'[n] = "unsent" => receives'[n] = 0
        /\ place'[n] = "visible" => receives'[n] < MaxReceive + duplicates'
  BY <1>3 DEF QueueTypeOK
<1> QED BY <1>1, <1>5, <1>6

(* What fails goes back with a receive left, or to the dead-letter queue.   *)
LEMMA SettleInv ==
  ASSUME QInv, NEW w \in Workers, NEW failed \in SUBSET batch[w], Settle(w, failed)
  PROVE  QInv'
<1> USE QueueAssumption DEF QInv, Settle
<1>1. \A n \in Messages :
        /\ n \in failed => place'[n] = AfterFailure(n)
        /\ n \in batch[w] \ failed => place'[n] = "acknowledged"
        /\ n \notin batch[w] => place'[n] = place[n]
  OBVIOUS
<1>2. QueueTypeOK'
  BY DEF QueueTypeOK, Places, AfterFailure
<1>3. \A v \in Workers : batch'[v] = IF v = w THEN {} ELSE batch[v]
  BY DEF QueueTypeOK
<1>4. QueueConsistent'
  <2>1. ASSUME NEW v \in Workers, NEW n \in batch'[v]
        PROVE  place'[n] = "in_flight"
    BY <1>1, <1>3 DEF QueueConsistent, QueueTypeOK
  <2>2. \A u, v \in Workers : u # v => batch'[u] \cap batch'[v] = {}
    BY <1>3 DEF QueueConsistent
  <2>3. \A n \in Messages : receives'[n] <= MaxReceive + duplicates'
    BY DEF QueueConsistent
  <2>4. ASSUME NEW n \in Messages, place'[n] = "in_flight"
        PROVE  \E v \in Workers : n \in batch'[v]
    <3>1. n \notin batch[w] /\ place[n] = "in_flight"
      BY <2>4, <1>1 DEF AfterFailure
    <3> QED BY <3>1, <1>3 DEF QueueConsistent
  <2> QED BY <2>1, <2>2, <2>3, <2>4 DEF QueueConsistent
<1>5. ASSUME NEW n \in Messages
      PROVE  /\ place'[n] = "unsent" => receives'[n] = 0
             /\ place'[n] = "visible" => receives'[n] < MaxReceive + duplicates'
  <2>1. CASE n \in batch[w]
    BY <2>1, <1>1 DEF AfterFailure, QueueTypeOK
  <2>2. CASE n \notin batch[w]
    BY <2>2, <1>1 DEF QueueTypeOK
  <2> QED BY <2>1, <2>2
<1> QED BY <1>2, <1>4, <1>5

(* A redelivery raises the bound on receives by the one it may cost.        *)
LEMMA DeliverAgainInv ==
  ASSUME QInv, NEW m \in Messages, DeliverAgain(m)
  PROVE  QInv'
<1> USE QueueAssumption DEF QInv, DeliverAgain
<1>1. QueueTypeOK'
  BY DEF QueueTypeOK, Places
<1>2. QueueConsistent'
  BY DEF QueueTypeOK, QueueConsistent
<1> QED BY <1>1, <1>2 DEF QueueTypeOK, QueueConsistent

(* Nothing changes.                                                         *)
LEMMA QueueStutterInv == QInv /\ UNCHANGED queueVars => QInv'
  BY DEF QInv, QueueTypeOK, QueueConsistent, queueVars
=============================================================================
