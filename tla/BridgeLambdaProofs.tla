------------------------ MODULE BridgeLambdaProofs ------------------------
(***************************************************************************)
(* Theorems about BridgeLambda, for every set of messages and bodies, any  *)
(* number of invocations and any bounds: no creation is acknowledged       *)
(* unpublished, a delivery publishes at most once, and the function keeps  *)
(* what Delivery promises.                                                 *)
(***************************************************************************)
EXTENDS BridgeLambda, SqsQueueProofs

(* What is not in an invocation's todo any more has been dealt with; what   *)
(* is in it has a receive that no publication has used up.                 *)
LoopInv ==
  \A w \in Workers :
    /\ \A m \in batch[w] \ todo[w] : IsCreation(body[m]) => topic[m] > 0
    /\ \A m \in todo[w] : topic[m] < receives[m]
    /\ \A m \in current[w] : topic[m] > 0
    /\ \A m, n \in current[w] : m = n

MessageInv ==
  \A m \in Messages :
    /\ place[m] = "unsent" => body[m] = NotJson
    /\ place[m] = "acknowledged" /\ IsCreation(body[m]) => topic[m] > 0
    /\ topic[m] <= receives[m]
    /\ ~IsCreation(body[m]) => topic[m] = 0
    /\ m \in bus => topic[m] > 0

(* As long as nothing raised, what is on the topic is on the bus or is the  *)
(* record that some invocation is about to put there.                      *)
BusInv ==
  faults = 0 /\ EventBus =>
    \A m \in Messages :
      topic[m] > 0 => m \in bus \/ \E w \in Workers : m \in current[w]

BInv == QInv /\ TypeOK /\ LoopInv /\ MessageInv /\ BusInv

(* The bodies on which the loop raises are no creations.                    *)
LEMMA NotCreation == ~IsCreation(NotJson) /\ ~IsCreation(NotAnObject)
  BY DEF IsCreation

-----------------------------------------------------------------------------
(* The initial states satisfy the invariant: nothing is sent.               *)
LEMMA InitInv == Init => BInv
<1> SUFFICES ASSUME Init PROVE BInv
  OBVIOUS
<1>1. QInv
  BY QueueInitInv DEF Init
<1>2. TypeOK
  BY <1>1 DEF Init, QueueInit, TypeOK, QInv
<1>3. LoopInv
  BY DEF Init, QueueInit, LoopInv
<1>4. MessageInv
  BY NotCreation DEF Init, QueueInit, MessageInv
<1>5. BusInv
  BY DEF Init, BusInv
<1> QED BY <1>1, <1>2, <1>3, <1>4, <1>5 DEF BInv

(* A message arrives with a body, and nothing was done for it yet.          *)
LEMMA ArriveInv ==
  ASSUME BInv, NEW m \in Messages, Arrive(m)
  PROVE  BInv'
<1> USE DEF BInv
<1>1. PICK b \in Bodies : body' = [body EXCEPT ![m] = b]
  BY DEF Arrive
<1>2. Send(m) /\ UNCHANGED <<todo, current, processed, errors, sent, topic, bus, faults, lost>>
  BY DEF Arrive, loop, out
<1>3. QInv'
  BY <1>2, SendInv
<1>4. \A n \in Messages : n # m => body'[n] = body[n] /\ place'[n] = place[n]
  BY <1>1, <1>2 DEF TypeOK, Send, QueueTypeOK
<1>5. place[m] = "unsent" /\ place'[m] = "visible" /\ UNCHANGED <<batch, receives>>
  BY <1>2 DEF Send, TypeOK, QueueTypeOK
<1>6. TypeOK'
  BY <1>1, <1>2, <1>3, <1>5 DEF TypeOK, QInv
<1>7. \A w \in Workers : m \notin batch[w]
  BY <1>5 DEF TypeOK, QueueConsistent
<1>8. topic[m] = 0 /\ receives[m] \in Nat
  BY <1>5, NotCreation DEF MessageInv, TypeOK, QueueTypeOK
<1>9. LoopInv'
  BY <1>2, <1>4, <1>5, <1>7 DEF LoopInv, TypeOK, QueueTypeOK
<1>10. MessageInv'
  BY <1>2, <1>4, <1>5, <1>8 DEF MessageInv
<1>11. BusInv'
  BY <1>2 DEF BusInv
<1> QED BY <1>3, <1>6, <1>9, <1>10, <1>11

(* A redelivered message is one that nobody holds.                          *)
LEMMA RepeatInv ==
  ASSUME BInv, NEW m \in Messages, Repeat(m)
  PROVE  BInv'
<1> USE DEF BInv
<1>1. /\ DeliverAgain(m)
      /\ UNCHANGED <<body, todo, current, processed, errors, sent, topic, bus, faults, lost>>
  BY DEF Repeat, loop, out
<1>2. QInv'
  BY <1>1, DeliverAgainInv
<1>3. UNCHANGED <<batch, receives>> /\ place' = [place EXCEPT ![m] = "visible"]
  BY <1>1 DEF DeliverAgain
<1>4. TypeOK'
  BY <1>1, <1>2, <1>3 DEF TypeOK, QInv
<1>5. LoopInv'
  BY <1>1, <1>3 DEF LoopInv
<1>6. MessageInv'
  BY <1>1, <1>3 DEF MessageInv, TypeOK, QueueTypeOK
<1>7. BusInv'
  BY <1>1 DEF BusInv
<1> QED BY <1>2, <1>4, <1>5, <1>6, <1>7

(* A delivery is one receive more than the publications so far.             *)
LEMMA InvokeInv ==
  ASSUME BInv, NEW w \in Workers, Invoke(w)
  PROVE  BInv'
<1> USE DEF BInv
<1>1. PICK b \in SUBSET Messages : Deliver(w, b) /\ todo' = [todo EXCEPT ![w] = b]
  BY DEF Invoke
<1>2. /\ processed' = [processed EXCEPT ![w] = 0]
      /\ errors' = [errors EXCEPT ![w] = 0]
      /\ UNCHANGED <<body, current, sent, topic, bus, faults, lost>>
  BY DEF Invoke, out
<1>3. QInv'
  BY <1>1, DeliverInv
<1>4. /\ batch[w] = {}
      /\ \A n \in b : place[n] = "visible"
      /\ batch' = [batch EXCEPT ![w] = b]
      /\ \A n \in Messages :
           /\ place'[n] = IF n \in b THEN "in_flight" ELSE place[n]
           /\ receives'[n] = receives[n] + (IF n \in b THEN 1 ELSE 0)
           /\ receives[n] \in Nat /\ topic[n] \in Nat
  BY <1>1 DEF Deliver, TypeOK, QueueTypeOK
<1>5. current[w] = {} /\ sent[w] = {}
  BY <1>4 DEF TypeOK
<1>6. \A v \in Workers :
        /\ batch'[v] = IF v = w THEN b ELSE batch[v]
        /\ todo'[v] = IF v = w THEN b ELSE todo[v]
  BY <1>1, <1>4 DEF TypeOK, QueueTypeOK
<1>7. TypeOK'
  <2>1. QueueTypeOK' /\ QueueConsistent'
    BY <1>3 DEF QInv
  <2>2. todo' \in [Workers -> SUBSET Messages]
    BY <1>1 DEF TypeOK
  <2>3. \A v \in Workers : todo'[v] \cup current'[v] \cup sent'[v] \subseteq batch'[v]
    BY <1>2, <1>5, <1>6 DEF TypeOK
  <2>4. processed' \in [Workers -> Nat] /\ errors' \in [Workers -> Nat]
    BY <1>2 DEF TypeOK
  <2> QED BY <1>2, <2>1, <2>2, <2>3, <2>4 DEF TypeOK
<1>8. LoopInv'
  <2> SUFFICES ASSUME NEW v \in Workers
               PROVE  /\ \A n \in batch'[v] \ todo'[v] :
                           IsCreation(body[n]) => topic[n] > 0
                      /\ \A n \in todo'[v] : topic[n] < receives'[n]
                      /\ \A n \in current[v] : topic[n] > 0
                      /\ \A m, n \in current[v] : m = n
    BY <1>2 DEF LoopInv
  <2>1. \A n \in batch'[v] \ todo'[v] : IsCreation(body[n]) => topic[n] > 0
    BY <1>6 DEF LoopInv
  <2>2. \A n \in todo'[v] : topic[n] < receives'[n]
    <3>1. \A n \in Messages : topic[n] <= receives[n]
      BY DEF MessageInv
    <3>2. CASE v = w
      BY <3>1, <3>2, <1>4, <1>6
    <3>3. CASE v # w
      BY <3>3, <1>4, <1>6 DEF LoopInv, TypeOK
    <3> QED BY <3>2, <3>3
  <2>3. /\ \A n \in current[v] : topic[n] > 0
        /\ \A m, n \in current[v] : m = n
    BY DEF LoopInv
  <2> QED BY <2>1, <2>2, <2>3
<1>9. MessageInv'
  BY <1>2, <1>4 DEF MessageInv
<1>10. BusInv'
  BY <1>2 DEF BusInv
<1> QED BY <1>3, <1>7, <1>8, <1>9, <1>10

(* Skip and Reject take a record off that owes no publication.              *)
LEMMA PassOverInv ==
  ASSUME BInv, NEW w \in Workers, NEW m \in Messages, Take(w, m),
         ~IsCreation(body[m]), errors' \in [Workers -> Nat],
         UNCHANGED <<queueVars, body, current, processed, sent, out, faults, lost>>
  PROVE  BInv'
<1> USE DEF BInv
<1>1. UNCHANGED <<place, receives, batch, duplicates, body, current,
                  processed, sent, topic, bus, faults, lost>>
  BY DEF queueVars, out
<1>2. QInv'
  BY <1>1, QueueStutterInv DEF queueVars
<1>3. \A v \in Workers : todo'[v] = IF v = w THEN todo[v] \ {m} ELSE todo[v]
  BY DEF Take, TypeOK
<1>4. TypeOK'
  <2>1. QueueTypeOK' /\ QueueConsistent'
    BY <1>2 DEF QInv
  <2>2. todo' \in [Workers -> SUBSET Messages]
    BY DEF Take, TypeOK
  <2>3. \A v \in Workers : todo'[v] \cup current'[v] \cup sent'[v] \subseteq batch'[v]
    BY <1>1, <1>3 DEF TypeOK
  <2> QED BY <1>1, <2>1, <2>2, <2>3 DEF TypeOK
<1>5. LoopInv'
  BY <1>1, <1>3 DEF LoopInv
<1>6. MessageInv'
  BY <1>1 DEF MessageInv
<1>7. BusInv'
  BY <1>1 DEF BusInv
<1> QED BY <1>2, <1>4, <1>5, <1>6, <1>7

(* A skipped record is no creation.                                         *)
LEMMA SkipInv ==
  ASSUME BInv, NEW w \in Workers, NEW m \in Messages, Skip(w, m)
  PROVE  BInv'
<1>1. errors' \in [Workers -> Nat]
  BY DEF Skip, BInv, TypeOK
<1> QED BY <1>1, PassOverInv DEF Skip

(* A record that is no JSON is counted as an error.                         *)
LEMMA RejectInv ==
  ASSUME BInv, NEW w \in Workers, NEW m \in Messages, Reject(w, m)
  PROVE  BInv'
<1>1. errors' \in [Workers -> Nat]
  BY DEF Reject, BInv, TypeOK
<1>2. ~IsCreation(body[m])
  BY NotCreation DEF Reject
<1> QED BY <1>1, <1>2, PassOverInv DEF Reject

(* A publication uses up the receive that the record had left; on its way   *)
(* to the bus the record is the current one.                               *)
LEMMA PublishInv ==
  ASSUME BInv, NEW w \in Workers, NEW m \in Messages, Publish(w, m)
  PROVE  BInv'
<1> USE DEF BInv
<1>1. /\ UNCHANGED <<place, receives, batch, duplicates, body, errors, bus, faults, lost>>
      /\ IsCreation(body[m]) /\ m \in todo[w] /\ current[w] = {}
  BY DEF Publish, Take, queueVars
<1>2. QInv'
  BY <1>1, QueueStutterInv DEF queueVars
<1>3. /\ todo'[w] = todo[w] \ {m}
      /\ current'[w] \subseteq {m}
      /\ EventBus => current'[w] = {m}
      /\ sent'[w] = sent[w] \cup {m}
      /\ \A v \in Workers \ {w} :
           todo'[v] = todo[v] /\ current'[v] = current[v] /\ sent'[v] = sent[v]
  BY DEF Publish, Take, TypeOK
<1>4. /\ topic'[m] = topic[m] + 1
      /\ \A n \in Messages \ {m} : topic'[n] = topic[n]
      /\ \A n \in Messages : topic[n] \in Nat /\ receives[n] \in Nat
  BY DEF Publish, TypeOK, QueueTypeOK
<1>5. topic[m] < receives[m] /\ m \in batch[w]
  BY <1>1 DEF LoopInv, TypeOK
<1>6. TypeOK'
  <2>1. QueueTypeOK' /\ QueueConsistent'
    BY <1>2 DEF QInv
  <2>2. /\ todo' \in [Workers -> SUBSET Messages]
        /\ sent' \in [Workers -> SUBSET Messages]
    BY DEF Publish, Take, TypeOK
  <2>3. current' \in [Workers -> SUBSET Messages]
    BY DEF Publish, TypeOK
  <2>4. processed' \in [Workers -> Nat] /\ topic' \in [Messages -> Nat]
    BY DEF Publish, TypeOK
  <2>5. \A v \in Workers : todo'[v] \cup current'[v] \cup sent'[v] \subseteq batch'[v]
    BY <1>1, <1>3, <1>5 DEF TypeOK
  <2> QED BY <1>1, <2>1, <2>2, <2>3, <2>4, <2>5 DEF TypeOK
<1>7. LoopInv'
  <2> SUFFICES ASSUME NEW v \in Workers
               PROVE  /\ \A n \in batch[v] \ todo'[v] :
                           IsCreation(body[n]) => topic'[n] > 0
                      /\ \A n \in todo'[v] : topic'[n] < receives[n]
                      /\ \A n \in current'[v] : topic'[n] > 0
                      /\ \A n, o \in current'[v] : n = o
    BY <1>1 DEF LoopInv
  <2>0. batch[v] \subseteq Messages /\ todo[v] \subseteq batch[v]
        /\ current[v] \subseteq batch[v]
    BY DEF TypeOK, QueueTypeOK
  <2>1. ASSUME NEW n \in batch[v] \ todo'[v], IsCreation(body[n])
        PROVE  topic'[n] > 0
    <3>1. CASE n = m
      BY <3>1, <1>4
    <3>2. CASE n # m
      <4>1. n \in Messages \ {m} /\ n \in batch[v] \ todo[v]
        BY <3>2, <2>0, <2>1, <1>3
      <4> QED BY <4>1, <2>1, <1>4 DEF LoopInv
    <3> QED BY <3>1, <3>2
  <2>2. ASSUME NEW n \in todo'[v] PROVE topic'[n] < receives[n]
    <3>1. n \in todo[v] /\ n \in batch[v]
      BY <2>0, <2>2, <1>3
    <3>2. n # m
      <4>1. CASE v = w
        BY <4>1, <2>2, <1>3
      <4>2. CASE v # w
        BY <4>2, <3>1, <1>5 DEF TypeOK, QueueConsistent
      <4> QED BY <4>1, <4>2
    <3> QED BY <3>1, <3>2, <2>0, <1>4 DEF LoopInv
  <2>3. ASSUME NEW n \in current'[v] PROVE topic'[n] > 0
    <3>1. CASE n = m
      BY <3>1, <1>4
    <3>2. CASE n # m
      <4>1. n \in Messages \ {m} /\ n \in current[v]
        BY <3>2, <2>0, <2>3, <1>3
      <4> QED BY <4>1, <1>4 DEF LoopInv
    <3> QED BY <3>1, <3>2
  <2>4. \A n, o \in current'[v] : n = o
    BY <1>3 DEF LoopInv
  <2> QED BY <2>1, <2>2, <2>3, <2>4
<1>8. MessageInv'
  BY <1>1, <1>4, <1>5 DEF MessageInv
<1>9. BusInv'
  <2> SUFFICES ASSUME faults = 0, EventBus, NEW n \in Messages, topic'[n] > 0
               PROVE  n \in bus \/ \E v \in Workers : n \in current'[v]
    BY <1>1 DEF BusInv
  <2>1. CASE n = m
    BY <2>1, <1>3
  <2>2. CASE n # m
    BY <2>2, <1>1, <1>3, <1>4 DEF BusInv
  <2> QED BY <2>1, <2>2
<1> QED BY <1>2, <1>6, <1>7, <1>8, <1>9

(* The current record reaches the bus, or a fault is counted.               *)
LEMMA PutEventInv ==
  ASSUME BInv, NEW w \in Workers, NEW m \in Messages, PutEvent(w, m)
  PROVE  BInv'
<1> USE DEF BInv
<1>1. /\ UNCHANGED <<place, receives, batch, duplicates, body, todo,
                     processed, errors, sent, topic, lost>>
      /\ m \in current[w]
      /\ \/ bus' = bus \cup {m} /\ faults' = faults
         \/ bus' = bus /\ faults' = faults + 1
  BY DEF PutEvent, queueVars
<1>2. QInv'
  BY <1>1, QueueStutterInv DEF queueVars
<1>3. \A v \in Workers : current'[v] = IF v = w THEN {} ELSE current[v]
  BY DEF PutEvent, TypeOK
<1>4. TypeOK'
  <2>1. QueueTypeOK' /\ QueueConsistent'
    BY <1>2 DEF QInv
  <2>2. current' \in [Workers -> SUBSET Messages]
    BY DEF PutEvent, TypeOK
  <2>3. bus' \in SUBSET Messages /\ faults' \in Nat
    BY <1>1 DEF TypeOK
  <2>4. \A v \in Workers : todo'[v] \cup current'[v] \cup sent'[v] \subseteq batch'[v]
    BY <1>1, <1>3 DEF TypeOK
  <2> QED BY <1>1, <2>1, <2>2, <2>3, <2>4 DEF TypeOK
<1>5. LoopInv'
  BY <1>1, <1>3 DEF LoopInv
<1>6. topic[m] > 0
  BY <1>1 DEF LoopInv
<1>7. MessageInv'
  BY <1>1, <1>6 DEF MessageInv
<1>8. BusInv'
  <2> SUFFICES ASSUME faults' = 0, EventBus, NEW n \in Messages, topic[n] > 0
               PROVE  n \in bus' \/ \E v \in Workers : n \in current'[v]
    BY <1>1 DEF BusInv
  <2>1. faults = 0 /\ bus' = bus \cup {m}
    BY <1>1 DEF TypeOK
  <2>2. current[w] \subseteq {m}
    BY <1>1, <2>1 DEF BusInv, LoopInv
  <2> QED BY <1>3, <2>1, <2>2 DEF BusInv
<1> QED BY <1>2, <1>4, <1>5, <1>7, <1>8

(* An invocation may end by acknowledging its batch once the loop is done,  *)
(* or by returning all of it; if no fault is counted, nothing is current.  *)
LEMMA LeaveInv ==
  ASSUME BInv, NEW w \in Workers, NEW failed \in {{}, batch[w]},
         Leave(w, failed),
         failed = {} => todo[w] = {}, lost' \in [Messages -> Nat],
         \/ faults' = faults /\ current[w] = {}
         \/ faults' = faults + 1
  PROVE  BInv'
<1> USE DEF BInv
<1>1. /\ Settle(w, failed)
      /\ UNCHANGED <<receives, duplicates, body, topic, bus>>
  BY DEF Leave, Settle, out
<1>2. QInv'
  <2>1. failed \in SUBSET batch[w]
    OBVIOUS
  <2> QED BY <1>1, <2>1, SettleInv
<1>3. \A v \in Workers :
        /\ batch'[v] = IF v = w THEN {} ELSE batch[v]
        /\ todo'[v] = IF v = w THEN {} ELSE todo[v]
        /\ current'[v] = IF v = w THEN {} ELSE current[v]
        /\ sent'[v] = IF v = w THEN {} ELSE sent[v]
  BY <1>1 DEF Leave, Settle, TypeOK, QueueTypeOK
<1>4. TypeOK'
  <2>1. QueueTypeOK' /\ QueueConsistent'
    BY <1>2 DEF QInv
  <2>2. /\ todo' \in [Workers -> SUBSET Messages]
        /\ current' \in [Workers -> SUBSET Messages]
        /\ sent' \in [Workers -> SUBSET Messages]
    BY DEF Leave, TypeOK
  <2>3. processed' \in [Workers -> Nat] /\ errors' \in [Workers -> Nat] /\ faults' \in Nat
    BY DEF Leave, TypeOK
  <2>4. \A v \in Workers : todo'[v] \cup current'[v] \cup sent'[v] \subseteq batch'[v]
    BY <1>3 DEF TypeOK
  <2> QED BY <1>1, <2>1, <2>2, <2>3, <2>4 DEF TypeOK
<1>5. LoopInv'
  BY <1>1, <1>3 DEF LoopInv
<1>6. MessageInv'
  <2> SUFFICES ASSUME NEW n \in Messages
               PROVE  /\ place'[n] = "unsent" => body[n] = NotJson
                      /\ place'[n] = "acknowledged" /\ IsCreation(body[n]) => topic[n] > 0
    BY <1>1 DEF MessageInv
  <2>1. CASE n \notin batch[w]
    <3>1. place'[n] = place[n]
      BY <2>1, <1>1 DEF Settle
    <3> QED BY <3>1 DEF MessageInv
  <2>2. CASE n \in failed
    <3>1. place'[n] = AfterFailure(n)
      BY <2>2, <1>1 DEF Settle
    <3> QED BY <3>1 DEF AfterFailure
  <2>3. CASE n \in batch[w] \ failed
    <3>1. place'[n] = "acknowledged"
      BY <2>3, <1>1 DEF Settle
    <3>2. n \in batch[w] \ todo[w]
      BY <2>3
    <3> QED BY <3>1, <3>2 DEF LoopInv
  <2> QED BY <2>1, <2>2, <2>3
<1>7. BusInv'
  <2> SUFFICES ASSUME faults' = 0, EventBus, NEW n \in Messages, topic[n] > 0
               PROVE  n \in bus \/ \E v \in Workers : n \in current'[v]
    BY <1>1 DEF BusInv
  <2>1. faults = 0 /\ current[w] = {}
    BY DEF TypeOK
  <2> QED BY <1>3, <2>1 DEF BusInv
<1> QED BY <1>2, <1>4, <1>5, <1>6, <1>7

(* handler() returns when the loop is done, or raises if all failed.        *)
LEMMA ReturnInv ==
  ASSUME BInv, NEW w \in Workers, Return(w)
  PROVE  BInv'
<1>1. /\ todo[w] = {} /\ current[w] = {} /\ faults' = faults
      /\ lost' \in [Messages -> Nat]
  BY DEF Return, LoopDone, BInv, TypeOK
<1>2. PICK failed \in {{}, batch[w]} : Leave(w, failed)
  BY DEF Return
<1> QED BY <1>1, <1>2, LeaveInv

(* An exception in the loop returns the batch; nothing is current.          *)
LEMMA CrashInv ==
  ASSUME BInv, NEW w \in Workers, NEW m \in Messages, Crash(w, m)
  PROVE  BInv'
<1>1. /\ m \in batch[w] /\ current[w] = {} /\ faults' = faults /\ Leave(w, batch[w])
      /\ lost' \in [Messages -> Nat]
  BY DEF Crash, Unacknowledged, BInv, TypeOK
<1> QED BY <1>1, LeaveInv

(* A call that raises returns the batch and counts a fault.                 *)
LEMMA FailInv ==
  ASSUME BInv, NEW w \in Workers, Fail(w)
  PROVE  BInv'
<1>1. batch[w] # {} /\ faults' = faults + 1 /\ Leave(w, batch[w])
  BY DEF Fail, Unacknowledged
<1>2. lost' \in [Messages -> Nat]
  BY DEF Fail, BInv, TypeOK
<1> QED BY <1>1, <1>2, LeaveInv

(* Nothing changes.                                                         *)
LEMMA StutterInv == BInv /\ UNCHANGED vars => BInv'
<1> SUFFICES ASSUME BInv, UNCHANGED vars PROVE BInv'
  OBVIOUS
<1> USE DEF BInv
<1>1. QInv'
  BY QueueStutterInv DEF vars
<1> QED BY <1>1 DEF vars, queueVars, loop, out, QInv, TypeOK, LoopInv, MessageInv, BusInv

-----------------------------------------------------------------------------

(* The invariant is inductive: one step per action.                         *)
LEMMA StepInv == BInv /\ [Next]_vars => BInv'
<1> SUFFICES ASSUME BInv, [Next]_vars PROVE BInv'
  OBVIOUS
<1>1. ASSUME NEW m \in Messages, Arrive(m) PROVE BInv'
  BY <1>1, ArriveInv
<1>2. ASSUME NEW m \in Messages, Repeat(m) PROVE BInv'
  BY <1>2, RepeatInv
<1>3. ASSUME NEW w \in Workers, Invoke(w) PROVE BInv'
  BY <1>3, InvokeInv
<1>4. ASSUME NEW w \in Workers, Return(w) PROVE BInv'
  BY <1>4, ReturnInv
<1>5. ASSUME NEW w \in Workers, Fail(w) PROVE BInv'
  BY <1>5, FailInv
<1>6. ASSUME NEW w \in Workers, NEW m \in Messages, Handle(w, m) PROVE BInv'
  <2>1. CASE Skip(w, m)
    BY <2>1, SkipInv
  <2>2. CASE Reject(w, m)
    BY <2>2, RejectInv
  <2>3. CASE Publish(w, m)
    BY <2>3, PublishInv
  <2>4. CASE PutEvent(w, m)
    BY <2>4, PutEventInv
  <2>5. CASE Crash(w, m)
    BY <2>5, CrashInv
  <2> QED BY <1>6, <2>1, <2>2, <2>3, <2>4, <2>5 DEF Handle
<1>7. CASE UNCHANGED vars
  BY <1>7, StutterInv
<1> QED BY <1>1, <1>2, <1>3, <1>4, <1>5, <1>6, <1>7 DEF Next, Advance

(* The inductive invariant holds in every reachable state.                  *)
THEOREM BridgeInvariance == Spec => []BInv
  BY InitInv, StepInv, PTL DEF Spec

(* The queue and the function keep the types of their state, an invocation  *)
(* works only on what it holds, no message is held twice, and none is      *)
(* received more often than the redrive policy and redeliveries allow.     *)
THEOREM BridgeTypeCorrect == Spec => []TypeOK
<1>1. BInv => TypeOK
  BY DEF BInv
<1> QED BY <1>1, BridgeInvariance, PTL

(* No file event that creates an object leaves the queue acknowledged       *)
(* before its notification is on the topic, whatever it was batched with.  *)
THEOREM NoCreationVanishes == Spec => []AcknowledgedIsPublished
<1>1. BInv => AcknowledgedIsPublished
  BY DEF BInv, MessageInv, AcknowledgedIsPublished
<1> QED BY <1>1, BridgeInvariance, PTL

(* A message is on the topic at most as often as it was delivered, and one  *)
(* that is no creation never.                                              *)
THEOREM AtMostOncePerDelivery == Spec => []PublishedOncePerDelivery
<1>1. BInv => PublishedOncePerDelivery
  BY DEF BInv, MessageInv, PublishedOncePerDelivery
<1> QED BY <1>1, BridgeInvariance, PTL

(* The event bus announces only what is on the topic, and all of what was   *)
(* acknowledged as long as nothing raised.                                 *)
THEOREM TopicBeforeBus == Spec => []BusAfterTopic
<1>1. BInv => BusAfterTopic
  <2> SUFFICES ASSUME BInv PROVE BusAfterTopic
    OBVIOUS
  <2>1. \A m \in bus : topic[m] > 0
    BY DEF BInv, MessageInv, TypeOK
  <2>2. ASSUME faults = 0, EventBus, NEW m \in Messages,
               place[m] = "acknowledged", topic[m] > 0
        PROVE  m \in bus
    <3>1. \A w \in Workers : m \notin current[w]
      BY <2>2 DEF BInv, TypeOK, QueueConsistent
    <3> QED BY <2>2, <3>1 DEF BInv, BusInv
  <2> QED BY <2>1, <2>2 DEF BusAfterTopic
<1> QED BY <1>1, BridgeInvariance, PTL

-----------------------------------------------------------------------------
(* Bodies that cannot be parsed.                                           *)

PublishedCreation(n) == IsCreation(body[n]) /\ topic[n] > 0

(* A bad record that the loop has come past is counted; what is counted as  *)
(* published is the creations that this invocation put on the topic.       *)
CountInv ==
  \A w \in Workers :
    /\ \A m \in batch[w] \ todo[w] : body[m] = NotJson => errors[w] > 0
    /\ processed[w] > 0 => sent[w] # {}
    /\ \A n \in sent[w] : PublishedCreation(n)

(* What is published stays published.                                      *)
LEMMA PublishedStays ==
  ASSUME BInv, [Next]_vars
  PROVE  \A n \in Messages : PublishedCreation(n) => PublishedCreation(n)'
<1>1. ASSUME NEW m \in Messages, Arrive(m), NEW n \in Messages, PublishedCreation(n)
      PROVE  body'[n] = body[n] /\ topic'[n] = topic[n]
  <2>1. n # m
    BY <1>1, NotCreation DEF Arrive, Send, BInv, MessageInv, PublishedCreation
  <2> QED BY <1>1, <2>1 DEF Arrive, out, BInv, TypeOK
<1>2. ASSUME NEW w \in Workers, NEW m \in Messages, Publish(w, m), NEW n \in Messages, topic[n] > 0
      PROVE  body'[n] = body[n] /\ topic'[n] > 0
  BY <1>2 DEF Publish, BInv, TypeOK
<1>3. CASE ~(\E m \in Messages : Arrive(m) \/ \E w \in Workers : Publish(w, m))
  <2>1. body' = body /\ topic' = topic
    BY <1>3 DEF Next, Repeat, Invoke, Advance, Handle, Skip, Reject, PutEvent, Return, Crash, Fail,
                Leave, out, vars
  <2> QED BY <2>1 DEF PublishedCreation
<1> QED BY <1>1, <1>2, <1>3 DEF PublishedCreation

(* What a step does to an invocation that it neither starts nor ends and    *)
(* for which it publishes nothing.                                         *)
LEMMA CountsKept ==
  ASSUME BInv, CountInv, [Next]_vars, NEW w \in Workers,
         batch'[w] = batch[w], todo'[w] = todo[w], errors'[w] = errors[w],
         processed'[w] = processed[w], sent'[w] = sent[w],
         \A m \in batch[w] : body'[m] = body[m]
  PROVE  /\ \A m \in batch'[w] \ todo'[w] : body'[m] = NotJson => errors'[w] > 0
         /\ processed'[w] > 0 => sent'[w] # {}
         /\ \A n \in sent'[w] : PublishedCreation(n)'
<1>1. \A n \in sent[w] : n \in Messages
  BY DEF BInv, TypeOK
<1> QED BY <1>1, PublishedStays DEF CountInv

(* The counts are right after every step.                                  *)
LEMMA CountStep == BInv /\ CountInv /\ [Next]_vars => CountInv'
<1> SUFFICES ASSUME BInv, CountInv, [Next]_vars,
                    NEW w \in Workers
             PROVE  /\ \A m \in batch'[w] \ todo'[w] : body'[m] = NotJson => errors'[w] > 0
                    /\ processed'[w] > 0 => sent'[w] # {}
                    /\ \A n \in sent'[w] : PublishedCreation(n)'
  BY DEF CountInv
<1>1. TypeOK /\ QueueTypeOK /\ QueueConsistent
  BY DEF BInv, TypeOK
<1>2. \A n \in sent[w] : n \in Messages /\ PublishedCreation(n)'
  BY <1>1, PublishedStays DEF CountInv, TypeOK
<1>3. ASSUME NEW m \in Messages, Arrive(m)
      PROVE  /\ UNCHANGED <<batch, todo, errors, processed, sent>>
             /\ \A n \in batch[w] : body'[n] = body[n]
  <2>1. /\ place[m] = "unsent" /\ UNCHANGED <<batch, todo, errors, processed, sent>>
        /\ \A n \in Messages : n # m => body'[n] = body[n]
    BY <1>1, <1>3 DEF Arrive, Send, loop, TypeOK
  <2>2. m \notin batch[w]
    BY <1>1, <2>1 DEF QueueConsistent
  <2> QED BY <1>1, <2>1, <2>2 DEF QueueTypeOK
<1>4. CASE \E m \in Messages : Repeat(m)
  <2>1. UNCHANGED <<batch, body, todo, errors, processed, sent>>
    BY <1>4 DEF Repeat, DeliverAgain, loop
  <2> QED BY <2>1, CountsKept
<1>5. ASSUME NEW v \in Workers, Invoke(v), v = w
      PROVE  /\ \A m \in batch'[w] \ todo'[w] : body'[m] = NotJson => errors'[w] > 0
             /\ processed'[w] > 0 => sent'[w] # {}
             /\ \A n \in sent'[w] : PublishedCreation(n)'
  <2>1. batch'[w] = todo'[w] /\ processed'[w] = 0 /\ sent' = sent
    BY <1>1, <1>5 DEF Invoke, Deliver, TypeOK, QueueTypeOK
  <2> QED BY <1>2, <2>1
<1>6. ASSUME NEW m \in Messages, Skip(w, m) \/ Reject(w, m)
      PROVE  /\ \A n \in batch'[w] \ todo'[w] : body'[n] = NotJson => errors'[w] > 0
             /\ processed'[w] > 0 => sent'[w] # {}
             /\ \A n \in sent'[w] : PublishedCreation(n)'
  <2>1. /\ UNCHANGED <<batch, body, processed, sent>> /\ todo'[w] = todo[w] \ {m}
    BY <1>1, <1>6 DEF Skip, Reject, Take, queueVars, TypeOK
  <2>2. errors[w] > 0 \/ body[m] = NotJson => errors'[w] > 0
    BY <1>1, <1>6 DEF Skip, Reject, TypeOK
  <2> QED BY <1>2, <2>1, <2>2 DEF CountInv
<1>7. ASSUME NEW m \in Messages, Publish(w, m)
      PROVE  /\ \A n \in batch'[w] \ todo'[w] : body'[n] = NotJson => errors'[w] > 0
             /\ processed'[w] > 0 => sent'[w] # {}
             /\ \A n \in sent'[w] : PublishedCreation(n)'
  <2>1. /\ UNCHANGED <<batch, body, errors>> /\ IsCreation(body[m])
        /\ todo'[w] = todo[w] \ {m} /\ sent'[w] = sent[w] \cup {m}
        /\ topic'[m] = topic[m] + 1
    BY <1>1, <1>7 DEF Publish, Take, queueVars, TypeOK
  <2>2. PublishedCreation(m)'
    BY <1>1, <2>1 DEF PublishedCreation, TypeOK
  <2>3. body[m] # NotJson
    BY <2>1, NotCreation
  <2> QED BY <1>2, <2>1, <2>2, <2>3 DEF CountInv
<1>8. ASSUME NEW v \in Workers, NEW m \in Messages, PutEvent(v, m)
      PROVE  UNCHANGED <<batch, body, todo, errors, processed, sent>>
  BY <1>8 DEF PutEvent, queueVars
<1>9. ASSUME NEW v \in Workers, NEW failed \in SUBSET Messages, Leave(v, failed), v = w
      PROVE  batch'[w] = {} /\ processed'[w] = 0 /\ sent'[w] = {}
  BY <1>1, <1>9 DEF Leave, Settle, TypeOK, QueueTypeOK
<1>10. ASSUME NEW v \in Workers, v # w,
              \/ Invoke(v)
              \/ \E m \in Messages : Skip(v, m) \/ Reject(v, m) \/ Publish(v, m)
              \/ \E failed \in SUBSET Messages : Leave(v, failed)
       PROVE  /\ batch'[w] = batch[w] /\ todo'[w] = todo[w] /\ errors'[w] = errors[w]
              /\ processed'[w] = processed[w] /\ sent'[w] = sent[w] /\ body' = body
  BY <1>1, <1>10 DEF Invoke, Deliver, Skip, Reject, Publish, Take, Leave, Settle, queueVars,
                     TypeOK, QueueTypeOK
<1>11. ASSUME NEW v \in Workers, Return(v) \/ Fail(v) \/ \E m \in Messages : Crash(v, m)
       PROVE  \E failed \in SUBSET Messages : Leave(v, failed)
  BY <1>1, <1>11 DEF Return, Fail, Crash, Unacknowledged, QueueTypeOK
<1>12. CASE UNCHANGED vars
  BY <1>12, CountsKept DEF vars, queueVars, loop
<1> QED BY <1>3, <1>4, <1>5, <1>6, <1>7, <1>8, <1>9, <1>10, <1>11, <1>12, CountsKept
        DEF Next, Advance, Handle

(* Only the end of the invocation that holds a message acknowledges it, and *)
(* only when something was published or no record was bad.                 *)
LEMMA AcknowledgedInCompany ==
  ASSUME BInv, CountInv, [Next]_vars, NEW w \in Workers, NEW m \in batch[w],
         body[m] = NotJson, place'[m] = "acknowledged"
  PROVE  \E n \in sent[w] : n # m /\ n \in batch[w] /\ topic[n] > 0
<1>1. TypeOK /\ QueueTypeOK /\ QueueConsistent /\ m \in Messages /\ place[m] = "in_flight"
  BY DEF BInv, TypeOK, QueueTypeOK, QueueConsistent
<1>2. PICK v \in Workers, failed \in SUBSET Messages :
        Leave(v, failed) /\ m \in batch[v] \ failed
  <2>1. ASSUME NEW v \in Workers, NEW failed \in SUBSET Messages, Leave(v, failed)
        PROVE  m \in batch[v] \ failed
    BY <1>1, <2>1 DEF Leave, Settle, AfterFailure
  <2>2. ASSUME NEW v \in Workers, Invoke(v) PROVE FALSE
    BY <1>1, <2>2 DEF Invoke, Deliver
  <2>3. ASSUME NEW n \in Messages, Arrive(n) \/ Repeat(n) PROVE FALSE
    BY <1>1, <2>3 DEF Arrive, Repeat, Send, DeliverAgain, QueueTypeOK
  <2>4. ASSUME NEW v \in Workers, NEW n \in Messages,
               Skip(v, n) \/ Reject(v, n) \/ Publish(v, n) \/ PutEvent(v, n)
        PROVE  FALSE
    BY <1>1, <2>4 DEF Skip, Reject, Publish, PutEvent, queueVars
  <2>5. ASSUME NEW v \in Workers, Return(v) \/ Fail(v) \/ \E n \in Messages : Crash(v, n)
        PROVE  \E failed \in SUBSET Messages : Leave(v, failed)
    BY <1>1, <2>5 DEF Return, Fail, Crash, Unacknowledged, QueueTypeOK
  <2>6. CASE UNCHANGED vars
    BY <1>1, <2>6 DEF vars, queueVars
  <2> QED BY <2>1, <2>2, <2>3, <2>4, <2>5, <2>6 DEF Next, Advance, Handle
<1>3. v = w
  BY <1>1, <1>2 DEF QueueConsistent
<1>4. ASSUME Fail(w) \/ \E n \in Messages : Crash(w, n)
      PROVE  FALSE
  <2>1. Leave(w, batch[w])
    BY <1>4 DEF Fail, Crash, Unacknowledged
  <2>2. place'[m] = AfterFailure(m)
    BY <1>1, <2>1 DEF Leave, Settle
  <2> QED BY <2>2 DEF AfterFailure
<1>5. batch'[w] = {} /\ batch[w] # {}
  BY <1>1, <1>2, <1>3 DEF Leave, Settle, QueueTypeOK
<1>6. Return(w)
  <2>1. ASSUME NEW u \in Workers, u # w,
               Invoke(u) \/ Return(u) \/ Fail(u) \/ \E n \in Messages : Crash(u, n)
        PROVE  batch'[w] = batch[w]
    BY <1>1, <2>1 DEF Invoke, Deliver, Return, Fail, Crash, Leave, Settle, QueueTypeOK
  <2>2. ASSUME Invoke(w) PROVE FALSE
    BY <1>5, <2>2 DEF Invoke, Deliver
  <2>3. ASSUME NEW n \in Messages, Arrive(n) \/ Repeat(n) PROVE batch' = batch
    BY <2>3 DEF Arrive, Repeat, Send, DeliverAgain
  <2>4. ASSUME NEW u \in Workers, NEW n \in Messages,
               Skip(u, n) \/ Reject(u, n) \/ Publish(u, n) \/ PutEvent(u, n)
        PROVE  batch' = batch
    BY <2>4 DEF Skip, Reject, Publish, PutEvent, queueVars
  <2>5. CASE UNCHANGED vars
    BY <1>5, <2>5 DEF vars, queueVars
  <2> QED BY <1>4, <1>5, <2>1, <2>2, <2>3, <2>4, <2>5 DEF Next, Advance, Handle
<1>7. todo[w] = {} /\ ~AllFailed(w)
  <2>1. todo[w] = {} /\ Leave(w, IF AllFailed(w) THEN batch[w] ELSE {})
    BY <1>6 DEF Return, LoopDone
  <2>2. ASSUME AllFailed(w) PROVE FALSE
    <3>1. place'[m] = AfterFailure(m)
      BY <1>1, <2>1, <2>2 DEF Leave, Settle
    <3> QED BY <3>1 DEF AfterFailure
  <2> QED BY <2>1, <2>2
<1>8. errors[w] > 0
  BY <1>7 DEF CountInv
<1>9. processed[w] > 0
  BY <1>1, <1>7, <1>8 DEF AllFailed, TypeOK
<1>10. PICK n \in sent[w] : PublishedCreation(n)
  BY <1>9 DEF CountInv
<1>11. n # m /\ n \in batch[w]
  BY <1>1, <1>10, NotCreation DEF PublishedCreation, TypeOK
<1> QED BY <1>10, <1>11 DEF PublishedCreation

(* A body that cannot be parsed leaves the queue acknowledged only when the *)
(* invocation that acknowledges it published a creation of the same batch. *)
THEOREM MalformedInCompany == Spec => MalformedLeavesWithPublished
<1>1. Init => CountInv
  BY DEF Init, QueueInit, CountInv
<1>2. BInv /\ CountInv /\ [Next]_vars =>
        [\A w \in Workers : \A m \in batch[w] :
           body[m] = NotJson /\ place'[m] = "acknowledged" =>
             \E n \in sent[w] : n # m /\ n \in batch[w] /\ topic[n] > 0]_vars
  BY AcknowledgedInCompany
<1> QED BY <1>1, <1>2, CountStep, BridgeInvariance, PTL DEF Spec, MalformedLeavesWithPublished

-----------------------------------------------------------------------------
(* Creations on the dead-letter queue.                                     *)

NoListBody == \A n \in Messages : body[n] # NotAnObject

(* One receive is not accounted for yet while an invocation has it, and     *)
(* needs no account once it succeeded.                                     *)
Pending(m) == IF place[m] \in {"in_flight", "acknowledged"} THEN 1 ELSE 0

(* An invocation that has come past a creation has published something,     *)
(* and every other receive of a creation has a cause.                      *)
DeathInv ==
  /\ \A w \in Workers : \A m \in batch[w] \ todo[w] : IsCreation(body[m]) => processed[w] > 0
  /\ \A m \in Messages :
       /\ place[m] = "unsent" => receives[m] = 0
       /\ place[m] = "dead" => receives[m] >= MaxReceive
       /\ NoListBody /\ IsCreation(body[m]) =>
            receives[m] <= lost[m] + duplicates + Pending(m)

(* A batch comes back whole only for a fault, for a body on which the loop *)
(* raises, or when it had no creation.                                     *)
LEMMA LeaveDeaths ==
  ASSUME BInv, DeathInv, NEW w \in Workers, NEW failed \in {{}, batch[w]},
         Leave(w, failed), lost' \in [Messages -> Nat],
         \A m \in Messages : lost'[m] >= lost[m],
         \/ failed = {}
         \/ \A m \in batch[w] : lost'[m] = lost[m] + 1
         \/ ~NoListBody
         \/ \A m \in batch[w] : ~IsCreation(body[m])
  PROVE  DeathInv'
<1>1. /\ Settle(w, failed) /\ body' = body
      /\ todo' = [todo EXCEPT ![w] = {}]
      /\ processed' = [processed EXCEPT ![w] = 0]
  BY DEF Leave
<1>2. batch' = [batch EXCEPT ![w] = {}] /\ UNCHANGED <<receives, duplicates>>
  BY <1>1 DEF Settle
<1>3. TypeOK /\ QueueTypeOK /\ QueueConsistent
  BY DEF BInv, TypeOK
<1>4. ASSUME NEW v \in Workers, NEW m \in batch'[v] \ todo'[v], IsCreation(body'[m])
      PROVE  processed'[v] > 0
  <2>1. v # w
    BY <1>2, <1>3, <1>4 DEF QueueTypeOK
  <2>2. batch'[v] = batch[v] /\ todo'[v] = todo[v] /\ processed'[v] = processed[v]
    BY <1>1, <1>2, <1>3, <2>1 DEF TypeOK, QueueTypeOK
  <2> QED BY <1>1, <1>4, <2>2 DEF DeathInv
<1>5. ASSUME NEW m \in Messages
      PROVE  /\ place'[m] = "unsent" => receives'[m] = 0
             /\ place'[m] = "dead" => receives'[m] >= MaxReceive
             /\ NoListBody' /\ IsCreation(body'[m]) =>
                  receives'[m] <= lost'[m] + duplicates' + Pending(m)'
  <2>1. place'[m] = IF m \in failed THEN AfterFailure(m)
                    ELSE IF m \in batch[w] THEN "acknowledged" ELSE place[m]
    BY <1>1 DEF Settle
  <2>2. m \in batch[w] => place[m] = "in_flight"
    BY <1>3 DEF QueueConsistent
  <2>3. receives[m] \in Nat /\ lost[m] \in Nat /\ lost'[m] \in Nat /\ duplicates \in Nat /\ MaxReceive \in Nat
    BY <1>3, QueueAssumption DEF QueueTypeOK, TypeOK
  <2>4. /\ place'[m] = "unsent" => receives'[m] = 0
        /\ place'[m] = "dead" => receives'[m] >= MaxReceive
    BY <1>2, <2>1, <2>3 DEF DeathInv, AfterFailure
  <2>5. ASSUME NoListBody, IsCreation(body[m])
        PROVE  receives[m] <= lost'[m] + duplicates + Pending(m)'
    <3>1. receives[m] <= lost[m] + duplicates + Pending(m)
      BY <2>5 DEF DeathInv
    <3>2. CASE m \in failed
      <4>1. lost'[m] = lost[m] + 1
        BY <2>5, <3>2
      <4>2. Pending(m) = 1 /\ Pending(m)' \in {0, 1}
        BY <2>2, <3>2 DEF Pending
      <4> QED BY <2>3, <3>1, <4>1, <4>2
    <3>3. CASE m \notin failed
      <4>1. Pending(m)' = Pending(m)
        BY <2>1, <2>2, <3>3 DEF Pending
      <4>2. Pending(m) \in {0, 1}
        BY DEF Pending
      <4> QED BY <2>3, <3>1, <4>1, <4>2
    <3> QED BY <3>2, <3>3
  <2> QED BY <1>1, <1>2, <2>4, <2>5 DEF NoListBody
<1> QED BY <1>4, <1>5 DEF DeathInv

(* The accounts are right after every step.                                *)
LEMMA DeathStep == BInv /\ DeathInv /\ [Next]_vars => DeathInv'
<1> SUFFICES ASSUME BInv, DeathInv, [Next]_vars PROVE DeathInv'
  OBVIOUS
<1>1. TypeOK /\ QueueTypeOK /\ QueueConsistent
  BY DEF BInv, TypeOK
<1>2. /\ lost \in [Messages -> Nat] /\ duplicates \in Nat
      /\ \A m \in Messages : receives[m] \in Nat /\ lost[m] \in Nat
  BY <1>1 DEF TypeOK, QueueTypeOK
<1>3. ASSUME NEW m \in Messages, Arrive(m) PROVE DeathInv'
  <2>1. /\ place[m] = "unsent" /\ place' = [place EXCEPT ![m] = "visible"]
        /\ UNCHANGED <<receives, batch, duplicates, todo, processed, lost>>
        /\ \A n \in Messages : n # m => body'[n] = body[n]
    BY <1>1, <1>3 DEF Arrive, Send, loop, TypeOK
  <2>2. \A w \in Workers : m \notin batch[w]
    BY <1>1, <2>1 DEF QueueConsistent
  <2>3. receives[m] = 0
    BY <2>1 DEF DeathInv
  <2>4. NoListBody' => NoListBody
    <3>1. body[m] = NotJson /\ NotJson # NotAnObject
      BY <2>1 DEF BInv, MessageInv, NotJson, NotAnObject
    <3> QED BY <2>1, <3>1 DEF NoListBody
  <2>5. ASSUME NEW n \in Messages, NoListBody', IsCreation(body'[n])
        PROVE  receives'[n] <= lost'[n] + duplicates' + Pending(n)'
    <3>1. CASE n = m
      BY <1>1, <1>2, <2>1, <2>3, <3>1 DEF Pending, QueueTypeOK
    <3>2. CASE n # m
      BY <1>1, <2>1, <2>4, <2>5, <3>2 DEF Pending, QueueTypeOK, DeathInv
    <3> QED BY <3>1, <3>2
  <2>6. \A n \in Messages :
          /\ place'[n] = "unsent" => receives'[n] = 0
          /\ place'[n] = "dead" => receives'[n] >= MaxReceive
    BY <1>1, <2>1 DEF QueueTypeOK, DeathInv
  <2>7. \A w \in Workers : \A n \in batch'[w] \ todo'[w] : IsCreation(body'[n]) => processed'[w] > 0
    BY <1>1, <2>1, <2>2 DEF DeathInv, QueueTypeOK
  <2> QED BY <2>5, <2>6, <2>7 DEF DeathInv
<1>4. ASSUME NEW m \in Messages, Repeat(m) PROVE DeathInv'
  <2>1. /\ place[m] = "acknowledged" /\ place' = [place EXCEPT ![m] = "visible"]
        /\ duplicates' = duplicates + 1
        /\ UNCHANGED <<receives, batch, body, todo, processed, lost>>
    BY <1>4 DEF Repeat, DeliverAgain, loop
  <2>2. ASSUME NEW n \in Messages, NoListBody', IsCreation(body'[n])
        PROVE  receives'[n] <= lost'[n] + duplicates' + Pending(n)'
    <3>1. receives[n] <= lost[n] + duplicates + Pending(n)
      BY <2>1, <2>2 DEF DeathInv, NoListBody
    <3>2. Pending(n) <= 1 + Pending(n)' /\ Pending(n) \in Nat /\ Pending(n)' \in Nat
      BY DEF Pending
    <3>3. duplicates' + Pending(n)' >= duplicates + Pending(n)
      BY <1>2, <2>1, <3>2
    <3> QED BY <1>2, <2>1, <3>1, <3>2, <3>3
  <2>3. \A n \in Messages :
          /\ place'[n] = "unsent" => receives'[n] = 0
          /\ place'[n] = "dead" => receives'[n] >= MaxReceive
    BY <1>1, <2>1 DEF QueueTypeOK, DeathInv
  <2> QED BY <2>1, <2>2, <2>3 DEF DeathInv
<1>5. ASSUME NEW w \in Workers, Invoke(w) PROVE DeathInv'
  <2>1. PICK b \in SUBSET Messages : Deliver(w, b) /\ todo' = [todo EXCEPT ![w] = b]
    BY <1>5 DEF Invoke
  <2>2. /\ processed' = [processed EXCEPT ![w] = 0] /\ batch' = [batch EXCEPT ![w] = b]
        /\ UNCHANGED <<body, lost, duplicates>>
    BY <1>5, <2>1 DEF Invoke, Deliver
  <2>3. \A n \in Messages :
          /\ place'[n] = IF n \in b THEN "in_flight" ELSE place[n]
          /\ receives'[n] = receives[n] + (IF n \in b THEN 1 ELSE 0)
          /\ n \in b => place[n] = "visible"
    BY <2>1 DEF Deliver
  <2>4. ASSUME NEW v \in Workers, NEW n \in batch'[v] \ todo'[v], IsCreation(body'[n])
        PROVE  processed'[v] > 0
    <3>1. v # w
      BY <1>1, <2>1, <2>2, <2>4 DEF TypeOK, QueueTypeOK
    <3> QED BY <1>1, <2>1, <2>2, <2>4, <3>1 DEF TypeOK, QueueTypeOK, DeathInv
  <2>5. ASSUME NEW n \in Messages
        PROVE  /\ place'[n] = "unsent" => receives'[n] = 0
               /\ place'[n] = "dead" => receives'[n] >= MaxReceive
               /\ NoListBody' /\ IsCreation(body'[n]) =>
                    receives'[n] <= lost'[n] + duplicates' + Pending(n)'
    <3>1. CASE n \in b
      <4>1. place'[n] = "in_flight" /\ place[n] = "visible" /\ receives'[n] = receives[n] + 1
        BY <2>3, <3>1
      <4>2. Pending(n) = 0 /\ Pending(n)' = 1
        BY <4>1 DEF Pending
      <4> QED BY <1>2, <2>2, <4>1, <4>2 DEF DeathInv, NoListBody
    <3>2. CASE n \notin b
      <4>1. place'[n] = place[n] /\ receives'[n] = receives[n]
        BY <1>2, <2>3, <3>2
      <4>2. Pending(n)' = Pending(n)
        BY <4>1 DEF Pending
      <4> QED BY <2>2, <4>1, <4>2 DEF DeathInv, NoListBody
    <3> QED BY <3>1, <3>2
  <2> QED BY <2>4, <2>5 DEF DeathInv
<1>6. ASSUME UNCHANGED <<queueVars, body, lost>>,
             \A w \in Workers : \A n \in batch[w] \ todo'[w] :
               IsCreation(body[n]) => processed'[w] > 0
      PROVE  DeathInv'
  <2>1. UNCHANGED <<place, receives, batch, duplicates>>
    BY <1>6 DEF queueVars
  <2>2. \A n \in Messages : Pending(n)' = Pending(n) /\ Pending(n) \in Nat
    BY <2>1 DEF Pending
  <2>3. ASSUME NEW n \in Messages, NoListBody', IsCreation(body'[n])
        PROVE  receives'[n] <= lost'[n] + duplicates' + Pending(n)'
    <3>1. receives[n] <= lost[n] + duplicates + Pending(n)
      BY <1>6, <2>3 DEF DeathInv, NoListBody
    <3> QED BY <1>2, <1>6, <2>1, <2>2, <3>1
  <2> QED BY <1>6, <2>1, <2>3 DEF DeathInv
<1>7. ASSUME NEW w \in Workers, NEW m \in Messages, Skip(w, m) \/ Reject(w, m) PROVE DeathInv'
  <2>1. /\ UNCHANGED <<queueVars, body, processed, lost>>
        /\ todo' = [todo EXCEPT ![w] = @ \ {m}] /\ ~IsCreation(body[m])
    BY <1>7, NotCreation DEF Skip, Reject, Take
  <2>2. \A v \in Workers : \A n \in batch[v] \ todo'[v] :
          IsCreation(body[n]) => processed'[v] > 0
    BY <1>1, <2>1 DEF TypeOK, DeathInv
  <2> QED BY <1>2, <1>6, <2>1, <2>2
<1>8. ASSUME NEW w \in Workers, NEW m \in Messages, Publish(w, m) PROVE DeathInv'
  <2>1. /\ UNCHANGED <<queueVars, body, lost>>
        /\ todo' = [todo EXCEPT ![w] = @ \ {m}]
        /\ processed' = [processed EXCEPT ![w] = @ + 1]
    BY <1>8 DEF Publish, Take
  <2>2. \A v \in Workers : \A n \in batch[v] \ todo'[v] :
          IsCreation(body[n]) => processed'[v] > 0
    BY <1>1, <2>1 DEF TypeOK, DeathInv
  <2> QED BY <1>2, <1>6, <2>1, <2>2
<1>9. ASSUME NEW w \in Workers, NEW m \in Messages, PutEvent(w, m) PROVE DeathInv'
  BY <1>2, <1>6, <1>9 DEF PutEvent, DeathInv
<1>10. ASSUME NEW w \in Workers, Return(w) PROVE DeathInv'
  <2>1. lost' = lost /\ todo[w] = {}
    BY <1>10 DEF Return, LoopDone
  <2>2. CASE AllFailed(w)
    <3>1. Leave(w, batch[w])
      BY <1>10, <2>2 DEF Return
    <3>2. \A m \in batch[w] : ~IsCreation(body[m])
      BY <2>1, <2>2 DEF AllFailed, DeathInv
    <3> QED BY <1>2, <2>1, <3>1, <3>2, LeaveDeaths
  <2>3. CASE ~AllFailed(w)
    BY <1>2, <1>10, <2>1, <2>3, LeaveDeaths DEF Return
  <2> QED BY <2>2, <2>3
<1>11. ASSUME NEW w \in Workers, NEW m \in Messages, Crash(w, m) PROVE DeathInv'
  <2>1. ~NoListBody /\ Leave(w, batch[w]) /\ lost' = lost
    BY <1>11 DEF Crash, NoListBody, Unacknowledged
  <2> QED BY <1>2, <2>1, LeaveDeaths
<1>12. ASSUME NEW w \in Workers, Fail(w) PROVE DeathInv'
  <2>1. Leave(w, batch[w])
    BY <1>12 DEF Fail, Unacknowledged
  <2>2. /\ lost' = [m \in Messages |-> lost[m] + IF m \in batch[w] THEN 1 ELSE 0]
        /\ batch[w] \subseteq Messages
    BY <1>1, <1>12 DEF Fail, QueueTypeOK
  <2>3. lost' \in [Messages -> Nat] /\ \A m \in Messages : lost'[m] >= lost[m]
    BY <1>2, <2>2
  <2>4. \A m \in batch[w] : lost'[m] = lost[m] + 1
    BY <2>2
  <2> QED BY <2>1, <2>3, <2>4, LeaveDeaths
<1>13. CASE UNCHANGED vars
  BY <1>2, <1>6, <1>13 DEF vars, loop, DeathInv
<1> QED BY <1>3, <1>4, <1>5, <1>7, <1>8, <1>9, <1>10, <1>11, <1>12, <1>13
        DEF Next, Advance, Handle

(* A creation is dead-lettered only when MaxReceive of its own receives,    *)
(* less the repeated deliveries, ended in a fault, unless a body on which  *)
(* the loop raises was sent.                                               *)
THEOREM CreationsDieOfFaults == Spec => []CreationDiesOfFaultsOnly
<1>1. Init => DeathInv
  BY NotCreation DEF Init, QueueInit, DeathInv, Pending
<1>2. BInv /\ DeathInv => CreationDiesOfFaultsOnly
  <2> SUFFICES ASSUME BInv, DeathInv, NoListBody,
                      NEW m \in Messages, place[m] = "dead", IsCreation(body[m])
               PROVE  lost[m] + duplicates >= MaxReceive
    BY DEF CreationDiesOfFaultsOnly, NoListBody
  <2>1. Pending(m) = 0
    BY DEF Pending
  <2>2. receives[m] >= MaxReceive /\ receives[m] <= lost[m] + duplicates + Pending(m)
    BY DEF DeathInv
  <2>3. receives[m] \in Nat /\ lost[m] \in Nat /\ duplicates \in Nat /\ MaxReceive \in Nat
    BY QueueAssumption DEF BInv, TypeOK, QueueTypeOK
  <2> QED BY <2>1, <2>2, <2>3
<1> QED BY <1>1, <1>2, DeathStep, BridgeInvariance, PTL DEF Spec

-----------------------------------------------------------------------------
(* The refinement of Delivery.                                             *)

status == [m \in Messages |-> Status(m)]
owes == {m \in Messages : place[m] # "unsent" /\ IsCreation(body[m])}
effects == {m \in Messages : topic[m] > 0}

(* Steps that move no message and publish nothing are invisible.            *)
LEMMA Invisible ==
  ASSUME UNCHANGED <<status, owes, effects>>
  PROVE  UNCHANGED Promise!vars
  BY DEF Promise!vars, status, owes, effects

(* Nothing is sent, owed or published.                                      *)
LEMMA InitRefines == Init => Promise!Init
  BY NotCreation DEF Init, QueueInit, Promise!Init, Status

(* A message is sent; it owes its effect if its body is a creation.         *)
LEMMA ArriveRefines ==
  ASSUME BInv, NEW m \in Messages, Arrive(m)
  PROVE  Promise!Send(m)
<1>1. PICK b \in Bodies : body' = [body EXCEPT ![m] = b]
  BY DEF Arrive
<1>2. place[m] = "unsent" /\ place' = [place EXCEPT ![m] = "visible"]
  BY DEF Arrive, Send
<1>3. \A n \in Messages \ {m} : body'[n] = body[n] /\ place'[n] = place[n]
  BY <1>1, <1>2 DEF BInv, TypeOK, QueueTypeOK
<1>4. place'[m] = "visible" /\ topic' = topic
  BY <1>2 DEF Arrive, out, BInv, TypeOK, QueueTypeOK
<1>5. status[m] = "unsent" /\ status' = [status EXCEPT ![m] = "waiting"]
  BY <1>2, <1>3, <1>4 DEF status, Status
<1>6. owes' = IF IsCreation(body'[m]) THEN owes \cup {m} ELSE owes
  BY <1>2, <1>3, <1>4 DEF owes
<1>7. effects' = effects
  BY <1>4 DEF effects
<1> QED BY <1>5, <1>6, <1>7 DEF Promise!Send, status, owes, effects

(* A message that was acknowledged waits again.                             *)
LEMMA RepeatRefines ==
  ASSUME BInv, NEW m \in Messages, Repeat(m)
  PROVE  Promise!SendAgain(m)
<1>1. /\ place[m] = "acknowledged"
      /\ place' = [place EXCEPT ![m] = "visible"]
      /\ body' = body /\ topic' = topic
  BY DEF Repeat, DeliverAgain, out
<1>2. status[m] = "acknowledged" /\ status' = [status EXCEPT ![m] = "waiting"]
  BY <1>1 DEF status, Status, BInv, TypeOK, QueueTypeOK
<1>3. owes' = owes /\ effects' = effects
  BY <1>1 DEF owes, effects, BInv, TypeOK, QueueTypeOK
<1> QED BY <1>2, <1>3 DEF Promise!SendAgain, status, owes, effects

(* A batch moves from visible to in flight: both are waiting.               *)
LEMMA InvokeRefines ==
  ASSUME BInv, NEW w \in Workers, Invoke(w)
  PROVE  UNCHANGED Promise!vars
<1>1. PICK b \in SUBSET Messages : Deliver(w, b)
  BY DEF Invoke
<1>2. \A n \in Messages :
        \/ place'[n] = place[n]
        \/ place[n] = "visible" /\ place'[n] = "in_flight"
  BY <1>1 DEF Deliver
<1>3. body' = body /\ topic' = topic
  BY DEF Invoke, out
<1>4. status' = status
  BY <1>2 DEF status, Status
<1>5. owes' = owes /\ effects' = effects
  BY <1>2, <1>3 DEF owes, effects
<1> QED BY <1>4, <1>5, Invisible

(* The publication is the effect, of a message that is still in flight.     *)
LEMMA PublishRefines ==
  ASSUME BInv, NEW w \in Workers, NEW m \in Messages, Publish(w, m)
  PROVE  Promise!TakeEffect({m}) /\ {m} \in SUBSET Promise!Waiting
<1>1. place' = place /\ body' = body
  BY DEF Publish, queueVars
<1>2. \A n \in Messages : topic'[n] = IF n = m THEN topic[n] + 1 ELSE topic[n]
  BY DEF Publish, BInv, TypeOK
<1>3. effects' = effects \cup {m}
  BY <1>2 DEF effects, BInv, TypeOK
<1>4. status' = status /\ owes' = owes
  BY <1>1 DEF status, owes, Status
<1>5. place[m] = "in_flight"
  BY DEF Publish, Take, BInv, TypeOK, QueueConsistent
<1> QED BY <1>3, <1>4, <1>5
        DEF Promise!TakeEffect, Promise!Waiting, status, owes, effects, Status

(* The end of an invocation settles its batch: what it acknowledges and     *)
(* owes an effect is published.                                            *)
LEMMA LeaveRefines ==
  ASSUME BInv, NEW w \in Workers, NEW failed \in {{}, batch[w]},
         Leave(w, failed),
         failed = {} => todo[w] = {}
  PROVE  \E acked, dead \in SUBSET Promise!Waiting : Promise!Settle(acked, dead)
<1> DEFINE acked == batch[w] \ failed
           dead == {m \in failed : receives[m] >= MaxReceive}
<1>1. body' = body /\ topic' = topic /\ Settle(w, failed)
  BY DEF Leave, out
<1>2. batch[w] \subseteq Messages /\ \A n \in batch[w] : place[n] = "in_flight"
  BY DEF BInv, TypeOK, QueueTypeOK, QueueConsistent
<1>3. \A n \in Messages :
        place'[n] = IF n \in failed THEN AfterFailure(n)
                    ELSE IF n \in batch[w] THEN "acknowledged" ELSE place[n]
  BY <1>1 DEF Settle
<1>4. \A n \in batch[w] : status[n] = "waiting"
  BY <1>2 DEF status, Status
<1>5. acked \in SUBSET Promise!Waiting /\ dead \in SUBSET Promise!Waiting
  BY <1>2, <1>4 DEF Promise!Waiting, status
<1>6. acked \cap owes \subseteq effects
  <2> SUFFICES ASSUME NEW n \in batch[w], n \notin failed, IsCreation(body[n])
               PROVE  topic[n] > 0
    BY <1>2 DEF owes, effects
  <2>1. n \in batch[w] \ todo[w]
    OBVIOUS
  <2> QED BY <2>1 DEF BInv, LoopInv
<1>7. status' = [n \in Messages |-> IF n \in acked THEN "acknowledged"
                                    ELSE IF n \in dead THEN "dead"
                                    ELSE status[n]]
  <2> SUFFICES ASSUME NEW n \in Messages
               PROVE  status'[n] = IF n \in acked THEN "acknowledged"
                                   ELSE IF n \in dead THEN "dead"
                                   ELSE status[n]
    BY DEF status
  <2>1. CASE n \in acked
    BY <2>1, <1>3 DEF status, Status
  <2>2. CASE n \in failed
    BY <2>2, <1>3, <1>4 DEF status, Status, AfterFailure
  <2>3. CASE n \notin batch[w]
    BY <2>3, <1>3 DEF status, Status
  <2> QED BY <2>1, <2>2, <2>3
<1>8. owes' = owes /\ effects' = effects
  BY <1>1, <1>2, <1>3 DEF owes, effects, AfterFailure
<1>9. Promise!Settle(acked, dead)
  <2> HIDE DEF acked, dead
  <2> QED BY <1>6, <1>7, <1>8 DEF Promise!Settle, status, owes, effects
<1> QED BY <1>5, <1>9

(* Steps inside the loop that publish nothing.                              *)
LEMMA InLoopRefines ==
  ASSUME UNCHANGED <<place, body, topic>>
  PROVE  UNCHANGED Promise!vars
<1>1. status' = status /\ owes' = owes /\ effects' = effects
  BY DEF status, owes, effects, Status
<1> QED BY <1>1, Invisible

(* Every step is a step of Delivery or invisible.                           *)
LEMMA StepRefines == BInv /\ [Next]_vars => [Promise!Next]_(Promise!vars)
<1> SUFFICES ASSUME BInv, [Next]_vars PROVE [Promise!Next]_(Promise!vars)
  OBVIOUS
<1> USE DEF Promise!Next
<1>1. ASSUME NEW m \in Messages, Arrive(m) PROVE Promise!Next
  BY <1>1, ArriveRefines
<1>2. ASSUME NEW m \in Messages, Repeat(m) PROVE Promise!Next
  BY <1>2, RepeatRefines
<1>3. ASSUME NEW w \in Workers, Invoke(w) PROVE UNCHANGED Promise!vars
  BY <1>3, InvokeRefines
<1>4. ASSUME NEW w \in Workers, Return(w) PROVE Promise!Next
  <2>1. todo[w] = {}
    BY <1>4 DEF Return, LoopDone
  <2>2. PICK failed \in {{}, batch[w]} : Leave(w, failed)
    BY <1>4 DEF Return
  <2> QED BY <2>1, <2>2, LeaveRefines
<1>5. ASSUME NEW w \in Workers, Fail(w) PROVE Promise!Next
  <2>1. batch[w] # {} /\ Leave(w, batch[w])
    BY <1>5 DEF Fail, Unacknowledged
  <2> QED BY <2>1, LeaveRefines
<1>6. ASSUME NEW w \in Workers, NEW m \in Messages, Handle(w, m)
      PROVE  [Promise!Next]_(Promise!vars)
  <2>1. CASE Skip(w, m)
    BY <2>1, InLoopRefines DEF Skip, queueVars, out
  <2>2. CASE Reject(w, m)
    BY <2>2, InLoopRefines DEF Reject, queueVars, out
  <2>3. CASE Publish(w, m)
    BY <2>3, PublishRefines
  <2>4. CASE PutEvent(w, m)
    BY <2>4, InLoopRefines DEF PutEvent, queueVars
  <2>5. CASE Crash(w, m)
    <3>1. batch[w] # {} /\ Leave(w, batch[w])
      BY <2>5 DEF Crash, Unacknowledged, BInv, TypeOK
    <3> QED BY <3>1, LeaveRefines
  <2> QED BY <1>6, <2>1, <2>2, <2>3, <2>4, <2>5 DEF Handle
<1>7. CASE UNCHANGED vars
  BY <1>7, InLoopRefines DEF vars, queueVars, out
<1> QED BY <1>1, <1>2, <1>3, <1>4, <1>5, <1>6, <1>7 DEF Next, Advance

(* The bridge implements the promise of a function behind a queue.          *)
THEOREM BridgeRefines == Spec => ImplementsDelivery
  BY InitRefines, StepRefines, BridgeInvariance, PTL
     DEF Spec, ImplementsDelivery, Promise!Spec
=============================================================================
