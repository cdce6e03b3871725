------------------------ MODULE MetadataSyncProofs ------------------------
(***************************************************************************)
(* Theorems about MetadataSync, for every set of files, every number of    *)
(* events and invocations and any bounds: no event vanishes, the function  *)
(* keeps what Delivery promises, a valid event is given up for a cause     *)
(* only and, when the sender names the new path of a rename, readers of    *)
(* the view get what LatestWins promises, and the view agrees with the     *)
(* volume whatever the order, the repetitions and the failures behind the  *)
(* queue were.                                                             *)
(***************************************************************************)
EXTENDS MetadataSync, SqsQueueProofs, FiniteSetTheorems

(* Messages are numbered in the order of the file events, without gaps.     *)
SourceInv ==
  /\ 1 .. sent \subseteq Messages
  /\ \A m \in Messages : place[m] = "unsent" <=> m > sent
  /\ \A m \in Messages : m > sent => event[m] = Malformed

(* A batch that gets as far as the append holds nothing mistyped; behind    *)
(* the append, what is valid in it is in the table, and so is what was     *)
(* acknowledged.                                                           *)
RecordInv ==
  /\ \A w \in Workers : phase[w] \in {"append", "respond"} => Misfits(batch[w]) = {}
  /\ \A w \in Workers :
       phase[w] = "respond" => \A m \in batch[w] \ Invalid(batch[w]) : Recorded(m)
  /\ \A m \in Messages : place[m] = "acknowledged" => Valid(m) /\ Recorded(m)
  /\ \A m \in Messages : Recorded(m) => place[m] # "unsent"

SInv == QInv /\ TypeOK /\ SourceInv /\ RecordInv

-----------------------------------------------------------------------------
(* The rows of an event.                                                   *)

(* The fields of a valid event.                                             *)
LEMMA EventFields ==
  ASSUME NEW e \in Event
  PROVE  e.op \in {"create", "write", "delete", "rename"} /\ e.file \in Files /\ e.new \in Files
  BY DEF Event

(* A valid message has rows, of the right type and with its timestamp.      *)
LEMMA RowsOfValid ==
  ASSUME TypeOK, NEW m \in Messages, Valid(m)
  PROVE  /\ RowsOf(m) \in SUBSET Row
         /\ RowsOf(m) # {}
         /\ \A r \in RowsOf(m) : r.modified = m /\ r.enriched = Null
<1>1. event[m] \in Event
  BY DEF TypeOK, Valid
<1>2. event[m].file \in Files /\ event[m].new \in Files
  BY <1>1, EventFields
<1>3. m \in Nat /\ commits \in Nat
  BY SyncAssumption DEF TypeOK
<1>4. \A f \in Files : Present(f, m) \in Row /\ Absent(f, m) \in Row
  BY <1>3 DEF Present, Absent, Version, EventTime, Row, Null
<1>5. \A f : /\ Present(f, m).modified = m /\ Present(f, m).enriched = Null
             /\ Absent(f, m).modified = m /\ Absent(f, m).enriched = Null
  BY DEF Present, Absent, Version, EventTime
<1>6. \A r \in RowsOf(m) : \E f \in Files : r = Present(f, m) \/ r = Absent(f, m)
  BY <1>2 DEF RowsOf
<1>7. RowsOf(m) # {}
  BY DEF RowsOf
<1> QED BY <1>4, <1>5, <1>6, <1>7

(* What passes validation in a batch without misfits is valid, in whatever  *)
(* batch it is.                                                            *)
LEMMA InvalidInBatch ==
  ASSUME NEW b, Misfits(b) = {}, NEW m \in b \ Invalid(b)
  PROVE  Valid(m)
  BY DEF Invalid, Misfits, Valid, Unusable

-----------------------------------------------------------------------------

(* Nothing is sent and the table is empty.                                  *)
LEMMA SyncInitInv == Init => SInv
<1> SUFFICES ASSUME Init PROVE SInv
  OBVIOUS
<1>1. QInv
  BY QueueInitInv DEF Init
<1>2. TypeOK
  BY <1>1 DEF Init, TypeOK, QInv, Unusable
<1>3. SourceInv
  BY SyncAssumption DEF Init, QueueInit, SourceInv
<1>4. RecordInv
  BY DEF Init, QueueInit, RecordInv, Recorded
<1> QED BY <1>1, <1>2, <1>3, <1>4 DEF SInv

(* A file event takes the next number.                                      *)
LEMMA NotifyInv ==
  ASSUME SInv, NEW e \in Event \cup Unusable, Notify(e),
         existing' \in SUBSET Files, unusable' \in Nat
  PROVE  SInv'
<1> USE DEF SInv
<1> DEFINE m == sent + 1
<1>1. /\ m \in Messages /\ sent' = m /\ sent \in Nat
      /\ event' = [event EXCEPT ![m] = e]
      /\ Send(m)
      /\ UNCHANGED <<table, commits, phase, loaded, faults, spoiled>>
  BY DEF Notify, catalog, TypeOK
<1>2. QInv'
  BY <1>1, SendInv
<1>3. /\ place[m] = "unsent" /\ place'[m] = "visible"
      /\ \A n \in Messages \ {m} : place'[n] = place[n] /\ event'[n] = event[n]
      /\ UNCHANGED <<batch, receives, duplicates>>
  BY <1>1 DEF Send, TypeOK, QueueTypeOK
<1>4. TypeOK'
  <2>1. QueueTypeOK' /\ QueueConsistent'
    BY <1>2 DEF QInv
  <2>2. event' \in [Messages -> Event \cup Unusable]
    BY <1>1 DEF TypeOK
  <2> QED BY <1>1, <2>1, <2>2 DEF TypeOK
<1>5. SourceInv'
  <2>1. 1 .. sent' \subseteq Messages
    BY <1>1 DEF SourceInv
  <2>2. ASSUME NEW n \in Messages
        PROVE  /\ place'[n] = "unsent" <=> n > sent'
               /\ n > sent' => event'[n] = Malformed
    BY <1>1, <1>3, SyncAssumption DEF SourceInv
  <2> QED BY <2>1, <2>2 DEF SourceInv
<1>6. \A v \in Workers : m \notin batch[v] /\ batch[v] \subseteq Messages
  BY <1>3 DEF TypeOK, QueueTypeOK, QueueConsistent
<1>7. \A v \in Workers : /\ Invalid(batch[v])' = Invalid(batch[v])
                         /\ Misfits(batch[v])' = Misfits(batch[v])
  <2>1. \A v \in Workers : Invalid(batch[v])' = Invalid(batch[v])
    BY <1>3, <1>6 DEF Invalid
  <2> QED BY <2>1, <1>3, <1>6 DEF Misfits
<1>8. \A n : Recorded(n)' <=> Recorded(n)
  BY <1>1 DEF Recorded
<1>9. \A n \in Messages \ {m} : Valid(n)' <=> Valid(n)
  BY <1>3 DEF Valid
<1>10. RecordInv'
  BY <1>1, <1>3, <1>7, <1>8, <1>9 DEF RecordInv
<1> QED BY <1>2, <1>4, <1>5, <1>10

(* Each file operation is one notification.                                 *)
LEMMA FileSystemInv == SInv /\ FileSystem => SInv'
<1> SUFFICES ASSUME SInv, FileSystem PROVE SInv'
  OBVIOUS
<1>0. existing \in SUBSET Files /\ unusable \in Nat
  BY DEF SInv, TypeOK
<1>1. ASSUME NEW f \in Files, CreateFile(f) PROVE SInv'
  <2>1. [op |-> "create", file |-> f, new |-> f] \in Event
    BY DEF Event
  <2> QED BY <1>0, <1>1, <2>1, NotifyInv DEF CreateFile
<1>2. ASSUME NEW f \in Files, WriteFile(f) PROVE SInv'
  <2>1. [op |-> "write", file |-> f, new |-> f] \in Event
    BY DEF Event
  <2> QED BY <1>0, <1>2, <2>1, NotifyInv DEF WriteFile
<1>3. ASSUME NEW f \in Files, DeleteFile(f) PROVE SInv'
  <2>1. [op |-> "delete", file |-> f, new |-> f] \in Event
    BY DEF Event
  <2> QED BY <1>0, <1>3, <2>1, NotifyInv DEF DeleteFile
<1>4. ASSUME NEW f \in Files, NEW g \in Files, RenameFile(f, g) PROVE SInv'
  <2>1. [op |-> "rename", file |-> f, new |-> NewPath(f, g)] \in Event
    BY DEF Event, NewPath
  <2> QED BY <1>0, <1>4, <2>1, NotifyInv DEF RenameFile
<1>5. CASE SendUnusable
  BY <1>0, <1>5, NotifyInv DEF SendUnusable
<1> QED BY <1>1, <1>2, <1>3, <1>4, <1>5 DEF FileSystem

(* An invocation answers at once only if its whole batch is invalid.        *)
LEMMA SyncInvokeInv ==
  ASSUME SInv, NEW w \in Workers, Invoke(w)
  PROVE  SInv'
<1> USE DEF SInv
<1>1. PICK b \in SUBSET Messages :
        /\ Deliver(w, b)
        /\ phase' = [phase EXCEPT ![w] = After(b)]
  BY DEF Invoke
<1>2. /\ UNCHANGED <<existing, event, sent, unusable, table, commits, faults, spoiled>>
      /\ loaded' = [loaded EXCEPT ![w] = commits]
  BY DEF Invoke, source, catalog
<1>3. QInv'
  BY <1>1, DeliverInv
<1>4. /\ \A n \in b : place[n] = "visible"
      /\ batch' = [batch EXCEPT ![w] = b]
      /\ \A n \in Messages : place'[n] = IF n \in b THEN "in_flight" ELSE place[n]
  BY <1>1 DEF Deliver
<1>5. TypeOK'
  <2>1. QueueTypeOK' /\ QueueConsistent'
    BY <1>3 DEF QInv
  <2>2. phase' \in [Workers -> {"idle", "convert", "append", "respond"}]
    BY <1>1 DEF TypeOK, After
  <2>3. loaded' \in [Workers -> Nat]
    BY <1>2 DEF TypeOK
  <2> QED BY <1>2, <2>1, <2>2, <2>3 DEF TypeOK
<1>6. SourceInv'
  BY <1>2, <1>4 DEF SourceInv
<1>7. \A c : Invalid(c)' = Invalid(c) /\ Misfits(c)' = Misfits(c)
  BY <1>2 DEF Invalid, Misfits
<1>8. \A n : (Recorded(n)' <=> Recorded(n)) /\ (Valid(n)' <=> Valid(n))
  BY <1>2 DEF Recorded, Valid
<1>9. RecordInv'
  <2>1. ASSUME NEW v \in Workers, phase'[v] = "respond",
               NEW n \in batch'[v] \ Invalid(batch'[v])
        PROVE  Recorded(n)
    <3>1. CASE v = w
      <4>1. batch'[v] = b
        BY <3>1, <1>4 DEF TypeOK, QueueTypeOK
      <4>2. b = Invalid(b)
        BY <2>1, <3>1, <1>1 DEF TypeOK, After
      <4> QED BY <2>1, <4>1, <4>2
    <3>2. CASE v # w
      BY <2>1, <3>2, <1>1, <1>4 DEF RecordInv, TypeOK, QueueTypeOK
    <3> QED BY <3>1, <3>2
  <2>2. \A v \in Workers : /\ Invalid(batch[v])' = Invalid(batch'[v])
                          /\ Misfits(batch[v])' = Misfits(batch'[v])
    BY <1>2 DEF Invalid, Misfits
  <2>5. ASSUME NEW v \in Workers, phase'[v] \in {"append", "respond"}
        PROVE  Misfits(batch'[v]) = {}
    <3>1. CASE v = w
      <4>1. batch'[v] = b /\ After(b) \in {"append", "respond"}
        BY <2>5, <3>1, <1>1, <1>4 DEF TypeOK, QueueTypeOK
      <4> QED BY <4>1 DEF After, Misfits
    <3>2. CASE v # w
      BY <2>5, <3>2, <1>1, <1>4 DEF RecordInv, TypeOK, QueueTypeOK
    <3> QED BY <3>1, <3>2
  <2>3. ASSUME NEW n \in Messages, place'[n] = "acknowledged"
        PROVE  Valid(n) /\ Recorded(n)
    BY <2>3, <1>4 DEF RecordInv
  <2>4. ASSUME NEW n \in Messages, Recorded(n)
        PROVE  place'[n] # "unsent"
    BY <2>4, <1>4 DEF RecordInv
  <2> QED BY <1>8, <2>1, <2>2, <2>3, <2>4, <2>5 DEF RecordInv
<1> QED BY <1>3, <1>5, <1>6, <1>9

(* What an append adds to the table: the rows of the valid messages.        *)
Appended(w) == batch[w] \ Invalid(batch[w])

(* An append records exactly the valid messages of its batch.               *)
LEMMA AppendedRows ==
  ASSUME SInv, NEW w \in Workers, Append(w)
  PROVE  /\ Appended(w) \in SUBSET Messages
         /\ \A m \in Appended(w) : place[m] = "in_flight" /\ Valid(m)
         /\ \A r : r \in table' <=> r \in table \/ \E m \in Appended(w) : r \in RowsOf(m)
         /\ \A n : Recorded(n)' <=> Recorded(n) \/ n \in Appended(w)
<1>1. Appended(w) \in SUBSET Messages /\ \A m \in Appended(w) : place[m] = "in_flight"
  BY DEF Appended, SInv, TypeOK, QueueTypeOK, QueueConsistent
<1>2. \A m \in Appended(w) : Valid(m)
  <2>1. Misfits(batch[w]) = {}
    BY DEF Append, SInv, RecordInv
  <2> QED BY <2>1, InvalidInBatch DEF Appended
<1>3. table' = table \cup UNION {RowsOf(m) : m \in Appended(w)}
  BY DEF Append, Appended
<1>4. \A r : r \in table' <=> r \in table \/ \E m \in Appended(w) : r \in RowsOf(m)
  BY <1>3
<1>5. \A m \in Appended(w) : RowsOf(m) # {} /\ \A r \in RowsOf(m) : r.modified = m
  BY <1>1, <1>2, RowsOfValid DEF SInv
<1>6. \A n : Recorded(n)' <=> \E r \in table' : r.modified = n
  BY DEF Recorded
<1>7. \A n : Recorded(n)' <=> Recorded(n) \/ n \in Appended(w)
  BY <1>4, <1>5, <1>6 DEF Recorded
<1> QED BY <1>1, <1>2, <1>4, <1>7

(* Behind an append, what is valid in the batch is recorded.                *)
LEMMA AppendInv ==
  ASSUME SInv, NEW w \in Workers, Append(w)
  PROVE  SInv'
<1> USE DEF SInv
<1>1. /\ UNCHANGED <<place, receives, batch, duplicates, existing, event, sent,
                     unusable, loaded, faults, spoiled>>
      /\ commits' = commits + 1
      /\ phase' = [phase EXCEPT ![w] = "respond"]
  BY DEF Append, queueVars, source
<1>2. QInv'
  BY <1>1, QueueStutterInv DEF queueVars
<1>3. table' \in SUBSET Row
  <2>1. \A m \in Appended(w) : RowsOf(m) \in SUBSET Row
    BY AppendedRows, RowsOfValid
  <2> QED BY <2>1, AppendedRows DEF TypeOK
<1>4. TypeOK'
  <2>1. QueueTypeOK' /\ QueueConsistent'
    BY <1>2 DEF QInv
  <2> QED BY <1>1, <1>3, <2>1 DEF TypeOK
<1>5. SourceInv'
  BY <1>1 DEF SourceInv
<1>6. /\ \A c : Invalid(c)' = Invalid(c) /\ Misfits(c)' = Misfits(c)
      /\ \A n : Valid(n)' <=> Valid(n)
  BY <1>1 DEF Invalid, Misfits, Valid
<1>7. RecordInv'
  <2>1. ASSUME NEW v \in Workers, phase'[v] = "respond",
               NEW n \in batch[v] \ Invalid(batch[v])
        PROVE  Recorded(n)'
    <3>1. CASE v = w
      BY <2>1, <3>1, AppendedRows DEF Appended
    <3>2. CASE v # w
      BY <2>1, <3>2, <1>1, AppendedRows DEF RecordInv, TypeOK
    <3> QED BY <3>1, <3>2
  <2>2. \A v \in Workers : /\ Invalid(batch[v])' = Invalid(batch[v])
                          /\ Misfits(batch[v])' = Misfits(batch[v])
    BY <1>1 DEF Invalid, Misfits
  <2>5. \A v \in Workers : phase'[v] \in {"append", "respond"} => Misfits(batch[v]) = {}
    BY <1>1 DEF RecordInv, TypeOK, Append
  <2>3. ASSUME NEW n \in Messages, place[n] = "acknowledged"
        PROVE  Valid(n) /\ Recorded(n)'
    BY <2>3, AppendedRows DEF RecordInv
  <2>4. ASSUME NEW n \in Messages, Recorded(n)'
        PROVE  place[n] # "unsent"
    BY <2>4, AppendedRows DEF RecordInv
  <2> QED BY <1>1, <1>6, <2>1, <2>2, <2>3, <2>4, <2>5 DEF RecordInv
<1> QED BY <1>2, <1>4, <1>5, <1>7

(* An invocation ends by failing all of its batch, or, once it appended,    *)
(* what is invalid in it.                                                  *)
LEMMA FinishInv ==
  ASSUME SInv, NEW w \in Workers, NEW failed \in SUBSET batch[w], Finish(w, failed),
         \A m \in batch[w] \ failed : Valid(m) /\ Recorded(m),
         faults' \in Nat, spoiled' \in [Messages -> Nat]
  PROVE  SInv'
<1> USE DEF SInv
<1>1. /\ Settle(w, failed)
      /\ UNCHANGED <<receives, duplicates, existing, event, sent, unusable, table, commits>>
      /\ phase' = [phase EXCEPT ![w] = "idle"]
      /\ loaded' = [loaded EXCEPT ![w] = 0]
  BY DEF Finish, Settle, source, catalog
<1>2. QInv'
  BY <1>1, SettleInv
<1>3. batch' = [batch EXCEPT ![w] = {}]
  BY <1>1 DEF Settle
<1>4. \A n \in Messages :
        place'[n] = IF n \in failed THEN AfterFailure(n)
                    ELSE IF n \in batch[w] THEN "acknowledged" ELSE place[n]
  BY <1>1 DEF Settle
<1>5. \A n \in batch[w] : place[n] = "in_flight"
  BY DEF TypeOK, QueueConsistent
<1>6. \A n \in Messages :
        /\ place'[n] = "unsent" <=> place[n] = "unsent"
        /\ place'[n] = "acknowledged" => place[n] = "acknowledged" \/ n \in batch[w] \ failed
  BY <1>4, <1>5 DEF AfterFailure
<1>7. TypeOK'
  <2>1. QueueTypeOK' /\ QueueConsistent'
    BY <1>2 DEF QInv
  <2> QED BY <1>1, <2>1 DEF TypeOK
<1>8. SourceInv'
  BY <1>1, <1>6 DEF SourceInv
<1>9. /\ \A c : Invalid(c)' = Invalid(c) /\ Misfits(c)' = Misfits(c)
      /\ \A n : (Valid(n)' <=> Valid(n)) /\ (Recorded(n)' <=> Recorded(n))
  BY <1>1 DEF Invalid, Misfits, Valid, Recorded
<1>10. RecordInv'
  <2>1. ASSUME NEW v \in Workers, phase'[v] \in {"append", "respond"}
        PROVE  phase[v] = phase'[v] /\ batch'[v] = batch[v]
    BY <2>1, <1>1, <1>3 DEF TypeOK, QueueTypeOK
  <2>2. \A v \in Workers : /\ Invalid(batch[v])' = Invalid(batch'[v])
                          /\ Misfits(batch[v])' = Misfits(batch'[v])
    BY <1>1 DEF Invalid, Misfits
  <2> QED BY <1>6, <1>9, <2>1, <2>2 DEF RecordInv
<1> QED BY <1>2, <1>7, <1>8, <1>10

(* What a response does not fail is valid and recorded.                     *)
LEMMA RespondFinishes ==
  ASSUME SInv, NEW w \in Workers, Respond(w)
  PROVE  \E failed \in SUBSET batch[w] :
           /\ Finish(w, failed)
           /\ \A m \in batch[w] \ failed : Valid(m) /\ Recorded(m)
<1>1. Invalid(batch[w]) \in SUBSET batch[w]
  BY DEF Invalid
<1>2. \A m \in batch[w] \ Invalid(batch[w]) : Valid(m) /\ Recorded(m)
  <2>1. Misfits(batch[w]) = {}
    BY DEF Respond, SInv, RecordInv
  <2> QED BY <2>1, InvalidInBatch DEF Respond, SInv, RecordInv
<1> QED BY <1>1, <1>2 DEF Respond, BatchItemFailures

(* The steps of handler(), and its being killed.                            *)
LEMMA AdvanceInv ==
  ASSUME SInv, NEW w \in Workers, Advance(w) \/ Kill(w)
  PROVE  SInv'
<1>0. faults \in Nat /\ spoiled \in [Messages -> Nat]
  BY DEF SInv, TypeOK
<1>1. CASE ConversionFails(w)
  <2>1. spoiled' \in [Messages -> Nat]
    BY <1>0, <1>1 DEF ConversionFails
  <2> QED BY <1>0, <1>1, <2>1, FinishInv DEF ConversionFails, WholeBatch
<1>2. CASE Append(w)
  BY <1>2, AppendInv
<1>3. CASE Conflict(w)
  BY <1>0, <1>3, FinishInv DEF Conflict, WholeBatch
<1>4. CASE Respond(w)
  BY <1>0, <1>4, RespondFinishes, FinishInv DEF Respond
<1>5. CASE Kill(w)
  BY <1>0, <1>5, FinishInv DEF Kill
<1> QED BY <1>1, <1>2, <1>3, <1>4, <1>5 DEF Advance

(* A message that is delivered again was recorded.                          *)
LEMMA SyncRepeatInv ==
  ASSUME SInv, NEW m \in Messages, Repeat(m)
  PROVE  SInv'
<1> USE DEF SInv
<1>1. /\ DeliverAgain(m)
      /\ UNCHANGED <<existing, event, sent, unusable, table, commits, phase, loaded, faults, spoiled>>
  BY DEF Repeat, source, catalog
<1>2. QInv'
  BY <1>1, DeliverAgainInv
<1>3. /\ place[m] = "acknowledged" /\ place'[m] = "visible"
      /\ \A n \in Messages \ {m} : place'[n] = place[n]
      /\ UNCHANGED batch
  BY <1>1 DEF DeliverAgain, TypeOK, QueueTypeOK
<1>4. TypeOK'
  BY <1>1, <1>2 DEF TypeOK, QInv
<1>5. SourceInv'
  BY <1>1, <1>3 DEF SourceInv
<1>6. RecordInv'
  BY <1>1, <1>3 DEF RecordInv, Recorded, Valid, Invalid, Misfits
<1> QED BY <1>2, <1>4, <1>5, <1>6

(* Nothing changes.                                                         *)
LEMMA SyncStutterInv == SInv /\ UNCHANGED vars => SInv'
<1> SUFFICES ASSUME SInv, UNCHANGED vars PROVE SInv'
  OBVIOUS
<1> USE DEF SInv
<1>1. QInv'
  BY QueueStutterInv DEF vars
<1>2. UNCHANGED <<place, receives, batch, duplicates, existing, event, sent, unusable,
                  table, commits, phase, loaded, faults, spoiled>>
  BY DEF vars, queueVars, source, catalog
<1>3. TypeOK'
  BY <1>1, <1>2 DEF TypeOK, QInv
<1>4. SourceInv' /\ RecordInv'
  BY <1>2 DEF SourceInv, RecordInv, Recorded, Valid, Invalid, Misfits
<1> QED BY <1>1, <1>3, <1>4

(* The invariant is inductive.                                              *)
LEMMA SyncStepInv == SInv /\ [Next]_vars => SInv'
  BY FileSystemInv, SyncInvokeInv, AdvanceInv, SyncRepeatInv, SyncStutterInv
     DEF Next

(* The first inductive invariant holds in every reachable state.            *)
THEOREM SyncInvariance == Spec => []SInv
  BY SyncInitInv, SyncStepInv, PTL DEF Spec

(* The queue, the table and the invocations keep the types of their state.  *)
THEOREM SyncTypeCorrect == Spec => []TypeOK
<1>1. SInv => TypeOK
  BY DEF SInv
<1> QED BY <1>1, SyncInvariance, PTL

(* A message leaves the queue acknowledged only when its rows are in the    *)
(* table, and an invalid one never.                                        *)
THEOREM NoEventVanishes == Spec => []AcknowledgedIsRecorded
<1>1. SInv => AcknowledgedIsRecorded
  BY DEF SInv, RecordInv, AcknowledgedIsRecorded
<1> QED BY <1>1, SyncInvariance, PTL

-----------------------------------------------------------------------------
(* The refinement of Delivery.                                             *)

status == [m \in Messages |-> Status(m)]
owes == {m \in Messages : place[m] # "unsent"}
effects == {m \in Messages : Recorded(m)}

(* Steps that move no message and append nothing are invisible.             *)
LEMMA SyncInvisible ==
  ASSUME UNCHANGED <<place, table>>
  PROVE  UNCHANGED Promise!vars
<1>1. status' = status /\ owes' = owes /\ effects' = effects
  BY DEF status, owes, effects, Status, Recorded
<1> QED BY <1>1 DEF Promise!vars, status, owes, effects

(* Nothing is sent or recorded.                                             *)
LEMMA SyncInitRefines == Init => Promise!Init
  BY DEF Init, QueueInit, Promise!Init, Status, Recorded

(* A file event is sent, and owes its rows.                                 *)
LEMMA NotifyRefines ==
  ASSUME SInv, NEW e, Notify(e)
  PROVE  Promise!Next
<1>1. PICK m \in Messages : Send(m) /\ table' = table
  BY DEF Notify, catalog
<1>2. /\ place[m] = "unsent" /\ place'[m] = "visible"
      /\ \A n \in Messages \ {m} : place'[n] = place[n]
  BY <1>1 DEF Send, SInv, TypeOK, QueueTypeOK
<1>3. status[m] = "unsent" /\ status' = [status EXCEPT ![m] = "waiting"]
  BY <1>1, <1>2 DEF status, Status
<1>4. owes' = owes \cup {m}
  BY <1>1, <1>2 DEF owes
<1>5. effects' = effects
  BY <1>1 DEF effects, Recorded
<1>6. Promise!Send(m)
  BY <1>3, <1>4, <1>5 DEF Promise!Send, status, owes, effects
<1> QED BY <1>1, <1>6 DEF Promise!Next

(* A batch moves from visible to in flight: both are waiting.               *)
LEMMA SyncInvokeRefines ==
  ASSUME SInv, NEW w \in Workers, Invoke(w)
  PROVE  UNCHANGED Promise!vars
<1>1. PICK b \in SUBSET Messages : Deliver(w, b)
  BY DEF Invoke
<1>2. \A n \in Messages :
        \/ place'[n] = place[n]
        \/ place[n] = "visible" /\ place'[n] = "in_flight"
  BY <1>1 DEF Deliver
<1>3. table' = table
  BY DEF Invoke, catalog
<1>4. status' = status /\ owes' = owes /\ effects' = effects
  BY <1>2, <1>3 DEF status, Status, owes, effects, Recorded
<1> QED BY <1>4 DEF Promise!vars, status, owes, effects

(* An append is the effect of every valid message of its batch.             *)
LEMMA AppendRefines ==
  ASSUME SInv, NEW w \in Workers, Append(w)
  PROVE  Promise!Next
<1>1. place' = place
  BY DEF Append, queueVars
<1>2. status' = status /\ owes' = owes
  BY <1>1 DEF status, owes, Status
<1>3. effects' = effects \cup Appended(w)
  BY AppendedRows DEF effects
<1>4. Appended(w) \in SUBSET Promise!Waiting
  BY AppendedRows DEF Promise!Waiting, Status
<1>5. Promise!TakeEffect(Appended(w))
  BY <1>2, <1>3 DEF Promise!TakeEffect, status, owes, effects
<1> QED BY <1>4, <1>5 DEF Promise!Next

(* The end of an invocation settles its batch.                              *)
LEMMA FinishRefines ==
  ASSUME SInv, NEW w \in Workers, NEW failed \in SUBSET batch[w], Finish(w, failed),
         \A m \in batch[w] \ failed : Valid(m) /\ Recorded(m)
  PROVE  Promise!Next
<1> DEFINE acked == batch[w] \ failed
           dead == {m \in failed : receives[m] >= MaxReceive}
<1>1. table' = table /\ Settle(w, failed)
  BY DEF Finish, catalog
<1>2. batch[w] \subseteq Messages /\ \A n \in batch[w] : place[n] = "in_flight"
  BY DEF SInv, TypeOK, QueueTypeOK, QueueConsistent
<1>3. \A n \in Messages :
        place'[n] = IF n \in failed THEN AfterFailure(n)
                    ELSE IF n \in batch[w] THEN "acknowledged" ELSE place[n]
  BY <1>1 DEF Settle
<1>4. \A n \in batch[w] : status[n] = "waiting"
  BY <1>2 DEF status, Status
<1>5. acked \in SUBSET Promise!Waiting /\ dead \in SUBSET Promise!Waiting
  BY <1>2, <1>4 DEF Promise!Waiting, status
<1>6. acked \cap owes \subseteq effects
  BY <1>2 DEF effects
<1>7. status' = [n \in Messages |-> IF n \in acked THEN "acknowledged"
                                    ELSE IF n \in dead THEN "dead"
                                    ELSE status[n]]
  <2> SUFFICES ASSUME NEW n \in Messages
               PROVE  status'[n] = IF n \in acked THEN "acknowledged"
                                   ELSE IF n \in dead THEN "dead"
                                   ELSE status[n]
    BY DEF status
  <2>1. CASE n \in acked
    BY <2>1, <1>3 DEF status, Status
  <2>2. CASE n \in failed
    BY <2>2, <1>3, <1>4 DEF status, Status, AfterFailure
  <2>3. CASE n \notin batch[w]
    BY <2>3, <1>3 DEF status, Status
  <2> QED BY <2>1, <2>2, <2>3
<1>8. owes' = owes /\ effects' = effects
  BY <1>1, <1>2, <1>3 DEF owes, effects, AfterFailure, Recorded
<1>9. Promise!Settle(acked, dead)
  <2> HIDE DEF acked, dead
  <2> QED BY <1>6, <1>7, <1>8 DEF Promise!Settle, status, owes, effects
<1> QED BY <1>5, <1>9 DEF Promise!Next

(* A message that was acknowledged waits again.                             *)
LEMMA SyncRepeatRefines ==
  ASSUME SInv, NEW m \in Messages, Repeat(m)
  PROVE  Promise!Next
<1>1. /\ place[m] = "acknowledged"
      /\ place' = [place EXCEPT ![m] = "visible"]
      /\ table' = table
  BY DEF Repeat, DeliverAgain, catalog
<1>2. status[m] = "acknowledged" /\ status' = [status EXCEPT ![m] = "waiting"]
  BY <1>1 DEF status, Status, SInv, TypeOK, QueueTypeOK
<1>3. owes' = owes /\ effects' = effects
  BY <1>1 DEF owes, effects, Recorded, SInv, TypeOK, QueueTypeOK
<1>4. Promise!SendAgain(m)
  BY <1>2, <1>3 DEF Promise!SendAgain, status, owes, effects
<1> QED BY <1>4 DEF Promise!Next

(* Every step is a step of Delivery or invisible.                           *)
LEMMA SyncStepRefines == SInv /\ [Next]_vars => [Promise!Next]_(Promise!vars)
<1> SUFFICES ASSUME SInv, [Next]_vars PROVE [Promise!Next]_(Promise!vars)
  OBVIOUS
<1>1. CASE FileSystem
  <2>1. PICK e : Notify(e)
    BY <1>1 DEF FileSystem, CreateFile, WriteFile, DeleteFile, RenameFile, SendUnusable
  <2> QED BY <2>1, NotifyRefines
<1>2. ASSUME NEW w \in Workers, Invoke(w) PROVE UNCHANGED Promise!vars
  BY <1>2, SyncInvokeRefines
<1>3. ASSUME NEW w \in Workers, Append(w) PROVE Promise!Next
  BY <1>3, AppendRefines
<1>4. ASSUME NEW w \in Workers, Conflict(w) \/ ConversionFails(w) PROVE Promise!Next
  BY <1>4, FinishRefines DEF Conflict, ConversionFails, WholeBatch
<1>5. ASSUME NEW w \in Workers, Respond(w) PROVE Promise!Next
  BY <1>5, RespondFinishes, FinishRefines
<1>6. ASSUME NEW w \in Workers, Kill(w) PROVE Promise!Next
  BY <1>6, FinishRefines DEF Kill
<1>7. ASSUME NEW m \in Messages, Repeat(m) PROVE Promise!Next
  BY <1>7, SyncRepeatRefines
<1>8. CASE UNCHANGED vars
  BY <1>8, SyncInvisible DEF vars, queueVars, catalog
<1> QED BY <1>1, <1>2, <1>3, <1>4, <1>5, <1>6, <1>7, <1>8 DEF Next, Advance

(* The sync function implements the promise of a function behind a queue:   *)
(* every message owes its rows to the table.                               *)
THEOREM SyncRefines == Spec => ImplementsDelivery
  BY SyncInitRefines, SyncStepRefines, SyncInvariance, PTL
     DEF Spec, ImplementsDelivery, Promise!Spec

-----------------------------------------------------------------------------
(* The view.  AcknowledgedIsRecorded is not enough for it: the view ranks   *)
(* rows by the timestamps of their events, so what is needed is that the   *)
(* last event that touches a file tells whether the file exists, and that  *)
(* the rows of an event say what the event did, of each path it touches.   *)

(* Only a rename has two paths.                                             *)
EventInv ==
  \A m \in Messages :
    Valid(m) => (event[m].op = "rename" <=> event[m].new # event[m].file)

LastOf(m, f) ==
  /\ m \in 1 .. sent
  /\ Touches(m, f)
  /\ \A n \in 1 .. sent : Touches(n, f) => n <= m

VolumeInv ==
  \A f \in Files :
    /\ f \in existing => \E m \in 1 .. sent : LastOf(m, f) /\ Makes(m, f)
    /\ f \notin existing =>
         \/ \A m \in 1 .. sent : ~Touches(m, f)
         \/ \E m \in 1 .. sent : LastOf(m, f) /\ ~Makes(m, f)

Faithful(r) ==
  /\ r.modified \in 1 .. sent
  /\ Touches(r.modified, r.file)
  /\ r.enriched = Null
  /\ r.deleted = IF Makes(r.modified, r.file) THEN "no" ELSE "yes"

TableInv ==
  /\ \A r \in table : Faithful(r)
  /\ \A m \in Messages : Recorded(m) =>
       \A f \in Files : Touches(m, f) => \E r \in table : r.modified = m /\ r.file = f

VInv == EventInv /\ VolumeInv /\ TableInv

(* No file exists and no event touches one.                                 *)
LEMMA ViewInitInv == Init => VInv
<1> SUFFICES ASSUME Init PROVE VInv
  OBVIOUS
<1>1. EventInv
  BY DEF Init, EventInv, Valid, Unusable
<1>2. VolumeInv
  BY DEF Init, VolumeInv
<1>3. TableInv
  BY DEF Init, TableInv, Recorded
<1> QED BY <1>1, <1>2, <1>3 DEF VInv

(* What an event does to the volume and says of it.                         *)
Does(e) ==
  IF e \in Unusable THEN existing' = existing
  ELSE /\ e.op = "rename" <=> e.new # e.file
       /\ existing' = IF e.op = "delete" THEN existing \ {e.file}
                      ELSE (existing \ {e.file}) \cup {e.new}

(* An event that does what it says becomes the last of its paths.           *)
LEMMA NotifyView ==
  ASSUME SInv, VInv, NEW e \in Event \cup Unusable, Notify(e), Does(e)
  PROVE  VInv'
<1>1. PICK m \in Messages : m = sent + 1 /\ Send(m)
  BY DEF Notify
<1>2. /\ sent' = m /\ sent \in Nat /\ m = sent + 1
      /\ event'[m] = e
      /\ \A n \in Messages \ {m} : event'[n] = event[n]
      /\ table' = table
  BY <1>1 DEF Notify, catalog, SInv, TypeOK
<1>3. 1 .. sent \subseteq Messages \ {m} /\ 1 .. m = (1 .. sent) \cup {m}
  BY <1>1, <1>2 DEF SInv, SourceInv
<1>4. /\ \A n \in Messages \ {m} : \A f :
           /\ Touches(n, f)' <=> Touches(n, f)
           /\ Makes(n, f)' <=> Makes(n, f)
           /\ Valid(n)' <=> Valid(n)
  BY <1>2 DEF Touches, Makes, Valid
<1>5. /\ Valid(m)' <=> e \notin Unusable
      /\ \A f : Touches(m, f)' <=> e \notin Unusable /\ f \in {e.file, e.new}
      /\ \A f : Makes(m, f)' <=> e.op # "delete" /\ e.new = f
  BY <1>2 DEF Touches, Makes, Valid
<1>6. EventInv'
  <2>1. ASSUME NEW n \in Messages, Valid(n)'
        PROVE  event'[n].op = "rename" <=> event'[n].new # event'[n].file
    <3>1. CASE n = m
      BY <3>1, <2>1, <1>2, <1>5 DEF Does
    <3>2. CASE n # m
      BY <3>2, <2>1, <1>2, <1>4 DEF VInv, EventInv
    <3> QED BY <3>1, <3>2
  <2> QED BY <2>1 DEF EventInv
<1>7. VolumeInv'
  <2> SUFFICES ASSUME NEW f \in Files
               PROVE  /\ f \in existing' => \E k \in 1 .. m : LastOf(k, f)' /\ Makes(k, f)'
                      /\ f \notin existing' =>
                           \/ \A k \in 1 .. m : ~Touches(k, f)'
                           \/ \E k \in 1 .. m : LastOf(k, f)' /\ ~Makes(k, f)'
    BY <1>2 DEF VolumeInv
  <2>1. CASE e \notin Unusable /\ f \in {e.file, e.new}
    <3>1. LastOf(m, f)' /\ m \in 1 .. m
      BY <2>1, <1>2, <1>3, <1>5 DEF LastOf
    <3>2. f \in existing' <=> Makes(m, f)'
      BY <2>1, <1>5 DEF Does
    <3> QED BY <3>1, <3>2
  <2>2. CASE ~(e \notin Unusable /\ f \in {e.file, e.new})
    <3>1. f \in existing' <=> f \in existing
      BY <2>2 DEF Does
    <3>2. ~Touches(m, f)'
      BY <2>2, <1>5
    <3>3. \A k \in 1 .. sent : LastOf(k, f)' <=> LastOf(k, f)
      BY <3>2, <1>2, <1>3, <1>4 DEF LastOf
    <3>4. \A k \in 1 .. sent : (Makes(k, f)' <=> Makes(k, f)) /\ (Touches(k, f)' <=> Touches(k, f))
      BY <1>3, <1>4
    <3> QED BY <3>1, <3>2, <3>3, <3>4, <1>3 DEF VInv, VolumeInv
  <2> QED BY <2>1, <2>2
<1>8. TableInv'
  <2>1. \A r \in table : Faithful(r)'
    BY <1>2, <1>3, <1>4 DEF VInv, TableInv, Faithful
  <2>2. ASSUME NEW n \in Messages, Recorded(n)', NEW f \in Files, Touches(n, f)'
        PROVE  \E r \in table : r.modified = n /\ r.file = f
    <3>1. Recorded(n)
      BY <2>2, <1>2 DEF Recorded
    <3>2. n # m
      BY <3>1, <1>1 DEF Send, SInv, RecordInv
    <3> QED BY <2>2, <3>1, <3>2, <1>4 DEF VInv, TableInv
  <2> QED BY <2>1, <2>2, <1>2 DEF TableInv
<1> QED BY <1>6, <1>7, <1>8 DEF VInv

(* The file operations do what their events say, as long as the event of a  *)
(* rename has the new path.                                                *)
LEMMA FileSystemView ==
  ASSUME "new_file_path" \in Fields, SInv, VInv, FileSystem
  PROVE  VInv'
<1>1. ASSUME NEW f \in Files, CreateFile(f) PROVE VInv'
  <2> DEFINE e == [op |-> "create", file |-> f, new |-> f]
  <2>1. e \in Event /\ e \notin Unusable /\ e.op = "create" /\ e.file = f /\ e.new = f
    BY DEF Event, Malformed, Mistyped, Unusable
  <2>2. existing' = (existing \ {f}) \cup {f} /\ Notify(e)
    BY <1>1 DEF CreateFile
  <2> HIDE DEF e
  <2> QED BY <2>1, <2>2, NotifyView DEF Does
<1>2. ASSUME NEW f \in Files, WriteFile(f) PROVE VInv'
  <2> DEFINE e == [op |-> "write", file |-> f, new |-> f]
  <2>1. e \in Event /\ e \notin Unusable /\ e.op = "write" /\ e.file = f /\ e.new = f
    BY DEF Event, Malformed, Mistyped, Unusable
  <2>2. existing' = (existing \ {f}) \cup {f} /\ Notify(e)
    BY <1>2 DEF WriteFile
  <2> HIDE DEF e
  <2> QED BY <2>1, <2>2, NotifyView DEF Does
<1>3. ASSUME NEW f \in Files, DeleteFile(f) PROVE VInv'
  <2> DEFINE e == [op |-> "delete", file |-> f, new |-> f]
  <2>1. e \in Event /\ e \notin Unusable /\ e.op = "delete" /\ e.file = f /\ e.new = f
    BY DEF Event, Malformed, Mistyped, Unusable
  <2>2. existing' = existing \ {f} /\ Notify(e)
    BY <1>3 DEF DeleteFile
  <2> HIDE DEF e
  <2> QED BY <2>1, <2>2, NotifyView DEF Does
<1>4. ASSUME NEW f \in Files, NEW g \in Files, RenameFile(f, g) PROVE VInv'
  <2> DEFINE e == [op |-> "rename", file |-> f, new |-> g]
  <2>1. e \in Event /\ e \notin Unusable /\ e.op = "rename" /\ e.file = f /\ e.new = g
    BY DEF Event, Malformed, Mistyped, Unusable
  <2>2. f # g /\ existing' = (existing \ {f}) \cup {g} /\ Notify(e)
    BY <1>4 DEF RenameFile, NewPath
  <2> HIDE DEF e
  <2> QED BY <2>1, <2>2, NotifyView DEF Does
<1>5. CASE SendUnusable
  BY <1>5, NotifyView DEF SendUnusable, Does
<1> QED BY <1>1, <1>2, <1>3, <1>4, <1>5 DEF FileSystem

(* The rows of an event say of each path it touches what became of it.      *)
LEMMA RowsAreFaithful ==
  ASSUME SInv, EventInv, NEW m \in Messages, Valid(m), place[m] # "unsent"
  PROVE  /\ \A r \in RowsOf(m) : Faithful(r)
         /\ \A f : Touches(m, f) => \E r \in RowsOf(m) : r.file = f
<1>1. m \in 1 .. sent
  BY SyncAssumption DEF SInv, SourceInv, TypeOK
<1>2. event[m].op \in {"create", "write", "delete", "rename"}
      /\ (event[m].op = "rename" <=> event[m].new # event[m].file)
  BY EventFields DEF SInv, TypeOK, Valid, EventInv
<1>3. \A f : /\ Present(f, m).file = f /\ Present(f, m).modified = m
             /\ Present(f, m).enriched = Null /\ Present(f, m).deleted = "no"
             /\ Absent(f, m).file = f /\ Absent(f, m).modified = m
             /\ Absent(f, m).enriched = Null /\ Absent(f, m).deleted = "yes"
  BY DEF Present, Absent, Version, EventTime
<1>4. CASE event[m].op = "delete"
  <2>1. RowsOf(m) = {Absent(event[m].file, m)}
    BY <1>4 DEF RowsOf
  <2> QED BY <2>1, <1>1, <1>2, <1>3, <1>4 DEF Faithful, Touches, Makes
<1>5. CASE event[m].op = "rename"
  <2>1. RowsOf(m) = {Absent(event[m].file, m), Present(event[m].new, m)}
    BY <1>5 DEF RowsOf
  <2> QED BY <2>1, <1>1, <1>2, <1>3, <1>5 DEF Faithful, Touches, Makes
<1>6. CASE event[m].op \notin {"delete", "rename"}
  <2>1. RowsOf(m) = {Present(event[m].file, m)}
    BY <1>6 DEF RowsOf
  <2> QED BY <2>1, <1>1, <1>2, <1>3, <1>6 DEF Faithful, Touches, Makes
<1> QED BY <1>4, <1>5, <1>6

(* An append adds faithful rows, for every path of its messages.            *)
LEMMA AppendView ==
  ASSUME SInv, VInv, NEW w \in Workers, Append(w)
  PROVE  VInv'
<1>1. UNCHANGED <<existing, event, sent>>
  BY DEF Append, source
<1>2. /\ \A m, f : /\ Touches(m, f)' <=> Touches(m, f)
                   /\ LastOf(m, f)' <=> LastOf(m, f)
                   /\ Makes(m, f)' <=> Makes(m, f)
      /\ \A m : Valid(m)' <=> Valid(m)
      /\ \A r : Faithful(r)' <=> Faithful(r)
  BY <1>1 DEF Touches, LastOf, Makes, Valid, Faithful
<1>3. EventInv' /\ VolumeInv'
  BY <1>1, <1>2 DEF VInv, EventInv, VolumeInv
<1>4. \A m \in Appended(w) :
        /\ m \in Messages
        /\ \A r \in RowsOf(m) : Faithful(r) /\ r.modified = m
        /\ \A f : Touches(m, f) => \E r \in RowsOf(m) : r.file = f
  BY AppendedRows, RowsAreFaithful, RowsOfValid DEF VInv, SInv
<1>5. \A r \in table' : Faithful(r)
  BY <1>4, AppendedRows DEF VInv, TableInv
<1>6. ASSUME NEW m \in Messages, Recorded(m)', NEW f \in Files, Touches(m, f)
      PROVE  \E r \in table' : r.modified = m /\ r.file = f
  <2>1. CASE Recorded(m)
    BY <2>1, <1>6, AppendedRows DEF VInv, TableInv
  <2>2. CASE m \in Appended(w)
    <3>1. PICK r \in RowsOf(m) : r.file = f /\ r.modified = m
      BY <2>2, <1>4, <1>6
    <3> QED BY <2>2, <3>1, AppendedRows
  <2> QED BY <1>6, <2>1, <2>2, AppendedRows
<1>7. TableInv'
  BY <1>2, <1>5, <1>6 DEF TableInv
<1> QED BY <1>3, <1>7 DEF VInv

(* The view depends on the volume, the events and the table alone.          *)
LEMMA OtherView ==
  ASSUME VInv, UNCHANGED <<existing, event, sent, table>>
  PROVE  VInv'
  BY DEF VInv, EventInv, VolumeInv, TableInv, Touches, LastOf, Makes, Valid, Faithful, Recorded

(* The invariant is inductive, given the first one.                         *)
LEMMA ViewStepInv ==
  ASSUME "new_file_path" \in Fields
  PROVE  SInv /\ VInv /\ [Next]_vars => VInv'
<1> SUFFICES ASSUME SInv, VInv, [Next]_vars PROVE VInv'
  OBVIOUS
<1>1. CASE FileSystem
  BY <1>1, FileSystemView
<1>2. ASSUME NEW w \in Workers, Append(w) PROVE VInv'
  BY <1>2, AppendView
<1>3. ASSUME NEW w \in Workers, Invoke(w) PROVE VInv'
  BY <1>3, OtherView DEF Invoke, source, catalog
<1>4. ASSUME NEW w \in Workers, ConversionFails(w) \/ Conflict(w) \/ Respond(w) \/ Kill(w)
      PROVE  VInv'
  BY <1>4, OtherView DEF ConversionFails, Conflict, Respond, Kill, Finish, source, catalog
<1>5. ASSUME NEW m \in Messages, Repeat(m) PROVE VInv'
  BY <1>5, OtherView DEF Repeat, source, catalog
<1>6. CASE UNCHANGED vars
  BY <1>6, OtherView DEF vars, source, catalog
<1> QED BY <1>1, <1>2, <1>3, <1>4, <1>5, <1>6 DEF Next, Advance

(* Once the events of a file are processed, the rows that may rank first    *)
(* for it are those of the last one.                                       *)
LEMMA ViewFollows == SInv /\ VInv => ViewAgreesWithVolume
<1> SUFFICES ASSUME SInv, VInv, NEW f \in Files, Processed(f)
             PROVE  IF f \in existing THEN Shows(table, f) ELSE Hides(table, f)
  BY DEF ViewAgreesWithVolume
<1>1. \A r \in Versions(table, f) :
        /\ r \in table /\ r.file = f /\ Faithful(r)
        /\ r.modified \in 1 .. sent /\ Touches(r.modified, f) /\ r.enriched = Null
  BY DEF Versions, VInv, TableInv, Faithful
<1>2. CASE \A m \in 1 .. sent : ~Touches(m, f)
  <2>1. f \notin existing
    BY <1>2 DEF VInv, VolumeInv, LastOf
  <2>2. Versions(table, f) = {}
    BY <1>1, <1>2
  <2> QED BY <2>1, <2>2 DEF Hides, ViewRows, MayRankFirst
<1>3. CASE \E m \in 1 .. sent : Touches(m, f)
  <2>1. PICK m \in 1 .. sent : LastOf(m, f) /\ (f \in existing <=> Makes(m, f))
    BY <1>3 DEF VInv, VolumeInv
  <2>2. m \in Messages /\ m \in Nat /\ Touches(m, f) /\ Recorded(m)
    BY <2>1 DEF LastOf, Processed, SInv, SourceInv, RecordInv
  <2>3. PICK r \in table : r.modified = m /\ r.file = f
    BY <2>2 DEF VInv, TableInv
  <2>4. r \in Versions(table, f)
    BY <2>3 DEF Versions
  <2>5. \A s \in Versions(table, f) :
          s.modified \in Nat /\ s.modified <= m /\ s.enriched = Null
    BY <1>1, <2>1 DEF LastOf, SInv, TypeOK
  <2>6. \A s \in MayRankFirst(table, f) :
          /\ s \in Versions(table, f)
          /\ s.modified = m
          /\ s.deleted = IF Makes(m, f) THEN "no" ELSE "yes"
    <3> SUFFICES ASSUME NEW s \in MayRankFirst(table, f)
                 PROVE  /\ s \in Versions(table, f) /\ s.modified = m
                        /\ s.deleted = IF Makes(m, f) THEN "no" ELSE "yes"
      OBVIOUS
    <3>1. s \in Versions(table, f) /\ ~RanksAbove(r, s)
      BY <2>4 DEF MayRankFirst
    <3>2. s.modified = m
      BY <3>1, <2>2, <2>3, <2>5 DEF RanksAbove
    <3> QED BY <3>1, <3>2, <1>1 DEF Faithful
  <2>7. r \in MayRankFirst(table, f)
    BY <2>2, <2>3, <2>4, <2>5 DEF MayRankFirst, RanksAbove, Null
  <2>8. CASE f \in existing
    <3>1. ViewRows(table, f) = MayRankFirst(table, f)
      BY <2>8, <2>1, <2>6 DEF ViewRows
    <3> QED BY <2>8, <3>1, <2>7 DEF Shows
  <2>9. CASE f \notin existing
    BY <2>9, <2>1, <2>6 DEF Hides, ViewRows
  <2> QED BY <2>8, <2>9
<1> QED BY <1>2, <1>3

(* If the sender names the new path of a rename, then once the events of a  *)
(* file are processed, in any order, any number of times and over any      *)
(* number of failed attempts, the view shows the file iff it exists.       *)
THEOREM ViewIsRight ==
  ASSUME "new_file_path" \in Fields
  PROVE  Spec => []ViewAgreesWithVolume
<1>1. Init => VInv
  BY ViewInitInv
<1>2. SInv /\ VInv /\ [Next]_vars => VInv'
  BY ViewStepInv
<1>3. SInv /\ VInv => ViewAgreesWithVolume
  BY ViewFollows
<1> QED BY <1>1, <1>2, <1>3, SyncInvariance, PTL DEF Spec

-----------------------------------------------------------------------------
(* What readers see meanwhile.  Of the rows of a file one with the greatest *)
(* timestamp is visible; it says what its event said, and since rows are   *)
(* only added, the greatest timestamp only grows.                          *)

(* A bounded set of numbers has a greatest one.                             *)
LEMMA Greatest ==
  ASSUME NEW n \in Nat, NEW S \in SUBSET (0 .. n), S # {}
  PROVE  \E x \in S : \A y \in S : y <= x
<1> DEFINE T == {n - x : x \in S}
<1>1. T \subseteq Nat /\ T # {}
  <2>1. \A x \in S : n - x \in Nat
    OBVIOUS
  <2>2. PICK x \in S : TRUE
    OBVIOUS
  <2>3. n - x \in T
    OBVIOUS
  <2> QED BY <2>1, <2>3
<1> HIDE DEF T
<1>2. PICK t \in T : \A u \in T : ~(<<u, t>> \in OpToRel(<, Nat))
  BY <1>1, WFMin, NatLessThanWellFounded
<1>3. \A u \in T : ~(u < t)
  BY <1>1, <1>2 DEF OpToRel
<1>4. PICK x \in S : t = n - x
  BY DEF T
<1>5. ASSUME NEW y \in S PROVE y <= x
  BY <1>3, <1>4 DEF T
<1> QED BY <1>5

Newest(m, f) ==
  /\ m \in 1 .. sent
  /\ Touches(m, f)
  /\ \E r \in Versions(table, f) : r.modified = m
  /\ \A r \in Versions(table, f) : r.modified <= m

VisibleInv ==
  \A f \in Files :
    \/ Versions(table, f) = {} /\ Visible(f) = Readers!Nothing
    \/ \E m \in Messages : Newest(m, f) /\ Visible(f) = [at |-> m, there |-> Makes(m, f)]

(* A file that has rows is seen as its most recent recorded event has it.   *)
LEMMA VisibleIsNewest == SInv /\ VInv => VisibleInv
<1> SUFFICES ASSUME SInv, VInv, NEW f \in Files, Versions(table, f) # {}
             PROVE  \E m \in Messages :
                      Newest(m, f) /\ Visible(f) = [at |-> m, there |-> Makes(m, f)]
  BY DEF VisibleInv, Visible, Readers!Nothing, Null
<1>1. \A r \in Versions(table, f) :
        /\ r.modified \in 1 .. sent /\ Touches(r.modified, f) /\ r.enriched = Null
        /\ r.deleted = IF Makes(r.modified, f) THEN "no" ELSE "yes"
  BY DEF Versions, VInv, TableInv, Faithful
<1>2. sent \in Nat /\ 1 .. sent \subseteq Messages
  BY DEF SInv, SourceInv, TypeOK
<1> DEFINE S == {r.modified : r \in Versions(table, f)}
<1>3. PICK m \in S : \A y \in S : y <= m
  <2>1. S \in SUBSET (0 .. sent) /\ S # {}
    BY <1>1, <1>2
  <2> HIDE DEF S
  <2> QED BY <1>2, <2>1, Greatest
<1>4. /\ m \in 1 .. sent /\ Touches(m, f)
      /\ \A r \in Versions(table, f) : r.modified <= m
  BY <1>1, <1>3
<1>5. PICK top \in Versions(table, f) : top.modified = m
  BY <1>3
<1>6. top \in MayRankFirst(table, f)
  BY <1>1, <1>2, <1>4, <1>5 DEF MayRankFirst, RanksAbove, Null
<1>7. ASSUME NEW r \in MayRankFirst(table, f)
      PROVE  /\ r \in Versions(table, f) /\ r.modified = m
             /\ r.deleted = IF Makes(m, f) THEN "no" ELSE "yes"
  <2>1. r \in Versions(table, f) /\ ~RanksAbove(top, r)
    BY <1>5, <1>7 DEF MayRankFirst
  <2>2. r.modified \in 1 .. sent /\ r.modified <= m
    BY <2>1, <1>1, <1>4
  <2>3. r.modified = m
    BY <2>1, <2>2, <1>2, <1>4, <1>5 DEF RanksAbove
  <2> QED BY <2>1, <2>3, <1>1
<1>8. Shows(table, f) <=> Makes(m, f)
  BY <1>6, <1>7 DEF Shows, ViewRows
<1>9. (CHOOSE r \in MayRankFirst(table, f) : TRUE).modified = m
  BY <1>6, <1>7
<1>10. Visible(f) = [at |-> m, there |-> Shows(table, f)]
  BY <1>9 DEF Visible
<1>11. Shows(table, f) \in BOOLEAN /\ Makes(m, f) \in BOOLEAN
  BY DEF Shows, Makes
<1>12. Shows(table, f) = Makes(m, f)
  BY <1>8, <1>11
<1>13. Newest(m, f)
  BY <1>4, <1>5 DEF Newest
<1> QED BY <1>2, <1>4, <1>10, <1>12, <1>13

(* The events of before an operation are before it.                         *)
LEMMA ReportFields ==
  ASSUME SInv, NEW f \in Files
  PROVE  /\ Reports(f) \in SUBSET Readers!Report
         /\ \A r \in Reports(f) : r.at \in 1 .. sent
         /\ \A m, b : [at |-> m, there |-> b] \in Reports(f)
                        <=> m \in 1 .. sent /\ Touches(m, f) /\ b = Makes(m, f)
<1>1. \A m : Makes(m, f) \in BOOLEAN
  BY DEF Makes
<1>2. 1 .. sent \subseteq Messages
  BY DEF SInv, SourceInv
<1>3. \A r : r \in Reports(f) <=> \E m \in 1 .. sent : Touches(m, f) /\ r = [at |-> m, there |-> Makes(m, f)]
  BY DEF Reports
<1>4. ASSUME NEW r \in Reports(f) PROVE r \in Readers!Report /\ r.at \in 1 .. sent
  <2>1. PICK m \in 1 .. sent : r = [at |-> m, there |-> Makes(m, f)]
    BY <1>3, <1>4
  <2> QED BY <2>1, <1>1, <1>2 DEF Readers!Report
<1>5. ASSUME NEW m, NEW b
      PROVE  [at |-> m, there |-> b] \in Reports(f)
               <=> m \in 1 .. sent /\ Touches(m, f) /\ b = Makes(m, f)
  <2>1. \A k, c : [at |-> m, there |-> b] = [at |-> k, there |-> c] <=> m = k /\ b = c
    OBVIOUS
  <2> QED BY <2>1, <1>3
<1> QED BY <1>4, <1>5

(* An operation announces the event of the paths it touches.                *)
LEMMA NotifyAnnounces ==
  ASSUME SInv, SInv', NEW e \in Event \cup Unusable, Notify(e)
  PROVE  Readers!Announce(sent + 1)
<1> PICK m \in Messages : m = sent + 1
  BY DEF Notify
<1>1. sent \in Nat /\ m = sent + 1 /\ sent' = m /\ table' = table
      /\ event' = [event EXCEPT ![m] = e]
      /\ event \in [Messages -> Event \cup Unusable]
  BY DEF Notify, catalog, SInv, TypeOK
<1>2. 1 .. sent \subseteq Messages \ {m}
  BY <1>1 DEF SInv, SourceInv
<1>3. \A n \in 1 .. sent : event'[n] = event[n]
  BY <1>1, <1>2
<1>4. \A n \in 1 .. sent, f \in Files :
        (Touches(n, f)' <=> Touches(n, f)) /\ Makes(n, f)' = Makes(n, f)
  BY <1>3 DEF Touches, Makes, Valid
<1>5. \A f \in Files : Visible(f)' = Visible(f)
  BY <1>1 DEF Visible
<1>6. ASSUME NEW f \in Files
      PROVE  \/ Reports(f)' = Reports(f)
             \/ /\ \A r \in Reports(f) : r.at < m
                /\ \E there \in BOOLEAN :
                     Reports(f)' = Reports(f) \cup {[at |-> m, there |-> there]}
  <2>1. \A r \in Reports(f) : r.at < m
    BY <1>1, ReportFields
  <2>2. 1 .. sent' = (1 .. sent) \cup {m}
    BY <1>1
  <2>3. /\ \A r : r \in Reports(f) <=>
               \E n \in 1 .. sent : Touches(n, f) /\ r = [at |-> n, there |-> Makes(n, f)]
        /\ \A r : r \in Reports(f)' <=>
               \E n \in 1 .. sent' : Touches(n, f)' /\ r = [at |-> n, there |-> Makes(n, f)']
    BY DEF Reports
  <2>4. \A r : r \in Reports(f)' <=>
                (r \in Reports(f) \/ (Touches(m, f)' /\ r = [at |-> m, there |-> Makes(m, f)']))
    BY <2>2, <2>3, <1>4
  <2>5. CASE Touches(m, f)'
    <3>1. Reports(f)' = Reports(f) \cup {[at |-> m, there |-> Makes(m, f)']}
      BY <2>4, <2>5
    <3>2. Makes(m, f)' \in BOOLEAN
      BY DEF Makes
    <3> QED BY <2>1, <3>1, <3>2
  <2>6. CASE ~Touches(m, f)'
    BY <2>4, <2>6
  <2> QED BY <2>5, <2>6
<1>7. \A f \in Files : Reports(f)' \in SUBSET Readers!Report
  <2>1. 1 .. sent' \subseteq Messages /\ \A n, f : Makes(n, f)' \in BOOLEAN
    BY DEF SInv, SourceInv, Makes
  <2> QED BY <2>1 DEF Reports, Readers!Report
<1> QED BY <1>1, <1>5, <1>6, <1>7 DEF Readers!Announce

(* An append makes some of the news visible, and hides none of it.          *)
LEMMA AppendLearns ==
  ASSUME SInv, VisibleInv, VisibleInv', NEW w \in Workers, Append(w)
  PROVE  Readers!Learn
<1>1. UNCHANGED <<existing, event, sent>> /\ table \subseteq table'
  BY DEF Append, source
<1>2. \A m, f : (Touches(m, f)' <=> Touches(m, f)) /\ Makes(m, f)' = Makes(m, f)
  BY <1>1 DEF Touches, Makes, Valid
<1>3. \A f \in Files : Reports(f)' = Reports(f)
  BY <1>1, <1>2 DEF Reports
<1>4. \A f \in Files : Versions(table, f) \subseteq Versions(table, f)'
  BY <1>1 DEF Versions
<1>5. Messages \subseteq Nat \ {0} /\ sent \in Nat /\ \A m, f : Makes(m, f) \in BOOLEAN
  BY SyncAssumption DEF SInv, TypeOK, Makes
<1>6. ASSUME NEW f \in Files
      PROVE  /\ Visible(f)' \in Readers!Report \cup {Readers!Nothing}
             /\ \/ Visible(f)' = Visible(f)
                \/ Visible(f)' \in {r \in Reports(f) : r.at > Visible(f).at}
  <2>1. CASE Versions(table, f)' = {} /\ Visible(f)' = Readers!Nothing
    <3>1. Versions(table, f) = {}
      BY <2>1, <1>4
    <3>2. Visible(f) = Readers!Nothing
      BY <3>1 DEF VisibleInv, Newest
    <3> QED BY <2>1, <3>2
  <2>2. CASE \E m \in Messages : Newest(m, f)' /\ Visible(f)' = [at |-> m, there |-> Makes(m, f)']
    <3>1. PICK m \in Messages : Newest(m, f)' /\ Visible(f)' = [at |-> m, there |-> Makes(m, f)]
      BY <2>2, <1>2
    <3>2. /\ m \in 1 .. sent /\ Touches(m, f)
          /\ \A r \in Versions(table, f) : r.modified <= m
      BY <3>1, <1>1, <1>2, <1>4 DEF Newest
    <3>3. Visible(f)' \in Reports(f) /\ Visible(f)' \in Readers!Report
      BY <3>1, <3>2, ReportFields
    <3>4. CASE Versions(table, f) = {} /\ Visible(f) = Readers!Nothing
      BY <3>1, <3>3, <3>4, <1>5 DEF Readers!Nothing
    <3>5. ASSUME NEW k \in Messages, Newest(k, f),
                 Visible(f) = [at |-> k, there |-> Makes(k, f)]
          PROVE  \/ Visible(f)' = Visible(f)
                 \/ Visible(f)' \in {r \in Reports(f) : r.at > Visible(f).at}
      <4>1. k <= m /\ k \in Nat /\ m \in Nat
        BY <3>2, <3>5, <1>5 DEF Newest
      <4> QED BY <4>1, <3>1, <3>3, <3>5
    <3> QED BY <3>3, <3>4, <3>5 DEF VisibleInv
  <2> QED BY <2>1, <2>2 DEF VisibleInv
<1> QED BY <1>3, <1>6 DEF Readers!Learn

(* Nothing else changes what was reported or what is seen.                  *)
LEMMA OthersShowNothing ==
  ASSUME UNCHANGED <<event, sent, table>>
  PROVE  UNCHANGED Readers!vars
<1>1. \A m, f : (Touches(m, f)' <=> Touches(m, f)) /\ Makes(m, f)' = Makes(m, f)
  BY DEF Touches, Makes, Valid
<1>2. \A f \in Files : Reports(f)' = Reports(f) /\ Visible(f)' = Visible(f)
  BY <1>1 DEF Reports, Visible
<1> QED BY <1>2 DEF Readers!vars

(* If the sender names the new path of a rename, then at any time, not only *)
(* when all is processed, the view shows of each file what one of its      *)
(* events said, and no late, repeated or concurrent append ever takes it   *)
(* back to an older event.                                                 *)
THEOREM ViewNeverTurnsBack ==
  ASSUME "new_file_path" \in Fields
  PROVE  Spec => ImplementsLatestWins
<1>1. Init => Readers!Init
  BY DEF Init, Readers!Init, Readers!Nothing, Reports, Visible, Versions, Null
<1>2. ASSUME SInv, SInv', VisibleInv, VisibleInv', [Next]_vars PROVE [Readers!Next]_(Readers!vars)
  <2>1. CASE FileSystem
    <3>1. PICK e \in Event \cup Unusable : Notify(e)
      BY <2>1 DEF FileSystem, CreateFile, WriteFile, DeleteFile, RenameFile, SendUnusable,
                  Event, NewPath
    <3>2. sent + 1 \in Messages
      BY <3>1 DEF Notify
    <3> QED BY <1>2, <3>1, <3>2, NotifyAnnounces DEF Readers!Next
  <2>2. ASSUME NEW w \in Workers, Append(w) PROVE Readers!Next
    BY <1>2, <2>2, AppendLearns DEF Readers!Next
  <2>3. ASSUME NEW w \in Workers, Invoke(w) PROVE UNCHANGED Readers!vars
    BY <2>3, OthersShowNothing DEF Invoke, source, catalog
  <2>4. ASSUME NEW w \in Workers, ConversionFails(w) \/ Conflict(w) \/ Respond(w) \/ Kill(w)
        PROVE  UNCHANGED Readers!vars
    BY <2>4, OthersShowNothing
       DEF ConversionFails, Conflict, Respond, Kill, Finish, source, catalog
  <2>5. ASSUME NEW m \in Messages, Repeat(m) PROVE UNCHANGED Readers!vars
    BY <2>5, OthersShowNothing DEF Repeat, source, catalog
  <2>6. CASE UNCHANGED vars
    BY <2>6, OthersShowNothing DEF vars, source, catalog
  <2> QED BY <1>2, <2>1, <2>2, <2>3, <2>4, <2>5, <2>6 DEF Next, Advance
<1>3. Init => VInv
  BY ViewInitInv
<1>4. SInv /\ VInv /\ [Next]_vars => VInv'
  BY ViewStepInv
<1> QED BY <1>1, <1>2, <1>3, <1>4, VisibleIsNewest, SyncInvariance, PTL
        DEF Spec, ImplementsLatestWins, Readers!Spec

-----------------------------------------------------------------------------
(* The causes of a dead letter.  The commits are numbered without gaps, so *)
(* that an invocation whose append conflicts has been overtaken by a       *)
(* commit after the snapshot it loaded; and that commit is a rival of each *)
(* message it holds, since a message is appended only by its holder.       *)

(* What may have cost m a receive, up to snapshot n.                        *)
Losses(m, n) == Cardinality(Rivals(m) \cap (1 .. n)) + faults + duplicates + spoiled[m]

(* The snapshot up to which the holder of a message was not overtaken.      *)
Horizon(w) == IF phase[w] = "append" THEN loaded[w] ELSE commits

LogInv ==
  /\ {r.commit : r \in table} = 1 .. commits
  /\ \A w \in Workers : phase[w] = "append" =>
       /\ loaded[w] <= commits
       /\ Appended(w) # {}
       /\ \A m \in batch[w] : \A r \in table : r.modified = m => r.commit <= loaded[w]

(* Every receive but the one in progress, or the one that succeeded, was   *)
(* lost to one of the causes.                                              *)
CauseInv ==
  \A m \in Messages : Valid(m) =>
    /\ place[m] \in {"visible", "dead"} => receives[m] <= Losses(m, commits)
    /\ place[m] = "acknowledged" => receives[m] <= Losses(m, commits) + 1
    /\ place[m] = "dead" => receives[m] >= MaxReceive
    /\ \A w \in Workers : m \in batch[w] => receives[m] <= Losses(m, Horizon(w)) + 1

(* The rivals up to a snapshot can be counted, and only become more.        *)
LEMMA LossesGrow ==
  ASSUME TypeOK, NEW m \in Messages, NEW n \in Nat, NEW k \in Nat, n <= k
  PROVE  /\ Losses(m, n) \in Nat /\ Losses(m, k) \in Nat
         /\ Losses(m, n) <= Losses(m, k)
<1> DEFINE N == Rivals(m) \cap (1 .. n)
           K == Rivals(m) \cap (1 .. k)
<1>1. IsFiniteSet(1 .. k)
  BY FS_Interval
<1>2. K \in SUBSET (1 .. k) /\ N \in SUBSET K
  OBVIOUS
<1> HIDE DEF N, K
<1>3. IsFiniteSet(K)
  BY <1>1, <1>2, FS_Subset
<1>4. IsFiniteSet(N) /\ Cardinality(N) <= Cardinality(K)
  BY <1>2, <1>3, FS_Subset
<1>5. Cardinality(N) \in Nat /\ Cardinality(K) \in Nat
  BY <1>3, <1>4, FS_CardinalityType
<1>6. faults \in Nat /\ duplicates \in Nat /\ spoiled[m] \in Nat
  BY DEF TypeOK, QueueTypeOK
<1>7. Losses(m, n) = Cardinality(N) + faults + duplicates + spoiled[m]
      /\ Losses(m, k) = Cardinality(K) + faults + duplicates + spoiled[m]
  BY DEF Losses, N, K
<1> QED BY <1>4, <1>5, <1>6, <1>7

(* The rivals of a message are the commits without a row of it.             *)
LEMMA RivalRows ==
  ASSUME NEW m, NEW x
  PROVE  x \in Rivals(m) <=> /\ \E r \in table : r.commit = x
                             /\ \A r \in table : r.modified = m => r.commit # x
  BY DEF Rivals

(* Every rival lies within the current snapshot.                            *)
LEMMA RivalsCounted ==
  ASSUME LogInv, NEW m
  PROVE  Rivals(m) \cap (1 .. commits) = Rivals(m)
  BY DEF LogInv, Rivals

(* An invocation that was overtaken has lost a receive of each message.     *)
LEMMA Overtaken ==
  ASSUME TypeOK, LogInv, NEW w \in Workers, phase[w] = "append", loaded[w] # commits,
         NEW m \in batch[w] \cap Messages
  PROVE  Losses(m, loaded[w]) + 1 <= Losses(m, commits)
<1> DEFINE n == loaded[w]
           x == n + 1
<1>1. n \in Nat /\ commits \in Nat /\ x \in 1 .. commits
  BY DEF TypeOK, LogInv
<1>2. x \in Rivals(m)
  <2>1. \E r \in table : r.commit = x
    BY <1>1 DEF LogInv
  <2>2. ASSUME NEW r \in table, r.modified = m PROVE r.commit # x
    <3>1. r.commit <= n
      BY <2>2 DEF LogInv
    <3> QED BY <1>1, <3>1
  <2> QED BY <2>1, <2>2, RivalRows
<1> HIDE DEF n
<1> DEFINE N == Rivals(m) \cap (1 .. n)
           X == Rivals(m) \cap (1 .. x)
<1>3. IsFiniteSet(N) /\ Cardinality(N) \in Nat
  <2>1. IsFiniteSet(1 .. n) /\ N \in SUBSET (1 .. n)
    BY <1>1, FS_Interval
  <2> HIDE DEF N
  <2> QED BY <2>1, FS_Subset, FS_CardinalityType
<1>4. X = N \cup {x} /\ x \notin N
  BY <1>1, <1>2
<1>5. Cardinality(X) = Cardinality(N) + 1
  BY <1>3, <1>4, FS_AddElement
<1>6. faults \in Nat /\ duplicates \in Nat /\ spoiled[m] \in Nat
  BY DEF TypeOK, QueueTypeOK
<1>7. Losses(m, x) = Losses(m, n) + 1
  BY <1>3, <1>5, <1>6 DEF Losses
<1>8. x <= commits /\ x \in Nat
  BY <1>1
<1>9. Losses(m, x) <= Losses(m, commits)
  BY <1>1, <1>8, LossesGrow
<1> QED BY <1>7, <1>9 DEF n

(* Nothing was appended or received.                                        *)
LEMMA CauseInitInv == Init => LogInv /\ CauseInv
<1> SUFFICES ASSUME Init PROVE LogInv /\ CauseInv
  OBVIOUS
<1>1. LogInv
  BY DEF Init, LogInv
<1>2. CauseInv
  BY DEF Init, CauseInv, Valid, Unusable
<1> QED BY <1>1, <1>2

(* A new message has lost no receive.                                       *)
LEMMA NotifyCause ==
  ASSUME SInv, LogInv, CauseInv, NEW e \in Event \cup Unusable, Notify(e)
  PROVE  (LogInv /\ CauseInv)'
<1> DEFINE m == sent + 1
<1>1. /\ m \in Messages /\ Send(m)
      /\ event' = [event EXCEPT ![m] = e]
      /\ UNCHANGED <<table, commits, phase, loaded, faults, spoiled>>
  BY DEF Notify, catalog
<1>2. /\ place[m] = "unsent" /\ place'[m] = "visible"
      /\ \A n \in Messages \ {m} : place'[n] = place[n] /\ event'[n] = event[n]
      /\ UNCHANGED <<batch, receives, duplicates>>
  BY <1>1 DEF Send, SInv, TypeOK, QueueTypeOK
<1>3. receives[m] = 0 /\ \A w \in Workers : m \notin batch[w] /\ batch[w] \subseteq Messages
  <2>1. receives[m] = 0
    BY <1>1, <1>2 DEF SInv, QInv
  <2>2. \A w \in Workers : m \notin batch[w] /\ batch[w] \subseteq Messages
    BY <1>2 DEF SInv, QInv, QueueTypeOK, QueueConsistent
  <2> QED BY <2>1, <2>2
<1>4. \A w \in Workers : Appended(w)' = Appended(w)
  BY <1>2, <1>3 DEF Appended, Invalid
<1>5. LogInv'
  BY <1>1, <1>2, <1>4 DEF LogInv
<1>6. /\ \A n : Losses(n, commits)' = Losses(n, commits)
      /\ \A w \in Workers : \A n : Losses(n, Horizon(w))' = Losses(n, Horizon(w))
  BY <1>1, <1>2 DEF Losses, Rivals, Horizon
<1>7. Losses(m, commits) \in Nat
  <2>1. commits \in Nat /\ commits <= commits
    BY DEF SInv, TypeOK
  <2> HIDE DEF m
  <2> QED BY <1>1, <2>1, LossesGrow DEF SInv
<1>8. CauseInv'
  <2> SUFFICES ASSUME NEW n \in Messages, Valid(n)'
               PROVE  /\ place'[n] \in {"visible", "dead"} => receives[n] <= Losses(n, commits)
                      /\ place'[n] = "acknowledged" => receives[n] <= Losses(n, commits) + 1
                      /\ place'[n] = "dead" => receives[n] >= MaxReceive
                      /\ \A w \in Workers : n \in batch[w] =>
                           receives[n] <= Losses(n, Horizon(w)) + 1
    BY <1>1, <1>2, <1>6 DEF CauseInv
  <2>1. CASE n = m
    BY <2>1, <1>2, <1>3, <1>7
  <2>2. CASE n # m
    BY <2>2, <1>2 DEF CauseInv, Valid
  <2> QED BY <2>1, <2>2
<1> QED BY <1>5, <1>8

(* A receive begins; the snapshot is loaded.                                *)
LEMMA InvokeCause ==
  ASSUME SInv, LogInv, CauseInv, NEW w \in Workers, Invoke(w)
  PROVE  (LogInv /\ CauseInv)'
<1>1. PICK b \in SUBSET Messages :
        /\ Deliver(w, b)
        /\ phase' = [phase EXCEPT ![w] = After(b)]
  BY DEF Invoke
<1>2. /\ UNCHANGED <<event, table, commits, faults, spoiled, duplicates>>
      /\ loaded' = [loaded EXCEPT ![w] = commits]
      /\ phase[w] = "idle"
  BY <1>1 DEF Invoke, source, catalog, Deliver
<1>3. /\ \A n \in b : place[n] = "visible"
      /\ batch'[w] = b /\ \A v \in Workers \ {w} : batch'[v] = batch[v]
      /\ \A n \in Messages : /\ place'[n] = IF n \in b THEN "in_flight" ELSE place[n]
                             /\ receives'[n] = receives[n] + IF n \in b THEN 1 ELSE 0
  BY <1>1 DEF Deliver, SInv, TypeOK, QueueTypeOK
<1>4. /\ \A v \in Workers \ {w} : phase'[v] = phase[v] /\ loaded'[v] = loaded[v]
      /\ loaded'[w] = commits
      /\ phase'[w] = After(b)
  BY <1>1, <1>2 DEF SInv, TypeOK
<1>5. \A c : Invalid(c)' = {n \in c' : event[n] = Malformed \/ ~(RequiredFields \subseteq Fields)}
  BY <1>2 DEF Invalid
<1>6. commits \in Nat /\ \A r \in table : r.commit <= commits
  BY DEF LogInv, SInv, TypeOK
<1>7. LogInv'
  <2>1. ASSUME NEW v \in Workers, phase'[v] = "append"
        PROVE  /\ loaded'[v] <= commits
               /\ Appended(v)' # {}
               /\ \A m \in batch'[v] : \A r \in table : r.modified = m => r.commit <= loaded'[v]
    <3>1. CASE v = w
      <4>1. Appended(w)' # {}
        BY <2>1, <3>1, <1>1, <1>2, <1>3, <1>4 DEF Appended, Invalid, After
      <4> QED BY <3>1, <4>1, <1>4, <1>6
    <3>2. CASE v # w
      <4>1. Appended(v)' = Appended(v)
        BY <3>2, <1>2, <1>3 DEF Appended, Invalid
      <4> QED BY <3>2, <4>1, <2>1, <1>3, <1>4 DEF LogInv
    <3> QED BY <3>1, <3>2
  <2> QED BY <2>1, <1>2 DEF LogInv
<1>8. Horizon(w)' = commits /\ \A v \in Workers \ {w} : Horizon(v)' = Horizon(v)
  BY <1>2, <1>4 DEF Horizon
<1>9. /\ \A n : Losses(n, commits)' = Losses(n, commits)
      /\ \A n : Losses(n, Horizon(w))' = Losses(n, commits)
      /\ \A v \in Workers \ {w} : \A n : Losses(n, Horizon(v))' = Losses(n, Horizon(v))
  BY <1>2, <1>8 DEF Losses, Rivals
<1>10. CauseInv'
  <2> SUFFICES ASSUME NEW n \in Messages, Valid(n)
               PROVE  /\ place'[n] \in {"visible", "dead"} => receives'[n] <= Losses(n, commits)
                      /\ place'[n] = "acknowledged" => receives'[n] <= Losses(n, commits) + 1
                      /\ place'[n] = "dead" => receives'[n] >= MaxReceive
                      /\ \A v \in Workers : n \in batch'[v] =>
                           receives'[n] <= Losses(n, Horizon(v))' + 1
    BY <1>2, <1>9 DEF CauseInv, Valid
  <2>1. receives[n] \in Nat /\ Losses(n, commits) \in Nat
    BY <1>6, LossesGrow DEF SInv, TypeOK, QueueTypeOK
  <2>2. CASE n \in b
    <3>1. \A v \in Workers \ {w} : n \notin batch[v]
      BY <2>2, <1>3 DEF SInv, QInv, QueueConsistent
    <3>2. receives[n] <= Losses(n, commits)
      BY <2>2, <1>3 DEF CauseInv
    <3> QED BY <2>1, <2>2, <3>1, <3>2, <1>3, <1>9
  <2>3. CASE n \notin b
    BY <2>1, <2>3, <1>3, <1>9 DEF CauseInv
  <2> QED BY <2>2, <2>3
<1> QED BY <1>7, <1>10

(* An append becomes a rival of the messages it does not carry.             *)
LEMMA AppendCause ==
  ASSUME SInv, LogInv, CauseInv, NEW w \in Workers, Append(w)
  PROVE  (LogInv /\ CauseInv)'
<1>0. commits \in Nat
  BY DEF SInv, TypeOK
<1> PICK c \in Nat : c = commits + 1
  BY <1>0
<1>1. /\ UNCHANGED <<place, receives, batch, duplicates, event, loaded, faults, spoiled>>
      /\ commits' = c /\ commits \in Nat /\ c = commits + 1
      /\ phase' = [phase EXCEPT ![w] = "respond"]
      /\ phase[w] = "append" /\ loaded[w] = commits
  BY <1>0 DEF Append, queueVars, source
<1>2. \A v \in Workers \ {w} : phase'[v] = phase[v]
  BY <1>1 DEF SInv, TypeOK
<1>3. phase'[w] = "respond"
  BY <1>1 DEF SInv, TypeOK
<1>4. \A m \in Appended(w) : \A r \in RowsOf(m) : r.commit = c /\ r.modified = m
  <2>1. \A f, m : Present(f, m).commit = c /\ Absent(f, m).commit = c
    BY DEF Present, Absent, Version
  <2>2. \A m : \A r \in RowsOf(m) : \E f : r = Present(f, m) \/ r = Absent(f, m)
    BY DEF RowsOf
  <2> QED BY <2>1, <2>2, AppendedRows, RowsOfValid DEF SInv
<1>5. \A r \in table' : r \in table \/ (r.commit = c /\ r.modified \in Appended(w))
  BY <1>4, AppendedRows
<1>6. table \subseteq table'
  BY AppendedRows
<1>7. \E r \in table' : r.commit = c
  <2>1. PICK m \in Appended(w) : TRUE
    BY <1>1 DEF LogInv
  <2>2. RowsOf(m) # {}
    BY <2>1, AppendedRows, RowsOfValid DEF SInv
  <2> QED BY <2>1, <2>2, <1>4, AppendedRows
<1>8. \A r \in table : r.commit \in 1 .. commits
  BY DEF LogInv
<1>9. \A v \in Workers \ {w} : batch[v] \cap Appended(w) = {}
  BY DEF Appended, SInv, QInv, QueueConsistent
<1>10. LogInv'
  <2>1. {r.commit : r \in table'} = 1 .. c
    <3>1. \A r \in table' : r.commit \in 1 .. c
      BY <1>1, <1>5, <1>8
    <3>2. ASSUME NEW x \in 1 .. c PROVE \E r \in table' : r.commit = x
      <4>1. x = c \/ x \in 1 .. commits
        BY <1>1
      <4>2. CASE x \in 1 .. commits
        <5>1. \E r \in table : r.commit = x
          BY <4>2 DEF LogInv
        <5> QED BY <5>1, <1>6
      <4> QED BY <4>1, <4>2, <1>7
    <3> QED BY <3>1, <3>2
  <2>2. ASSUME NEW v \in Workers, phase'[v] = "append"
        PROVE  /\ loaded[v] <= c
               /\ Appended(v)' # {}
               /\ \A m \in batch[v] : \A r \in table' : r.modified = m => r.commit <= loaded[v]
    <3>1. v # w /\ phase[v] = "append"
      BY <2>2, <1>2, <1>3
    <3>2. Appended(v)' = Appended(v)
      BY <1>1 DEF Appended, Invalid
    <3>3. loaded[v] <= c
      BY <3>1, <1>1 DEF LogInv, SInv, TypeOK
    <3>4. \A m \in batch[v] : \A r \in table' : r.modified = m => r \in table
      BY <3>1, <1>5, <1>9
    <3> QED BY <3>1, <3>2, <3>3, <3>4 DEF LogInv
  <2> QED BY <1>1, <2>1, <2>2 DEF LogInv
<1>11. ASSUME NEW m, NEW n \in 0 .. commits
       PROVE  Cardinality(Rivals(m)' \cap (1 .. n)) + faults + duplicates + spoiled[m]
                = Losses(m, n)
  <2>1. ASSUME NEW x \in 1 .. n PROVE x \in Rivals(m)' <=> x \in Rivals(m)
    <3>1. x # c
      BY <1>1
    <3>2. \A r \in table' : r.commit = x => r \in table
      BY <3>1, <1>5
    <3>3. x \in Rivals(m)' <=> /\ \E r \in table' : r.commit = x
                              /\ \A r \in table' : r.modified = m => r.commit # x
      BY DEF Rivals
    <3> QED BY <3>2, <3>3, <1>6, RivalRows
  <2>2. Rivals(m)' \cap (1 .. n) = Rivals(m) \cap (1 .. n)
    BY <2>1
  <2> QED BY <2>2 DEF Losses
<1>12. TypeOK'
  BY AppendInv DEF SInv
<1>13. \A m \in Messages :
         /\ Losses(m, commits) \in Nat /\ Losses(m, c)' \in Nat
         /\ Losses(m, commits) <= Losses(m, c)'
  <2> SUFFICES ASSUME NEW m \in Messages
               PROVE  /\ Losses(m, commits) \in Nat /\ Losses(m, c)' \in Nat
                      /\ Losses(m, commits) <= Losses(m, c)'
    OBVIOUS
  <2>1. Losses(m, commits) \in Nat
    BY <1>1, LossesGrow DEF SInv
  <2> DEFINE N == Rivals(m)' \cap (1 .. commits)
             K == Rivals(m)' \cap (1 .. c)
  <2>2. IsFiniteSet(1 .. c) /\ K \in SUBSET (1 .. c) /\ N \in SUBSET K
    BY <1>1, FS_Interval
  <2>3. Losses(m, commits) = Cardinality(N) + faults + duplicates + spoiled[m]
    BY <1>1, <1>11
  <2>4. Losses(m, c)' = Cardinality(K) + faults + duplicates + spoiled[m]
    BY <1>1 DEF Losses
  <2> HIDE DEF N, K
  <2>5. IsFiniteSet(K)
    BY <2>2, FS_Subset
  <2>6. IsFiniteSet(N) /\ Cardinality(N) <= Cardinality(K)
    BY <2>2, <2>5, FS_Subset
  <2>7. Cardinality(N) \in Nat /\ Cardinality(K) \in Nat
    BY <2>5, <2>6, FS_CardinalityType
  <2>8. faults \in Nat /\ duplicates \in Nat /\ spoiled[m] \in Nat
    BY DEF SInv, TypeOK, QueueTypeOK
  <2> QED BY <2>1, <2>3, <2>4, <2>6, <2>7, <2>8
<1>14. CauseInv'
  <2> SUFFICES ASSUME NEW m \in Messages, Valid(m)
               PROVE  /\ place[m] \in {"visible", "dead"} => receives[m] <= Losses(m, commits)'
                      /\ place[m] = "acknowledged" => receives[m] <= Losses(m, commits)' + 1
                      /\ place[m] = "dead" => receives[m] >= MaxReceive
                      /\ \A v \in Workers : m \in batch[v] =>
                           receives[m] <= Losses(m, Horizon(v))' + 1
    BY <1>1 DEF CauseInv, Valid
  <2>1. /\ receives[m] \in Nat /\ Losses(m, commits) \in Nat /\ Losses(m, commits)' \in Nat
        /\ Losses(m, commits) <= Losses(m, commits)'
    <3>1. receives[m] \in Nat
      BY DEF SInv, TypeOK, QueueTypeOK
    <3>2. Losses(m, commits)' = Losses(m, c)'
      BY <1>1 DEF Losses
    <3> QED BY <3>1, <3>2, <1>13
  <2>2. ASSUME NEW v \in Workers, m \in batch[v]
        PROVE  receives[m] <= Losses(m, Horizon(v))' + 1
    <3>1. receives[m] <= Losses(m, Horizon(v)) + 1
      BY <2>2 DEF CauseInv
    <3>2. CASE phase[v] = "append" /\ v # w
      <4>1. Horizon(v) = loaded[v] /\ Horizon(v)' = loaded[v] /\ loaded[v] \in 0 .. commits
        BY <3>2, <1>1, <1>2 DEF Horizon, LogInv, SInv, TypeOK
      <4>2. Losses(m, Horizon(v))' = Losses(m, Horizon(v))
        BY <4>1, <1>1, <1>11 DEF Losses
      <4> QED BY <3>1, <4>2
    <3>3. CASE phase[v] # "append" \/ v = w
      <4>1. Horizon(v) = commits /\ Horizon(v)' = commits'
        BY <3>3, <1>1, <1>2, <1>3 DEF Horizon
      <4>2. Losses(m, Horizon(v))' = Losses(m, commits)'
        BY <4>1 DEF Losses
      <4> QED BY <3>1, <4>1, <4>2, <2>1
    <3> QED BY <3>2, <3>3
  <2> QED BY <2>1, <2>2 DEF CauseInv
<1> QED BY <1>10, <1>14

(* An invocation ends: what it fails has lost a receive to a known cause.   *)
LEMMA FinishCause ==
  ASSUME SInv, LogInv, CauseInv, NEW w \in Workers, NEW failed \in SUBSET batch[w],
         Finish(w, failed), NEW extra \in [Messages -> Nat],
         \A m \in Messages :
           /\ faults' \in Nat /\ spoiled'[m] \in Nat
           /\ faults' + spoiled'[m] = faults + spoiled[m] + extra[m],
         \A m \in failed : Valid(m) => receives[m] <= Losses(m, commits) + extra[m]
  PROVE  (LogInv /\ CauseInv)'
<1>1. /\ Settle(w, failed)
      /\ UNCHANGED <<receives, duplicates, event, table, commits>>
      /\ phase' = [phase EXCEPT ![w] = "idle"]
      /\ loaded' = [loaded EXCEPT ![w] = 0]
  BY DEF Finish, Settle, source, catalog
<1>2. /\ batch'[w] = {} /\ phase'[w] = "idle"
      /\ \A v \in Workers \ {w} : /\ batch'[v] = batch[v] /\ phase'[v] = phase[v]
                                  /\ loaded'[v] = loaded[v]
  BY <1>1 DEF Settle, SInv, TypeOK, QueueTypeOK
<1>3. \A n \in Messages :
        place'[n] = IF n \in failed THEN AfterFailure(n)
                    ELSE IF n \in batch[w] THEN "acknowledged" ELSE place[n]
  BY <1>1 DEF Settle
<1>4. LogInv'
  <2>1. \A v \in Workers \ {w} : Appended(v)' = Appended(v)
    BY <1>1, <1>2 DEF Appended, Invalid
  <2> QED BY <2>1, <1>1, <1>2 DEF LogInv
<1>5. commits \in Nat /\ faults \in Nat /\ duplicates \in Nat
      /\ \A v \in Workers : Horizon(v) \in Nat /\ Horizon(v) <= commits
  BY DEF SInv, TypeOK, QueueTypeOK, Horizon, LogInv
<1>6. \A n : \A k \in Nat : Cardinality(Rivals(n) \cap (1 .. k)) \in Nat
  <2> SUFFICES ASSUME NEW n, NEW k \in Nat PROVE Cardinality(Rivals(n) \cap (1 .. k)) \in Nat
    OBVIOUS
  <2> DEFINE K == Rivals(n) \cap (1 .. k)
  <2>1. IsFiniteSet(1 .. k) /\ K \in SUBSET (1 .. k)
    BY FS_Interval
  <2> HIDE DEF K
  <2>2. Cardinality(K) \in Nat
    BY <2>1, FS_Subset, FS_CardinalityType
  <2> QED BY <2>2 DEF K
<1>7. ASSUME NEW n \in Messages, NEW k \in Nat
      PROVE  Losses(n, k) \in Nat
             /\ Cardinality(Rivals(n) \cap (1 .. k)) + faults' + duplicates + spoiled'[n]
                  = Losses(n, k) + extra[n]
  <2> DEFINE K == Cardinality(Rivals(n) \cap (1 .. k))
  <2>1. K \in Nat
    BY <1>6
  <2>2. Losses(n, k) = K + faults + duplicates + spoiled[n]
    BY DEF Losses
  <2> HIDE DEF K
  <2>3. /\ faults' \in Nat /\ spoiled'[n] \in Nat /\ spoiled[n] \in Nat /\ extra[n] \in Nat
        /\ faults' + spoiled'[n] = faults + spoiled[n] + extra[n]
    BY DEF SInv, TypeOK
  <2>4. K + faults' + duplicates + spoiled'[n] = Losses(n, k) + extra[n] /\ Losses(n, k) \in Nat
    BY <2>1, <2>2, <2>3, <1>5
  <2> QED BY <2>4 DEF K
<1>8. /\ \A n : Rivals(n)' = Rivals(n)
      /\ \A v \in Workers \ {w} : Horizon(v)' = Horizon(v)
  BY <1>1, <1>2 DEF Rivals, Horizon
<1>9. \A n \in Messages : /\ Losses(n, commits)' = Losses(n, commits) + extra[n]
                          /\ \A v \in Workers \ {w} :
                               Losses(n, Horizon(v))' = Losses(n, Horizon(v)) + extra[n]
  BY <1>1, <1>5, <1>7, <1>8 DEF Losses
<1>10. CauseInv'
  <2> SUFFICES ASSUME NEW n \in Messages, Valid(n)
               PROVE  /\ place'[n] \in {"visible", "dead"} =>
                           receives[n] <= Losses(n, commits) + extra[n]
                      /\ place'[n] = "acknowledged" => receives[n] <= Losses(n, commits) + extra[n] + 1
                      /\ place'[n] = "dead" => receives[n] >= MaxReceive
                      /\ \A v \in Workers : n \in batch'[v] =>
                           receives[n] <= Losses(n, Horizon(v))' + 1
    BY <1>1, <1>9 DEF CauseInv, Valid
  <2>1. receives[n] \in Nat /\ Losses(n, commits) \in Nat /\ extra[n] \in Nat
    BY <1>5, LossesGrow DEF SInv, TypeOK, QueueTypeOK
  <2>2. ASSUME NEW v \in Workers, n \in batch'[v]
        PROVE  receives[n] <= Losses(n, Horizon(v))' + 1
    <3>1. v # w /\ n \in batch[v]
      BY <2>2, <1>2
    <3>2. Losses(n, Horizon(v)) \in Nat
      BY <1>5, LossesGrow DEF SInv
    <3> QED BY <3>1, <3>2, <2>1, <1>9 DEF CauseInv
  <2>3. CASE n \in failed
    <3>1. receives[n] <= Losses(n, commits) + extra[n]
      BY <2>3
    <3>2. place'[n] \in {"visible", "dead"} /\ (place'[n] = "dead" => receives[n] >= MaxReceive)
      BY <2>3, <1>3 DEF AfterFailure
    <3> QED BY <3>1, <3>2, <2>2
  <2>4. CASE n \in batch[w] \ failed
    <3>1. Losses(n, Horizon(w)) \in Nat /\ Losses(n, Horizon(w)) <= Losses(n, commits)
      BY <1>5, LossesGrow DEF SInv
    <3>2. receives[n] <= Losses(n, Horizon(w)) + 1
      BY <2>4 DEF CauseInv
    <3>3. place'[n] = "acknowledged"
      BY <2>4, <1>3
    <3> QED BY <3>1, <3>2, <3>3, <2>1, <2>2
  <2>5. CASE n \notin batch[w]
    <3>1. place'[n] = place[n]
      BY <2>5, <1>3
    <3> QED BY <3>1, <2>1, <2>2 DEF CauseInv
  <2> QED BY <2>3, <2>4, <2>5
<1> QED BY <1>4, <1>10

(* The cause of each way to end: the mistyped message of the batch, the     *)
(* commit that came first, none for what is valid and was appended, or the *)
(* kill.                                                                   *)
LEMMA EndCause ==
  ASSUME RequiredFields \subseteq Fields, SInv, LogInv, CauseInv,
         NEW w \in Workers,
         ConversionFails(w) \/ Conflict(w) \/ Respond(w) \/ Kill(w)
  PROVE  (LogInv /\ CauseInv)'
<1> DEFINE none == [m \in Messages |-> 0]
           one == [m \in Messages |-> 1]
           shared == [m \in Messages |-> IF m \in batch[w] THEN 1 ELSE 0]
<1>1. /\ batch[w] \subseteq Messages /\ faults \in Nat /\ spoiled \in [Messages -> Nat]
      /\ commits \in Nat /\ Horizon(w) \in Nat /\ Horizon(w) <= commits
  BY DEF SInv, TypeOK, QueueTypeOK, Horizon, LogInv
<1>2. \A n \in batch[w] : /\ receives[n] \in Nat
                          /\ Losses(n, commits) \in Nat
                          /\ Losses(n, Horizon(w)) \in Nat
                          /\ Losses(n, Horizon(w)) <= Losses(n, commits)
                          /\ Valid(n) => receives[n] <= Losses(n, Horizon(w)) + 1
  <2>1. \A n \in batch[w] : receives[n] \in Nat
    BY <1>1 DEF SInv, TypeOK, QueueTypeOK
  <2> QED BY <1>1, <2>1, LossesGrow DEF SInv, CauseInv
<1>3. CASE Conflict(w)
  <2>1. phase[w] = "append" /\ loaded[w] # commits
    BY <1>3 DEF Conflict
  <2>2. \A n \in batch[w] : Losses(n, loaded[w]) + 1 <= Losses(n, commits)
    BY <1>1, <2>1, Overtaken DEF SInv
  <2>3. \A n \in batch[w] : Valid(n) => receives[n] <= Losses(n, commits) + none[n]
    BY <2>1, <2>2, <1>1, <1>2 DEF Horizon
  <2>4. /\ Finish(w, batch[w]) /\ none \in [Messages -> Nat]
        /\ \A n \in Messages : /\ faults' \in Nat /\ spoiled'[n] \in Nat
                              /\ faults' + spoiled'[n] = faults + spoiled[n] + none[n]
    BY <1>1, <1>3 DEF Conflict, WholeBatch
  <2> HIDE DEF none
  <2> QED BY <2>3, <2>4, FinishCause
<1>4. CASE Respond(w)
  <2>1. /\ Finish(w, Invalid(batch[w])) /\ Invalid(batch[w]) \in SUBSET batch[w]
        /\ none \in [Messages -> Nat]
        /\ \A n \in Messages : /\ faults' \in Nat /\ spoiled'[n] \in Nat
                              /\ faults' + spoiled'[n] = faults + spoiled[n] + none[n]
    BY <1>1, <1>4 DEF Respond, BatchItemFailures, Invalid
  <2> HIDE DEF none
  <2>2. \A n \in Invalid(batch[w]) : ~Valid(n)
    BY DEF Invalid, Valid, Unusable
  <2> QED BY <2>1, <2>2, FinishCause
<1>5. CASE Kill(w)
  <2>1. /\ Finish(w, batch[w]) /\ one \in [Messages -> Nat]
        /\ \A n \in Messages : /\ faults' \in Nat /\ spoiled'[n] \in Nat
                              /\ faults' + spoiled'[n] = faults + spoiled[n] + one[n]
    BY <1>1, <1>5 DEF Kill
  <2>2. \A n \in batch[w] : Valid(n) => receives[n] <= Losses(n, commits) + one[n]
    BY <1>1, <1>2
  <2> HIDE DEF one
  <2> QED BY <2>1, <2>2, FinishCause
<1>6. CASE ConversionFails(w)
  <2>1. /\ Finish(w, batch[w]) /\ shared \in [Messages -> Nat]
        /\ \A n \in Messages : /\ faults' \in Nat /\ spoiled'[n] \in Nat
                              /\ faults' + spoiled'[n] = faults + spoiled[n] + shared[n]
    BY <1>1, <1>6 DEF ConversionFails, WholeBatch
  <2>2. \A n \in batch[w] : Valid(n) => receives[n] <= Losses(n, commits) + shared[n]
    BY <1>1, <1>2
  <2> HIDE DEF shared
  <2> QED BY <2>1, <2>2, FinishCause
<1> QED BY <1>3, <1>4, <1>5, <1>6

(* A repetition of what succeeded is a cause of its own.                    *)
LEMMA RepeatCause ==
  ASSUME SInv, LogInv, CauseInv, NEW m \in Messages, Repeat(m)
  PROVE  (LogInv /\ CauseInv)'
<1>1. /\ place[m] = "acknowledged" /\ place'[m] = "visible"
      /\ \A n \in Messages \ {m} : place'[n] = place[n]
      /\ duplicates' = duplicates + 1
      /\ UNCHANGED <<receives, batch, event, table, commits, phase, loaded, faults, spoiled>>
  BY DEF Repeat, DeliverAgain, source, catalog, SInv, TypeOK, QueueTypeOK
<1>2. LogInv'
  BY <1>1 DEF LogInv, Appended, Invalid
<1>3. \A n : Rivals(n)' = Rivals(n)
  BY <1>1 DEF Rivals
<1>4. /\ commits \in Nat /\ faults \in Nat /\ duplicates \in Nat
      /\ \A v \in Workers : Horizon(v) \in Nat
      /\ \A v \in Workers : Horizon(v)' = Horizon(v)
  BY <1>1 DEF SInv, TypeOK, QueueTypeOK, Horizon
<1>5. ASSUME NEW n \in Messages, NEW k \in Nat
      PROVE  /\ Losses(n, k) \in Nat
             /\ Cardinality(Rivals(n) \cap (1 .. k)) + faults + (duplicates + 1) + spoiled[n]
                  = Losses(n, k) + 1
  <2> DEFINE K == Rivals(n) \cap (1 .. k)
  <2>1. IsFiniteSet(1 .. k) /\ K \in SUBSET (1 .. k)
    BY FS_Interval
  <2> HIDE DEF K
  <2>2. Cardinality(K) \in Nat
    BY <2>1, FS_Subset, FS_CardinalityType
  <2>3. Losses(n, k) = Cardinality(K) + faults + duplicates + spoiled[n]
    BY DEF Losses, K
  <2>4. Cardinality(Rivals(n) \cap (1 .. k)) = Cardinality(K)
    BY DEF K
  <2>5. spoiled[n] \in Nat
    BY DEF SInv, TypeOK
  <2> QED BY <2>2, <2>3, <2>4, <2>5, <1>4
<1>6. \A n \in Messages : Losses(n, commits)' = Losses(n, commits) + 1
  BY <1>1, <1>3, <1>4, <1>5 DEF Losses
<1>7. \A n \in Messages : \A v \in Workers : Losses(n, Horizon(v))' = Losses(n, Horizon(v)) + 1
  BY <1>1, <1>3, <1>4, <1>5 DEF Losses
<1>8. CauseInv'
  <2> SUFFICES ASSUME NEW n \in Messages, Valid(n)
               PROVE  /\ place'[n] \in {"visible", "dead"} => receives[n] <= Losses(n, commits) + 1
                      /\ place'[n] = "acknowledged" => receives[n] <= Losses(n, commits) + 1 + 1
                      /\ place'[n] = "dead" => receives[n] >= MaxReceive
                      /\ \A v \in Workers : n \in batch[v] =>
                           receives[n] <= Losses(n, Horizon(v)) + 1 + 1
    BY <1>1, <1>6, <1>7 DEF CauseInv, Valid
  <2>1. /\ receives[n] \in Nat /\ Losses(n, commits) \in Nat
        /\ \A v \in Workers : Losses(n, Horizon(v)) \in Nat
    BY <1>4, <1>5 DEF SInv, TypeOK, QueueTypeOK
  <2> QED BY <2>1, <1>1 DEF CauseInv
<1> QED BY <1>2, <1>8

(* The invariant is inductive, given the first one.                         *)
LEMMA CauseStepInv ==
  ASSUME RequiredFields \subseteq Fields
  PROVE  SInv /\ LogInv /\ CauseInv /\ [Next]_vars => (LogInv /\ CauseInv)'
<1> SUFFICES ASSUME SInv, LogInv, CauseInv, [Next]_vars PROVE (LogInv /\ CauseInv)'
  OBVIOUS
<1>1. CASE FileSystem
  <2>1. \E e \in Event \cup Unusable : Notify(e)
    BY <1>1 DEF FileSystem, CreateFile, WriteFile, DeleteFile, RenameFile, SendUnusable,
                Event, NewPath
  <2> QED BY <2>1, NotifyCause
<1>2. ASSUME NEW w \in Workers, Invoke(w) PROVE (LogInv /\ CauseInv)'
  BY <1>2, InvokeCause
<1>3. ASSUME NEW w \in Workers, Append(w) PROVE (LogInv /\ CauseInv)'
  BY <1>3, AppendCause
<1>4. ASSUME NEW w \in Workers, ConversionFails(w) \/ Conflict(w) \/ Respond(w) \/ Kill(w)
      PROVE  (LogInv /\ CauseInv)'
  BY <1>4, EndCause
<1>5. ASSUME NEW m \in Messages, Repeat(m) PROVE (LogInv /\ CauseInv)'
  BY <1>5, RepeatCause
<1>6. CASE UNCHANGED vars
  <2>1. UNCHANGED <<place, receives, batch, duplicates, event, table, commits, phase,
                    loaded, faults, spoiled>>
    BY <1>6 DEF vars, queueVars, source, catalog
  <2> QED BY <2>1 DEF LogInv, CauseInv, Appended, Invalid, Valid, Losses, Rivals, Horizon
<1> QED BY <1>1, <1>2, <1>3, <1>4, <1>5, <1>6 DEF Next, Advance

(* If the sender fills in the required fields, a valid message ends on the *)
(* dead-letter queue for a cause only: each of its receives was lost to a  *)
(* kill, to the append of another invocation, to a mistyped message that   *)
(* shared its batch, which no conversion to the schema survives, or to a   *)
(* repetition of what had succeeded; and none to a message of its batch    *)
(* that fails validation (handler.py:298, :326-401).                       *)
THEOREM DeadLettersHaveCauses ==
  ASSUME RequiredFields \subseteq Fields
  PROVE  Spec => []DeadOnlyForACause
<1>1. Init => LogInv /\ CauseInv
  BY CauseInitInv
<1>2. SInv /\ LogInv /\ CauseInv /\ [Next]_vars => (LogInv /\ CauseInv)'
  BY CauseStepInv
<1>3. SInv /\ LogInv /\ CauseInv => DeadOnlyForACause
  <2> SUFFICES ASSUME SInv, LogInv, CauseInv,
                      NEW m \in Messages, place[m] = "dead", Valid(m)
               PROVE  Cardinality(Rivals(m)) + faults + duplicates + spoiled[m] >= MaxReceive
    BY DEF DeadOnlyForACause
  <2>1. receives[m] >= MaxReceive /\ receives[m] <= Losses(m, commits)
    BY DEF CauseInv
  <2>2. Losses(m, commits) = Cardinality(Rivals(m)) + faults + duplicates + spoiled[m]
    BY RivalsCounted DEF Losses
  <2>3. receives[m] \in Nat /\ MaxReceive \in Nat /\ Losses(m, commits) \in Nat
    BY QueueAssumption, LossesGrow DEF SInv, TypeOK, QueueTypeOK
  <2> QED BY <2>1, <2>2, <2>3
<1> QED BY <1>1, <1>2, <1>3, SyncInvariance, PTL DEF Spec
=============================================================================
