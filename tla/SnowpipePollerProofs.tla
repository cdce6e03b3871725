------------------------ MODULE SnowpipePollerProofs ------------------------
(***************************************************************************)
(* The poller's checkpoint passes an object unnotified only in seconds it  *)
(* is known to skip, for every set of keys, number of overlapping          *)
(* invocations, page size, batch size and number of failed calls.          *)
(*                                                                         *)
(* The property is about two stored values, the checkpoint and the topic,  *)
(* and is not inductive: the checkpoint is replaced by what an invocation  *)
(* remembers from a listing taken long before.  IInv therefore says the    *)
(* same of the cutoff of every running invocation, and what its partial    *)
(* listing already contains.                                               *)
(***************************************************************************)
EXTENDS SnowpipePoller, TLAPS

(* Nothing carries a time that lies in the future.                         *)
InThePast ==
  /\ \A o \in objects : o.mtime <= clock
  /\ \A i \in Invocations :
       /\ started[i] <= clock
       /\ \A f \in found[i] : f.mtime <= clock

(* The current second is below no checkpoint and no cutoff, unless it has  *)
(* been given up: an object written now is above both.                     *)
Settled ==
  /\ checkpoint <= clock /\ (checkpoint = clock => clock \in skipped)
  /\ \A i \in Invocations :
       pc[i] # "idle" => cutoff[i] <= clock /\ (cutoff[i] = clock => clock \in skipped)

(* What a running invocation will not look at is notified, skipped, or     *)
(* between the stored checkpoint and the lookback cutoff it started from.  *)
BelowCutoff(i) ==
  pc[i] # "idle" =>
    \A o \in objects : o \notin notified /\ o.mtime <= cutoff[i] =>
      o.mtime \in skipped \cup (base[i] + 1 .. cutoff[i])

(* An object older than the listing is in new_files once the listing has   *)
(* passed its key.                                                         *)
Listed(i) ==
  pc[i] # "idle" =>
    \A o \in objects :
      /\ pc[i] = "list" => o.key <= token[i]
      /\ cutoff[i] < o.mtime
      /\ o.mtime < started[i]
      => o \in found[i]

(* Publishing moves new_files onto the topic, all of it before the save.   *)
Published(i) ==
  /\ pc[i] = "idle" => token[i] = 0
  /\ unsent[i] \subseteq found[i]
  /\ pc[i] \in {"publish", "save"} => found[i] \ unsent[i] \subseteq notified
  /\ pc[i] = "save" => unsent[i] = {} /\ found[i] # {}

IInv ==
  /\ TypeOK
  /\ InThePast
  /\ Settled
  /\ MissedOnlyInSkippedSeconds
  /\ \A i \in Invocations : BelowCutoff(i) /\ Listed(i) /\ Published(i)

-----------------------------------------------------------------------------

(* The initial states satisfy the invariant.                                *)
LEMMA InitIInv == Init => IInv
<1> USE DEF Init, NoItem
<1>1. Init => TypeOK
  <2>1. Init => overlapped \in BOOLEAN
    BY Zenon
  <2> QED BY <2>1 DEF TypeOK
<1>2. Init => InThePast /\ Settled /\ MissedOnlyInSkippedSeconds
  BY DEF InThePast, Settled, MissedOnlyInSkippedSeconds
<1>3. Init => \A i \in Invocations : BelowCutoff(i) /\ Listed(i) /\ Published(i)
  BY DEF BelowCutoff, Listed, Published
<1> QED BY <1>1, <1>2, <1>3 DEF IInv

(* Every action keeps the variables in their types.                        *)
LEMMA TypeStep == TypeOK /\ [Next]_vars => TypeOK'
<1> SUFFICES ASSUME TypeOK, [Next]_vars PROVE TypeOK'
  OBVIOUS
<1> USE KeysAssumption, PollerAssumption DEF TypeOK, store, work, NoItem
<1>1. CASE Tick
  BY <1>1 DEF Tick
<1>2. ASSUME NEW k \in Keys, Write(k) PROVE TypeOK'
  BY <1>2 DEF Write, Others, Version
<1>3. ASSUME NEW k \in Keys, Delete(k) PROVE TypeOK'
  BY <1>3 DEF Delete, Others
<1>4. ASSUME NEW i \in Invocations, BeginAtCheckpoint(i) PROVE TypeOK'
  BY <1>4 DEF BeginAtCheckpoint, Begin
<1>5. ASSUME NEW i \in Invocations, BeginWithLookback(i) PROVE TypeOK'
  BY <1>5 DEF BeginWithLookback, Begin, Lookback
<1>6. ASSUME NEW i \in Invocations, ListPage(i) PROVE TypeOK'
  <2> PICK last \in {token[i]} \cup {o.key : o \in Remaining(i)} :
        LET page == {o \in Remaining(i) : o.key <= last}
            new  == found[i] \cup {o \in page : IsNew(o, cutoff[i])}
        IN  \/ /\ found' = [found EXCEPT ![i] = new]
               /\ unsent' = [unsent EXCEPT ![i] = new]
               /\ token' = [token EXCEPT ![i] = last]
               /\ pc' = [pc EXCEPT ![i] = IF IsTruncated(page, Remaining(i))
                                          THEN "list" ELSE "publish"]
               /\ UNCHANGED <<cutoff, started, base>>
            \/ Return(i)
    BY <1>6 DEF ListPage
  <2>1. last \in Nat
    BY DEF Remaining, Version
  <2>2. found[i] \cup {o \in {o \in Remaining(i) : o.key <= last} : IsNew(o, cutoff[i])}
          \in SUBSET Version
    BY DEF Remaining
  <2>3. CASE Return(i)
    BY <1>6, <2>3 DEF ListPage, Return
  <2>4. CASE ~Return(i)
    BY <1>6, <2>1, <2>2, <2>4 DEF ListPage
  <2> QED BY <2>3, <2>4
<1>7. ASSUME NEW i \in Invocations, PublishBatch(i) PROVE TypeOK'
  BY <1>7 DEF PublishBatch, AfterBatch
<1>8. ASSUME NEW i \in Invocations, SaveCheckpoint(i) PROVE TypeOK'
  <2>1. CASE StateTable
    <3> PICK o \in found[i] :
          /\ checkpoint' = NextCheckpoint(o)
          /\ skipped' = skipped \cup (base[i] + 1 .. cutoff[i])
                                \cup (started[i] .. o.mtime)
      BY <1>8, <2>1 DEF SaveCheckpoint
    <3>1. o.mtime \in Nat
      BY DEF Version
    <3>2. checkpoint' \in Nat
      BY <3>1 DEF NextCheckpoint
    <3>3. base[i] + 1 \in Int /\ cutoff[i] \in Int /\ started[i] \in Int
      OBVIOUS
    <3>4. skipped' \in SUBSET Int
      <4>1. (base[i] + 1 .. cutoff[i]) \subseteq Int /\ (started[i] .. o.mtime) \subseteq Int
        BY <3>1, <3>3
      <4>2. skipped \subseteq Int
        OBVIOUS
      <4> QED BY <4>1, <4>2, Zenon
    <3>5. UNCHANGED <<store, notified, faults, overlapped>> /\ Return(i)
      BY <1>8 DEF SaveCheckpoint
    <3> QED BY <3>2, <3>4, <3>5 DEF Return
  <2>2. CASE ~StateTable
    <3>1. UNCHANGED <<store, notified, faults, checkpoint, skipped, overlapped>> /\ Return(i)
      BY <1>8, <2>2 DEF SaveCheckpoint
    <3> QED BY <3>1 DEF Return
  <2> QED BY <2>1, <2>2
<1>9. ASSUME NEW i \in Invocations, Fail(i) PROVE TypeOK'
  BY <1>9 DEF Fail, Return
<1>10. CASE UNCHANGED vars
  BY <1>10 DEF vars
<1> QED
  BY <1>1, <1>2, <1>3, <1>4, <1>5, <1>6, <1>7, <1>8, <1>9, <1>10
     DEF Next, Environment, Invoke, Advance

(* The state of the poller is well typed, and new_files of one invocation  *)
(* is never visible to the next (handler.py:74-329).                       *)
THEOREM TypeCorrect == Spec => []TypeOK
<1>1. Init => TypeOK
  BY InitIInv DEF IInv
<1> QED BY <1>1, TypeStep, PTL DEF Spec

-----------------------------------------------------------------------------
(* The part of IInv that is not about types, action by action.             *)
Rest == /\ InThePast
        /\ Settled
        /\ MissedOnlyInSkippedSeconds
        /\ \A i \in Invocations : BelowCutoff(i) /\ Listed(i) /\ Published(i)

(* The fields of an object version.                                         *)
LEMMA VersionTypes ==
  ASSUME TypeOK
  PROVE  /\ \A o \in objects : o.mtime \in Nat /\ o.key \in Nat \ {0}
         /\ \A i \in Invocations : \A f \in found[i] : f.mtime \in Nat
<1>1. \A v \in Version : v.mtime \in Nat /\ v.key \in Nat \ {0}
  BY KeysAssumption DEF Version
<1>2. objects \subseteq Version /\ \A i \in Invocations : found[i] \subseteq Version
  BY DEF TypeOK
<1> QED BY <1>1, <1>2

(* A client writes an object.                                               *)
LEMMA ClientStep ==
  ASSUME IInv, TypeOK', Environment
  PROVE  Rest'
<1> USE DEF IInv, TypeOK, work
<1>1. CASE Tick
  <2>1. /\ clock' = clock + 1
        /\ UNCHANGED <<objects, writes, checkpoint, notified, pc, work, faults, skipped, overlapped>>
    BY <1>1 DEF Tick
  <2>2. InThePast' /\ Settled'
    <3>1. InThePast'
      BY <2>1, VersionTypes DEF InThePast
    <3>2. Settled'
      BY <2>1 DEF Settled
    <3> QED BY <3>1, <3>2
  <2>3. MissedOnlyInSkippedSeconds'
    BY <2>1 DEF MissedOnlyInSkippedSeconds, Missed
  <2>4. ASSUME NEW i \in Invocations PROVE BelowCutoff(i)' /\ Listed(i)' /\ Published(i)'
    BY <2>1 DEF BelowCutoff, Listed, Published
  <2> QED BY <2>2, <2>3, <2>4 DEF Rest
<1>2. ASSUME NEW k \in Keys, Write(k) PROVE Rest'
  <2> DEFINE new == [key |-> k, mtime |-> clock, etag |-> writes + 1]
  <2>1. objects' \subseteq objects \cup {new} /\ new.mtime = clock
    BY <1>2 DEF Write, Others
  <2>2. UNCHANGED <<clock, checkpoint, notified, pc, work, faults, skipped, overlapped>>
    BY <1>2 DEF Write
  <2> HIDE DEF new
  <2>3. InThePast'
    BY <2>1, <2>2 DEF InThePast
  <2>4. Settled'
    BY <2>2 DEF Settled
  <2>5. MissedOnlyInSkippedSeconds'
    BY <2>1, <2>2 DEF MissedOnlyInSkippedSeconds, Missed, Settled
  <2>6. ASSUME NEW i \in Invocations PROVE BelowCutoff(i)' /\ Listed(i)' /\ Published(i)'
    <3>1. BelowCutoff(i)'
      BY <2>1, <2>2 DEF BelowCutoff, Settled
    <3>2. Listed(i)'
      BY <2>1, <2>2 DEF Listed, InThePast
    <3>3. Published(i)'
      BY <2>2 DEF Published
    <3> QED BY <3>1, <3>2, <3>3
  <2> QED BY <2>3, <2>4, <2>5, <2>6 DEF Rest
<1>3. ASSUME NEW k \in Keys, Delete(k) PROVE Rest'
  <2>1. objects' \subseteq objects
    BY <1>3 DEF Delete, Others
  <2>2. UNCHANGED <<clock, checkpoint, notified, pc, work, faults, skipped, overlapped>>
    BY <1>3 DEF Delete
  <2> QED
    BY <2>1, <2>2 DEF Rest, InThePast, Settled, MissedOnlyInSkippedSeconds, Missed,
                      BelowCutoff, Listed, Published
<1> QED BY <1>1, <1>2, <1>3 DEF Environment

(* An invocation that ends forgets its listing and leaves the rest alone.  *)
LEMMA ReturnStep ==
  ASSUME IInv, TypeOK', NEW i \in Invocations, Return(i),
         UNCHANGED <<store, checkpoint, notified, skipped>>
  PROVE  Rest'
<1> USE DEF IInv, TypeOK, store, Return, NoItem
<1>1. InThePast'
  BY DEF InThePast
<1>2. Settled'
  BY DEF Settled
<1>3. MissedOnlyInSkippedSeconds'
  BY DEF MissedOnlyInSkippedSeconds, Missed
<1>4. ASSUME NEW j \in Invocations PROVE BelowCutoff(j)' /\ Listed(j)' /\ Published(j)'
  BY DEF BelowCutoff, Listed, Published
<1> QED BY <1>1, <1>2, <1>3, <1>4 DEF Rest

(* An invocation starts from the saved checkpoint.                          *)
LEMMA InvokeStep ==
  ASSUME IInv, TypeOK', NEW i \in Invocations, Invoke(i)
  PROVE  Rest'
<1> USE KeysAssumption, PollerAssumption DEF IInv, TypeOK, store, NoItem
<1>1. PICK from \in Int :
        /\ Begin(i, from)
        /\ from = checkpoint \/ from = clock - Interval
  BY DEF Invoke, BeginAtCheckpoint, BeginWithLookback, Lookback
<1>2. UNCHANGED <<clock, objects, checkpoint, notified, skipped, found, unsent, token>>
  BY <1>1 DEF Begin
<1>3. /\ pc[i] = "idle" /\ pc'[i] = "list" /\ cutoff'[i] = from
      /\ started'[i] = clock /\ base'[i] = checkpoint
  BY <1>1 DEF Begin
<1>4. \A j \in Invocations \ {i} : /\ pc'[j] = pc[j] /\ cutoff'[j] = cutoff[j]
                                  /\ started'[j] = started[j] /\ base'[j] = base[j]
  BY <1>1 DEF Begin
<1>5. InThePast'
  BY <1>2, <1>3, <1>4 DEF InThePast
<1>6. Settled'
  BY <1>1, <1>2, <1>3, <1>4 DEF Settled
<1>7. MissedOnlyInSkippedSeconds'
  BY <1>2 DEF MissedOnlyInSkippedSeconds, Missed
<1>8. BelowCutoff(i)' /\ Listed(i)' /\ Published(i)'
  <2>1. BelowCutoff(i)'
    <3>1. ASSUME NEW o \in objects, o \notin notified, o.mtime <= from
          PROVE  o.mtime \in skipped \cup (checkpoint + 1 .. from)
      <4>1. o.mtime \in Nat
        BY DEF Version
      <4>2. CASE o.mtime <= checkpoint
        BY <3>1, <4>2 DEF MissedOnlyInSkippedSeconds, Missed
      <4>3. CASE ~(o.mtime <= checkpoint)
        BY <3>1, <4>1, <4>3
      <4> QED BY <4>2, <4>3
    <3> QED BY <3>1, <1>2, <1>3 DEF BelowCutoff
  <2>2. Listed(i)'
    <3>1. token[i] = 0
      BY <1>3 DEF Published
    <3>2. ASSUME NEW o \in objects PROVE ~(o.key <= token[i])
      BY <3>1, VersionTypes
    <3> QED BY <3>2, <1>2, <1>3 DEF Listed
  <2>3. Published(i)'
    BY <1>2, <1>3 DEF Published
  <2> QED BY <2>1, <2>2, <2>3
<1>9. ASSUME NEW j \in Invocations, j # i PROVE BelowCutoff(j)' /\ Listed(j)' /\ Published(j)'
  BY <1>2, <1>4, <1>9 DEF BelowCutoff, Listed, Published
<1> QED BY <1>5, <1>6, <1>7, <1>8, <1>9 DEF Rest

(* A page is listed.                                                        *)
LEMMA ListStep ==
  ASSUME IInv, TypeOK', NEW i \in Invocations, ListPage(i)
  PROVE  Rest'
<1> USE DEF IInv, TypeOK, store
<1>1. PICK last \in {token[i]} \cup {o.key : o \in Remaining(i)} :
        LET page      == {o \in Remaining(i) : o.key <= last}
            truncated == IsTruncated(page, Remaining(i))
            new       == found[i] \cup {o \in page : IsNew(o, cutoff[i])}
        IN  \/ /\ truncated \/ new # {}
               /\ found' = [found EXCEPT ![i] = new]
               /\ unsent' = [unsent EXCEPT ![i] = new]
               /\ token' = [token EXCEPT ![i] = last]
               /\ pc' = [pc EXCEPT ![i] = IF truncated THEN "list" ELSE "publish"]
               /\ UNCHANGED <<cutoff, started, base>>
            \/ Return(i)
  BY DEF ListPage
<1> DEFINE page == {o \in Remaining(i) : o.key <= last}
           truncated == IsTruncated(page, Remaining(i))
           new == found[i] \cup {o \in page : IsNew(o, cutoff[i])}
<1>2. pc[i] = "list" /\ UNCHANGED <<store, checkpoint, notified, skipped>>
  BY DEF ListPage
<1>3. CASE Return(i)
  BY <1>2, <1>3, ReturnStep
<1>4. CASE ~Return(i)
  <2>1. /\ found' = [found EXCEPT ![i] = new]
        /\ unsent' = [unsent EXCEPT ![i] = new]
        /\ token' = [token EXCEPT ![i] = last]
        /\ pc' = [pc EXCEPT ![i] = IF truncated THEN "list" ELSE "publish"]
        /\ UNCHANGED <<cutoff, started, base>>
    BY <1>1, <1>4
  <2>2. /\ found'[i] = new /\ unsent'[i] = new /\ token'[i] = last
        /\ pc'[i] = IF truncated THEN "list" ELSE "publish"
    BY <2>1
  <2>3. \A j \in Invocations \ {i} : /\ pc'[j] = pc[j] /\ token'[j] = token[j]
                                    /\ found'[j] = found[j] /\ unsent'[j] = unsent[j]
    BY <2>1
  <2>4. new \subseteq found[i] \cup objects
    BY DEF Remaining
  <2>5. ASSUME NEW o \in objects, ~truncated \/ o.key <= last, cutoff[i] < o.mtime,
               o.mtime < started[i]
        PROVE  o \in new
    <3>1. token[i] \in Nat /\ o.key \in Nat
      BY VersionTypes
    <3>2. CASE o.key <= token[i]
      BY <1>2, <2>5, <3>2 DEF Listed
    <3>3. CASE o.key > token[i]
      <4>1. o \in Remaining(i)
        BY <3>3 DEF Remaining
      <4>2. o \in page
        BY <2>5, <4>1 DEF IsTruncated
      <4>3. IsNew(o, cutoff[i])
        BY <2>5, VersionTypes DEF IsNew
      <4> QED BY <4>2, <4>3
    <3> QED BY <3>1, <3>2, <3>3
  <2> HIDE DEF new, truncated, page
  <2>6. InThePast'
    BY <1>2, <2>1, <2>2, <2>3, <2>4 DEF InThePast
  <2>7. Settled'
    BY <1>2, <2>1, <2>2, <2>3 DEF Settled
  <2>8. MissedOnlyInSkippedSeconds'
    BY <1>2 DEF MissedOnlyInSkippedSeconds, Missed
  <2>9. BelowCutoff(i)'
    BY <1>2, <2>1 DEF BelowCutoff
  <2>10. Listed(i)'
    BY <1>2, <2>1, <2>2, <2>5 DEF Listed
  <2>11. Published(i)'
    BY <2>2 DEF Published
  <2>12. ASSUME NEW j \in Invocations, j # i
         PROVE  BelowCutoff(j)' /\ Listed(j)' /\ Published(j)'
    BY <1>2, <2>1, <2>3, <2>12 DEF BelowCutoff, Listed, Published
  <2> QED BY <2>6, <2>7, <2>8, <2>9, <2>10, <2>11, <2>12 DEF Rest
<1> QED BY <1>3, <1>4

(* A batch is published.                                                    *)
LEMMA PublishStep ==
  ASSUME IInv, TypeOK', NEW i \in Invocations, PublishBatch(i)
  PROVE  Rest'
<1> USE DEF IInv, TypeOK, store
<1>1. PICK b \in SUBSET unsent[i] :
        /\ notified' = notified \cup b
        /\ unsent' = [unsent EXCEPT ![i] = @ \ b]
        /\ pc' = [pc EXCEPT ![i] = AfterBatch(unsent[i] \ b)]
        /\ b # {}
  BY DEF PublishBatch, IsBatch
<1>2. /\ pc[i] = "publish"
      /\ UNCHANGED <<store, checkpoint, cutoff, token, found, faults, started, base, skipped>>
  BY DEF PublishBatch
<1>3. pc'[i] \in {"publish", "save"} /\ \A j \in Invocations \ {i} : pc'[j] = pc[j]
  BY <1>1 DEF AfterBatch
<1>4. InThePast'
  BY <1>2 DEF InThePast
<1>5. Settled'
  BY <1>2, <1>3 DEF Settled
<1>6. MissedOnlyInSkippedSeconds'
  BY <1>1, <1>2 DEF MissedOnlyInSkippedSeconds, Missed
<1>7. ASSUME NEW j \in Invocations PROVE BelowCutoff(j)' /\ Listed(j)'
  BY <1>1, <1>2, <1>3 DEF BelowCutoff, Listed
<1>8. ASSUME NEW j \in Invocations, j # i PROVE Published(j)'
  BY <1>1, <1>2, <1>3, <1>8 DEF Published
<1>9. Published(i)'
  <2>1. found[i] \ unsent[i] \subseteq notified
    BY <1>2 DEF Published
  <2>2. unsent'[i] = unsent[i] \ b
    BY <1>1
  <2>3. (found[i] \ unsent[i])' \subseteq notified'
    BY <1>1, <1>2, <2>1, <2>2
  <2>4. pc'[i] = "save" => unsent'[i] = {}
    BY <1>1, <2>2 DEF AfterBatch
  <2>5. unsent'[i] \subseteq found'[i] /\ found'[i] # {}
    BY <1>1, <1>2, <2>2 DEF Published
  <2> QED BY <1>3, <2>3, <2>4, <2>5 DEF Published
<1> QED BY <1>4, <1>5, <1>6, <1>7, <1>8, <1>9 DEF Rest

(* The checkpoint is saved.                                                 *)
LEMMA SaveStep ==
  ASSUME IInv, TypeOK', NEW i \in Invocations, SaveCheckpoint(i)
  PROVE  Rest'
<1> USE DEF IInv, TypeOK, store
<1>1. /\ pc[i] = "save" /\ Return(i)
      /\ UNCHANGED <<store, notified, faults>>
  BY DEF SaveCheckpoint
<1>2. CASE ~StateTable
  <2>1. UNCHANGED <<checkpoint, skipped>>
    BY <1>2 DEF SaveCheckpoint
  <2> QED BY <1>1, <2>1, ReturnStep
<1>3. CASE StateTable
  <2>1. PICK o \in found[i] :
          /\ Newest(o, found[i])
          /\ checkpoint' = o.mtime
          /\ skipped' = skipped \cup (base[i] + 1 .. cutoff[i])
                                \cup (started[i] .. o.mtime)
    BY <1>3 DEF SaveCheckpoint, NextCheckpoint
  <2>2. /\ o.mtime \in Nat /\ o.mtime <= clock
        /\ started[i] \in Nat /\ cutoff[i] \in Int
    BY VersionTypes DEF InThePast
  <2>3. /\ pc'[i] = "idle" /\ token'[i] = 0 /\ found'[i] = {} /\ unsent'[i] = {}
        /\ started'[i] = 0
        /\ \A j \in Invocations \ {i} :
             /\ pc'[j] = pc[j] /\ cutoff'[j] = cutoff[j] /\ token'[j] = token[j]
             /\ found'[j] = found[j] /\ unsent'[j] = unsent[j]
             /\ started'[j] = started[j] /\ base'[j] = base[j]
    BY <1>1 DEF Return
  <2>4. skipped \subseteq skipped'
    BY <2>1
  <2>5. InThePast'
    BY <1>1, <2>3 DEF InThePast
  <2>6. Settled'
    <3>1. checkpoint' = clock => clock \in skipped'
      BY <2>1, <2>2 DEF InThePast
    <3>2. checkpoint' <= clock
      BY <2>1, <2>2
    <3>3. \A j \in Invocations :
            pc'[j] # "idle" => cutoff'[j] <= clock /\ (cutoff'[j] = clock => clock \in skipped')
      BY <2>3, <2>4 DEF Settled
    <3> QED BY <1>1, <3>1, <3>2, <3>3 DEF Settled
  <2>7. MissedOnlyInSkippedSeconds'
    <3> SUFFICES ASSUME NEW x \in objects, x \notin notified, x.mtime <= o.mtime
                 PROVE  x.mtime \in skipped'
      BY <1>1, <2>1 DEF MissedOnlyInSkippedSeconds, Missed
    <3>1. x.mtime \in Nat
      BY VersionTypes
    <3>2. CASE x.mtime <= cutoff[i]
      <4>1. x.mtime \in skipped \cup (base[i] + 1 .. cutoff[i])
        BY <1>1, <3>2 DEF BelowCutoff
      <4> QED BY <4>1, <2>1
    <3>3. CASE x.mtime >= started[i]
      <4>1. x.mtime \in started[i] .. o.mtime
        BY <2>2, <3>1, <3>3
      <4> QED BY <4>1, <2>1
    <3>4. CASE x.mtime > cutoff[i] /\ x.mtime < started[i]
      <4>1. x \in found[i]
        BY <1>1, <3>4 DEF Listed
      <4>2. found[i] \subseteq notified
        BY <1>1 DEF Published
      <4> QED BY <4>1, <4>2
    <3> QED BY <2>2, <3>1, <3>2, <3>3, <3>4
  <2>8. ASSUME NEW j \in Invocations, j # i
        PROVE  BelowCutoff(j)' /\ Listed(j)' /\ Published(j)'
    <3>1. BelowCutoff(j)'
      BY <1>1, <2>3, <2>4, <2>8 DEF BelowCutoff
    <3>2. Listed(j)' /\ Published(j)'
      BY <1>1, <2>3, <2>8 DEF Listed, Published
    <3> QED BY <3>1, <3>2
  <2>9. BelowCutoff(i)' /\ Listed(i)' /\ Published(i)'
    BY <2>3 DEF BelowCutoff, Listed, Published
  <2> QED BY <2>5, <2>6, <2>7, <2>8, <2>9 DEF Rest
<1> QED BY <1>2, <1>3

-----------------------------------------------------------------------------

(* The invariant is inductive: one step per action.                         *)
LEMMA NextIInv == IInv /\ [Next]_vars => IInv'
<1> SUFFICES ASSUME IInv, [Next]_vars PROVE IInv'
  OBVIOUS
<1>1. TypeOK'
  BY TypeStep DEF IInv
<1>2. Rest'
  <2>1. CASE Environment
    BY <1>1, <2>1, ClientStep
  <2>2. ASSUME NEW i \in Invocations, Invoke(i) PROVE Rest'
    BY <1>1, <2>2, InvokeStep
  <2>3. ASSUME NEW i \in Invocations, ListPage(i) PROVE Rest'
    BY <1>1, <2>3, ListStep
  <2>4. ASSUME NEW i \in Invocations, PublishBatch(i) PROVE Rest'
    BY <1>1, <2>4, PublishStep
  <2>5. ASSUME NEW i \in Invocations, SaveCheckpoint(i) PROVE Rest'
    BY <1>1, <2>5, SaveStep
  <2>6. ASSUME NEW i \in Invocations, Fail(i) PROVE Rest'
    BY <1>1, <2>6, ReturnStep DEF Fail
  <2>7. CASE UNCHANGED vars
    BY <2>7 DEF IInv, Rest, vars, store, work, InThePast, Settled,
                MissedOnlyInSkippedSeconds, Missed, BelowCutoff, Listed, Published
  <2> QED BY <2>1, <2>2, <2>3, <2>4, <2>5, <2>6, <2>7 DEF Next, Advance
<1> QED BY <1>1, <1>2 DEF IInv, Rest

(* The inductive invariant holds in every reachable state.                  *)
THEOREM Invariance == Spec => []IInv
  BY InitIInv, NextIInv, PTL DEF Spec

(* However invocations overlap, pages, batches and failures fall, an       *)
(* object at or below the stored checkpoint that was not notified lies in  *)
(* a second some saved invocation is known to have skipped: it was written *)
(* during the listing that produced the checkpoint, or under a lookback    *)
(* cutoff (handler.py:158, 316-319).                                       *)
THEOREM MissedOnlyInSkipped == Spec => []MissedOnlyInSkippedSeconds
<1>1. IInv => MissedOnlyInSkippedSeconds
  BY DEF IInv
<1> QED BY <1>1, Invariance, PTL

(* The checkpoint only ever moves to what an invocation has published in   *)
(* full (handler.py:312-319).                                              *)
THEOREM SavedWhatWasPublished == Spec => SavesOnlyPublished
<1> DEFINE Safe == checkpoint' # checkpoint =>
                     \E i \in Invocations : /\ pc[i] = "save"
                                            /\ found[i] # {}
                                            /\ found[i] \subseteq notified
<1>1. IInv /\ [Next]_vars => [Safe]_vars
  <2> SUFFICES ASSUME IInv, Next, checkpoint' # checkpoint
               PROVE  \E i \in Invocations : /\ pc[i] = "save"
                                             /\ found[i] # {}
                                             /\ found[i] \subseteq notified
    OBVIOUS
  <2>1. PICK i \in Invocations : SaveCheckpoint(i)
    BY DEF Next, Environment, Tick, Write, Delete, Invoke, BeginAtCheckpoint,
           BeginWithLookback, Begin, Advance, ListPage, PublishBatch, Fail
  <2>2. pc[i] = "save"
    BY <2>1 DEF SaveCheckpoint
  <2>3. found[i] \ unsent[i] \subseteq notified /\ unsent[i] = {} /\ found[i] # {}
    BY <2>2 DEF IInv, Published
  <2> QED BY <2>2, <2>3
<1> QED BY <1>1, Invariance, PTL DEF Spec, SavesOnlyPublished

-----------------------------------------------------------------------------
(* Calm weather: a stored checkpoint, no two invocations side by side so   *)
(* far, and no failed call.                                                *)
Weather == StateTable /\ ~overlapped /\ faults = 0

(* The clock and the times it stamps are later than the value NoItem, so   *)
(* that a missing checkpoint is below every object.                        *)
Dated ==
  /\ clock > 0
  /\ \A o \in objects : o.mtime > 0
  /\ \A i \in Invocations : \A f \in found[i] : f.mtime > 0

(* In calm weather one invocation runs at a time, it works from the stored *)
(* checkpoint or there is none, everything it found is above the           *)
(* checkpoint, and what is on the topic is below it unless the invocation  *)
(* put it there.                                                           *)
Calm ==
  Weather =>
    /\ \A i, j \in Invocations : pc[i] # "idle" /\ pc[j] # "idle" => i = j
    /\ \A i \in Invocations :
         /\ pc[i] # "idle" => cutoff[i] = checkpoint \/ checkpoint = NoItem
         /\ pc[i] = "list" => found[i] = unsent[i]
         /\ unsent[i] \subseteq found[i]
         /\ \A f \in found[i] : f.mtime > checkpoint
    /\ \A o \in notified :
         o.mtime <= checkpoint \/ \E i \in Invocations : o \in found[i] \ unsent[i]

(* Every time stamp stays later than NoItem.                               *)
LEMMA DatedStep == TypeOK /\ Dated /\ [Next]_vars => Dated'
<1> SUFFICES ASSUME TypeOK, Dated, [Next]_vars PROVE Dated'
  OBVIOUS
<1> USE DEF TypeOK, store, work, Dated
<1>1. CASE Tick
  BY <1>1 DEF Tick
<1>2. ASSUME NEW k \in Keys, Write(k) PROVE Dated'
  <2> DEFINE new == [key |-> k, mtime |-> clock, etag |-> writes + 1]
  <2>1. objects' \subseteq objects \cup {new} /\ new.mtime = clock
    BY <1>2 DEF Write, Others
  <2>2. UNCHANGED <<clock, found>>
    BY <1>2 DEF Write
  <2> HIDE DEF new
  <2> QED BY <2>1, <2>2
<1>3. ASSUME NEW k \in Keys, Delete(k) PROVE Dated'
  BY <1>3 DEF Delete, Others
<1>4. ASSUME NEW i \in Invocations, Invoke(i) PROVE Dated'
  BY <1>4 DEF Invoke, BeginAtCheckpoint, BeginWithLookback, Begin
<1>5. ASSUME NEW i \in Invocations, ListPage(i) PROVE Dated'
  <2>1. UNCHANGED <<clock, objects>> /\ \A j \in Invocations : found'[j] \subseteq found[j] \cup objects
    BY <1>5 DEF ListPage, Return, Remaining
  <2> QED BY <2>1
<1>6. ASSUME NEW i \in Invocations, PublishBatch(i) PROVE Dated'
  BY <1>6 DEF PublishBatch
<1>7. ASSUME NEW i \in Invocations, SaveCheckpoint(i) \/ Fail(i) PROVE Dated'
  <2>1. UNCHANGED <<clock, objects>> /\ \A j \in Invocations : found'[j] \subseteq found[j]
    BY <1>7 DEF SaveCheckpoint, Fail, Return
  <2> QED BY <2>1
<1>8. CASE UNCHANGED vars
  BY <1>8 DEF vars
<1> QED
  BY <1>1, <1>2, <1>3, <1>4, <1>5, <1>6, <1>7, <1>8 DEF Next, Environment, Advance

(* The weather never improves.                                             *)
LEMMA WeatherStep == TypeOK /\ [Next]_vars /\ Weather' => Weather
<1> SUFFICES ASSUME TypeOK, [Next]_vars, Weather' PROVE Weather
  OBVIOUS
<1> USE DEF TypeOK
<1>1. overlapped \in BOOLEAN /\ (overlapped => overlapped')
  BY DEF Next, Environment, Tick, Write, Delete, Invoke, BeginAtCheckpoint, BeginWithLookback,
         Begin, Advance, ListPage, PublishBatch, SaveCheckpoint, Fail, vars
<1>2. faults \in Nat /\ faults' >= faults
  BY DEF Next, Environment, Tick, Write, Delete, Invoke, BeginAtCheckpoint, BeginWithLookback,
         Advance, ListPage, PublishBatch, SaveCheckpoint, Fail, vars
<1> QED BY <1>1, <1>2 DEF Weather

(* While it runs alone, no step of an invocation disturbs the calm: only a *)
(* failed call or a second invocation does, and both are remembered.       *)
LEMMA CalmStep ==
  ASSUME TypeOK, TypeOK', Dated, Calm, [Next]_vars
  PROVE  Calm'
<1> SUFFICES ASSUME Weather, Weather' PROVE Calm'
  BY WeatherStep DEF Calm
<1> USE DEF TypeOK, store, work, NoItem
<1>1. CASE Environment
  BY <1>1 DEF Environment, Tick, Write, Delete, Calm
<1>2. ASSUME NEW i \in Invocations, Invoke(i) PROVE Calm'
  <2>1. /\ pc[i] = "idle" /\ found[i] = {} /\ unsent[i] = {}
        /\ UNCHANGED <<checkpoint, notified, found, unsent>>
        /\ \A j \in Invocations \ {i} : pc'[j] = pc[j] /\ cutoff'[j] = cutoff[j]
    BY <1>2 DEF Invoke, BeginAtCheckpoint, BeginWithLookback, Begin
  <2>2. cutoff'[i] = checkpoint \/ checkpoint = NoItem
    <3>1. StateTable /\ faults = 0 /\ faults' = 0
      BY DEF Weather
    <3> QED BY <1>2, <3>1 DEF Invoke, BeginAtCheckpoint, BeginWithLookback, Begin
  <2>3. \A j \in Invocations \ {i} : pc'[j] = "idle"
    <3>1. ~overlapped'
      BY DEF Weather
    <3>2. overlapped' = (overlapped \/ \E j \in Invocations \ {i} : pc[j] # "idle")
      BY <1>2 DEF Invoke, BeginAtCheckpoint, BeginWithLookback, Begin
    <3> QED BY <2>1, <3>1, <3>2
  <2> QED BY <2>1, <2>2, <2>3 DEF Calm
<1>3. ASSUME NEW i \in Invocations, ListPage(i) PROVE Calm'
  <2>1. /\ pc[i] = "list" /\ found[i] = unsent[i]
        /\ UNCHANGED <<store, checkpoint, notified>>
        /\ \A j \in Invocations \ {i} : /\ pc[j] = "idle" /\ pc'[j] = "idle"
                                        /\ found[j] = {} /\ found'[j] = {} /\ unsent'[j] = {}
    <3>1. pc[i] = "list" /\ found[i] = unsent[i] /\ UNCHANGED <<store, checkpoint, notified>>
      BY <1>3 DEF ListPage, Calm
    <3>2. \A j \in Invocations \ {i} : pc[j] = "idle" /\ found[j] = {}
      BY <3>1 DEF Calm
    <3>3. \A j \in Invocations \ {i} : pc'[j] = pc[j]
      BY <1>3 DEF ListPage, Return
    <3> QED BY <3>1, <3>2, <3>3
  <2>2. \A o \in notified : o.mtime <= checkpoint
    BY <2>1 DEF Calm
  <2>3. /\ found'[i] = unsent'[i]
        /\ \A f \in found'[i] :
             f \in found[i] \/ (f \in objects /\ IsNew(f, cutoff[i]))
        /\ pc'[i] # "idle" => cutoff'[i] = cutoff[i]
    <3> PICK last \in {token[i]} \cup {o.key : o \in Remaining(i)} :
          LET page == {o \in Remaining(i) : o.key <= last}
              new  == found[i] \cup {o \in page : IsNew(o, cutoff[i])}
          IN  \/ /\ found' = [found EXCEPT ![i] = new]
                 /\ unsent' = [unsent EXCEPT ![i] = new]
                 /\ UNCHANGED <<cutoff, started, base>>
              \/ Return(i)
      BY <1>3 DEF ListPage
    <3>1. CASE Return(i)
      BY <3>1 DEF Return
    <3>2. CASE ~Return(i)
      <4> DEFINE page == {o \in Remaining(i) : o.key <= last}
                 new  == found[i] \cup {o \in page : IsNew(o, cutoff[i])}
      <4>1. /\ found' = [found EXCEPT ![i] = new]
            /\ unsent' = [unsent EXCEPT ![i] = new]
            /\ UNCHANGED cutoff
        BY <3>2
      <4>2. \A f \in new : f \in found[i] \/ (f \in objects /\ IsNew(f, cutoff[i]))
        BY DEF Remaining
      <4> HIDE DEF new
      <4> QED BY <4>1, <4>2
    <3> QED BY <3>1, <3>2
  <2>4. \A f \in found'[i] : f.mtime > checkpoint
    <3> SUFFICES ASSUME NEW f \in found'[i], f \in objects, IsNew(f, cutoff[i])
                 PROVE  f.mtime > checkpoint
      BY <2>3 DEF Calm
    <3>1. f.mtime > cutoff[i] /\ f.mtime > 0
      BY DEF IsNew, Dated
    <3>2. cutoff[i] = checkpoint \/ checkpoint = 0
      BY <2>1 DEF Calm
    <3> QED BY <3>1, <3>2
  <2>5. pc'[i] # "idle" => cutoff'[i] = checkpoint \/ checkpoint = NoItem
    BY <2>1, <2>3 DEF Calm
  <2> QED BY <2>1, <2>2, <2>3, <2>4, <2>5 DEF Calm
<1>4. ASSUME NEW i \in Invocations, PublishBatch(i) PROVE Calm'
  <2>1. PICK b \in SUBSET unsent[i] :
          /\ notified' = notified \cup b
          /\ unsent' = [unsent EXCEPT ![i] = @ \ b]
          /\ pc' = [pc EXCEPT ![i] = AfterBatch(unsent[i] \ b)]
    BY <1>4 DEF PublishBatch
  <2>2. /\ pc[i] = "publish" /\ UNCHANGED <<checkpoint, cutoff, found, faults>>
        /\ pc'[i] \in {"publish", "save"} /\ unsent'[i] = unsent[i] \ b
        /\ \A j \in Invocations \ {i} : pc'[j] = pc[j] /\ unsent'[j] = unsent[j]
    BY <1>4, <2>1 DEF PublishBatch, AfterBatch
  <2>3. unsent[i] \subseteq found[i]
    BY DEF Calm
  <2>4. ASSUME NEW o \in notified'
        PROVE  o.mtime <= checkpoint \/ \E j \in Invocations : o \in found[j] \ unsent'[j]
    <3>1. CASE o \in b
      BY <2>2, <2>3, <3>1
    <3>2. CASE o \notin b
      BY <2>1, <2>2, <3>2 DEF Calm
    <3> QED BY <3>1, <3>2
  <2>5. \A j, k \in Invocations : pc'[j] # "idle" /\ pc'[k] # "idle" => j = k
    BY <2>2 DEF Calm
  <2>6. \A j \in Invocations :
          /\ pc'[j] # "idle" => cutoff'[j] = checkpoint \/ checkpoint = NoItem
          /\ pc'[j] = "list" => found'[j] = unsent'[j]
          /\ unsent'[j] \subseteq found'[j]
          /\ \A f \in found'[j] : f.mtime > checkpoint
    BY <2>2, <2>3 DEF Calm
  <2> QED BY <2>2, <2>4, <2>5, <2>6 DEF Calm
<1>5. ASSUME NEW i \in Invocations, SaveCheckpoint(i) PROVE Calm'
  <2>1. PICK o \in found[i] : Newest(o, found[i]) /\ checkpoint' = o.mtime
    BY <1>5 DEF SaveCheckpoint, NextCheckpoint, Weather
  <2>2. /\ notified' = notified
        /\ \A j \in Invocations : pc'[j] = "idle" /\ found'[j] = {} /\ unsent'[j] = {}
        /\ \A j \in Invocations \ {i} : found[j] = {}
    <3>1. pc[i] = "save" /\ notified' = notified /\ Return(i)
      BY <1>5 DEF SaveCheckpoint
    <3>2. \A j \in Invocations \ {i} : pc[j] = "idle"
      BY <3>1 DEF Calm
    <3> QED BY <3>1, <3>2 DEF Return
  <2>3. o.mtime > checkpoint /\ o.mtime \in Nat
    BY VersionTypes DEF Calm
  <2>4. ASSUME NEW x \in notified PROVE x.mtime <= o.mtime
    <3>1. x.mtime \in Nat
      BY DEF Version
    <3>2. x.mtime <= checkpoint \/ x \in found[i]
      BY <2>2 DEF Calm
    <3> QED BY <2>1, <2>3, <3>1, <3>2 DEF Newest
  <2> QED BY <2>1, <2>2, <2>4 DEF Calm
<1>6. ASSUME NEW i \in Invocations, Fail(i) PROVE Calm'
  <2>1. faults' > 0
    BY <1>6 DEF Fail
  <2> QED BY <2>1 DEF Weather
<1>7. CASE UNCHANGED vars
  BY <1>7 DEF vars, Calm
<1> QED
  BY <1>1, <1>2, <1>3, <1>4, <1>5, <1>6, <1>7 DEF Next, Advance

(* Calm weather holds what it promises for as long as it lasts.            *)
THEOREM CalmInvariance == Spec => [](TypeOK /\ Dated /\ Calm)
<1>1. Init => TypeOK /\ Dated /\ Calm
  <2>1. Init => TypeOK
    BY InitIInv DEF IInv
  <2>2. Init => Dated /\ Calm
    BY DEF Init, Dated, Calm, NoItem
  <2> QED BY <2>1, <2>2
<1>2. TypeOK /\ Dated /\ Calm /\ [Next]_vars => (TypeOK /\ Dated /\ Calm)'
  BY TypeStep, DatedStep, CalmStep
<1> QED BY <1>1, <1>2, PTL DEF Spec

(* With a state table, no version is put on the topic twice until two      *)
(* invocations overlap or a call fails, whatever the writers, pages and    *)
(* batches (handler.py:158, 255-319).                                      *)
THEOREM OnceInCalmWeather == Spec => []NoDuplicateNotification
<1>1. TypeOK /\ Calm => NoDuplicateNotification
  <2> SUFFICES ASSUME TypeOK, Calm, Weather, NEW i \in Invocations,
                      NEW o \in unsent[i], o \in notified
               PROVE  FALSE
    BY DEF NoDuplicateNotification, Weather
  <2>1. o \in found[i] /\ o.mtime > checkpoint
    BY DEF Calm
  <2>2. o.mtime \in Nat /\ checkpoint \in Nat
    BY DEF TypeOK, Version
  <2>3. PICK j \in Invocations : o \in found[j] \ unsent[j]
    BY <2>1, <2>2 DEF Calm
  <2>4. i = j
    BY <2>1, <2>3 DEF Calm, TypeOK
  <2> QED BY <2>3, <2>4
<1> QED BY <1>1, CalmInvariance, PTL

(* The stored time goes back only after two invocations have overlapped or *)
(* a call has failed (handler.py:110-122): alone, an invocation saves a    *)
(* time above the item it began from, and the item is still there.         *)
THEOREM CheckpointForward == Spec => CheckpointMovesForward
<1> DEFINE Forward == checkpoint' < checkpoint => overlapped \/ faults > 0
<1>1. TypeOK /\ Calm /\ [Next]_vars => [Forward]_vars
  <2> SUFFICES ASSUME TypeOK, Calm, Next, checkpoint' < checkpoint, ~overlapped, ~(faults > 0)
               PROVE  FALSE
    OBVIOUS
  <2>1. checkpoint' # checkpoint
    BY DEF TypeOK
  <2>2. PICK i \in Invocations : SaveCheckpoint(i)
    BY <2>1 DEF Next, Environment, Tick, Write, Delete, Invoke, BeginAtCheckpoint,
           BeginWithLookback, Begin, Advance, ListPage, PublishBatch, Fail
  <2>3. PICK o \in found[i] : checkpoint' = o.mtime /\ StateTable
    BY <2>1, <2>2 DEF SaveCheckpoint, NextCheckpoint
  <2>4. Weather
    BY <2>3 DEF Weather, TypeOK
  <2>5. o.mtime > checkpoint
    BY <2>4 DEF Calm
  <2> QED BY <2>3, <2>5, VersionTypes DEF TypeOK
<1> QED BY <1>1, CalmInvariance, PTL DEF Spec, CheckpointMovesForward
=============================================================================
