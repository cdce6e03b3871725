--------------------------- MODULE SnowpipePoller ---------------------------
(***************************************************************************)
(* The polling Lambda that stands in for S3 event notifications on an FSx  *)
(* for ONTAP S3 access point (integrations/snowflake/snowpipe-lambda).     *)
(* Every invocation reads a checkpoint, lists the prefix page by page,     *)
(* publishes the objects newer than the checkpoint to SNS in batches and   *)
(* saves the newest LastModified it saw as the next checkpoint.  Clients   *)
(* keep writing to the file system meanwhile, invocations may overlap, and *)
(* any call to S3, SNS or DynamoDB may fail.                               *)
(***************************************************************************)
EXTENDS Integers, FiniteSets

CONSTANTS
  Keys,         \* object keys under PREFIX; a listing returns them in order
  Invocations,  \* invocations that may be in flight at the same time
  StateTable,   \* is STATE_TABLE set?
  Interval,     \* POLLING_INTERVAL_MINUTES, in ticks of the clock
  PageSize,     \* MaxKeys of one ListObjectsV2 page
  BatchSize,    \* SNS_MAX_RECORDS_PER_MESSAGE
  Deletes,      \* may clients delete objects?
  MaxClock,     \* bound on the clock
  MaxWrites,    \* bound on the number of object writes
  MaxFaults     \* bound on the number of failed calls

ASSUME KeysAssumption == Keys \subseteq Nat \ {0}
ASSUME PollerAssumption ==
  /\ StateTable \in BOOLEAN
  /\ Deletes \in BOOLEAN
  /\ Interval \in Nat \ {0}
  /\ PageSize \in Nat \ {0}
  /\ BatchSize \in Nat \ {0}
  /\ MaxClock \in Nat
  /\ MaxWrites \in Nat
  /\ MaxFaults \in Nat

VARIABLES
  (* The file system behind the access point, and the clock. *)
  clock,        \* current second; LastModified has this granularity
  objects,      \* the object versions a listing can return, one per key
  writes,       \* number of writes so far; the next ETag
  (* The DynamoDB item and the SNS topic. *)
  checkpoint,   \* last_processed, or NoItem
  notified,     \* versions that have been published to SNS
  (* The invocations in flight. *)
  pc,           \* where each invocation is in handler()
  cutoff,       \* cutoff_time
  token,        \* continuation_token: the last key of the previous page
  found,        \* new_files
  unsent,       \* the part of new_files that is not published yet
  faults,       \* failed calls so far
  (* Observations, read by no action of the poller. *)
  started,      \* the second in which the invocation began
  base,         \* the checkpoint stored when it began
  skipped,      \* seconds that saved checkpoints passed without covering
  overlapped    \* has an invocation begun while another was running?

store == <<clock, objects, writes>>
work  == <<cutoff, token, found, unsent, started, base>>
vars  == <<store, checkpoint, notified, pc, work, faults, skipped, overlapped>>

NoItem == 0

(* Types, and that nothing an invocation found survives it: a warm Lambda   *)
(* environment keeps the module's globals from one call to the next.       *)
Version == [key : Keys, mtime : Nat, etag : Nat]

TypeOK ==
  /\ clock \in Nat
  /\ objects \in SUBSET Version
  /\ writes \in Nat
  /\ checkpoint \in Nat
  /\ notified \in SUBSET Version
  /\ pc \in [Invocations -> {"idle", "list", "publish", "save"}]
  /\ cutoff \in [Invocations -> Int]
  /\ token \in [Invocations -> Nat]
  /\ found \in [Invocations -> SUBSET Version]
  /\ unsent \in [Invocations -> SUBSET Version]
  /\ faults \in Nat
  /\ started \in [Invocations -> Nat]
  /\ base \in [Invocations -> Nat]
  /\ skipped \in SUBSET Int
  /\ overlapped \in BOOLEAN
  /\ \A i \in Invocations : pc[i] = "idle" => found[i] = {} /\ unsent[i] = {}

Init ==
  /\ clock = 1
  /\ objects = {}
  /\ writes = 0
  /\ checkpoint = NoItem
  /\ notified = {}
  /\ pc = [i \in Invocations |-> "idle"]
  /\ cutoff = [i \in Invocations |-> 0]
  /\ token = [i \in Invocations |-> 0]
  /\ found = [i \in Invocations |-> {}]
  /\ unsent = [i \in Invocations |-> {}]
  /\ faults = 0
  /\ started = [i \in Invocations |-> 0]
  /\ base = [i \in Invocations |-> NoItem]
  /\ skipped = {}
  /\ overlapped = FALSE

-----------------------------------------------------------------------------
(* The clients of the file system.                                         *)

Tick ==
  /\ clock < MaxClock
  /\ clock' = clock + 1
  /\ UNCHANGED <<objects, writes, checkpoint, notified, pc, work, faults, skipped, overlapped>>

Others(k) == {o \in objects : o.key # k}

Write(k) ==
  /\ writes < MaxWrites
  /\ writes' = writes + 1
  /\ objects' = Others(k) \cup {[key |-> k, mtime |-> clock, etag |-> writes + 1]}
  /\ UNCHANGED <<clock, checkpoint, notified, pc, work, faults, skipped, overlapped>>

Delete(k) ==
  /\ Deletes
  /\ objects # Others(k)
  /\ objects' = Others(k)
  /\ UNCHANGED <<clock, writes, checkpoint, notified, pc, work, faults, skipped, overlapped>>

-----------------------------------------------------------------------------
(* The local variables of handler() live as long as the invocation.        *)

ReturnKeepingFiles(i) ==  \* mutant: new_files is a module global
  /\ pc' = [pc EXCEPT ![i] = "idle"]
  /\ UNCHANGED work

Return(i) ==
  /\ pc' = [pc EXCEPT ![i] = "idle"]
  /\ cutoff' = [cutoff EXCEPT ![i] = 0]
  /\ token' = [token EXCEPT ![i] = 0]
  /\ found' = [found EXCEPT ![i] = {}]
  /\ unsent' = [unsent EXCEPT ![i] = {}]
  /\ started' = [started EXCEPT ![i] = 0]
  /\ base' = [base EXCEPT ![i] = NoItem]

(* get_last_processed_time(): the stored checkpoint, or the lookback window *)
(* when there is no table, no item, or the read of the item fails.         *)

Begin(i, from) ==
  /\ pc[i] = "idle"
  /\ pc' = [pc EXCEPT ![i] = "list"]
  /\ cutoff' = [cutoff EXCEPT ![i] = from]
  /\ started' = [started EXCEPT ![i] = clock]
  /\ base' = [base EXCEPT ![i] = checkpoint]
  /\ overlapped' = (overlapped \/ \E j \in Invocations \ {i} : pc[j] # "idle")
  /\ UNCHANGED <<store, checkpoint, notified, token, found, unsent, skipped>>

BeginIgnoringItem(i) ==  \* mutant: the stored item is never used
  /\ StateTable
  /\ checkpoint # NoItem
  /\ Begin(i, clock - Interval)
  /\ UNCHANGED faults

BeginAtCheckpoint(i) ==
  /\ StateTable
  /\ checkpoint # NoItem
  /\ Begin(i, checkpoint)
  /\ UNCHANGED faults

Lookback == clock - Interval

BeginWithLookback(i) ==
  /\ Begin(i, Lookback)
  /\ \/ /\ ~StateTable \/ checkpoint = NoItem
        /\ UNCHANGED faults
     \/ /\ StateTable
        /\ faults < MaxFaults
        /\ faults' = faults + 1

-----------------------------------------------------------------------------
(* list_new_files(): one page per step, in key order.                      *)

IsNewOrSame(o, after) == o.mtime >= after  \* mutant: the boundary second again

IsNew(o, after) == o.mtime > after

FirstPageOnly(page, rest) == FALSE  \* mutant: IsTruncated is ignored

IsTruncated(page, rest) == page # rest

Remaining(i) == {o \in objects : o.key > token[i]}

ListPage(i) ==
  /\ pc[i] = "list"
  /\ \E last \in {token[i]} \cup {o.key : o \in Remaining(i)} :
       LET page      == {o \in Remaining(i) : o.key <= last}
           truncated == IsTruncated(page, Remaining(i))
           new       == found[i] \cup {o \in page : IsNew(o, cutoff[i])}
       IN  /\ Cardinality(page) <= PageSize
           /\ truncated => Cardinality(page) = PageSize
           /\ \/ /\ truncated \/ new # {}
                 /\ found' = [found EXCEPT ![i] = new]
                 /\ unsent' = [unsent EXCEPT ![i] = new]
                 /\ token' = [token EXCEPT ![i] = last]
                 /\ pc' = [pc EXCEPT ![i] = IF truncated THEN "list" ELSE "publish"]
                 /\ UNCHANGED <<cutoff, started, base>>
              \/ /\ ~truncated /\ new = {}
                 /\ Return(i)
  /\ UNCHANGED <<store, checkpoint, notified, faults, skipped, overlapped>>

-----------------------------------------------------------------------------
(* publish_to_sns(): one message per step.  A message carries the next     *)
(* records in listing order, at most BatchSize of them and fewer when they *)
(* reach the byte limit.                                                   *)

IsBatch(b, records) ==
  /\ b # {}
  /\ Cardinality(b) <= BatchSize
  /\ \A x \in b, y \in records \ b : x.key < y.key

SaveAfterFirstBatch(rest) == "save"  \* mutant: the other batches are dropped

AfterBatch(rest) == IF rest = {} THEN "save" ELSE "publish"

PublishBatch(i) ==
  /\ pc[i] = "publish"
  /\ \E b \in SUBSET unsent[i] :
       /\ IsBatch(b, unsent[i])
       /\ notified' = notified \cup b
       /\ unsent' = [unsent EXCEPT ![i] = @ \ b]
       /\ pc' = [pc EXCEPT ![i] = AfterBatch(unsent[i] \ b)]
  /\ UNCHANGED <<store, checkpoint, cutoff, token, found, faults, started, base, skipped, overlapped>>

-----------------------------------------------------------------------------
(* update_last_processed_time(): put_item, unconditional.                  *)

Newest(o, files) == \A f \in files : f.mtime <= o.mtime

WallClock(o) == clock  \* mutant: the checkpoint is the time of the save

NextCheckpoint(o) == o.mtime

SaveCheckpoint(i) ==
  /\ pc[i] = "save"
  /\ Return(i)
  /\ IF StateTable
     THEN \E o \in found[i] :
            /\ Newest(o, found[i])
            /\ checkpoint' = NextCheckpoint(o)
            /\ skipped' = skipped \cup (base[i] + 1 .. cutoff[i])
                                  \cup (started[i] .. o.mtime)
     ELSE UNCHANGED <<checkpoint, skipped>>
  /\ UNCHANGED <<store, notified, faults, overlapped>>

(* A call raises or the function times out: listing and publishing abandon *)
(* the invocation, a failed put_item is logged and swallowed.              *)
Fail(i) ==
  /\ pc[i] # "idle"
  /\ faults < MaxFaults
  /\ faults' = faults + 1
  /\ Return(i)
  /\ UNCHANGED <<store, checkpoint, notified, skipped, overlapped>>

-----------------------------------------------------------------------------

Environment == Tick \/ \E k \in Keys : Write(k) \/ Delete(k)

Invoke(i) == BeginAtCheckpoint(i) \/ BeginWithLookback(i)

Advance(i) == ListPage(i) \/ PublishBatch(i) \/ SaveCheckpoint(i)

Next ==
  \/ Environment
  \/ \E i \in Invocations : Invoke(i) \/ Advance(i) \/ Fail(i)

Spec == Init /\ [][Next]_vars

(* The schedule keeps invoking the function, an invocation that is not     *)
(* failed runs on, and time passes.  Faults are finite in number.          *)
Fairness ==
  /\ WF_vars(Tick)
  /\ \A i \in Invocations : WF_vars(Invoke(i)) /\ WF_vars(Advance(i))

FairSpec == Spec /\ Fairness

-----------------------------------------------------------------------------
(* Properties.                                                             *)

(* An object at or below the checkpoint that has not been notified: the    *)
(* strict comparison of list_new_files() never returns it again.           *)
Missed(o) == o \notin notified /\ o.mtime <= checkpoint

(* Whatever the interleaving of writers, overlapping invocations, partial  *)
(* publishes and failed saves, an object is passed by the checkpoint       *)
(* unnotified only if it was written between the start of a listing and    *)
(* the newest LastModified that listing saw, or lay under a lookback       *)
(* cutoff that was used in place of the checkpoint.                        *)
MissedOnlyInSkippedSeconds ==
  \A o \in objects : Missed(o) => o.mtime \in skipped

(* What one invocation claims when it saves: everything its listing saw    *)
(* above the cutoff is on the topic before the checkpoint moves, also when *)
(* a publish failed half-way in an earlier or an overlapping invocation.   *)
SavesOnlyPublished ==
  [][checkpoint' # checkpoint =>
       \E i \in Invocations : /\ pc[i] = "save"
                              /\ found[i] # {}
                              /\ found[i] \subseteq notified]_vars

(* Exactly once in calm weather: as long as no two invocations have run    *)
(* side by side and no call has failed, a poller with a state table puts   *)
(* no version on the topic twice, whatever the clients write and delete.   *)
NoDuplicateNotification ==
  StateTable /\ ~overlapped /\ faults = 0 =>
    \A i \in Invocations : unsent[i] \cap notified = {}

(* update_last_processed_time() writes unconditionally, so nothing in the  *)
(* save itself keeps the stored time from going back.  It goes back only   *)
(* after two invocations have overlapped (the slower one saves last) or a  *)
(* call has failed (the lookback window replaced the item).                *)
CheckpointMovesForward ==
  [][checkpoint' < checkpoint => overlapped \/ faults > 0]_vars

Current(e) == {o \in objects : o.etag = e}

(* A version that stays in place is notified in the end, unless it lies in *)
(* a skipped second or aged out of the lookback window before the first    *)
(* checkpoint was ever stored.                                             *)
NotifiedUnlessSkipped ==
  \A e \in 1 .. MaxWrites :
    [](Current(e) # {} =>
        <>(\A o \in Current(e) :
             \/ o \in notified
             \/ o.mtime \in skipped
             \/ checkpoint = NoItem /\ o.mtime <= clock - Interval))

(* handler.py:102-104 tells the operator to "Configure STATE_TABLE for     *)
(* at-least-once delivery": with a state table that holds a checkpoint, a  *)
(* version written from now on that stays in place is notified in the end. *)
AtLeastOnceDelivery ==
  \A e \in 1 .. MaxWrites :
    [](/\ checkpoint # NoItem
       /\ \E o \in Current(e) : o.mtime = clock
       => <>(Current(e) \subseteq notified))
=============================================================================
