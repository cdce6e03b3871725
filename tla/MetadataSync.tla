---------------------------- MODULE MetadataSync ----------------------------
(***************************************************************************)
(* The function that keeps the metadata table up to date with the file     *)
(* system (lambda/metadata-sync-handler/handler.py) behind its SQS queue   *)
(* (cloudformation/metadata-sync-pipeline.yaml).  A message is one file    *)
(* event; messages are numbered in the order of the events, so that the    *)
(* number of a message is the timestamp it carries.  Invocations run       *)
(* concurrently, the queue reorders and repeats, an append conflicts with  *)
(* any other append since the table was loaded, and an invocation may be   *)
(* killed before or after its append.                                      *)
(***************************************************************************)
EXTENDS SqsQueue, CatalogTable

CONSTANTS
  Fields,         \* the JSON fields that the sender puts into an event
  MaxUnusable,    \* bound on messages that have no usable event
  MaxFaults       \* bound on killed invocations

ASSUME SyncAssumption ==
  /\ Messages \subseteq Nat \ {0}
  /\ MaxUnusable \in Nat
  /\ MaxFaults \in Nat

VARIABLES
  existing,    \* the files on the volume
  event,       \* the file event each message carries
  sent,        \* the number of the last message
  unusable,    \* messages without a usable event so far
  table,       \* the rows of the Iceberg table
  commits,     \* the current snapshot of the table
  phase,       \* where each invocation is in handler()
  loaded,      \* the snapshot it loaded
  faults,
  spoiled      \* history: how often each message shared a batch that could
               \* not be converted

source  == <<existing, event, sent, unusable>>
catalog == <<table, commits>>
vars    == <<queueVars, source, catalog, phase, loaded, faults, spoiled>>

Event == [op : {"create", "write", "delete", "rename"}, file : Files, new : Files]
Malformed == [op |-> "malformed"]  \* not even an event
Mistyped == [op |-> "mistyped"]    \* an event with a value that fits no column
Unusable == {Malformed, Mistyped}

RequiredFields == {"event_type", "file_path", "timestamp"}

TypeOK ==
  /\ QueueTypeOK
  /\ QueueConsistent
  /\ existing \in SUBSET Files
  /\ event \in [Messages -> Event \cup Unusable]
  /\ sent \in Nat
  /\ unusable \in Nat
  /\ table \in SUBSET Row
  /\ commits \in Nat
  /\ phase \in [Workers -> {"idle", "convert", "append", "respond"}]
  /\ loaded \in [Workers -> Nat]
  /\ faults \in Nat
  /\ spoiled \in [Messages -> Nat]

Init ==
  /\ QueueInit
  /\ existing = {}
  /\ event = [m \in Messages |-> Malformed]
  /\ sent = 0
  /\ unusable = 0
  /\ table = {}
  /\ commits = 0
  /\ phase = [w \in Workers |-> "idle"]
  /\ loaded = [w \in Workers |-> 0]
  /\ faults = 0
  /\ spoiled = [m \in Messages |-> 0]

-----------------------------------------------------------------------------
(* File operations.  The event of each is sent at once; what the queue     *)
(* does with it afterwards is another matter.                              *)

Notify(e) ==
  /\ sent + 1 \in Messages
  /\ sent' = sent + 1
  /\ event' = [event EXCEPT ![sent + 1] = e]
  /\ Send(sent + 1)
  /\ UNCHANGED <<catalog, phase, loaded, faults, spoiled>>

CreateFile(f) ==
  /\ f \notin existing
  /\ existing' = existing \cup {f}
  /\ Notify([op |-> "create", file |-> f, new |-> f])
  /\ UNCHANGED unusable

WriteFile(f) ==
  /\ f \in existing
  /\ Notify([op |-> "write", file |-> f, new |-> f])
  /\ UNCHANGED <<existing, unusable>>

DeleteFile(f) ==
  /\ f \in existing
  /\ existing' = existing \ {f}
  /\ Notify([op |-> "delete", file |-> f, new |-> f])
  /\ UNCHANGED unusable

(* Without new_file_path the handler takes file_path for it.               *)
NewPath(f, g) == IF "new_file_path" \in Fields THEN g ELSE f

RenameFile(f, g) ==
  /\ f \in existing
  /\ g \notin existing
  /\ existing' = (existing \ {f}) \cup {g}
  /\ Notify([op |-> "rename", file |-> f, new |-> NewPath(f, g)])
  /\ UNCHANGED unusable

SendUnusable ==
  /\ unusable < MaxUnusable
  /\ unusable' = unusable + 1
  /\ \E e \in Unusable : Notify(e)
  /\ UNCHANGED existing

-----------------------------------------------------------------------------
(* process_create_event() ... process_rename_event(): the rows of a message. *)

Now(m) == commits + 1  \* mutant: modified_at is the time of processing

EventTime(m) == m

Version(f, m, status, deleted) ==
  [file |-> f, modified |-> EventTime(m), enriched |-> Null, status |-> status,
   deleted |-> deleted, commit |-> commits + 1]

Present(f, m) == Version(f, m, "pending", "no")
Absent(f, m)  == Version(f, m, "not_applicable", "yes")

RowsOf(m) ==
  LET e == event[m]
  IN  IF e.op = "delete" THEN {Absent(e.file, m)}
      ELSE IF e.op = "rename" THEN {Absent(e.file, m), Present(e.new, m)}
      ELSE {Present(e.file, m)}

(* parse_fpolicy_event() raises for these: they fail on their own.          *)
Invalid(b) == {m \in b : event[m] = Malformed \/ ~(RequiredFields \subseteq Fields)}

(* These pass, and pa.table() raises for all that is written with them.     *)
Misfits(b) == {m \in b \ Invalid(b) : event[m] = Mistyped}

-----------------------------------------------------------------------------
(* handler().                                                              *)

After(b) ==
  IF b = Invalid(b) THEN "respond"
  ELSE IF Misfits(b) # {} THEN "convert" ELSE "append"

(* The batch is parsed and, if it has records and they fit the schema, the  *)
(* table loaded.                                                           *)
Invoke(w) ==
  /\ phase[w] = "idle"
  /\ \E b \in SUBSET Messages :
       /\ Deliver(w, b)
       /\ phase' = [phase EXCEPT ![w] = After(b)]
  /\ loaded' = [loaded EXCEPT ![w] = commits]
  /\ UNCHANGED <<source, catalog, faults, spoiled>>

(* table.append(): one commit of every valid message's rows.               *)
Append(w) ==
  /\ phase[w] = "append"
  /\ loaded[w] = commits
  /\ table' = table \cup UNION {RowsOf(m) : m \in batch[w] \ Invalid(batch[w])}
  /\ commits' = commits + 1
  /\ phase' = [phase EXCEPT ![w] = "respond"]
  /\ UNCHANGED <<queueVars, source, loaded, faults, spoiled>>

Finish(w, failed) ==
  /\ Settle(w, failed)
  /\ phase' = [phase EXCEPT ![w] = "idle"]
  /\ loaded' = [loaded EXCEPT ![w] = 0]
  /\ UNCHANGED <<source, catalog>>

WholeBatch(b) == b

RetryWithoutReload(w) ==  \* mutant: the append is retried on the same snapshot
  /\ phase[w] = "append"
  /\ loaded[w] # commits
  /\ UNCHANGED vars

(* Another commit came first: every message of the batch is reported.      *)
Conflict(w) ==
  /\ phase[w] = "append"
  /\ loaded[w] # commits
  /\ Finish(w, WholeBatch(batch[w]))
  /\ UNCHANGED <<faults, spoiled>>

(* So it is when one value does not fit its column.                        *)
ConversionFails(w) ==
  /\ phase[w] = "convert"
  /\ Finish(w, WholeBatch(batch[w]))
  /\ spoiled' = [m \in Messages |-> spoiled[m] + IF m \in batch[w] THEN 1 ELSE 0]
  /\ UNCHANGED faults

AllOrNothing(b) == IF Invalid(b) = {} THEN {} ELSE b  \* mutant: no partial batch response

NothingFailed(b) == {}  \* mutant: failures are only counted

BatchItemFailures(b) == Invalid(b)

Respond(w) ==
  /\ phase[w] = "respond"
  /\ Finish(w, BatchItemFailures(batch[w]))
  /\ UNCHANGED <<faults, spoiled>>

(* The invocation times out, or the append fails for another reason.       *)
Kill(w) ==
  /\ phase[w] # "idle"
  /\ faults < MaxFaults
  /\ faults' = faults + 1
  /\ Finish(w, batch[w])
  /\ UNCHANGED spoiled

Repeat(m) ==
  /\ DeliverAgain(m)
  /\ UNCHANGED <<source, catalog, phase, loaded, faults, spoiled>>

-----------------------------------------------------------------------------

FileSystem ==
  \/ \E f \in Files : CreateFile(f) \/ WriteFile(f) \/ DeleteFile(f)
  \/ \E f, g \in Files : RenameFile(f, g)
  \/ SendUnusable

Advance(w) == ConversionFails(w) \/ Append(w) \/ Conflict(w) \/ Respond(w)

Next ==
  \/ FileSystem
  \/ \E w \in Workers : Invoke(w) \/ Advance(w) \/ Kill(w)
  \/ \E m \in Messages : Repeat(m)

Spec == Init /\ [][Next]_vars

(* The event source mapping polls the queue and an invocation runs on.     *)
Fairness ==
  /\ WF_vars(\E w \in Workers : Invoke(w))
  /\ \A w \in Workers : WF_vars(Advance(w))

FairSpec == Spec /\ Fairness

-----------------------------------------------------------------------------
(* Properties.                                                             *)

Valid(m) == event[m] \notin Unusable

Recorded(m) == \E r \in table : r.modified = m

(* No event vanishes: a message leaves the queue for good only when its     *)
(* rows were appended; one without a usable event is never acknowledged,   *)
(* however it was batched, and ends on the dead-letter queue.              *)
AcknowledgedIsRecorded ==
  \A m \in Messages : place[m] = "acknowledged" => Valid(m) /\ Recorded(m)

Touches(m, f) == Valid(m) /\ f \in {event[m].file, event[m].new}

Processed(f) ==
  \A m \in 1 .. sent : Touches(m, f) => place[m] = "acknowledged"

(* Order does not matter: once the events of a file are processed, in any  *)
(* order, any number of times and over any number of failed attempts, the  *)
(* view shows the file if and only if it exists.                           *)
ViewAgreesWithVolume ==
  \A f \in Files :
    Processed(f) =>
      IF f \in existing THEN Shows(table, f) ELSE Hides(table, f)

(* The appends that did not carry m.                                       *)
Rivals(m) ==
  {r.commit : r \in table} \ {r.commit : r \in {s \in table : s.modified = m}}

(* A valid message ends on the dead-letter queue for a cause only: each of  *)
(* its receives was lost to a killed invocation, to the append of another  *)
(* one or to a mistyped message that shared its batch then, or was the     *)
(* delivery of a message that had succeeded.  A message that fails         *)
(* validation never costs another one of its batch a receive.              *)
DeadOnlyForACause ==
  \A m \in Messages :
    place[m] = "dead" /\ Valid(m) =>
      Cardinality(Rivals(m)) + faults + duplicates + spoiled[m] >= MaxReceive

(* The function keeps what Delivery promises, of every message.            *)
Promise == INSTANCE Delivery WITH
  status  <- [m \in Messages |-> Status(m)],
  owes    <- {m \in Messages : place[m] # "unsent"},
  effects <- {m \in Messages : Recorded(m)}

ImplementsDelivery == Promise!Spec

(* m leaves f on the volume.                                                *)
Makes(m, f) == event[m].op # "delete" /\ event[m].new = f

Reports(f) == {[at |-> m, there |-> Makes(m, f)] : m \in {n \in 1 .. sent : Touches(n, f)}}

(* What a reader of the view sees of f, and the timestamp it bears.         *)
Visible(f) ==
  IF Versions(table, f) = {} THEN [at |-> Null, there |-> FALSE]
  ELSE LET first == CHOOSE r \in MayRankFirst(table, f) : TRUE
       IN  [at |-> first.modified, there |-> Shows(table, f)]

(* Before the events are through, the view is late but never wrong: what it *)
(* shows of a file is what some event said of it, and an event that comes  *)
(* late, twice or in a repeated batch never takes it back to older news.   *)
Readers == INSTANCE LatestWins WITH
  Times <- Messages,
  news  <- [f \in Files |-> Reports(f)],
  shown <- [f \in Files |-> Visible(f)]

ImplementsLatestWins == Readers!Spec

(* Every event is settled in the end: recorded, or on the dead-letter queue. *)
EventuallySettled ==
  \A m \in Messages :
    [](place[m] = "visible" => <>(place[m] \in {"acknowledged", "dead"}))
=============================================================================
