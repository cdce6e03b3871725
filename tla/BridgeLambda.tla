---------------------------- MODULE BridgeLambda ----------------------------
(***************************************************************************)
(* The bridge between the FPolicy event queue and Snowpipe                 *)
(* (shared/cloudformation/fpolicy-ingestion.yaml): a function that turns   *)
(* the file events of a batch, one after the other, into S3-style events   *)
(* on an SNS topic and, when an event bus is configured, on EventBridge.   *)
(* The event source mapping does not report single failures, so a batch is *)
(* acknowledged or returned as a whole.                                    *)
(***************************************************************************)
EXTENDS SqsQueue

CONSTANTS
  Bodies,      \* the bodies that messages may have
  EventBus,    \* is EVENT_BUS_NAME set?
  MaxFaults    \* bound on calls that raise and invocations that are killed

ASSUME BridgeAssumption ==
  /\ EventBus \in BOOLEAN
  /\ MaxFaults \in Nat

NotJson == [garbage |-> TRUE]
NotAnObject == [list |-> TRUE]   \* JSON on which the loop raises what it does not catch

(* S3_EVENT_MAP and the test that follows it: only bodies that map to an    *)
(* ObjectCreated event are published.                                      *)
S3EventMap ==
  [FILE_CREATE |-> "ObjectCreated:Put",  FILE_WRITE  |-> "ObjectCreated:Put",
   FILE_RENAME |-> "ObjectCreated:Copy", FILE_DELETE |-> "ObjectRemoved:Delete"]

EventType(b) == IF "event_type" \in DOMAIN b THEN b.event_type ELSE ""

IsCreation(b) ==
  /\ b \notin {NotJson, NotAnObject}
  /\ EventType(b) \in DOMAIN S3EventMap
  /\ S3EventMap[EventType(b)] # "ObjectRemoved:Delete"

VARIABLES
  body,        \* the body of each message, NotJson until it is sent
  todo,        \* the records of the batch the loop has not come to
  current,     \* the record that is on the topic and not yet on the bus
  processed,   \* per invocation
  errors,      \* per invocation
  sent,        \* what each invocation has published so far (observer)
  topic,       \* how often each message was published to SNS
  bus,         \* messages that reached EventBridge
  faults,
  lost         \* receives of each message that a fault ended (observer)

loop == <<todo, current, processed, errors, sent>>
out  == <<topic, bus>>
vars == <<queueVars, body, loop, out, faults, lost>>

TypeOK ==
  /\ QueueTypeOK
  /\ QueueConsistent
  /\ body \in [Messages -> Bodies \cup {NotJson}]
  /\ todo \in [Workers -> SUBSET Messages]
  /\ current \in [Workers -> SUBSET Messages]
  /\ processed \in [Workers -> Nat]
  /\ errors \in [Workers -> Nat]
  /\ sent \in [Workers -> SUBSET Messages]
  /\ topic \in [Messages -> Nat]
  /\ bus \in SUBSET Messages
  /\ faults \in Nat
  /\ lost \in [Messages -> Nat]
  /\ \A w \in Workers : todo[w] \cup current[w] \cup sent[w] \subseteq batch[w]

Init ==
  /\ QueueInit
  /\ body = [m \in Messages |-> NotJson]
  /\ todo = [w \in Workers |-> {}]
  /\ current = [w \in Workers |-> {}]
  /\ processed = [w \in Workers |-> 0]
  /\ errors = [w \in Workers |-> 0]
  /\ sent = [w \in Workers |-> {}]
  /\ topic = [m \in Messages |-> 0]
  /\ bus = {}
  /\ faults = 0
  /\ lost = [m \in Messages |-> 0]

Arrive(m) ==
  /\ Send(m)
  /\ \E b \in Bodies : body' = [body EXCEPT ![m] = b]
  /\ UNCHANGED <<loop, out, faults, lost>>

Repeat(m) ==
  /\ DeliverAgain(m)
  /\ UNCHANGED <<body, loop, out, faults, lost>>

-----------------------------------------------------------------------------
(* handler(): the loop over event['Records'].                              *)

Invoke(w) ==
  /\ \E b \in SUBSET Messages :
       /\ Deliver(w, b)
       /\ todo' = [todo EXCEPT ![w] = b]
  /\ processed' = [processed EXCEPT ![w] = 0]
  /\ errors' = [errors EXCEPT ![w] = 0]
  /\ UNCHANGED <<body, current, sent, out, faults, lost>>

Peek(w, m) ==  \* mutant: the record is not taken off
  /\ current[w] = {}
  /\ m \in todo[w]
  /\ UNCHANGED todo

Take(w, m) ==
  /\ current[w] = {}
  /\ m \in todo[w]
  /\ todo' = [todo EXCEPT ![w] = @ \ {m}]

Skip(w, m) ==
  /\ body[m] \notin {NotJson, NotAnObject}
  /\ ~IsCreation(body[m])
  /\ Take(w, m)
  /\ UNCHANGED <<queueVars, body, current, processed, errors, sent, out, faults, lost>>

Reject(w, m) ==
  /\ body[m] = NotJson
  /\ Take(w, m)
  /\ errors' = [errors EXCEPT ![w] = @ + 1]
  /\ UNCHANGED <<queueVars, body, current, processed, sent, out, faults, lost>>

Publish(w, m) ==
  /\ IsCreation(body[m])
  /\ Take(w, m)
  /\ topic' = [topic EXCEPT ![m] = @ + 1]
  /\ processed' = [processed EXCEPT ![w] = @ + 1]
  /\ sent' = [sent EXCEPT ![w] = @ \cup {m}]
  /\ current' = [current EXCEPT ![w] = IF EventBus THEN {m} ELSE {}]
  /\ UNCHANGED <<queueVars, body, errors, bus, faults, lost>>

(* put_events() reports a rejected entry in its response, which nobody     *)
(* reads: the record counts as done either way.                            *)
PutEvent(w, m) ==
  /\ m \in current[w]
  /\ current' = [current EXCEPT ![w] = {}]
  /\ \/ /\ bus' = bus \cup {m}
        /\ UNCHANGED faults
     \/ /\ faults < MaxFaults
        /\ faults' = faults + 1
        /\ UNCHANGED bus
  /\ UNCHANGED <<queueVars, body, todo, processed, errors, sent, topic, lost>>

-----------------------------------------------------------------------------
(* The end of an invocation.                                               *)

Leave(w, failed) ==
  /\ Settle(w, failed)
  /\ todo' = [todo EXCEPT ![w] = {}]
  /\ current' = [current EXCEPT ![w] = {}]
  /\ processed' = [processed EXCEPT ![w] = 0]
  /\ errors' = [errors EXCEPT ![w] = 0]
  /\ sent' = [sent EXCEPT ![w] = {}]
  /\ UNCHANGED <<body, out>>

EveryRecordFailed(w) == errors[w] = Cardinality(batch[w])  \* mutant: skipped records count as done

AnyFailed(w) == errors[w] > 0  \* mutant: one bad record returns the batch

AllFailed(w) == errors[w] > 0 /\ processed[w] = 0

(* mutants: the last put_events() is not awaited; the loop ends when every  *)
(* record is counted, and skipped ones are not.                            *)
NotAwaited(w) == todo[w] = {}
AllCounted(w) == current[w] = {} /\ processed[w] + errors[w] = Cardinality(batch[w])

LoopDone(w) == current[w] = {} /\ todo[w] = {}

Return(w) ==
  /\ batch[w] # {}
  /\ LoopDone(w)
  /\ Leave(w, IF AllFailed(w) THEN batch[w] ELSE {})
  /\ UNCHANGED <<faults, lost>>

Swallow(b) == {}  \* mutant: the error of a call is caught like a bad record

Unacknowledged(b) == b

(* The exception leaves the loop, and the records behind m are not read.   *)
Crash(w, m) ==
  /\ body[m] = NotAnObject
  /\ current[w] = {}
  /\ m \in todo[w]
  /\ Leave(w, Unacknowledged(batch[w]))
  /\ UNCHANGED <<faults, lost>>

(* publish() or put_events() raises, or the function times out.            *)
Fail(w) ==
  /\ batch[w] # {}
  /\ faults < MaxFaults
  /\ faults' = faults + 1
  /\ lost' = [m \in Messages |-> lost[m] + IF m \in batch[w] THEN 1 ELSE 0]
  /\ Leave(w, Unacknowledged(batch[w]))

-----------------------------------------------------------------------------

Handle(w, m) ==
  Skip(w, m) \/ Reject(w, m) \/ Publish(w, m) \/ PutEvent(w, m) \/ Crash(w, m)

Advance(w) == Return(w) \/ \E m \in Messages : Handle(w, m)

Next ==
  \/ \E m \in Messages : Arrive(m) \/ Repeat(m)
  \/ \E w \in Workers : Invoke(w) \/ Advance(w) \/ Fail(w)

Spec == Init /\ [][Next]_vars

(* The event source mapping polls the queue and an invocation runs on.     *)
Fairness ==
  /\ WF_vars(\E w \in Workers : Invoke(w))
  /\ \A w \in Workers : WF_vars(Advance(w))

FairSpec == Spec /\ Fairness

-----------------------------------------------------------------------------
(* Properties.                                                             *)

(* No file event vanishes: whatever a creation was batched with and however *)
(* often its batch failed, it leaves the queue acknowledged only after it  *)
(* was published.                                                          *)
AcknowledgedIsPublished ==
  \A m \in Messages :
    place[m] = "acknowledged" /\ IsCreation(body[m]) => topic[m] > 0

(* A delivery publishes a message at most once, and a message of another    *)
(* kind never: Snowpipe sees no more copies than the queue made deliveries. *)
PublishedOncePerDelivery ==
  \A m \in Messages :
    /\ topic[m] <= receives[m]
    /\ ~IsCreation(body[m]) => topic[m] = 0

(* Only what was published can be announced on the event bus, and when an   *)
(* invocation completes without a fault it announced all it published.     *)
BusAfterTopic ==
  /\ \A m \in bus : topic[m] > 0
  /\ faults = 0 /\ EventBus =>
       \A m \in Messages : place[m] = "acknowledged" /\ topic[m] > 0 => m \in bus

(* A body that cannot be parsed is lost only in good company: the          *)
(* invocation that acknowledges it has, in this same delivery, published   *)
(* another record of the batch.  Alone, beside other bad bodies or beside  *)
(* events that are not published, it comes back until it is dead-lettered. *)
MalformedLeavesWithPublished ==
  [][\A w \in Workers : \A m \in batch[w] :
       body[m] = NotJson /\ place'[m] = "acknowledged" =>
         \E n \in sent[w] : n # m /\ n \in batch[w] /\ topic[n] > 0]_vars

(* Bad company does not kill: whatever bodies that cannot be parsed or are *)
(* not published a creation is batched with, it is dead-lettered only when *)
(* as many of its own receives as the redrive policy allows ended in a     *)
(* call that raised or a kill, less the repeated deliveries of the run.    *)
(* Only a body on which the loop itself raises takes the rest of its batch *)
(* along.                                                                  *)
CreationDiesOfFaultsOnly ==
  (\A n \in Messages : body[n] # NotAnObject) =>
    \A m \in Messages :
      place[m] = "dead" /\ IsCreation(body[m]) => lost[m] + duplicates >= MaxReceive

(* fpolicy-ingestion.yaml:178-188 describes the messages the FPolicy server *)
(* sends by event_type and has every creation published: a message of the  *)
(* server that says create is acknowledged only after it was published.    *)
ServerCreationsPublished ==
  \A m \in Messages :
    /\ place[m] = "acknowledged"
    /\ "operation_type" \in DOMAIN body[m]
    => (body[m].operation_type = "create" => topic[m] > 0)

(* The function keeps what Delivery promises.                              *)
Promise == INSTANCE Delivery WITH
  status  <- [m \in Messages |-> Status(m)],
  owes    <- {m \in Messages : place[m] # "unsent" /\ IsCreation(body[m])},
  effects <- {m \in Messages : topic[m] > 0}

ImplementsDelivery == Promise!Spec

(* Every event is settled in the end: acknowledged or dead-lettered.       *)
EventuallySettled ==
  \A m \in Messages :
    [](place[m] = "visible" => <>(place[m] \in {"acknowledged", "dead"}))
=============================================================================
