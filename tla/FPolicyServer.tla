--------------------------- MODULE FPolicyServer ---------------------------
(***************************************************************************)
(* The FPolicy external server (shared/fpolicy-server/fpolicy_server.py):  *)
(* one thread per connection that ONTAP opens, which reads a frame, deals  *)
(* with it and reads the next.  A notification waits for the               *)
(* write-complete delay and then goes to SQS (realtime mode) or to a log   *)
(* file (batch mode).  ONTAP does not wait for an answer: what it has      *)
(* written to a socket that nobody reads any more is gone.                 *)
(***************************************************************************)
EXTENDS Integers, Sequences, SequencesExt, FiniteSets

CONSTANTS
  Connections,      \* TCP connections; each is opened once
  DefaultSvm,       \* SVM_NAME
  SvmOf,            \* the SVM at the other end of each connection
  MaxNotifications, \* bound on the notifications that ONTAP sends
  MaxBuffered,      \* bound on the frames a socket buffers
  MaxFaults,        \* bound on failed sends to SQS or writes to the log
  MaxBreaks         \* bound on broken connections and malformed frames

ASSUME ServerAssumption ==
  /\ MaxNotifications \in Nat
  /\ MaxBuffered \in Nat \ {0}
  /\ MaxFaults \in Nat
  /\ MaxBreaks \in Nat

Unnamed == ""   \* the SVM of a notification that names none

ASSUME SvmsHaveNames == \A c \in Connections : SvmOf[c] # Unnamed

VARIABLES
  mode,       \* MODE of the task
  notified,   \* number of notifications so far; each has a number
  socket,     \* frames that ONTAP wrote and the thread has not read
  ended,      \* connections that ONTAP has closed in an orderly way
  thread,     \* "none", "running" or "gone"
  context,    \* conn_ctx["svm_name"], or DefaultSvm while it is not set
  held,       \* notifications the thread is dealing with
  emitted,    \* events in the queue or in the log, in the order of their timestamps
  failed,     \* notifications whose send raised
  breaks,     \* broken connections and malformed frames so far
  (* Observations, read by no action of the server. *)
  told,       \* the SVM that ONTAP named on the connection, or DefaultSvm
  together    \* <<a, b>>: a was under way on one connection when ONTAP
              \* sent b on another

ontap  == <<notified, socket, ended, told, together>>
server == <<thread, context, held, emitted, failed>>
vars   == <<mode, ontap, server, breaks>>

(* A notification names its SVM or does not; expect is for the properties   *)
(* only: the SVM the connection had been named when ONTAP sent it.         *)
Notification(n, c, named) ==
  [kind |-> "noti", id |-> n, conn |-> c,
   svm |-> IF named THEN SvmOf[c] ELSE Unnamed,
   expect |-> IF named THEN SvmOf[c] ELSE told[c]]

Handshake(named) == [kind |-> "nego", named |-> named]
NoEvent == [kind |-> "other"]       \* keep-alive, unknown type, or no path
BadFrame == [kind |-> "bad"]        \* no quote in 1024 bytes, or a bad length

Svms == {DefaultSvm} \cup {SvmOf[c] : c \in Connections}

Noti == [kind : {"noti"}, id : Nat \ {0}, conn : Connections, svm : {Unnamed} \cup Svms,
         expect : Svms]

Frame == Noti \cup {Handshake(TRUE), Handshake(FALSE), NoEvent, BadFrame}

Event == [id : Nat \ {0}, conn : Connections, svm : Svms, expect : Svms]

Ids(events) == {e.id : e \in events}

Unread(c) == {g \in ToSet(socket[c]) : g.kind = "noti"}

Buffered(c) == Ids(Unread(c))

(* Sent, and neither emitted nor lost.                                      *)
UnderWay(c) == held[c] \cup Unread(c)

TypeOK ==
  /\ mode \in {"realtime", "batch"}
  /\ notified \in 0 .. MaxNotifications
  /\ socket \in [Connections -> Seq(Frame)]
  /\ \A c \in Connections : Len(socket[c]) <= MaxBuffered
  /\ ended \in SUBSET Connections
  /\ thread \in [Connections -> {"none", "running", "gone"}]
  /\ context \in [Connections -> Svms]
  /\ held \in [Connections -> SUBSET Noti]
  /\ \A c \in Connections : \A f, g \in held[c] : f = g
  /\ emitted \in Seq(Event)
  /\ failed \in SUBSET Noti
  /\ breaks \in Nat
  /\ told \in [Connections -> Svms]
  /\ together \in SUBSET (Nat \X Nat)
  /\ \A c \in Connections : thread[c] # "running" => held[c] = {}

Init ==
  /\ mode \in {"realtime", "batch"}
  /\ notified = 0
  /\ socket = [c \in Connections |-> <<>>]
  /\ ended = {}
  /\ thread = [c \in Connections |-> "none"]
  /\ context = [c \in Connections |-> DefaultSvm]
  /\ held = [c \in Connections |-> {}]
  /\ emitted = <<>>
  /\ failed = {}
  /\ breaks = 0
  /\ told = [c \in Connections |-> DefaultSvm]
  /\ together = {}

-----------------------------------------------------------------------------
(* ONTAP.                                                                  *)

(* start(): accept() and a thread for the connection.                      *)
Connect(c) ==
  /\ thread[c] = "none"
  /\ thread' = [thread EXCEPT ![c] = "running"]
  /\ UNCHANGED <<mode, ontap, context, held, emitted, failed, breaks>>

WriteFrame(c, frame) ==
  /\ thread[c] # "none"
  /\ c \notin ended
  /\ Len(socket[c]) < MaxBuffered
  /\ socket' = [socket EXCEPT ![c] = Append(@, frame)]
  /\ UNCHANGED <<mode, ended, server>>

Negotiate(c, named) ==
  /\ WriteFrame(c, Handshake(named))
  /\ told' = [told EXCEPT ![c] = IF named THEN SvmOf[c] ELSE @]
  /\ UNCHANGED <<notified, together, breaks>>

Notify(c, named) ==
  /\ notified < MaxNotifications
  /\ notified' = notified + 1
  /\ WriteFrame(c, Notification(notified + 1, c, named))
  /\ together' = together \cup
       {<<g.id, notified + 1>> : g \in UNION {UnderWay(d) : d \in Connections \ {c}}}
  /\ UNCHANGED <<told, breaks>>

KeepAlive(c) ==
  /\ WriteFrame(c, NoEvent)
  /\ UNCHANGED <<notified, told, together, breaks>>

Garble(c) ==
  /\ breaks < MaxBreaks
  /\ breaks' = breaks + 1
  /\ WriteFrame(c, BadFrame)
  /\ UNCHANGED <<notified, told, together>>

Disconnect(c) ==
  /\ thread[c] # "none"
  /\ c \notin ended
  /\ ended' = ended \cup {c}
  /\ UNCHANGED <<mode, notified, socket, told, together, server, breaks>>

-----------------------------------------------------------------------------
(* The threads.                                                            *)

(* conn.close() discards what was received and not read.                   *)
Close(c) ==
  /\ thread' = [thread EXCEPT ![c] = "gone"]
  /\ held' = [held EXCEPT ![c] = {}]
  /\ socket' = [socket EXCEPT ![c] = <<>>]

Consume(c) == socket' = [socket EXCEPT ![c] = Tail(@)]

AlwaysReady(c) == TRUE  \* mutant: the delay is left to a timer thread

ReadyToRead(c) == held[c] = {}

SharedContext(c) == [d \in Connections |-> SvmOf[c]]  \* mutant: context of the server

WithSvm(c) == [context EXCEPT ![c] = SvmOf[c]]

(* handle_client(): one frame and its dispatch.                            *)
ReadFrame(c) ==
  /\ thread[c] = "running"
  /\ ReadyToRead(c)
  /\ socket[c] # <<>>
  /\ LET f == Head(socket[c])
     IN  \/ /\ f.kind = "nego"
            /\ context' = IF f.named THEN WithSvm(c) ELSE context
            /\ Consume(c)
            /\ UNCHANGED <<thread, held>>
         \/ /\ f.kind = "noti"
            /\ held' = [held EXCEPT ![c] = @ \cup {f}]
            /\ Consume(c)
            /\ UNCHANGED <<thread, context>>
         \/ /\ f.kind = "other"
            /\ Consume(c)
            /\ UNCHANGED <<thread, context, held>>
         \/ /\ f.kind = "bad"
            /\ Close(c)
            /\ UNCHANGED context
  /\ UNCHANGED <<mode, notified, ended, told, together, emitted, failed, breaks>>

(* The handler settles this before it sleeps; nobody else writes to the    *)
(* context of its thread meanwhile, so that it comes to the same here.     *)
EventSvm(c, f) == IF f.svm = Unnamed THEN context[c] ELSE f.svm

(* The second half of _handle_noti_req(), after the delay.                 *)
Emit(c) ==
  /\ \E f \in held[c] :
       /\ emitted' = Append(emitted, [id |-> f.id, conn |-> c, svm |-> EventSvm(c, f),
                                      expect |-> f.expect])
       /\ held' = [held EXCEPT ![c] = @ \ {f}]
  /\ UNCHANGED <<mode, ontap, thread, context, failed, breaks>>

(* mutants: the error ends the thread in either mode, or in neither.       *)
AlwaysClose(c) == Close(c)

NeverClose(c) ==
  /\ held' = [held EXCEPT ![c] = {}]
  /\ UNCHANGED <<thread, socket>>

(* _send_to_sqs() logs the exception and goes on; one that _write_to_log()  *)
(* raises ends handle_client().                                            *)
AfterError(c) ==
  IF mode = "realtime"
  THEN /\ held' = [held EXCEPT ![c] = {}]
       /\ UNCHANGED <<thread, socket>>
  ELSE Close(c)

FailToEmit(c) ==
  /\ held[c] # {}
  /\ Cardinality(failed) < MaxFaults
  /\ failed' = failed \cup held[c]
  /\ AfterError(c)
  /\ UNCHANGED <<mode, notified, ended, told, together, context, emitted, breaks>>

HungUp(c) == socket[c] = <<>> \/ c \in ended  \* mutant: the rest is not read

Drained(c) == socket[c] = <<>>

(* recv() finds that ONTAP closed the connection, or nothing for 300 s.     *)
EndOfStream(c) ==
  /\ thread[c] = "running"
  /\ held[c] = {}
  /\ Drained(c)
  /\ Close(c)
  /\ UNCHANGED <<mode, notified, ended, told, together, context, emitted, failed, breaks>>

(* recv() or sendall() finds the connection reset.                         *)
Reset(c) ==
  /\ thread[c] = "running"
  /\ held[c] = {}
  /\ breaks < MaxBreaks
  /\ breaks' = breaks + 1
  /\ Close(c)
  /\ UNCHANGED <<mode, notified, ended, told, together, context, emitted, failed>>

(* The task stops: its threads are daemons and end with it.                *)
StopTask ==
  LET running == {c \in Connections : thread[c] = "running"} IN
  /\ running # {}
  /\ breaks < MaxBreaks
  /\ breaks' = breaks + 1
  /\ thread' = [c \in Connections |-> IF c \in running THEN "gone" ELSE thread[c]]
  /\ held' = [c \in Connections |-> {}]
  /\ socket' = [c \in Connections |-> IF c \in running THEN <<>> ELSE socket[c]]
  /\ UNCHANGED <<mode, notified, ended, told, together, context, emitted, failed>>

-----------------------------------------------------------------------------

Ontap(c) ==
  \/ Connect(c)
  \/ \E named \in BOOLEAN : Negotiate(c, named) \/ Notify(c, named)
  \/ KeepAlive(c)
  \/ Garble(c)
  \/ Disconnect(c)

Serve(c) == ReadFrame(c) \/ Emit(c)

Next ==
  \/ \E c \in Connections :
       Ontap(c) \/ Serve(c) \/ FailToEmit(c) \/ EndOfStream(c) \/ Reset(c)
  \/ StopTask

Spec == Init /\ [][Next]_vars

(* A thread that has a frame to read or an event to send is scheduled.     *)
Fairness == \A c \in Connections : WF_vars(Serve(c))

FairSpec == Spec /\ Fairness

-----------------------------------------------------------------------------
(* Properties.                                                             *)

(* Events of one connection reach the queue in the order in which ONTAP    *)
(* sent them and at most once, whatever the other threads do; the reader   *)
(* of the queue relies on it, for the timestamp is taken when it is sent.  *)
InOrderPerConnection ==
  \A i, j \in DOMAIN emitted :
    i < j /\ emitted[i].conn = emitted[j].conn => emitted[i].id < emitted[j].id

(* The timestamp is taken when the delay of the event ends, so that the     *)
(* events of two connections may be stamped in the order opposite to the   *)
(* one in which ONTAP sent them.  That happens only to notifications that  *)
(* were under way at the same time on two connections: one that is sent    *)
(* after another was emitted is stamped after it, however long the backlog *)
(* of either connection and whatever was lost in between.                  *)
InvertedOnlyIfTogether ==
  \A i, j \in DOMAIN emitted :
    i < j => \/ emitted[i].id < emitted[j].id
             \/ /\ emitted[i].conn # emitted[j].conn
                /\ <<emitted[j].id, emitted[i].id>> \in together

(* An event carries the SVM of its own connection as ONTAP had named it     *)
(* when it sent the notification, and never that of another connection.    *)
RightSvm ==
  \A i \in DOMAIN emitted : emitted[i].svm = emitted[i].expect

Lost ==
  (1 .. notified) \ UNION ({Ids(ToSet(emitted))}
                           \cup {Ids(held[c]) : c \in Connections}
                           \cup {Buffered(c) : c \in {d \in Connections : thread[d] = "running"}})

(* In realtime mode a failed send costs one event and not the ones that    *)
(* wait behind it: while no connection breaks and no frame is malformed,   *)
(* the only notifications lost are those whose send failed and those       *)
(* written to a connection that the server had already given up as idle.   *)
RealtimeLosesOnlyFailed ==
  mode = "realtime" /\ breaks = 0 =>
    \A n \in Lost :
      \/ n \in Ids(failed)
      \/ \E c \in Connections : thread[c] = "gone" /\ n \in Buffered(c)

(* In batch mode a failed write ends the connection, so that the log has no *)
(* gap in it: nothing follows a notification of the same connection that   *)
(* could not be written.                                                   *)
NothingAfterFailedWrite ==
  mode = "batch" =>
    \A f \in failed, i \in DOMAIN emitted :
      emitted[i].conn = f.conn => emitted[i].id < f.id

(* The server keeps what OrderedLanes promises: per connection no event is  *)
(* overtaken, repeated or made up, and each carries the SVM that ONTAP had *)
(* named when it sent the notification.                                    *)
Promise == INSTANCE OrderedLanes WITH
  Lanes <- Connections,
  Names <- Svms,
  sent <- notified,
  lane <- [c \in Connections |->
             {[id |-> g.id, conn |-> c, svm |-> g.expect] : g \in UnderWay(c)}],
  out <- [k \in DOMAIN emitted |->
            [id |-> emitted[k].id, conn |-> emitted[k].conn, svm |-> emitted[k].svm]]

ImplementsLanes == Promise!Spec

(* A notification on a running connection is emitted in the end, also when  *)
(* ONTAP closes the connection behind it, unless its own send fails, the   *)
(* connection breaks, or a failed write before it ends a batch connection. *)
NotificationServed ==
  \A c \in Connections : \A n \in 1 .. MaxNotifications :
    [](thread[c] = "running" /\ n \in Buffered(c)
       => <>(\/ n \in Ids(ToSet(emitted) \cup failed)
             \/ breaks > 0
             \/ mode = "batch" /\ \E f \in failed : f.conn = c /\ f.id < n))
=============================================================================
