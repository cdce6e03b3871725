------------------------ MODULE FPolicyServerProofs ------------------------
(***************************************************************************)
(* Theorems about FPolicyServer, for every number of connections, of       *)
(* notifications and of buffered frames: what the threads emit keeps the   *)
(* order and the SVM of its connection, and a failed send costs what the   *)
(* mode says.                                                              *)
(***************************************************************************)
EXTENDS FPolicyServer, TLAPS

IsNoti(c, i) == socket[c][i].kind = "noti"

(* The name ONTAP will have given on c when the first n frames are read.    *)
Named(c, i) == socket[c][i].kind = "nego" /\ socket[c][i].named

SvmAfter(c, n) == IF \E j \in 1 .. n : Named(c, j) THEN SvmOf[c] ELSE context[c]

Frames(c) == 1 .. Len(socket[c])

(* What a connection holds is its own, and older than what it has to read.  *)
HeldInv(c) ==
  /\ thread[c] # "running" => held[c] = {}
  /\ \A f \in held[c] :
       /\ f.conn = c
       /\ f.id <= notified
       /\ EventSvm(c, f) = f.expect
       /\ \A i \in Frames(c) : IsNoti(c, i) => f.id < socket[c][i].id

(* What it has to read is in the order in which ONTAP sent it ...           *)
OrderInv(c) ==
  \A i \in Frames(c) : IsNoti(c, i) =>
    /\ socket[c][i].conn = c
    /\ socket[c][i].id <= notified
    /\ \A j \in Frames(c) : IsNoti(c, j) /\ i < j => socket[c][i].id < socket[c][j].id

(* ... and is read in the context in which ONTAP sent it.                   *)
ExpectInv(c) ==
  \A i \in Frames(c) : IsNoti(c, i) =>
    /\ socket[c][i].svm # Unnamed => socket[c][i].expect = socket[c][i].svm
    /\ thread[c] = "running" /\ socket[c][i].svm = Unnamed =>
         socket[c][i].expect = SvmAfter(c, i - 1)

ToldInv(c) ==
  /\ thread[c] = "none" =>
       socket[c] = <<>> /\ told[c] = DefaultSvm /\ context[c] = DefaultSvm
  /\ thread[c] = "running" => told[c] = SvmAfter(c, Len(socket[c]))

ConnInv(c) == HeldInv(c) /\ OrderInv(c) /\ ExpectInv(c) /\ ToldInv(c)

(* What was emitted is older than what is still held or unread.             *)
EmittedInv ==
  \A k \in 1 .. Len(emitted) :
    /\ emitted[k].id <= notified
    /\ emitted[k].svm = emitted[k].expect
    /\ \A f \in held[emitted[k].conn] : emitted[k].id < f.id
    /\ \A i \in Frames(emitted[k].conn) :
         IsNoti(emitted[k].conn, i) => emitted[k].id < socket[emitted[k].conn][i].id
    /\ \A l \in 1 .. Len(emitted) :
         k < l /\ emitted[k].conn = emitted[l].conn => emitted[k].id < emitted[l].id

FailedInv ==
  mode = "batch" =>
    \A f \in failed :
      /\ thread[f.conn] = "gone"
      /\ \A k \in 1 .. Len(emitted) : emitted[k].conn = f.conn => emitted[k].id < f.id

(* In realtime mode a notification is somewhere, as long as nothing breaks. *)
Accounted(n) ==
  \/ \E k \in 1 .. Len(emitted) : emitted[k].id = n
  \/ \E f \in failed : f.id = n
  \/ \E c \in Connections : \E f \in held[c] : f.id = n
  \/ \E c \in Connections : \E i \in Frames(c) : IsNoti(c, i) /\ socket[c][i].id = n

LossInv ==
  breaks = 0 =>
    /\ \A c \in Connections : \A i \in Frames(c) : socket[c][i].kind # "bad"
    /\ mode = "realtime" => \A n \in 1 .. notified : Accounted(n)

FInv ==
  /\ TypeOK
  /\ \A c \in Connections : ConnInv(c)
  /\ EmittedInv
  /\ FailedInv
  /\ LossInv

-----------------------------------------------------------------------------
(* Frames and sequences of them.                                           *)

(* The kind of a frame tells what its fields are.                           *)
LEMMA FrameKinds ==
  ASSUME NEW f \in Frame
  PROVE  /\ f.kind \in {"noti", "nego", "other", "bad"}
         /\ f.kind = "noti" <=> f \in Noti
         /\ f.kind = "nego" => f.named \in BOOLEAN
<1>1. CASE f \in Noti
  BY <1>1 DEF Noti
<1>2. CASE f \in {Handshake(TRUE), Handshake(FALSE), NoEvent, BadFrame}
  <2>1. f.kind \in {"nego", "other", "bad"}
    BY <1>2 DEF Handshake, NoEvent, BadFrame
  <2>2. f \notin Noti
    BY <2>1 DEF Noti
  <2>3. f.kind = "nego" => f.named \in BOOLEAN
    <3>1. ASSUME NEW b \in BOOLEAN, f = Handshake(b) PROVE f.named = b
      BY <3>1 DEF Handshake
    <3>2. CASE f \in {NoEvent, BadFrame}
      BY <3>2 DEF NoEvent, BadFrame
    <3> QED BY <1>2, <3>1, <3>2
  <2> QED BY <2>1, <2>2, <2>3
<1> QED BY <1>1, <1>2 DEF Frame

(* The fields of a notification.                                            *)
LEMMA NotiFields ==
  ASSUME NEW f \in Noti
  PROVE  /\ f.id \in Nat \ {0} /\ f.conn \in Connections
         /\ f.svm \in {Unnamed} \cup Svms /\ f.expect \in Svms
  BY DEF Noti

(* A frame that is written comes last.                                      *)
LEMMA AppendFacts ==
  ASSUME NEW S, NEW s \in Seq(S), NEW x \in S
  PROVE  /\ Append(s, x) \in Seq(S)
         /\ Len(Append(s, x)) = Len(s) + 1
         /\ \A i \in 1 .. Len(s) : Append(s, x)[i] = s[i]
         /\ Append(s, x)[Len(s) + 1] = x
  OBVIOUS

(* A sequence that goes on like that is the one with x appended.            *)
LEMMA AppendEqual ==
  ASSUME NEW S, NEW s \in Seq(S), NEW x \in S, NEW t \in Seq(S),
         Len(t) = Len(s) + 1,
         \A i \in 1 .. Len(s) : t[i] = s[i],
         t[Len(s) + 1] = x
  PROVE  t = Append(s, x)
  OBVIOUS

(* When the first frame is read, the others move up.                        *)
LEMMA TailFacts ==
  ASSUME NEW S, NEW s \in Seq(S), s # <<>>
  PROVE  /\ Tail(s) \in Seq(S)
         /\ Len(s) \in Nat \ {0}
         /\ Head(s) = s[1] /\ s[1] \in S
         /\ Len(Tail(s)) = Len(s) - 1
         /\ \A i \in 1 .. Len(s) - 1 : Tail(s)[i] = s[i + 1]
  OBVIOUS

(* What TypeOK says of the elements.                                        *)
LEMMA Elements ==
  ASSUME TypeOK
  PROVE  /\ notified \in Nat /\ breaks \in Nat
         /\ \A d \in Connections : Len(socket[d]) \in Nat
         /\ \A d \in Connections : \A i \in Frames(d) :
              socket[d][i] \in Frame /\ (IsNoti(d, i) => socket[d][i].id \in Nat)
         /\ \A d \in Connections : \A g \in held[d] : g \in Noti /\ g.id \in Nat
         /\ \A k \in 1 .. Len(emitted) :
              emitted[k].conn \in Connections /\ emitted[k].id \in Nat
         /\ Len(emitted) \in Nat
         /\ \A g \in failed : g.conn \in Connections /\ g.id \in Nat
<1>1. notified \in Nat /\ breaks \in Nat
  BY ServerAssumption DEF TypeOK
<1>2. ASSUME NEW d \in Connections
      PROVE  /\ Len(socket[d]) \in Nat
             /\ \A i \in Frames(d) :
                  socket[d][i] \in Frame /\ (IsNoti(d, i) => socket[d][i].id \in Nat)
  <2>1. socket[d] \in Seq(Frame)
    BY DEF TypeOK
  <2>2. \A i \in Frames(d) : socket[d][i] \in Frame
    BY <2>1 DEF Frames
  <2>3. Len(socket[d]) \in Nat
    BY <2>1
  <2>4. \A i \in Frames(d) : IsNoti(d, i) => socket[d][i].id \in Nat
    BY <2>2, FrameKinds, NotiFields DEF IsNoti
  <2> QED BY <2>2, <2>3, <2>4
<1>3. \A d \in Connections : \A g \in held[d] : g \in Noti /\ g.id \in Nat
  BY NotiFields DEF TypeOK
<1>4. /\ Len(emitted) \in Nat
      /\ \A k \in 1 .. Len(emitted) :
           emitted[k].conn \in Connections /\ emitted[k].id \in Nat
  <2>1. emitted \in Seq(Event)
    BY DEF TypeOK
  <2>2. \A k \in 1 .. Len(emitted) : emitted[k] \in Event
    BY <2>1
  <2>3. \A e \in Event : e.conn \in Connections /\ e.id \in Nat
    BY DEF Event
  <2> QED BY <2>1, <2>2, <2>3
<1>5. \A g \in failed : g.conn \in Connections /\ g.id \in Nat
  BY NotiFields DEF TypeOK
<1> QED BY <1>1, <1>2, <1>3, <1>4, <1>5

(* What is under way on a connection are notifications: held, or in the     *)
(* frames of its socket.                                                   *)
LEMMA UnderWayFields ==
  ASSUME TypeOK, NEW c \in Connections
  PROVE  /\ UnderWay(c) \subseteq Noti
         /\ \A g \in UnderWay(c) : g.id \in Nat \ {0} /\ g.expect \in Svms
         /\ \A g : g \in UnderWay(c) <=>
                g \in held[c] \/ \E i \in Frames(c) : IsNoti(c, i) /\ g = socket[c][i]
<1>1. socket[c] \in Seq(Frame) /\ held[c] \subseteq Noti
  BY DEF TypeOK
<1>2. DOMAIN socket[c] = Frames(c)
  BY <1>1 DEF Frames
<1>3. ToSet(socket[c]) = {socket[c][i] : i \in Frames(c)}
  BY <1>2 DEF ToSet
<1>4. \A g : g \in UnderWay(c) <=>
           g \in held[c] \/ \E i \in Frames(c) : IsNoti(c, i) /\ g = socket[c][i]
  BY <1>3 DEF UnderWay, Unread, IsNoti
<1>5. \A i \in Frames(c) : IsNoti(c, i) => socket[c][i] \in Noti
  BY Elements, FrameKinds DEF IsNoti
<1>6. UnderWay(c) \subseteq Noti
  BY <1>1, <1>4, <1>5
<1> QED BY <1>4, <1>6, NotiFields

(* The SVMs of the types.                                                   *)
LEMMA SvmTypes ==
  /\ DefaultSvm \in Svms
  /\ \A c \in Connections : SvmOf[c] \in Svms
  BY DEF Svms

-----------------------------------------------------------------------------

(* No connection is open.                                                   *)
LEMMA ServerInitInv == Init => FInv
<1> SUFFICES ASSUME Init PROVE FInv
  OBVIOUS
<1>1. TypeOK
  <2>1. socket \in [Connections -> Seq(Frame)] /\ emitted \in Seq(Event)
    BY DEF Init
  <2>2. \A c \in Connections : Len(socket[c]) <= MaxBuffered
    <3>1. \A c \in Connections : socket[c] = <<>>
      BY DEF Init
    <3>2. Len(<<>>) = 0
      OBVIOUS
    <3>3. 0 <= MaxBuffered
      BY ServerAssumption
    <3> QED BY <3>1, <3>2, <3>3
  <2>3. context \in [Connections -> Svms] /\ told \in [Connections -> Svms]
    BY SvmTypes DEF Init
  <2>4. notified \in 0 .. MaxNotifications /\ breaks \in Nat
    BY ServerAssumption DEF Init
  <2>5. /\ thread \in [Connections -> {"none", "running", "gone"}]
        /\ held \in [Connections -> SUBSET Noti]
        /\ \A c \in Connections : held[c] = {}
    BY DEF Init
  <2> QED BY <2>1, <2>2, <2>3, <2>4, <2>5 DEF Init, TypeOK
<1>2. \A c \in Connections : ConnInv(c)
  BY DEF Init, ConnInv, HeldInv, OrderInv, ExpectInv, ToldInv, Frames
<1>3. EmittedInv
  BY DEF Init, EmittedInv
<1>4. FailedInv /\ LossInv
  BY DEF Init, FailedInv, LossInv, Frames
<1> QED BY <1>1, <1>2, <1>3, <1>4 DEF FInv

(* A connection is opened with nothing to read and nothing named.           *)
LEMMA ConnectInv ==
  ASSUME FInv, NEW c \in Connections, Connect(c)
  PROVE  FInv'
<1> USE DEF FInv
<1>1. /\ UNCHANGED <<mode, notified, socket, ended, told, together, context, held, emitted,
                  failed, breaks>>
      /\ thread[c] = "none" /\ thread'[c] = "running"
      /\ \A d \in Connections \ {c} : thread'[d] = thread[d]
  BY DEF Connect, ontap, TypeOK
<1>2. TypeOK'
  <2>1. thread' \in [Connections -> {"none", "running", "gone"}]
    BY DEF Connect, TypeOK
  <2>2. \A d \in Connections : thread'[d] # "running" => held[d] = {}
    BY <1>1 DEF TypeOK
  <2> QED BY <1>1, <2>1, <2>2 DEF TypeOK
<1>3. ASSUME NEW d \in Connections PROVE ConnInv(d)'
  <2>1. /\ \A n : SvmAfter(d, n)' = SvmAfter(d, n)
        /\ \A i : IsNoti(d, i)' <=> IsNoti(d, i)
        /\ Frames(d)' = Frames(d)
    BY <1>1 DEF SvmAfter, Named, IsNoti, Frames
  <2>0. d = c => /\ held[d] = {} /\ Frames(d) = {}
                 /\ told[d] = SvmAfter(d, Len(socket[d]))
    BY <1>1 DEF ConnInv, HeldInv, ToldInv, SvmAfter, Frames
  <2>2. HeldInv(d)'
    <3>1. \A f : EventSvm(d, f)' = EventSvm(d, f)
      BY <1>1 DEF EventSvm
    <3>2. d # c => thread'[d] = thread[d]
      BY <1>1
    <3> QED BY <1>1, <2>0, <2>1, <3>1, <3>2 DEF ConnInv, HeldInv
  <2>3. OrderInv(d)'
    BY <1>1, <2>1 DEF ConnInv, OrderInv
  <2>4. ExpectInv(d)'
    BY <1>1, <2>0, <2>1 DEF ConnInv, ExpectInv
  <2>5. ToldInv(d)'
    <3>1. SvmAfter(d, Len(socket[d]))' = SvmAfter(d, Len(socket[d]))
      BY <1>1 DEF SvmAfter, Named
    <3> QED BY <1>1, <2>0, <3>1 DEF ConnInv, ToldInv
  <2> QED BY <2>2, <2>3, <2>4, <2>5 DEF ConnInv
<1>4. EmittedInv'
  BY <1>1 DEF EmittedInv, IsNoti, Frames
<1>5. FailedInv'
  <2>1. \A f \in failed : f.conn \in Connections
    BY DEF TypeOK, Noti
  <2> QED BY <1>1, <2>1 DEF FailedInv
<1>6. LossInv'
  BY <1>1 DEF LossInv, Accounted, IsNoti, Frames
<1> QED BY <1>2, <1>3, <1>4, <1>5, <1>6

(* What ONTAP may write on c: a notification is the newest so far, of this  *)
(* connection, and names its SVM or is meant for the one named last.       *)
Writes(c, f) ==
  /\ WriteFrame(c, f)
  /\ f \in Frame
  /\ IF f.kind = "noti"
     THEN /\ notified < MaxNotifications
          /\ notified' = notified + 1
          /\ f.id = notified + 1
          /\ f.conn = c
          /\ f.svm = Unnamed => f.expect = told[c]
          /\ f.svm # Unnamed => f.expect = f.svm
     ELSE notified' = notified
  /\ told' = IF f.kind = "nego" /\ f.named THEN [told EXCEPT ![c] = SvmOf[c]] ELSE told
  /\ breaks' = IF f.kind = "bad" THEN breaks + 1 ELSE breaks
  /\ together' \in SUBSET (Nat \X Nat)

LEMMA WriteInv ==
  ASSUME FInv, NEW c \in Connections, NEW f, Writes(c, f)
  PROVE  FInv'
<1> USE DEF FInv
<1>0. /\ f.kind # "noti" => notified' = notified
      /\ f.kind = "noti" => notified' = notified + 1
      /\ f.kind # "bad" => breaks' = breaks
      /\ f.kind = "bad" => breaks' = breaks + 1
      /\ f.kind = "noti" => /\ f.id = notified + 1 /\ f.conn = c
                            /\ notified < MaxNotifications
                            /\ f.svm = Unnamed => f.expect = told[c]
                            /\ f.svm # Unnamed => f.expect = f.svm
  BY DEF Writes
<1>1. /\ UNCHANGED <<mode, ended, thread, context, held, emitted, failed>>
      /\ thread[c] # "none"
      /\ notified \in Nat /\ notified' \in {notified, notified + 1}
      /\ breaks \in Nat /\ breaks' \in {breaks, breaks + 1}
  <2>1. UNCHANGED <<mode, ended, thread, context, held, emitted, failed>> /\ thread[c] # "none"
    BY DEF Writes, WriteFrame, server
  <2>2. notified \in Nat /\ breaks \in Nat
    BY Elements
  <2> QED BY <2>1, <2>2, <1>0
<1>2. PICK n \in Nat :
        /\ Len(socket[c]) = n /\ n < MaxBuffered
        /\ Len(socket'[c]) = n + 1
        /\ \A i \in 1 .. n : socket'[c][i] = socket[c][i]
        /\ socket'[c][n + 1] = f
        /\ socket'[c] \in Seq(Frame)
  <2>1. socket[c] \in Seq(Frame) /\ f \in Frame
    BY DEF TypeOK, Writes
  <2>2. socket'[c] = Append(socket[c], f) /\ Len(socket[c]) < MaxBuffered
    BY DEF TypeOK, Writes, WriteFrame
  <2>3. Len(socket[c]) \in Nat
    BY <2>1
  <2> QED BY <2>1, <2>2, <2>3, AppendFacts
<1>3. \A d \in Connections \ {c} : socket'[d] = socket[d]
  BY DEF Writes, WriteFrame, TypeOK
<1>4. Frames(c) = 1 .. n /\ Frames(c)' = (1 .. n) \cup {n + 1}
  BY <1>2 DEF Frames
<1>5. \A d \in Connections \ {c} : Frames(d)' = Frames(d)
  BY <1>3 DEF Frames
<1>6. /\ \A i \in 1 .. n : (IsNoti(c, i)' <=> IsNoti(c, i)) /\ (Named(c, i)' <=> Named(c, i))
      /\ IsNoti(c, n + 1)' <=> f.kind = "noti"
      /\ Named(c, n + 1)' <=> f.kind = "nego" /\ f.named
      /\ \A d \in Connections \ {c} : \A i :
           (IsNoti(d, i)' <=> IsNoti(d, i)) /\ (Named(d, i)' <=> Named(d, i))
  BY <1>2, <1>3 DEF IsNoti, Named
<1>7. /\ \A i \in 0 .. n : SvmAfter(c, i)' = SvmAfter(c, i)
      /\ \A d \in Connections \ {c} : \A i : SvmAfter(d, i)' = SvmAfter(d, i)
  BY <1>1, <1>6 DEF SvmAfter
<1>8. f.kind = "noti" => f \in Noti /\ f.id = notified + 1 /\ notified' = notified + 1
  BY <1>0, FrameKinds DEF Writes
<1>9. TypeOK'
  <2>1. socket' \in [Connections -> Seq(Frame)]
    BY <1>2, <1>3 DEF Writes, WriteFrame, TypeOK
  <2>2. \A d \in Connections : Len(socket'[d]) <= MaxBuffered
    <3>1. n + 1 <= MaxBuffered
      BY <1>2, ServerAssumption
    <3> QED BY <3>1, <1>2, <1>3 DEF TypeOK
  <2>3. told' \in [Connections -> Svms]
    BY SvmTypes DEF Writes, TypeOK
  <2>4. notified' \in 0 .. MaxNotifications /\ breaks' \in Nat
    <3>1. notified \in 0 .. MaxNotifications
      BY DEF TypeOK
    <3> QED BY <3>1, <1>0, <1>1, ServerAssumption
  <2>5. together' \in SUBSET (Nat \X Nat)
    BY DEF Writes
  <2> QED BY <1>1, <2>1, <2>2, <2>3, <2>4, <2>5 DEF TypeOK
<1>10. ASSUME NEW d \in Connections PROVE HeldInv(d)'
  <2>1. \A g : EventSvm(d, g)' = EventSvm(d, g)
    BY <1>1 DEF EventSvm
  <2>2. ASSUME NEW g \in held[d], NEW i \in Frames(d)', IsNoti(d, i)'
        PROVE  g.id < socket'[d][i].id
    <3>1. g.id \in Nat /\ g.id <= notified
      BY Elements DEF ConnInv, HeldInv
    <3>2. CASE d = c /\ i = n + 1
      BY <2>2, <3>1, <3>2, <1>1, <1>2, <1>6, <1>8
    <3>3. CASE ~(d = c /\ i = n + 1)
      BY <2>2, <3>3, <1>2, <1>3, <1>4, <1>5, <1>6 DEF ConnInv, HeldInv
    <3> QED BY <3>2, <3>3
  <2>3. \A g \in held[d] : g.id <= notified'
    <3>1. \A g \in held[d] : g.id \in Nat /\ g.id <= notified
      BY Elements DEF ConnInv, HeldInv
    <3> QED BY <3>1, <1>1
  <2> QED BY <1>1, <2>1, <2>2, <2>3 DEF ConnInv, HeldInv
<1>11. ASSUME NEW d \in Connections PROVE OrderInv(d)'
  <2> SUFFICES ASSUME NEW i \in Frames(d)', IsNoti(d, i)'
               PROVE  /\ socket'[d][i].conn = d
                      /\ socket'[d][i].id <= notified'
                      /\ \A j \in Frames(d)' :
                           IsNoti(d, j)' /\ i < j => socket'[d][i].id < socket'[d][j].id
    BY DEF OrderInv
  <2>1. CASE d # c
    <3>1. socket[d][i].id \in Nat
      BY <2>1, <1>5, <1>6, Elements
    <3>2. socket[d][i].conn = d /\ socket[d][i].id <= notified
          /\ \A j \in Frames(d) : IsNoti(d, j) /\ i < j => socket[d][i].id < socket[d][j].id
      BY <2>1, <1>5, <1>6 DEF ConnInv, OrderInv
    <3> QED BY <2>1, <3>1, <3>2, <1>1, <1>3, <1>5, <1>6
  <2>2. CASE d = c /\ i = n + 1
    <3>1. socket'[c][i] = f /\ f.kind = "noti"
      BY <2>2, <1>2, <1>6
    <3>2. \A j \in Frames(c)' : ~(i < j)
      BY <2>2, <1>4
    <3>3. socket'[c][i].conn = c /\ socket'[c][i].id <= notified'
      BY <3>1, <1>0, <1>1
    <3> QED BY <2>2, <3>2, <3>3
  <2>3. CASE d = c /\ i \in 1 .. n
    <3>1. socket[c][i].id \in Nat
      BY <2>3, <1>4, <1>6, Elements
    <3>2. socket[c][i].conn = c /\ socket[c][i].id <= notified
          /\ \A j \in 1 .. n : IsNoti(c, j) /\ i < j => socket[c][i].id < socket[c][j].id
      BY <2>3, <1>4, <1>6 DEF ConnInv, OrderInv
    <3>3. ASSUME NEW j \in Frames(c)', IsNoti(c, j)', i < j
          PROVE  socket[c][i].id < socket'[c][j].id
      <4>1. CASE j \in 1 .. n
        BY <3>3, <4>1, <3>2, <1>2, <1>6
      <4>2. CASE j = n + 1
        BY <3>3, <4>2, <3>1, <3>2, <1>0, <1>1, <1>2, <1>6
      <4> QED BY <4>1, <4>2, <1>4
    <3> QED BY <2>3, <3>1, <3>2, <3>3, <1>1, <1>2
  <2> QED BY <2>1, <2>2, <2>3, <1>4
<1>12. ASSUME NEW d \in Connections PROVE ExpectInv(d)'
  <2>1. CASE d # c
    <3> SUFFICES ASSUME NEW i \in Frames(d), IsNoti(d, i)
                 PROVE  /\ socket[d][i].svm # Unnamed => socket[d][i].expect = socket[d][i].svm
                        /\ thread[d] = "running" /\ socket[d][i].svm = Unnamed =>
                             socket[d][i].expect = SvmAfter(d, i - 1)'
      BY <2>1, <1>1, <1>3, <1>5, <1>6 DEF ExpectInv
    <3>1. SvmAfter(d, i - 1)' = SvmAfter(d, i - 1)
      BY <2>1, <1>7
    <3> QED BY <3>1 DEF ConnInv, ExpectInv
  <2>2. CASE d = c
    <3> SUFFICES ASSUME NEW i \in Frames(c)', IsNoti(c, i)'
                 PROVE  /\ socket'[c][i].svm # Unnamed => socket'[c][i].expect = socket'[c][i].svm
                        /\ thread[c] = "running" /\ socket'[c][i].svm = Unnamed =>
                             socket'[c][i].expect = SvmAfter(c, i - 1)'
      BY <2>2, <1>1 DEF ExpectInv
    <3>1. CASE i \in 1 .. n
      <4>1. i - 1 \in 0 .. n
        BY <3>1
      <4> QED BY <3>1, <4>1, <1>2, <1>4, <1>6, <1>7 DEF ConnInv, ExpectInv
    <3>2. CASE i = n + 1
      <4>1. i - 1 = n /\ n \in 0 .. n /\ f.kind = "noti" /\ socket'[c][i] = f
        BY <3>2, <1>2, <1>6
      <4>2. thread[c] = "running" => told[c] = SvmAfter(c, n)
        BY <1>2 DEF ConnInv, ToldInv
      <4> QED BY <4>1, <4>2, <1>7 DEF Writes
    <3> QED BY <3>1, <3>2, <1>4
  <2> QED BY <2>1, <2>2
<1>13. ASSUME NEW d \in Connections PROVE ToldInv(d)'
  <2>1. CASE d # c
    <3>1. told'[d] = told[d]
      BY <2>1 DEF Writes, TypeOK
    <3>2. SvmAfter(d, Len(socket[d]))' = SvmAfter(d, Len(socket[d]))
      BY <2>1, <1>1, <1>3 DEF SvmAfter, Named
    <3> QED BY <2>1, <3>1, <3>2, <1>1, <1>3 DEF ConnInv, ToldInv
  <2>2. CASE d = c
    <3>1. SvmAfter(c, Len(socket[c]))' =
            IF f.kind = "nego" /\ f.named THEN SvmOf[c] ELSE SvmAfter(c, n)
      BY <1>1, <1>2, <1>6 DEF SvmAfter
    <3>2. told'[c] = IF f.kind = "nego" /\ f.named THEN SvmOf[c] ELSE told[c]
      BY DEF Writes, TypeOK
    <3> QED BY <2>2, <3>1, <3>2, <1>1, <1>2 DEF ConnInv, ToldInv
  <2> QED BY <2>1, <2>2
<1>14. EmittedInv'
  <2>1. ASSUME NEW k \in 1 .. Len(emitted) PROVE emitted[k].id <= notified'
    <3>1. emitted[k].id \in Nat /\ emitted[k].id <= notified
      BY Elements DEF EmittedInv
    <3> QED BY <3>1, <1>1
  <2>2. ASSUME NEW k \in 1 .. Len(emitted), NEW d, d = emitted[k].conn,
               NEW i \in Frames(d)', IsNoti(d, i)'
        PROVE  emitted[k].id < socket'[d][i].id
    <3>0. d \in Connections /\ emitted[k].id \in Nat /\ emitted[k].id <= notified
      BY <2>2, Elements DEF EmittedInv
    <3>1. CASE d = c /\ i = n + 1
      BY <2>2, <3>0, <3>1, <1>0, <1>1, <1>2, <1>6
    <3>2. CASE ~(d = c /\ i = n + 1)
      <4>1. i \in Frames(d) /\ IsNoti(d, i) /\ socket'[d][i] = socket[d][i]
        BY <2>2, <3>0, <3>2, <1>2, <1>3, <1>4, <1>5, <1>6
      <4> QED BY <2>2, <4>1 DEF EmittedInv
    <3> QED BY <3>1, <3>2
  <2> QED BY <2>1, <2>2, <1>1 DEF EmittedInv, Frames, IsNoti
<1>15. FailedInv'
  BY <1>1 DEF FailedInv
<1>16. LossInv'
  <2> SUFFICES ASSUME breaks' = 0
               PROVE  /\ \A d \in Connections : \A i \in Frames(d)' : socket'[d][i].kind # "bad"
                      /\ mode = "realtime" => \A m \in 1 .. notified' : Accounted(m)'
    BY <1>1 DEF LossInv
  <2>1. breaks = 0 /\ f.kind # "bad"
    BY <1>0, <1>1
  <2>2. \A d \in Connections : \A i \in Frames(d)' : socket'[d][i].kind # "bad"
    <3> SUFFICES ASSUME NEW d \in Connections, NEW i \in Frames(d)'
                 PROVE  socket'[d][i].kind # "bad"
      OBVIOUS
    <3>1. CASE d = c /\ i = n + 1
      BY <3>1, <2>1, <1>2
    <3>2. CASE ~(d = c /\ i = n + 1)
      BY <3>2, <2>1, <1>2, <1>3, <1>4, <1>5 DEF LossInv
    <3> QED BY <3>1, <3>2
  <2>3. ASSUME mode = "realtime", NEW m \in 1 .. notified' PROVE Accounted(m)'
    <3>1. CASE m \in 1 .. notified
      <4>1. Accounted(m)
        BY <2>1, <2>3, <3>1 DEF LossInv
      <4>2. \A d \in Connections : \A i \in Frames(d) :
              i \in Frames(d)' /\ socket'[d][i] = socket[d][i]
        BY <1>2, <1>3, <1>4, <1>5
      <4> QED BY <4>1, <4>2, <1>1 DEF Accounted, IsNoti
    <3>2. CASE m = notified + 1 /\ notified' = notified + 1
      <4>1. f.kind = "noti" /\ f.id = m
        BY <3>2, <1>0, <1>1
      <4> QED BY <4>1, <1>2, <1>4, <1>6 DEF Accounted
    <3> QED BY <2>3, <3>1, <3>2, <1>1
  <2> QED BY <2>2, <2>3
<1> QED BY <1>9, <1>10, <1>11, <1>12, <1>13, <1>14, <1>15, <1>16 DEF ConnInv

(* What ONTAP does on a connection that it has opened.                      *)
LEMMA OntapInv ==
  ASSUME FInv, NEW c \in Connections, Ontap(c)
  PROVE  FInv'
<1>1. CASE Connect(c)
  BY <1>1, ConnectInv
<1>2. ASSUME NEW named \in BOOLEAN, Negotiate(c, named) PROVE FInv'
  <2> DEFINE f == Handshake(named)
  <2>1. f \in Frame
    BY DEF Frame
  <2>2. f.kind = "nego" /\ f.named = named
    BY DEF Handshake
  <2>3. /\ WriteFrame(c, f) /\ UNCHANGED <<notified, together, breaks>>
        /\ told' = IF named THEN [told EXCEPT ![c] = SvmOf[c]] ELSE told
    BY <1>2 DEF Negotiate, FInv, TypeOK
  <2> HIDE DEF f
  <2>4. Writes(c, f)
    BY <2>1, <2>2, <2>3 DEF Writes, FInv, TypeOK
  <2> QED BY <2>4, WriteInv
<1>3. ASSUME NEW named \in BOOLEAN, Notify(c, named) PROVE FInv'
  <2> DEFINE f == Notification(notified + 1, c, named)
  <2>1. notified \in Nat /\ told[c] \in Svms
    BY Elements DEF FInv, TypeOK
  <2>2. f \in Noti
    BY <2>1, SvmTypes DEF Notification, Noti
  <2>3. /\ f.kind = "noti" /\ f.id = notified + 1 /\ f.conn = c
        /\ f.svm = (IF named THEN SvmOf[c] ELSE Unnamed)
        /\ f.expect = (IF named THEN SvmOf[c] ELSE told[c])
    BY DEF Notification
  <2>4. /\ WriteFrame(c, f) /\ UNCHANGED <<told, breaks>>
        /\ notified < MaxNotifications /\ notified' = notified + 1
    BY <1>3 DEF Notify
  <2> HIDE DEF f
  <2>5. (f.svm = Unnamed => f.expect = told[c]) /\ (f.svm # Unnamed => f.expect = f.svm)
    BY <2>3, SvmsHaveNames
  <2>6. together' \in SUBSET (Nat \X Nat)
    <3>1. \A g \in UNION {UnderWay(d) : d \in Connections \ {c}} : g.id \in Nat
      BY UnderWayFields DEF FInv
    <3> QED BY <1>3, <2>1, <3>1 DEF Notify, FInv, TypeOK
  <2>7. Writes(c, f)
    BY <2>2, <2>3, <2>4, <2>5, <2>6 DEF Writes, Frame
  <2> QED BY <2>7, WriteInv
<1>4. CASE KeepAlive(c)
  <2>1. NoEvent \in Frame /\ NoEvent.kind = "other"
    BY DEF Frame, NoEvent
  <2>2. Writes(c, NoEvent)
    BY <1>4, <2>1 DEF KeepAlive, Writes, FInv, TypeOK
  <2> QED BY <2>2, WriteInv
<1>5. CASE Garble(c)
  <2>1. BadFrame \in Frame /\ BadFrame.kind = "bad"
    BY DEF Frame, BadFrame
  <2>2. Writes(c, BadFrame)
    BY <1>5, <2>1 DEF Garble, Writes, FInv, TypeOK
  <2> QED BY <2>2, WriteInv
<1>6. CASE Disconnect(c)
  <2>1. UNCHANGED <<mode, notified, socket, told, together, thread, context, held, emitted, failed,
                   breaks>>
        /\ ended' \in SUBSET Connections
    BY <1>6 DEF Disconnect, server, FInv, TypeOK
  <2>2. TypeOK'
    BY <2>1 DEF FInv, TypeOK
  <2>3. \A d \in Connections : ConnInv(d)'
    BY <2>1 DEF FInv, ConnInv, HeldInv, OrderInv, ExpectInv, ToldInv, EventSvm, SvmAfter,
                Named, IsNoti, Frames
  <2>4. EmittedInv' /\ FailedInv' /\ LossInv'
    BY <2>1 DEF FInv, EmittedInv, FailedInv, LossInv, Accounted, IsNoti, Frames
  <2> QED BY <2>2, <2>3, <2>4 DEF FInv
<1> QED BY <1>1, <1>2, <1>3, <1>4, <1>5, <1>6 DEF Ontap

-----------------------------------------------------------------------------
(* The threads of C end, and what they had not emitted is gone.             *)
CloseAll(C) ==
  /\ thread' = [c \in Connections |-> IF c \in C THEN "gone" ELSE thread[c]]
  /\ held' = [c \in Connections |-> IF c \in C THEN {} ELSE held[c]]
  /\ socket' = [c \in Connections |-> IF c \in C THEN <<>> ELSE socket[c]]
  /\ UNCHANGED <<mode, notified, ended, told, together, context, emitted>>

LEMMA CloseAllInv ==
  ASSUME FInv, NEW C \in SUBSET Connections, CloseAll(C),
         failed \subseteq failed',
         \A f \in failed' \ failed : \E c \in C : f \in held[c],
         breaks' \in Nat,
         breaks' = 0 => breaks = 0,
         breaks' = 0 /\ mode = "realtime" =>
           \A c \in C : held[c] = {} /\ socket[c] = <<>>
  PROVE  FInv'
<1> USE DEF FInv
<1>1. UNCHANGED <<mode, notified, ended, told, together, context, emitted>>
  BY DEF CloseAll
<1>2. /\ \A c \in C : thread'[c] = "gone" /\ held'[c] = {} /\ socket'[c] = <<>>
      /\ \A d \in Connections \ C :
           thread'[d] = thread[d] /\ held'[d] = held[d] /\ socket'[d] = socket[d]
  BY DEF CloseAll
<1>3. TypeOK'
  <2>1. thread' \in [Connections -> {"none", "running", "gone"}]
    BY DEF CloseAll, TypeOK
  <2>2. held' \in [Connections -> SUBSET Noti]
    BY DEF CloseAll, TypeOK
  <2>3. socket' \in [Connections -> Seq(Frame)]
    BY DEF CloseAll, TypeOK
  <2>4. \A d \in Connections : Len(socket'[d]) <= MaxBuffered
    <3>1. Len(<<>>) = 0
      OBVIOUS
    <3>2. 0 <= MaxBuffered
      BY ServerAssumption
    <3> QED BY <1>2, <3>1, <3>2 DEF TypeOK
  <2>5. failed' \in SUBSET Noti
    BY DEF TypeOK
  <2>6. \A d \in Connections : /\ \A f, g \in held'[d] : f = g
                               /\ thread'[d] # "running" => held'[d] = {}
    BY <1>2 DEF TypeOK
  <2> QED BY <1>1, <2>1, <2>2, <2>3, <2>4, <2>5, <2>6 DEF TypeOK
<1>4. ASSUME NEW d \in Connections PROVE ConnInv(d)'
  <2>1. CASE d \in C
    <3>1. Frames(d)' = {}
      BY <2>1, <1>2 DEF Frames
    <3> QED BY <2>1, <3>1, <1>2 DEF ConnInv, HeldInv, OrderInv, ExpectInv, ToldInv
  <2>2. CASE d \notin C
    <3>1. thread'[d] = thread[d] /\ held'[d] = held[d] /\ socket'[d] = socket[d]
      BY <2>2, <1>2
    <3>2. HeldInv(d)' /\ OrderInv(d)'
      BY <3>1, <1>1 DEF ConnInv, HeldInv, OrderInv, EventSvm, IsNoti, Frames
    <3>3. ExpectInv(d)' /\ ToldInv(d)'
      BY <3>1, <1>1 DEF ConnInv, ExpectInv, ToldInv, SvmAfter, Named, IsNoti, Frames
    <3> QED BY <3>2, <3>3 DEF ConnInv
  <2> QED BY <2>1, <2>2
<1>5. \A c \in C : Frames(c)' = {}
  BY <1>2 DEF Frames
<1>6. \A d \in Connections \ C : Frames(d)' = Frames(d) /\ \A i : IsNoti(d, i)' <=> IsNoti(d, i)
  BY <1>2 DEF Frames, IsNoti
<1>7. EmittedInv'
  <2> SUFFICES ASSUME NEW k \in 1 .. Len(emitted), NEW d, d = emitted[k].conn
               PROVE  /\ \A f \in held'[d] : emitted[k].id < f.id
                      /\ \A i \in Frames(d)' : IsNoti(d, i)' => emitted[k].id < socket'[d][i].id
    BY <1>1 DEF EmittedInv, Frames, IsNoti
  <2>1. d \in Connections
    BY Elements
  <2> QED BY <2>1, <1>2, <1>5, <1>6 DEF EmittedInv
<1>8. FailedInv'
  <2> SUFFICES ASSUME mode = "batch", NEW f \in failed'
               PROVE  /\ thread'[f.conn] = "gone"
                      /\ \A k \in 1 .. Len(emitted) :
                           emitted[k].conn = f.conn => emitted[k].id < f.id
    BY <1>1 DEF FailedInv
  <2>1. CASE f \in failed
    <3>1. f.conn \in Connections /\ thread[f.conn] = "gone"
      BY <2>1, Elements DEF FailedInv
    <3> QED BY <2>1, <3>1, <1>2 DEF FailedInv
  <2>2. CASE f \notin failed
    <3>1. PICK c \in C : f \in held[c]
      BY <2>2
    <3>2. f.conn = c
      BY <3>1 DEF ConnInv, HeldInv
    <3> QED BY <3>1, <3>2, <1>2 DEF EmittedInv
  <2> QED BY <2>1, <2>2
<1>9. LossInv'
  <2> SUFFICES ASSUME breaks' = 0
               PROVE  /\ \A d \in Connections : \A i \in Frames(d)' : socket'[d][i].kind # "bad"
                      /\ mode = "realtime" => \A n \in 1 .. notified : Accounted(n)'
    BY <1>1 DEF LossInv
  <2>1. \A d \in Connections : \A i \in Frames(d)' : socket'[d][i].kind # "bad"
    BY <1>2, <1>5, <1>6 DEF LossInv
  <2>2. ASSUME mode = "realtime", NEW n \in 1 .. notified PROVE Accounted(n)'
    <3>1. Accounted(n)
      BY <2>2 DEF LossInv
    <3>2. \A c \in C : held[c] = {} /\ Frames(c) = {}
      BY <2>2 DEF Frames
    <3> QED BY <3>1, <3>2, <1>1, <1>2, <1>6 DEF Accounted
  <2> QED BY <2>1, <2>2
<1> QED BY <1>3, <1>4, <1>7, <1>8, <1>9

-----------------------------------------------------------------------------
(* A frame that does not end the connection is taken off the socket.        *)
TakesFrame(c, f) ==
  /\ thread[c] = "running"
  /\ held[c] = {}
  /\ socket[c] # <<>>
  /\ f = Head(socket[c])
  /\ Consume(c)
  /\ context' = IF f.kind = "nego" /\ f.named THEN WithSvm(c) ELSE context
  /\ held' = IF f.kind = "noti" THEN [held EXCEPT ![c] = {f}] ELSE held
  /\ UNCHANGED <<mode, notified, ended, told, together, thread, emitted, failed, breaks>>

LEMMA TakesFrameInv ==
  ASSUME FInv, NEW c \in Connections, NEW f, TakesFrame(c, f)
  PROVE  FInv'
<1> USE DEF FInv
<1>1. /\ UNCHANGED <<mode, notified, ended, told, together, thread, emitted, failed, breaks>>
      /\ thread[c] = "running" /\ held[c] = {}
  BY DEF TakesFrame
<1>2. PICK n \in Nat :
        /\ Len(socket[c]) = n + 1
        /\ Len(socket'[c]) = n
        /\ \A i \in 1 .. n : socket'[c][i] = socket[c][i + 1]
        /\ socket[c][1] = f /\ f \in Frame
        /\ socket'[c] \in Seq(Frame)
  <2>1. socket[c] \in Seq(Frame) /\ socket[c] # <<>>
    BY DEF TakesFrame, TypeOK
  <2>2. socket'[c] = Tail(socket[c]) /\ f = Head(socket[c])
    BY DEF TakesFrame, Consume, TypeOK
  <2>3. Len(socket[c]) - 1 \in Nat /\ Len(socket[c]) = (Len(socket[c]) - 1) + 1
    BY <2>1, TailFacts
  <2> QED BY <2>1, <2>2, <2>3, TailFacts, SMTT(30)
<1>3. /\ Frames(c) = 1 .. n + 1 /\ Frames(c)' = 1 .. n
      /\ \A i \in 1 .. n : i + 1 \in Frames(c)
      /\ 1 \in Frames(c)
  BY <1>2 DEF Frames
<1>4. /\ \A d \in Connections \ {c} :
           /\ socket'[d] = socket[d] /\ held'[d] = held[d] /\ context'[d] = context[d]
           /\ Frames(d)' = Frames(d)
           /\ \A i : IsNoti(d, i)' <=> IsNoti(d, i)
      /\ f.kind = "nego" /\ f.named => context'[c] = SvmOf[c]
      /\ ~(f.kind = "nego" /\ f.named) => context'[c] = context[c]
      /\ f.kind = "noti" => held'[c] = {f}
      /\ f.kind # "noti" => held'[c] = {}
  BY <1>1 DEF TakesFrame, Consume, WithSvm, TypeOK, Frames, IsNoti
<1>5. /\ \A i \in 1 .. n : /\ IsNoti(c, i)' <=> IsNoti(c, i + 1)
                           /\ Named(c, i)' <=> Named(c, i + 1)
      /\ Named(c, 1) <=> f.kind = "nego" /\ f.named
      /\ IsNoti(c, 1) <=> f.kind = "noti"
  BY <1>2 DEF IsNoti, Named
<1>6. ASSUME NEW i \in 0 .. n PROVE SvmAfter(c, i)' = SvmAfter(c, i + 1)
  <2>1. \A j \in 1 .. i : j \in 1 .. n /\ j + 1 \in 1 .. i + 1
    OBVIOUS
  <2>2. \A j \in 1 .. i + 1 : j = 1 \/ (j - 1 \in 1 .. i /\ (j - 1) + 1 = j)
    OBVIOUS
  <2>3. (\E j \in 1 .. i + 1 : Named(c, j))
          <=> (f.kind = "nego" /\ f.named) \/ \E j \in 1 .. i : Named(c, j)'
    <3>1. ASSUME NEW j \in 1 .. i + 1, Named(c, j)
          PROVE  (f.kind = "nego" /\ f.named) \/ \E k \in 1 .. i : Named(c, k)'
      <4>1. CASE j = 1
        BY <3>1, <4>1, <1>5
      <4>2. CASE j - 1 \in 1 .. i /\ (j - 1) + 1 = j
        BY <3>1, <4>2, <2>1, <1>5
      <4> QED BY <4>1, <4>2, <2>2
    <3>2. ASSUME NEW j \in 1 .. i, Named(c, j)'
          PROVE  \E k \in 1 .. i + 1 : Named(c, k)
      BY <3>2, <2>1, <1>5
    <3>3. 1 \in 1 .. i + 1
      OBVIOUS
    <3> QED BY <3>1, <3>2, <3>3, <1>5
  <2> QED BY <2>3, <1>4 DEF SvmAfter
<1>7. f.kind = "noti" =>
        /\ f \in Noti /\ f.conn = c /\ f.id <= notified
        /\ f.svm # Unnamed => f.expect = f.svm
        /\ f.svm = Unnamed => f.expect = context[c]
  <2>1. SvmAfter(c, 1 - 1) = context[c]
    BY DEF SvmAfter
  <2>2. f.kind = "noti" => f \in Noti
    BY <1>2, FrameKinds
  <2> QED BY <2>1, <2>2, <1>1, <1>2, <1>3, <1>5 DEF ConnInv, OrderInv, ExpectInv
<1>8. TypeOK'
  <2>1. socket' \in [Connections -> Seq(Frame)]
    BY <1>2, <1>4 DEF TakesFrame, Consume, TypeOK
  <2>2. \A d \in Connections : Len(socket'[d]) <= MaxBuffered
    <3>1. n + 1 <= MaxBuffered
      BY <1>2 DEF TypeOK
    <3>2. n <= MaxBuffered
      BY <3>1, ServerAssumption
    <3> QED BY <3>2, <1>2, <1>4 DEF TypeOK
  <2>3. held' \in [Connections -> SUBSET Noti]
    BY <1>7 DEF TakesFrame, TypeOK
  <2>4. context' \in [Connections -> Svms]
    BY SvmTypes DEF TakesFrame, WithSvm, TypeOK
  <2>5. ASSUME NEW d \in Connections
        PROVE  /\ \A g, h \in held'[d] : g = h
               /\ thread[d] # "running" => held'[d] = {}
    <3>1. CASE d # c
      BY <3>1, <1>4 DEF TypeOK
    <3>2. CASE d = c
      BY <3>2, <1>1, <1>4
    <3> QED BY <3>1, <3>2
  <2> QED BY <1>1, <2>1, <2>2, <2>3, <2>4, <2>5 DEF TypeOK
<1>9. ASSUME NEW d \in Connections, d # c PROVE ConnInv(d)'
  <2>1. HeldInv(d)' /\ OrderInv(d)'
    BY <1>1, <1>4, <1>9 DEF ConnInv, HeldInv, OrderInv, EventSvm, IsNoti, Frames
  <2>2. \A i : SvmAfter(d, i)' = SvmAfter(d, i)
    BY <1>4, <1>9 DEF SvmAfter, Named
  <2>3. ExpectInv(d)'
    BY <2>2, <1>1, <1>4, <1>9 DEF ConnInv, ExpectInv
  <2>4. ToldInv(d)'
    <3>1. SvmAfter(d, Len(socket[d]))' = SvmAfter(d, Len(socket[d]))
      BY <1>4, <1>9 DEF SvmAfter, Named
    <3> QED BY <3>1, <1>1, <1>4, <1>9 DEF ConnInv, ToldInv
  <2> QED BY <2>1, <2>3, <2>4 DEF ConnInv
<1>10. HeldInv(c)'
  <2>1. ASSUME NEW g \in held'[c]
        PROVE  /\ g.conn = c /\ g.id <= notified
               /\ EventSvm(c, g)' = g.expect
               /\ \A i \in Frames(c)' : IsNoti(c, i)' => g.id < socket'[c][i].id
    <3>1. g = f /\ f.kind = "noti"
      BY <1>4, <2>1
    <3>2. context'[c] = context[c]
      BY <3>1, <1>4
    <3>3. ASSUME NEW i \in Frames(c)', IsNoti(c, i)'
          PROVE  f.id < socket'[c][i].id
      <4>1. i \in 1 .. n /\ i + 1 \in Frames(c) /\ 1 < i + 1 /\ IsNoti(c, i + 1)
        BY <3>3, <1>3, <1>5
      <4> QED BY <3>1, <4>1, <1>2, <1>3, <1>5 DEF ConnInv, OrderInv
    <3>4. EventSvm(c, g)' = g.expect
      BY <3>1, <3>2, <1>7 DEF EventSvm
    <3> QED BY <3>1, <3>3, <3>4, <1>7
  <2> QED BY <2>1, <1>1 DEF HeldInv
<1>11. OrderInv(c)'
  <2> SUFFICES ASSUME NEW i \in Frames(c)', IsNoti(c, i)'
               PROVE  /\ socket'[c][i].conn = c
                      /\ socket'[c][i].id <= notified
                      /\ \A j \in Frames(c)' :
                           IsNoti(c, j)' /\ i < j => socket'[c][i].id < socket'[c][j].id
    BY <1>1 DEF OrderInv
  <2>1. i \in 1 .. n /\ i + 1 \in Frames(c) /\ IsNoti(c, i + 1) /\ socket'[c][i] = socket[c][i + 1]
    BY <1>2, <1>3, <1>5
  <2>2. ASSUME NEW j \in Frames(c)', IsNoti(c, j)', i < j
        PROVE  socket'[c][i].id < socket'[c][j].id
    <3>1. j \in 1 .. n /\ j + 1 \in Frames(c) /\ socket'[c][j] = socket[c][j + 1]
      BY <2>2, <1>2, <1>3
    <3>2. IsNoti(c, j + 1)
      BY <2>2, <3>1, <1>5
    <3>3. i + 1 < j + 1
      BY <2>1, <2>2, <3>1
    <3> QED BY <2>1, <3>1, <3>2, <3>3 DEF ConnInv, OrderInv
  <2> QED BY <2>1, <2>2 DEF ConnInv, OrderInv
<1>12. ExpectInv(c)'
  <2> SUFFICES ASSUME NEW i \in Frames(c)', IsNoti(c, i)'
               PROVE  /\ socket'[c][i].svm # Unnamed => socket'[c][i].expect = socket'[c][i].svm
                      /\ socket'[c][i].svm = Unnamed => socket'[c][i].expect = SvmAfter(c, i - 1)'
    BY DEF ExpectInv
  <2>1. i \in 1 .. n /\ i + 1 \in Frames(c) /\ IsNoti(c, i + 1) /\ socket'[c][i] = socket[c][i + 1]
    BY <1>2, <1>3, <1>5
  <2>2. SvmAfter(c, i - 1)' = SvmAfter(c, (i + 1) - 1)
    <3>1. i - 1 \in 0 .. n /\ (i - 1) + 1 = (i + 1) - 1
      BY <2>1
    <3> QED BY <3>1, <1>6
  <2> QED BY <2>1, <2>2, <1>1 DEF ConnInv, ExpectInv
<1>13. ToldInv(c)'
  <2>1. SvmAfter(c, n)' = SvmAfter(c, n + 1)
    <3>1. n \in 0 .. n
      OBVIOUS
    <3> QED BY <3>1, <1>6
  <2>2. SvmAfter(c, Len(socket[c]))' = SvmAfter(c, n)'
    BY <1>2 DEF SvmAfter, Named
  <2> QED BY <2>1, <2>2, <1>1, <1>2 DEF ConnInv, ToldInv
<1>14. EmittedInv'
  <2> SUFFICES ASSUME NEW k \in 1 .. Len(emitted), NEW d, d = emitted[k].conn
               PROVE  /\ \A g \in held'[d] : emitted[k].id < g.id
                      /\ \A i \in Frames(d)' : IsNoti(d, i)' => emitted[k].id < socket'[d][i].id
    BY <1>1 DEF EmittedInv, Frames, IsNoti
  <2>1. CASE d # c
    <3>1. d \in Connections
      BY Elements
    <3> QED BY <2>1, <3>1, <1>4 DEF EmittedInv
  <2>2. CASE d = c
    <3>1. \A i \in Frames(c) : IsNoti(c, i) => emitted[k].id < socket[c][i].id
      BY <2>2 DEF EmittedInv
    <3>2. ASSUME NEW g \in held'[c] PROVE emitted[k].id < g.id
      <4>1. g = f /\ f.kind = "noti"
        BY <1>4, <3>2
      <4>2. 1 \in Frames(c) /\ IsNoti(c, 1) /\ socket[c][1] = f
        BY <4>1, <1>2, <1>3, <1>5
      <4> QED BY <4>1, <4>2, <3>1
    <3>3. \A i \in Frames(c)' : IsNoti(c, i)' => emitted[k].id < socket'[c][i].id
      BY <3>1, <1>2, <1>3, <1>5
    <3> QED BY <2>2, <3>2, <3>3
  <2> QED BY <2>1, <2>2
<1>15. FailedInv'
  BY <1>1 DEF FailedInv
<1>16. LossInv'
  <2> SUFFICES ASSUME breaks = 0
               PROVE  /\ \A d \in Connections : \A i \in Frames(d)' : socket'[d][i].kind # "bad"
                      /\ mode = "realtime" => \A m \in 1 .. notified : Accounted(m)'
    BY <1>1 DEF LossInv
  <2>1. ASSUME NEW d \in Connections, NEW i \in Frames(d)'
        PROVE  socket'[d][i].kind # "bad"
    <3>1. CASE d = c
      <4>1. i + 1 \in Frames(c) /\ socket'[c][i] = socket[c][i + 1]
        BY <3>1, <1>2, <1>3
      <4> QED BY <3>1, <4>1 DEF LossInv
    <3>2. CASE d # c
      BY <3>2, <1>4 DEF LossInv
    <3> QED BY <3>1, <3>2
  <2>2. ASSUME mode = "realtime", NEW m \in 1 .. notified PROVE Accounted(m)'
    <3>1. Accounted(m)
      BY <2>2 DEF LossInv
    <3>2. CASE (\E k \in 1 .. Len(emitted) : emitted[k].id = m) \/ \E g \in failed : g.id = m
      BY <3>2, <1>1 DEF Accounted
    <3>3. ASSUME NEW d \in Connections, NEW g \in held[d], g.id = m PROVE Accounted(m)'
      BY <3>3, <1>1, <1>4 DEF Accounted
    <3>4. ASSUME NEW d \in Connections, NEW i \in Frames(d), IsNoti(d, i), socket[d][i].id = m
          PROVE  Accounted(m)'
      <4>1. CASE d # c
        BY <3>4, <4>1, <1>4 DEF Accounted
      <4>2. CASE d = c /\ i = 1
        BY <3>4, <4>2, <1>2, <1>4, <1>5 DEF Accounted
      <4>3. CASE d = c /\ i # 1
        <5>1. PICK j \in 1 .. n : i = j + 1
          <6>1. i - 1 \in 1 .. n /\ i = (i - 1) + 1
            BY <3>4, <4>3, <1>3
          <6> QED BY <6>1
        <5> QED BY <3>4, <4>3, <5>1, <1>2, <1>3, <1>5 DEF Accounted
      <4> QED BY <4>1, <4>2, <4>3
    <3> QED BY <3>1, <3>2, <3>3, <3>4 DEF Accounted
  <2> QED BY <2>1, <2>2
<1> QED BY <1>8, <1>9, <1>10, <1>11, <1>12, <1>13, <1>14, <1>15, <1>16 DEF ConnInv
-----------------------------------------------------------------------------
(* An event is emitted after all those before it on its connection.         *)
LEMMA EmitInv ==
  ASSUME FInv, NEW c \in Connections, Emit(c)
  PROVE  FInv'
<1> USE DEF FInv
<1>1. UNCHANGED <<mode, notified, socket, ended, told, together, thread, context, failed, breaks>>
  BY DEF Emit, ontap
<1>2. PICK f \in held[c] :
        /\ emitted' = Append(emitted, [id |-> f.id, conn |-> c, svm |-> EventSvm(c, f),
                                       expect |-> f.expect])
        /\ held' = [held EXCEPT ![c] = @ \ {f}]
  BY DEF Emit
<1>3. held'[c] = {} /\ \A d \in Connections \ {c} : held'[d] = held[d]
  BY <1>2 DEF TypeOK
<1>4. /\ f \in Noti /\ f.id \in Nat \ {0} /\ f.expect \in Svms
      /\ f.conn = c /\ f.id <= notified /\ EventSvm(c, f) = f.expect
      /\ \A i \in Frames(c) : IsNoti(c, i) => f.id < socket[c][i].id
      /\ thread[c] = "running"
  <2>1. f \in Noti
    BY <1>2, Elements
  <2>2. f.id \in Nat \ {0} /\ f.expect \in Svms
    BY <2>1, NotiFields
  <2> QED BY <1>2, <2>1, <2>2 DEF ConnInv, HeldInv
<1>5. PICK m \in Nat :
        /\ Len(emitted) = m /\ Len(emitted') = m + 1
        /\ \A k \in 1 .. m : emitted'[k] = emitted[k]
        /\ emitted'[m + 1].id = f.id /\ emitted'[m + 1].conn = c
        /\ emitted'[m + 1].svm = f.expect /\ emitted'[m + 1].expect = f.expect
        /\ emitted' \in Seq(Event)
  <2>1. [id |-> f.id, conn |-> c, svm |-> EventSvm(c, f), expect |-> f.expect] \in Event
    BY <1>4 DEF Event
  <2>2. emitted \in Seq(Event) /\ Len(emitted) \in Nat
    BY DEF TypeOK
  <2>3. /\ emitted' \in Seq(Event) /\ Len(emitted') = Len(emitted) + 1
        /\ \A k \in 1 .. Len(emitted) : emitted'[k] = emitted[k]
        /\ emitted'[Len(emitted) + 1]
             = [id |-> f.id, conn |-> c, svm |-> EventSvm(c, f), expect |-> f.expect]
    BY <1>2, <2>1, <2>2, AppendFacts
  <2> QED BY <2>2, <2>3, <1>4
<1>6. TypeOK'
  <2>1. held' \in [Connections -> SUBSET Noti]
    BY <1>2 DEF TypeOK
  <2>2. \A d \in Connections : \A g, h \in held'[d] : g = h
    BY <1>3 DEF TypeOK
  <2>3. \A d \in Connections : thread[d] # "running" => held'[d] = {}
    BY <1>3 DEF TypeOK
  <2> QED BY <1>1, <1>5, <2>1, <2>2, <2>3 DEF TypeOK
<1>7. ASSUME NEW d \in Connections PROVE ConnInv(d)'
  <2>1. held'[d] \subseteq held[d]
    BY <1>3
  <2>2. HeldInv(d)' /\ OrderInv(d)'
    BY <1>1, <2>1 DEF ConnInv, HeldInv, OrderInv, EventSvm, IsNoti, Frames
  <2>3. ExpectInv(d)' /\ ToldInv(d)'
    BY <1>1 DEF ConnInv, ExpectInv, ToldInv, SvmAfter, Named, IsNoti, Frames
  <2> QED BY <2>2, <2>3 DEF ConnInv
<1>8. \A d \in Connections : Frames(d)' = Frames(d) /\ \A i : IsNoti(d, i)' <=> IsNoti(d, i)
  BY <1>1 DEF Frames, IsNoti
<1>9. EmittedInv'
  <2> SUFFICES ASSUME NEW k \in 1 .. m + 1, NEW d, d = emitted'[k].conn
               PROVE  /\ emitted'[k].id <= notified
                      /\ emitted'[k].svm = emitted'[k].expect
                      /\ \A g \in held'[d] : emitted'[k].id < g.id
                      /\ \A i \in Frames(d)' : IsNoti(d, i)' => emitted'[k].id < socket[d][i].id
                      /\ \A l \in 1 .. m + 1 :
                           k < l /\ d = emitted'[l].conn => emitted'[k].id < emitted'[l].id
    BY <1>1, <1>5 DEF EmittedInv, Frames, IsNoti
  <2>1. CASE k = m + 1
    <3>1. \A l \in 1 .. m + 1 : ~(k < l)
      BY <2>1
    <3>2. d = c /\ emitted'[k].id = f.id
      BY <2>1, <1>5
    <3> QED BY <2>1, <3>1, <3>2, <1>3, <1>4, <1>5, <1>8
  <2>2. CASE k # m + 1
    <3>1. k \in 1 .. m /\ emitted'[k] = emitted[k] /\ k \in 1 .. Len(emitted)
      BY <2>2, <1>5
    <3>2. d \in Connections /\ d = emitted[k].conn
      BY <3>1, Elements
    <3>3. held'[d] \subseteq held[d]
      BY <3>2, <1>3
    <3>4. ASSUME NEW l \in 1 .. m + 1, k < l, d = emitted'[l].conn
          PROVE  emitted'[k].id < emitted'[l].id
      <4>1. CASE l \in 1 .. m
        <5>1. emitted'[l] = emitted[l] /\ l \in 1 .. Len(emitted)
          BY <4>1, <1>5
        <5> QED BY <3>1, <3>2, <3>4, <5>1 DEF EmittedInv
      <4>2. CASE l = m + 1
        <5>1. d = c /\ emitted'[l].id = f.id
          BY <3>4, <4>2, <1>5
        <5> QED BY <3>1, <3>2, <5>1, <1>2 DEF EmittedInv
      <4> QED BY <4>1, <4>2
    <3>5. \A i \in Frames(d)' : IsNoti(d, i)' => emitted'[k].id < socket[d][i].id
      BY <3>1, <3>2, <1>8 DEF EmittedInv
    <3>6. \A g \in held'[d] : emitted'[k].id < g.id
      BY <3>1, <3>2, <3>3 DEF EmittedInv
    <3>7. emitted'[k].id <= notified /\ emitted'[k].svm = emitted'[k].expect
      BY <3>1 DEF EmittedInv
    <3> QED BY <3>4, <3>5, <3>6, <3>7
  <2> QED BY <2>1, <2>2
<1>10. FailedInv'
  <2> SUFFICES ASSUME mode = "batch", NEW g \in failed
               PROVE  /\ thread[g.conn] = "gone"
                      /\ \A k \in 1 .. m + 1 : emitted'[k].conn = g.conn => emitted'[k].id < g.id
    BY <1>1, <1>5 DEF FailedInv
  <2>1. thread[g.conn] = "gone"
    BY DEF FailedInv
  <2>2. ASSUME NEW k \in 1 .. m + 1, emitted'[k].conn = g.conn
        PROVE  emitted'[k].id < g.id
    <3>1. k # m + 1
      BY <2>1, <2>2, <1>4, <1>5
    <3>2. k \in 1 .. Len(emitted) /\ emitted'[k] = emitted[k]
      BY <3>1, <1>5
    <3> QED BY <2>2, <3>2 DEF FailedInv
  <2> QED BY <2>1, <2>2
<1>11. LossInv'
  <2> SUFFICES ASSUME breaks = 0
               PROVE  /\ \A d \in Connections : \A i \in Frames(d)' : socket[d][i].kind # "bad"
                      /\ mode = "realtime" => \A n \in 1 .. notified : Accounted(n)'
    BY <1>1 DEF LossInv
  <2>1. \A d \in Connections : \A i \in Frames(d)' : socket[d][i].kind # "bad"
    BY <1>8 DEF LossInv
  <2>2. ASSUME mode = "realtime", NEW n \in 1 .. notified PROVE Accounted(n)'
    <3>1. Accounted(n)
      BY <2>2 DEF LossInv
    <3>2. ASSUME NEW k \in 1 .. Len(emitted), emitted[k].id = n PROVE Accounted(n)'
      <4>1. k \in 1 .. Len(emitted') /\ emitted'[k].id = n
        BY <3>2, <1>5
      <4> QED BY <4>1 DEF Accounted
    <3>3. ASSUME f.id = n PROVE Accounted(n)'
      <4>1. m + 1 \in 1 .. Len(emitted') /\ emitted'[m + 1].id = n
        BY <3>3, <1>5
      <4> QED BY <4>1 DEF Accounted
    <3>4. ASSUME NEW d \in Connections, NEW g \in held[d], g.id = n PROVE Accounted(n)'
      <4>1. d = c => g = f
        BY <1>2 DEF TypeOK
      <4>2. d # c => g \in held'[d]
        BY <1>3
      <4> QED BY <3>3, <3>4, <4>1, <4>2 DEF Accounted
    <3>5. ASSUME NEW d \in Connections, NEW i \in Frames(d), IsNoti(d, i), socket[d][i].id = n
          PROVE  Accounted(n)'
      BY <3>5, <1>1, <1>8 DEF Accounted
    <3> QED BY <3>1, <3>2, <3>4, <3>5, <1>1 DEF Accounted
  <2> QED BY <2>1, <2>2
<1> QED BY <1>6, <1>7, <1>9, <1>10, <1>11

(* In realtime mode a failed send costs the notification that was sent.     *)
LEMMA SkipInv ==
  ASSUME FInv, NEW c \in Connections, FailToEmit(c), mode = "realtime"
  PROVE  FInv'
<1> USE DEF FInv
<1>1. /\ UNCHANGED <<mode, notified, socket, ended, told, together, thread, context, emitted, breaks>>
      /\ failed' = failed \cup held[c]
      /\ held'[c] = {} /\ \A d \in Connections \ {c} : held'[d] = held[d]
      /\ held' \in [Connections -> SUBSET Noti]
  <2>1. held' = [held EXCEPT ![c] = {}]
    BY DEF FailToEmit, AfterError
  <2>2. UNCHANGED <<mode, notified, socket, ended, told, together, thread, context, emitted, breaks>>
    BY DEF FailToEmit, AfterError
  <2>3. failed' = failed \cup held[c]
    BY DEF FailToEmit
  <2>4. held \in [Connections -> SUBSET Noti]
    BY DEF TypeOK
  <2> QED BY <2>1, <2>2, <2>3, <2>4, SMTT(30)
<1>2. \A d \in Connections : held'[d] \subseteq held[d]
  BY <1>1
<1>3. TypeOK'
  <2>1. failed' \in SUBSET Noti
    BY <1>1 DEF TypeOK
  <2>2. \A d \in Connections : \A g, h \in held'[d] : g = h
    BY <1>2 DEF TypeOK
  <2>3. \A d \in Connections : thread[d] # "running" => held'[d] = {}
    BY <1>2 DEF TypeOK
  <2> QED BY <1>1, <2>1, <2>2, <2>3 DEF TypeOK
<1>4. ASSUME NEW d \in Connections PROVE ConnInv(d)'
  <2>1. HeldInv(d)' /\ OrderInv(d)'
    BY <1>1, <1>2 DEF ConnInv, HeldInv, OrderInv, EventSvm, IsNoti, Frames
  <2>2. ExpectInv(d)' /\ ToldInv(d)'
    BY <1>1 DEF ConnInv, ExpectInv, ToldInv, SvmAfter, Named, IsNoti, Frames
  <2> QED BY <2>1, <2>2 DEF ConnInv
<1>5. EmittedInv'
  <2>1. \A k \in 1 .. Len(emitted) : held'[emitted[k].conn] \subseteq held[emitted[k].conn]
    BY <1>2, Elements
  <2> QED BY <2>1, <1>1 DEF EmittedInv, IsNoti, Frames
<1>6. FailedInv'
  BY <1>1 DEF FailedInv
<1>7. LossInv'
  <2>1. ASSUME NEW n, Accounted(n) PROVE Accounted(n)'
    <3>1. ASSUME NEW d \in Connections, NEW g \in held[d], g.id = n
          PROVE  (\E h \in failed' : h.id = n) \/ \E h \in held'[d] : h.id = n
      BY <3>1, <1>1
    <3>2. (\E g \in failed : g.id = n) => \E g \in failed' : g.id = n
      BY <1>1
    <3>3. /\ (\E k \in 1 .. Len(emitted') : emitted'[k].id = n)
               <=> (\E k \in 1 .. Len(emitted) : emitted[k].id = n)
          /\ (\E d \in Connections : \E i \in Frames(d)' : IsNoti(d, i)' /\ socket'[d][i].id = n)
               <=> (\E d \in Connections : \E i \in Frames(d) : IsNoti(d, i) /\ socket[d][i].id = n)
      BY <1>1 DEF IsNoti, Frames
    <3> QED BY <2>1, <3>1, <3>2, <3>3 DEF Accounted
  <2> QED BY <2>1, <1>1 DEF LossInv, Frames
<1> QED BY <1>3, <1>4, <1>5, <1>6, <1>7

(* One connection closes.                                                   *)
LEMMA CloseOne ==
  ASSUME TypeOK, NEW c \in Connections, Close(c),
         UNCHANGED <<mode, notified, ended, told, together, context, emitted>>
  PROVE  CloseAll({c})
  BY DEF Close, CloseAll, TypeOK

(* One step of the server or of ONTAP.                                      *)
LEMMA ServerStepInv == FInv /\ [Next]_vars => FInv'
<1> SUFFICES ASSUME FInv, [Next]_vars PROVE FInv'
  OBVIOUS
<1>0. TypeOK /\ mode \in {"realtime", "batch"} /\ breaks \in Nat
  BY DEF FInv, TypeOK
<1>1. ASSUME NEW c \in Connections, Ontap(c) PROVE FInv'
  BY <1>1, OntapInv
<1>2. ASSUME NEW c \in Connections, ReadFrame(c) PROVE FInv'
  <2>1. PICK f : f = Head(socket[c])
    OBVIOUS
  <2>2. /\ thread[c] = "running" /\ held[c] = {} /\ socket[c] # <<>>
        /\ UNCHANGED <<mode, notified, ended, told, together, emitted, failed, breaks>>
    BY <1>2 DEF ReadFrame, ReadyToRead
  <2>3. CASE f.kind = "nego" /\ context' = (IF f.named THEN WithSvm(c) ELSE context)
             /\ Consume(c) /\ UNCHANGED <<thread, held>>
    <3>1. TakesFrame(c, f)
      BY <2>1, <2>2, <2>3 DEF TakesFrame
    <3> QED BY <3>1, TakesFrameInv
  <2>4. CASE f.kind = "noti" /\ held' = [held EXCEPT ![c] = @ \cup {f}]
             /\ Consume(c) /\ UNCHANGED <<thread, context>>
    <3>1. held' = [held EXCEPT ![c] = {f}]
      BY <2>2, <2>4
    <3>2. TakesFrame(c, f)
      BY <2>1, <2>2, <2>4, <3>1 DEF TakesFrame
    <3> QED BY <3>2, TakesFrameInv
  <2>5. CASE f.kind = "other" /\ Consume(c) /\ UNCHANGED <<thread, context, held>>
    <3>1. TakesFrame(c, f)
      BY <2>1, <2>2, <2>5 DEF TakesFrame
    <3> QED BY <3>1, TakesFrameInv
  <2>6. CASE f.kind = "bad" /\ Close(c) /\ UNCHANGED context
    <3>1. CloseAll({c})
      BY <1>0, <2>2, <2>6, CloseOne
    <3>2. breaks # 0
      <4>1. socket[c] \in Seq(Frame)
        BY <1>0 DEF TypeOK
      <4>2. 1 \in Frames(c) /\ socket[c][1] = f
        BY <4>1, <2>1, <2>2, TailFacts DEF Frames
      <4> QED BY <4>2, <2>6 DEF FInv, LossInv
    <3> QED BY <1>0, <2>2, <3>1, <3>2, CloseAllInv
  <2> QED BY <1>2, <2>1, <2>3, <2>4, <2>5, <2>6 DEF ReadFrame
<1>3. ASSUME NEW c \in Connections, FailToEmit(c) PROVE FInv'
  <2>1. CASE mode = "realtime"
    BY <1>3, <2>1, SkipInv
  <2>2. CASE mode = "batch"
    <3>1. /\ Close(c) /\ failed' = failed \cup held[c] /\ breaks' = breaks
          /\ UNCHANGED <<mode, notified, ended, told, together, context, emitted>>
      BY <1>3, <2>2 DEF FailToEmit, AfterError
    <3>2. CloseAll({c})
      BY <1>0, <3>1, CloseOne
    <3> QED BY <1>0, <2>2, <3>1, <3>2, CloseAllInv
  <2> QED BY <1>0, <2>1, <2>2
<1>4. ASSUME NEW c \in Connections, EndOfStream(c) PROVE FInv'
  <2>1. /\ Close(c) /\ held[c] = {} /\ socket[c] = <<>>
        /\ UNCHANGED <<mode, notified, ended, told, together, context, emitted, failed, breaks>>
    BY <1>4 DEF EndOfStream, Drained
  <2>2. CloseAll({c})
    BY <1>0, <2>1, CloseOne
  <2> QED BY <1>0, <2>1, <2>2, CloseAllInv
<1>5. ASSUME NEW c \in Connections, Reset(c) PROVE FInv'
  <2>1. /\ Close(c) /\ breaks' = breaks + 1
        /\ UNCHANGED <<mode, notified, ended, told, together, context, emitted, failed>>
    BY <1>5 DEF Reset
  <2>2. CloseAll({c})
    BY <1>0, <2>1, CloseOne
  <2> QED BY <1>0, <2>1, <2>2, CloseAllInv
<1>6. ASSUME StopTask PROVE FInv'
  <2>1. PICK C \in SUBSET Connections : C = {c \in Connections : thread[c] = "running"}
    OBVIOUS
  <2>2. \A c \in Connections \ C : held[c] = {}
    BY <1>0, <2>1 DEF TypeOK
  <2>3. breaks' = breaks + 1 /\ failed' = failed
    BY <1>6 DEF StopTask
  <2>4. CloseAll(C)
    <3>1. held' = [c \in Connections |-> IF c \in C THEN {} ELSE held[c]]
      BY <1>6, <2>2 DEF StopTask
    <3> QED BY <1>6, <2>1, <3>1 DEF StopTask, CloseAll
  <2> QED BY <1>0, <2>3, <2>4, CloseAllInv
<1>7. ASSUME UNCHANGED vars PROVE FInv'
  <2>1. UNCHANGED <<mode, notified, socket, ended, told, together, thread, context, held, emitted,
                    failed, breaks>>
    BY <1>7 DEF vars, ontap, server
  <2>2. TypeOK'
    BY <2>1 DEF FInv, TypeOK
  <2>3. \A d \in Connections : ConnInv(d)'
    BY <2>1 DEF FInv, ConnInv, HeldInv, OrderInv, ExpectInv, ToldInv, EventSvm, SvmAfter,
                Named, IsNoti, Frames
  <2>4. EmittedInv' /\ FailedInv' /\ LossInv'
    BY <2>1 DEF FInv, EmittedInv, FailedInv, LossInv, Accounted, IsNoti, Frames
  <2> QED BY <2>2, <2>3, <2>4 DEF FInv
<1> QED BY <1>1, <1>2, EmitInv, <1>3, <1>4, <1>5, <1>6, <1>7 DEF Next, Serve

-----------------------------------------------------------------------------
(* The invariant behind every theorem below: what a connection has to read, *)
(* holds and has emitted is in ONTAP's order, and is read in the context in *)
(* which ONTAP wrote it.                                                    *)
THEOREM ServerInvariance == Spec => []FInv
<1>1. FInv /\ [Next]_vars => FInv'
  BY ServerStepInv
<1> QED BY ServerInitInv, <1>1, PTL DEF Spec

(* The variables of the server keep their types, and a socket its bound.    *)
THEOREM ServerTypeCorrect == Spec => []TypeOK
<1>1. FInv => TypeOK
  BY DEF FInv
<1> QED BY ServerInvariance, <1>1, PTL

(* Whatever the other threads do, the events of one connection reach the    *)
(* queue or the log in ONTAP's order and at most once.                     *)
THEOREM ServerKeepsOrder == Spec => []InOrderPerConnection
<1>1. FInv => InOrderPerConnection
  <2> SUFFICES ASSUME FInv PROVE InOrderPerConnection
    OBVIOUS
  <2>1. DOMAIN emitted = 1 .. Len(emitted)
    BY DEF FInv, TypeOK
  <2> QED BY <2>1 DEF FInv, EmittedInv, InOrderPerConnection
<1> QED BY ServerInvariance, <1>1, PTL

(* No event carries the SVM of another connection, or one that ONTAP had    *)
(* not yet named.                                                          *)
THEOREM ServerNamesRightSvm == Spec => []RightSvm
<1>1. FInv => RightSvm
  <2> SUFFICES ASSUME FInv PROVE RightSvm
    OBVIOUS
  <2>1. DOMAIN emitted = 1 .. Len(emitted)
    BY DEF FInv, TypeOK
  <2> QED BY <2>1 DEF FInv, EmittedInv, RightSvm
<1> QED BY ServerInvariance, <1>1, PTL

(* In batch mode the log of a connection has no gap where a write failed.   *)
THEOREM BatchLogHasNoGap == Spec => []NothingAfterFailedWrite
<1>1. FInv => NothingAfterFailedWrite
  <2> SUFFICES ASSUME FInv PROVE NothingAfterFailedWrite
    OBVIOUS
  <2>1. DOMAIN emitted = 1 .. Len(emitted)
    BY DEF FInv, TypeOK
  <2> QED BY <2>1 DEF FInv, FailedInv, NothingAfterFailedWrite
<1> QED BY ServerInvariance, <1>1, PTL

(* In realtime mode, while nothing breaks, only failed sends and writes to  *)
(* an idle connection that was given up cost a notification.               *)
THEOREM RealtimeAccounts == Spec => []RealtimeLosesOnlyFailed
<1>1. FInv => RealtimeLosesOnlyFailed
  <2> SUFFICES ASSUME FInv, mode = "realtime", breaks = 0, NEW n \in Lost
               PROVE  \/ n \in Ids(failed)
                      \/ \E c \in Connections : thread[c] = "gone" /\ n \in Buffered(c)
    BY DEF RealtimeLosesOnlyFailed
  <2>1. /\ n \in 1 .. notified
        /\ n \notin Ids(ToSet(emitted))
        /\ \A c \in Connections : n \notin Ids(held[c])
        /\ \A c \in Connections : thread[c] = "running" => n \notin Buffered(c)
    BY DEF Lost
  <2>2. Accounted(n)
    BY <2>1 DEF FInv, LossInv
  <2>3. ~ \E k \in 1 .. Len(emitted) : emitted[k].id = n
    <3>1. \A k \in 1 .. Len(emitted) : emitted[k] \in ToSet(emitted)
      <4>1. DOMAIN emitted = 1 .. Len(emitted)
        BY DEF FInv, TypeOK
      <4> QED BY <4>1 DEF ToSet
    <3> QED BY <2>1, <3>1 DEF Ids
  <2>4. ~ \E c \in Connections : \E f \in held[c] : f.id = n
    BY <2>1 DEF Ids
  <2>5. ASSUME NEW c \in Connections, NEW i \in Frames(c), IsNoti(c, i), socket[c][i].id = n
        PROVE  n \in Buffered(c) /\ thread[c] = "gone"
    <3>1. socket[c] \in Seq(Frame) /\ thread[c] \in {"none", "running", "gone"}
      BY DEF FInv, TypeOK
    <3>2. socket[c][i] \in ToSet(socket[c])
      <4>1. DOMAIN socket[c] = Frames(c)
        BY <3>1 DEF Frames
      <4> QED BY <4>1 DEF ToSet
    <3>3. n \in Buffered(c)
      BY <2>5, <3>2 DEF Buffered, Unread, Ids, IsNoti
    <3>4. thread[c] # "none"
      BY <2>5 DEF FInv, ConnInv, ToldInv, Frames
    <3> QED BY <2>1, <3>1, <3>3, <3>4
  <2>6. (\E f \in failed : f.id = n) => n \in Ids(failed)
    BY DEF Ids
  <2> QED BY <2>2, <2>3, <2>4, <2>5, <2>6 DEF Accounted
<1> QED BY ServerInvariance, <1>1, PTL

-----------------------------------------------------------------------------
(* What a step does to the notifications under way: it loses some, ONTAP    *)
(* sends a new one, or a thread emits the oldest of its connection.        *)

Loses ==
  /\ \A d \in Connections : UnderWay(d)' \subseteq UnderWay(d)
  /\ UNCHANGED <<notified, emitted, together>>

Sends(c, f) ==
  /\ f \in Noti /\ f.id = notified + 1 /\ f.conn = c
  /\ notified' = notified + 1
  /\ \A d \in Connections :
       UnderWay(d)' = IF d = c THEN UnderWay(c) \cup {f} ELSE UnderWay(d)
  /\ together' = together \cup
       {<<g.id, notified + 1>> : g \in UNION {UnderWay(d) : d \in Connections \ {c}}}
  /\ UNCHANGED emitted

Emits(c, f) ==
  /\ f \in UnderWay(c)
  /\ \A g \in UnderWay(c) : f.id <= g.id
  /\ emitted' = Append(emitted, [id |-> f.id, conn |-> c, svm |-> f.expect,
                                 expect |-> f.expect])
  /\ \A d \in Connections :
       UnderWay(d)' = IF d = c THEN UnderWay(c) \ {f} ELSE UnderWay(d)
  /\ UNCHANGED <<notified, together>>

(* A notification under way was sent on its connection, before the last.    *)
LEMMA UnderWaySent ==
  ASSUME FInv, NEW c \in Connections, NEW g \in UnderWay(c)
  PROVE  g.id \in Nat \ {0} /\ g.id <= notified /\ g.conn = c
<1>1. TypeOK /\ HeldInv(c) /\ OrderInv(c)
  BY DEF FInv, ConnInv
<1>2. g.id \in Nat \ {0}
  BY <1>1, UnderWayFields
<1>3. CASE g \in held[c]
  BY <1>1, <1>2, <1>3 DEF HeldInv
<1>4. CASE g \notin held[c]
  <2>1. PICK i \in Frames(c) : IsNoti(c, i) /\ g = socket[c][i]
    BY <1>1, <1>4, UnderWayFields
  <2> QED BY <1>1, <1>2, <2>1 DEF OrderInv
<1> QED BY <1>3, <1>4

(* ONTAP writes a frame: a notification is under way, nothing else is.      *)
LEMMA WriteEffects ==
  ASSUME TypeOK, NEW c \in Connections, NEW f \in Frame, WriteFrame(c, f)
  PROVE  /\ \A d \in Connections :
              UnderWay(d)' = IF d = c /\ f.kind = "noti" THEN UnderWay(c) \cup {f}
                             ELSE UnderWay(d)
         /\ UNCHANGED <<held, emitted>>
<1>1. /\ held' = held /\ emitted' = emitted
      /\ socket' = [socket EXCEPT ![c] = Append(socket[c], f)]
  BY DEF WriteFrame, server
<1>2. ToSet(socket'[c]) = ToSet(socket[c]) \cup {f}
  <2>1. socket[c] \in Seq(Frame) /\ socket'[c] = Append(socket[c], f)
    BY <1>1 DEF TypeOK
  <2>2. PICK n \in Nat : n = Len(socket[c])
    BY <2>1
  <2>3. /\ DOMAIN socket[c] = 1 .. n /\ DOMAIN socket'[c] = (1 .. n) \cup {n + 1}
        /\ \A i \in 1 .. n : socket'[c][i] = socket[c][i]
        /\ socket'[c][n + 1] = f
    BY <2>1, <2>2
  <2> QED BY <2>3 DEF ToSet
<1>3. \A d \in Connections \ {c} : socket'[d] = socket[d]
  BY <1>1 DEF TypeOK
<1>4. Unread(c)' = IF f.kind = "noti" THEN Unread(c) \cup {f} ELSE Unread(c)
  BY <1>2 DEF Unread
<1>5. \A d \in Connections \ {c} : Unread(d)' = Unread(d)
  BY <1>3 DEF Unread
<1> QED BY <1>1, <1>4, <1>5 DEF UnderWay

(* What ONTAP does loses nothing, and a notification is sent.               *)
LEMMA OntapEffects ==
  ASSUME FInv, NEW c \in Connections, Ontap(c)
  PROVE  Loses \/ \E f : Sends(c, f)
<1>0. TypeOK /\ notified \in Nat
  BY Elements DEF FInv
<1>1. CASE Connect(c) \/ Disconnect(c)
  <2>1. UNCHANGED <<socket, held, notified, emitted, together>>
    BY <1>1 DEF Connect, Disconnect, ontap, server
  <2> QED BY <2>1 DEF Loses, UnderWay, Unread
<1>2. ASSUME NEW f \in Frame, f.kind # "noti", WriteFrame(c, f), UNCHANGED <<notified, together>>
      PROVE  Loses
  BY <1>0, <1>2, WriteEffects DEF Loses
<1>3. ASSUME NEW named \in BOOLEAN, Negotiate(c, named) PROVE Loses
  <2>1. Handshake(named) \in Frame /\ Handshake(named).kind # "noti"
    BY DEF Frame, Handshake
  <2> QED BY <1>2, <1>3, <2>1 DEF Negotiate
<1>4. CASE KeepAlive(c) \/ Garble(c)
  <2>1. NoEvent \in Frame /\ NoEvent.kind # "noti" /\ BadFrame \in Frame /\ BadFrame.kind # "noti"
    BY DEF Frame, NoEvent, BadFrame
  <2> QED BY <1>2, <1>4, <2>1 DEF KeepAlive, Garble
<1>5. ASSUME NEW named \in BOOLEAN, Notify(c, named) PROVE \E f : Sends(c, f)
  <2> DEFINE f == Notification(notified + 1, c, named)
  <2>1. told[c] \in Svms
    BY <1>0 DEF TypeOK
  <2>2. f \in Noti /\ f.kind = "noti" /\ f.id = notified + 1 /\ f.conn = c
    BY <1>0, <2>1, SvmTypes DEF Notification, Noti
  <2>3. WriteFrame(c, f)
    BY <1>5 DEF Notify
  <2> HIDE DEF f
  <2>4. f \in Frame
    BY <2>2 DEF Frame
  <2>5. /\ notified' = notified + 1
        /\ together' = together \cup
             {<<g.id, notified + 1>> : g \in UNION {UnderWay(d) : d \in Connections \ {c}}}
    BY <1>5 DEF Notify
  <2>6. Sends(c, f)
    BY <1>0, <2>2, <2>3, <2>4, <2>5, WriteEffects DEF Sends
  <2> QED BY <2>6
<1> QED BY <1>1, <1>3, <1>4, <1>5 DEF Ontap

(* Threads that close their connections lose what was under way on them.    *)
LEMMA CloseEffects ==
  ASSUME TypeOK, UNCHANGED <<notified, emitted, together>>,
         held' \in [Connections -> SUBSET Noti],
         \A d \in Connections : /\ held'[d] \subseteq held[d]
                                /\ socket'[d] = socket[d] \/ socket'[d] = <<>>
  PROVE  Loses
<1> SUFFICES ASSUME NEW d \in Connections PROVE UnderWay(d)' \subseteq UnderWay(d)
  BY DEF Loses
<1>1. ToSet(<<>>) = {}
  BY DEF ToSet
<1> QED BY <1>1 DEF UnderWay, Unread

(* A thread reads, emits or fails, a connection or the task ends.           *)
LEMMA ServerEffects ==
  ASSUME FInv, NEW c \in Connections
  PROVE  /\ ReadFrame(c) \/ FailToEmit(c) \/ EndOfStream(c) \/ Reset(c) \/ StopTask => Loses
         /\ Emit(c) => \E f : Emits(c, f)
<1> USE DEF TypeOK
<1>0. TypeOK
  BY DEF FInv
<1>1. ASSUME Close(c), UNCHANGED <<notified, emitted, together>> PROVE Loses
  BY <1>0, <1>1, CloseEffects DEF Close
<1>2. ASSUME ReadFrame(c) PROVE Loses
  <2>1. UNCHANGED <<notified, emitted, together>> /\ socket[c] # <<>>
    BY <1>2 DEF ReadFrame
  <2>2. CASE Close(c)
    BY <1>1, <2>1, <2>2
  <2>3. CASE ~Close(c)
    <3> PICK f : f = Head(socket[c])
      OBVIOUS
    <3>1. /\ socket' = [socket EXCEPT ![c] = Tail(socket[c])]
          /\ held' = held \/ (f.kind = "noti" /\ held' = [held EXCEPT ![c] = @ \cup {f}])
      BY <1>2, <2>3 DEF ReadFrame, Consume
    <3>2. f \in ToSet(socket[c]) /\ ToSet(socket'[c]) \subseteq ToSet(socket[c])
      <4>1. socket[c] \in Seq(Frame) /\ socket'[c] = Tail(socket[c])
        BY <1>0, <3>1
      <4>2. PICK n \in Nat : Len(socket[c]) = n + 1
        <5>1. Len(socket[c]) - 1 \in Nat /\ Len(socket[c]) = (Len(socket[c]) - 1) + 1
          BY <2>1, <4>1, TailFacts
        <5> QED BY <5>1
      <4>3. /\ DOMAIN socket[c] = 1 .. n + 1 /\ DOMAIN socket'[c] = 1 .. n
            /\ f = socket[c][1] /\ 1 \in 1 .. n + 1
            /\ \A i \in 1 .. n : i + 1 \in 1 .. n + 1 /\ socket'[c][i] = socket[c][i + 1]
        BY <2>1, <4>1, <4>2, TailFacts
      <4>4. 1 \in DOMAIN socket[c] /\ f = socket[c][1]
        BY <4>3
      <4>5. f \in ToSet(socket[c])
        BY <4>4, Zenon DEF ToSet
      <4>6. ToSet(socket'[c]) \subseteq ToSet(socket[c])
        BY <4>3, SMTT(30) DEF ToSet
      <4> QED BY <4>5, <4>6
    <3>3. Unread(c)' \subseteq Unread(c) /\ (f.kind = "noti" => f \in Unread(c))
      BY <3>2 DEF Unread
    <3>4. \A d \in Connections \ {c} : Unread(d)' = Unread(d) /\ held'[d] = held[d]
      BY <1>0, <3>1 DEF Unread
    <3>5. held'[c] = held[c] \/ (f.kind = "noti" /\ held'[c] = held[c] \cup {f})
      BY <1>0, <3>1
    <3> QED BY <2>1, <3>3, <3>4, <3>5 DEF Loses, UnderWay
  <2> QED BY <2>2, <2>3
<1>3. ASSUME FailToEmit(c) PROVE Loses
  <2>1. UNCHANGED <<notified, emitted, together>>
    BY <1>3 DEF FailToEmit
  <2>2. CASE Close(c)
    BY <1>1, <2>1, <2>2
  <2>3. CASE ~Close(c)
    <3>1. held' = [held EXCEPT ![c] = {}] /\ UNCHANGED socket
      BY <1>3, <2>3 DEF FailToEmit, AfterError
    <3> QED BY <1>0, <2>1, <3>1, CloseEffects
  <2> QED BY <2>2, <2>3
<1>4. ASSUME EndOfStream(c) \/ Reset(c) PROVE Loses
  BY <1>1, <1>4 DEF EndOfStream, Reset
<1>5. ASSUME StopTask PROVE Loses
  BY <1>0, <1>5, CloseEffects DEF StopTask
<1>6. ASSUME Emit(c) PROVE \E f : Emits(c, f)
  <2>1. PICK f \in held[c] :
          /\ emitted' = Append(emitted, [id |-> f.id, conn |-> c, svm |-> EventSvm(c, f),
                                         expect |-> f.expect])
          /\ held' = [held EXCEPT ![c] = @ \ {f}]
    BY <1>6 DEF Emit
  <2>2. UNCHANGED <<socket, notified, together>>
    BY <1>6 DEF Emit, ontap
  <2>3. HeldInv(c)
    BY DEF FInv, ConnInv
  <2>4. /\ EventSvm(c, f) = f.expect /\ f.id \in Nat
        /\ \A i \in Frames(c) : IsNoti(c, i) => f.id < socket[c][i].id
    BY <1>0, <2>3, Elements DEF HeldInv
  <2>5. f \in UnderWay(c) /\ f \notin Unread(c)
    <3>1. f \in UnderWay(c)
      BY DEF UnderWay
    <3>2. ASSUME f \in Unread(c) PROVE FALSE
      <4>1. PICK i \in DOMAIN socket[c] : socket[c][i] = f /\ f.kind = "noti"
        BY <3>2 DEF Unread, ToSet
      <4>2. i \in Frames(c)
        <5>1. socket[c] \in Seq(Frame)
          BY <1>0
        <5> QED BY <4>1, <5>1 DEF Frames
      <4>3. f.id < f.id
        BY <2>4, <4>1, <4>2 DEF IsNoti
      <4> QED BY <2>4, <4>3
    <3> QED BY <3>1, <3>2
  <2>6. ASSUME NEW g \in UnderWay(c) PROVE f.id <= g.id
    <3>1. CASE g \in held[c]
      BY <1>0, <2>4, <3>1
    <3>2. CASE g \notin held[c]
      <4>1. PICK i \in Frames(c) : IsNoti(c, i) /\ g = socket[c][i]
        BY <1>0, <3>2, UnderWayFields
      <4> QED BY <1>0, <2>4, <4>1, Elements
    <3> QED BY <3>1, <3>2
  <2>7. /\ held'[c] = held[c] \ {f} /\ \A d \in Connections \ {c} : held'[d] = held[d]
        /\ \A d \in Connections : Unread(d)' = Unread(d)
    BY <1>0, <2>1, <2>2 DEF Unread
  <2>8. \A d \in Connections :
          UnderWay(d)' = IF d = c THEN UnderWay(c) \ {f} ELSE UnderWay(d)
    BY <2>5, <2>7 DEF UnderWay
  <2> QED BY <2>1, <2>2, <2>4, <2>5, <2>6, <2>8 DEF Emits
<1> QED BY <1>2, <1>3, <1>4, <1>5, <1>6

(* Every step is of one of these three kinds.                               *)
LEMMA StepEffects ==
  ASSUME FInv, [Next]_vars
  PROVE  Loses \/ \E c \in Connections : \E f : Sends(c, f) \/ Emits(c, f)
<1>1. CASE UNCHANGED vars
  <2>1. UNCHANGED <<socket, held, notified, emitted, together>>
    BY <1>1 DEF vars, ontap, server
  <2> QED BY <2>1 DEF Loses, UnderWay, Unread
<1>2. CASE StopTask
  <2>1. PICK c \in Connections : thread[c] = "running"
    BY <1>2 DEF StopTask
  <2> QED BY <1>2, <2>1, ServerEffects
<1>3. ASSUME NEW c \in Connections,
             Ontap(c) \/ Serve(c) \/ FailToEmit(c) \/ EndOfStream(c) \/ Reset(c)
      PROVE  Loses \/ \E f : Sends(c, f) \/ Emits(c, f)
  BY <1>3, OntapEffects, ServerEffects DEF Serve
<1> QED BY <1>1, <1>2, <1>3 DEF Next

-----------------------------------------------------------------------------
(* Two notifications are stamped against the order of their operations     *)
(* only if they were under way together.                                   *)

(* Of two that are under way now, the older was when the younger was sent.  *)
ApartInv ==
  \A c, d \in Connections : c # d =>
    \A a \in UnderWay(c), b \in UnderWay(d) :
      a.id # b.id /\ (a.id < b.id => <<a.id, b.id>> \in together)

(* What comes out later is younger, or was under way with what came out.    *)
StampInv ==
  \A k \in 1 .. Len(emitted) :
    /\ emitted[k].id <= notified
    /\ \A c \in Connections \ {emitted[k].conn} : \A g \in UnderWay(c) :
         emitted[k].id < g.id \/ <<g.id, emitted[k].id>> \in together
    /\ \A l \in 1 .. Len(emitted) :
         k < l /\ emitted[k].conn # emitted[l].conn =>
           emitted[k].id < emitted[l].id \/ <<emitted[l].id, emitted[k].id>> \in together

LEMMA SendsTogether ==
  ASSUME FInv, ApartInv, StampInv, NEW c \in Connections, NEW f, Sends(c, f)
  PROVE  (ApartInv /\ StampInv)'
<1>1. /\ f.id = notified + 1 /\ notified \in Nat /\ notified' = notified + 1
      /\ emitted' = emitted /\ together \subseteq together'
      /\ \A d \in Connections \ {c} : \A g \in UnderWay(d) : <<g.id, f.id>> \in together'
      /\ \A d \in Connections : UnderWay(d)' = IF d = c THEN UnderWay(c) \cup {f} ELSE UnderWay(d)
  BY Elements DEF Sends, FInv
<1>2. \A d \in Connections : \A g \in UnderWay(d) : g.id \in Nat /\ g.id <= notified
  BY UnderWaySent
<1>3. ApartInv'
  <2> SUFFICES ASSUME NEW d \in Connections, NEW e \in Connections, d # e,
                      NEW a \in UnderWay(d)', NEW b \in UnderWay(e)'
               PROVE  a.id # b.id /\ (a.id < b.id => <<a.id, b.id>> \in together')
    BY DEF ApartInv
  <2>1. CASE a \in UnderWay(d) /\ b \in UnderWay(e)
    BY <2>1, <1>1 DEF ApartInv
  <2>2. CASE a \notin UnderWay(d)
    <3>1. d = c /\ a = f /\ b \in UnderWay(e)
      BY <2>2, <1>1
    <3> QED BY <3>1, <1>1, <1>2
  <2>3. CASE b \notin UnderWay(e)
    <3>1. e = c /\ b = f /\ a \in UnderWay(d)
      BY <2>3, <1>1
    <3> QED BY <3>1, <1>1, <1>2
  <2> QED BY <2>1, <2>2, <2>3
<1>4. StampInv'
  <2> SUFFICES ASSUME NEW k \in 1 .. Len(emitted)
               PROVE  /\ emitted[k].id <= notified'
                      /\ \A d \in Connections \ {emitted[k].conn} : \A g \in UnderWay(d)' :
                           emitted[k].id < g.id \/ <<g.id, emitted[k].id>> \in together'
                      /\ \A l \in 1 .. Len(emitted) :
                           k < l /\ emitted[k].conn # emitted[l].conn =>
                             \/ emitted[k].id < emitted[l].id
                             \/ <<emitted[l].id, emitted[k].id>> \in together'
    BY <1>1 DEF StampInv
  <2>1. emitted[k].id \in Nat /\ emitted[k].id <= notified
    BY Elements DEF FInv, StampInv
  <2>2. ASSUME NEW d \in Connections \ {emitted[k].conn}, NEW g \in UnderWay(d)'
        PROVE  emitted[k].id < g.id \/ <<g.id, emitted[k].id>> \in together'
    <3>1. CASE g \in UnderWay(d)
      BY <3>1, <1>1 DEF StampInv
    <3>2. CASE g \notin UnderWay(d)
      <4>1. g = f
        BY <3>2, <1>1
      <4> QED BY <4>1, <2>1, <1>1
    <3> QED BY <3>1, <3>2
  <2> QED BY <2>1, <2>2, <1>1 DEF StampInv
<1> QED BY <1>3, <1>4

LEMMA EmitsTogether ==
  ASSUME FInv, ApartInv, StampInv, NEW c \in Connections, NEW f, Emits(c, f)
  PROVE  (ApartInv /\ StampInv)'
<1>1. /\ f \in UnderWay(c) /\ f.id \in Nat /\ f.id <= notified
      /\ UNCHANGED <<notified, together>>
      /\ \A d \in Connections : UnderWay(d)' \subseteq UnderWay(d)
  BY UnderWaySent DEF Emits
<1>2. PICK m \in Nat :
        /\ Len(emitted) = m /\ Len(emitted') = m + 1
        /\ \A k \in 1 .. m : emitted'[k] = emitted[k]
        /\ emitted'[m + 1].id = f.id /\ emitted'[m + 1].conn = c
  <2>1. emitted \in Seq(Event)
    BY DEF FInv, TypeOK
  <2> QED BY <2>1 DEF Emits
<1>3. ApartInv'
  BY <1>1 DEF ApartInv
<1>4. StampInv'
  <2> SUFFICES ASSUME NEW k \in 1 .. m + 1
               PROVE  /\ emitted'[k].id <= notified
                      /\ \A d \in Connections \ {emitted'[k].conn} : \A g \in UnderWay(d)' :
                           emitted'[k].id < g.id \/ <<g.id, emitted'[k].id>> \in together
                      /\ \A l \in 1 .. m + 1 :
                           k < l /\ emitted'[k].conn # emitted'[l].conn =>
                             \/ emitted'[k].id < emitted'[l].id
                             \/ <<emitted'[l].id, emitted'[k].id>> \in together
    BY <1>1, <1>2 DEF StampInv
  <2>1. CASE k = m + 1
    <3>1. emitted'[k].id = f.id /\ emitted'[k].conn = c /\ \A l \in 1 .. m + 1 : ~(k < l)
      BY <2>1, <1>2
    <3>2. ASSUME NEW d \in Connections \ {c}, NEW g \in UnderWay(d)'
          PROVE  f.id < g.id \/ <<g.id, f.id>> \in together
      <4>1. g \in UnderWay(d) /\ g.id \in Nat
        BY <1>1, UnderWaySent
      <4>2. f.id # g.id /\ (g.id < f.id => <<g.id, f.id>> \in together)
        BY <4>1, <1>1 DEF ApartInv
      <4> QED BY <4>1, <4>2, <1>1
    <3> QED BY <3>1, <3>2, <1>1
  <2>2. CASE k # m + 1
    <3>1. k \in 1 .. m /\ k \in 1 .. Len(emitted) /\ emitted'[k] = emitted[k]
      BY <2>2, <1>2
    <3>2. ASSUME NEW l \in 1 .. m + 1, k < l, emitted[k].conn # emitted'[l].conn
          PROVE  emitted[k].id < emitted'[l].id \/ <<emitted'[l].id, emitted[k].id>> \in together
      <4>1. CASE l = m + 1
        <5>1. emitted'[l].id = f.id /\ emitted[k].conn # c
          BY <4>1, <3>2, <1>2
        <5> QED BY <5>1, <3>1, <1>1 DEF StampInv
      <4>2. CASE l # m + 1
        <5>1. l \in 1 .. Len(emitted) /\ emitted'[l] = emitted[l]
          BY <4>2, <1>2
        <5> QED BY <5>1, <3>1, <3>2 DEF StampInv
      <4> QED BY <4>1, <4>2
    <3> QED BY <3>1, <3>2, <1>1 DEF StampInv
  <2> QED BY <2>1, <2>2
<1> QED BY <1>3, <1>4

(* Whatever breaks, fails or queues up, the stamps of two events follow the *)
(* order of their operations unless the operations were under way at the   *)
(* same time on two connections (fpolicy_server.py:318-328).               *)
THEOREM StampsFollowOperations == Spec => []InvertedOnlyIfTogether
<1>1. Init => ApartInv /\ StampInv
  <2> SUFFICES ASSUME Init PROVE ApartInv /\ StampInv
    OBVIOUS
  <2>1. \A c \in Connections : UnderWay(c) = {}
    BY DEF Init, UnderWay, Unread, ToSet
  <2>2. Len(emitted) = 0
    BY DEF Init
  <2> QED BY <2>1, <2>2 DEF ApartInv, StampInv
<1>2. FInv /\ ApartInv /\ StampInv /\ [Next]_vars => (ApartInv /\ StampInv)'
  <2> SUFFICES ASSUME FInv, ApartInv, StampInv, [Next]_vars PROVE (ApartInv /\ StampInv)'
    OBVIOUS
  <2>1. CASE Loses
    BY <2>1 DEF Loses, ApartInv, StampInv
  <2> QED BY <2>1, StepEffects, SendsTogether, EmitsTogether
<1>3. FInv /\ StampInv => InvertedOnlyIfTogether
  <2> SUFFICES ASSUME FInv, StampInv PROVE InvertedOnlyIfTogether
    OBVIOUS
  <2>1. DOMAIN emitted = 1 .. Len(emitted)
    BY DEF FInv, TypeOK
  <2> QED BY <2>1 DEF FInv, EmittedInv, StampInv, InvertedOnlyIfTogether
<1> QED BY <1>1, <1>2, <1>3, ServerInvariance, PTL DEF Spec

-----------------------------------------------------------------------------
(* The server implements OrderedLanes.                                     *)

MessageOf(c, g) == [id |-> g.id, conn |-> c, svm |-> g.expect]

LaneOf(c) == {MessageOf(c, g) : g \in UnderWay(c)}

LanesOf == [c \in Connections |-> LaneOf(c)]

OutOf == [k \in DOMAIN emitted |->
            [id |-> emitted[k].id, conn |-> emitted[k].conn, svm |-> emitted[k].svm]]

(* Numbers tell the notifications under way on a connection apart.          *)
LEMMA DistinctNumbers ==
  ASSUME FInv, NEW c \in Connections, NEW f \in UnderWay(c), NEW g \in UnderWay(c), f.id = g.id
  PROVE  f = g
<1>1. TypeOK /\ HeldInv(c) /\ OrderInv(c)
  BY DEF FInv, ConnInv
<1>2. \A h \in UnderWay(c) : h.id \in Nat
  BY UnderWaySent
<1>3. CASE f \in held[c] /\ g \in held[c]
  BY <1>1, <1>3 DEF TypeOK
<1>4. ASSUME NEW a \in UnderWay(c), NEW b \in UnderWay(c), a \in held[c], b \notin held[c]
      PROVE  a.id # b.id
  <2>1. PICK i \in Frames(c) : IsNoti(c, i) /\ b = socket[c][i]
    BY <1>1, <1>4, UnderWayFields
  <2> QED BY <1>1, <1>2, <1>4, <2>1 DEF HeldInv
<1>5. CASE f \notin held[c] /\ g \notin held[c]
  <2>1. PICK i \in Frames(c) : IsNoti(c, i) /\ f = socket[c][i]
    BY <1>1, <1>5, UnderWayFields
  <2>2. PICK j \in Frames(c) : IsNoti(c, j) /\ g = socket[c][j]
    BY <1>1, <1>5, UnderWayFields
  <2>3. i \in Nat /\ j \in Nat
    BY DEF Frames
  <2>4. ~(i < j) /\ ~(j < i)
    BY <1>1, <1>2, <2>1, <2>2 DEF OrderInv
  <2> QED BY <2>1, <2>2, <2>3, <2>4
<1> QED BY <1>3, <1>4, <1>5

LEMMA SendsRefines ==
  ASSUME FInv, NEW c \in Connections, NEW f, Sends(c, f)
  PROVE  \E name \in Svms : Promise!Send(c, name)
<1>1. f.expect \in Svms
  BY NotiFields DEF Sends
<1>2. LanesOf' = [LanesOf EXCEPT ![c] = @ \cup {MessageOf(c, f)}]
  BY DEF Sends, LanesOf, LaneOf
<1>3. MessageOf(c, f) = [id |-> notified + 1, conn |-> c, svm |-> f.expect]
  BY DEF Sends, MessageOf
<1>4. OutOf' = OutOf
  BY DEF Sends, OutOf
<1>5. notified' = notified + 1
  BY DEF Sends
<1>6. Promise!Send(c, f.expect)
  BY <1>2, <1>3, <1>4, <1>5 DEF Promise!Send, LanesOf, LaneOf, MessageOf, OutOf
<1> QED BY <1>1, <1>6

LEMMA EmitsRefines ==
  ASSUME FInv, FInv', NEW c \in Connections, NEW f, Emits(c, f)
  PROVE  Promise!Deliver(c)
<1> DEFINE m == MessageOf(c, f)
<1>1. /\ m \in LanesOf[c]
      /\ \A other \in LanesOf[c] : m.id <= other.id
  BY DEF Emits, LanesOf, LaneOf, MessageOf
<1>2. LanesOf' = [LanesOf EXCEPT ![c] = @ \ {m}]
  <2>1. LaneOf(c)' = LaneOf(c) \ {m}
    <3>1. UnderWay(c)' = UnderWay(c) \ {f} /\ f \in UnderWay(c)
      BY DEF Emits
    <3>2. \A g \in UnderWay(c) : MessageOf(c, g) = m => g = f
      <4>1. \A g \in UnderWay(c) : MessageOf(c, g) = m => g.id = f.id
        BY DEF MessageOf
      <4> QED BY <4>1, <3>1, DistinctNumbers
    <3> QED BY <3>1, <3>2 DEF LaneOf
  <2>2. \A d \in Connections \ {c} : LaneOf(d)' = LaneOf(d)
    BY DEF Emits, LaneOf
  <2> QED BY <2>1, <2>2 DEF LanesOf
<1>3. OutOf' = Append(OutOf, m)
  <2>1. PICK n \in Nat :
          /\ DOMAIN emitted = 1 .. n /\ DOMAIN emitted' = 1 .. n + 1
          /\ \A k \in 1 .. n : emitted'[k] = emitted[k]
          /\ emitted'[n + 1].id = f.id /\ emitted'[n + 1].conn = c
          /\ emitted'[n + 1].svm = f.expect
    <3>1. emitted \in Seq(Event)
      BY DEF FInv, TypeOK
    <3> QED BY <3>1 DEF Emits
  <2>2. OutOf = [k \in 1 .. n |->
                   [id |-> emitted[k].id, conn |-> emitted[k].conn, svm |-> emitted[k].svm]]
    BY <2>1 DEF OutOf
  <2>3. OutOf' = [k \in 1 .. n + 1 |->
                    [id |-> emitted'[k].id, conn |-> emitted'[k].conn, svm |-> emitted'[k].svm]]
    BY <2>1 DEF OutOf
  <2>4. OutOf'[n + 1] = m /\ \A k \in 1 .. n : OutOf'[k] = OutOf[k]
    BY <2>1, <2>2, <2>3 DEF MessageOf
  <2>5. OutOf \in Seq(Promise!Message) /\ OutOf' \in Seq(Promise!Message) /\ m \in Promise!Message
    <3>1. \A e \in Event : [id |-> e.id, conn |-> e.conn, svm |-> e.svm] \in Promise!Message
      BY DEF Event, Promise!Message
    <3>2. /\ \A k \in 1 .. n : emitted[k] \in Event
          /\ \A k \in 1 .. n + 1 : emitted'[k] \in Event
      BY <2>1 DEF FInv, TypeOK
    <3>3. OutOf \in [1 .. n -> Promise!Message] /\ OutOf' \in [1 .. n + 1 -> Promise!Message]
      BY <2>2, <2>3, <3>1, <3>2
    <3>4. OutOf \in Seq(Promise!Message) /\ OutOf' \in Seq(Promise!Message)
      BY <3>3
    <3>5. OutOf'[n + 1] \in Promise!Message
      BY <3>3
    <3> QED BY <2>4, <3>4, <3>5
  <2>6. Len(OutOf) = n /\ Len(OutOf') = n + 1
    BY <2>2, <2>3
  <2> HIDE DEF m
  <2> QED BY <2>4, <2>5, <2>6, AppendEqual
<1>4. notified' = notified
  BY DEF Emits
<1> QED BY <1>1, <1>2, <1>3, <1>4 DEF Promise!Deliver, LanesOf, LaneOf, MessageOf, OutOf

LEMMA LosesRefines ==
  ASSUME FInv, FInv', Loses
  PROVE  Promise!Lose
<1>1. LanesOf' \in [Connections -> SUBSET Promise!Message]
  <2>1. ASSUME NEW d \in Connections, NEW g \in UnderWay(d)'
        PROVE  MessageOf(d, g) \in Promise!Message
    <3>1. g \in UnderWay(d) /\ TypeOK
      BY DEF Loses, FInv
    <3>2. g.id \in Nat \ {0} /\ g.expect \in Svms
      BY <3>1, UnderWayFields
    <3> QED BY <3>2 DEF MessageOf, Promise!Message
  <2> QED BY <2>1 DEF LanesOf, LaneOf, MessageOf
<1>2. \A d \in Connections : LanesOf'[d] \subseteq LanesOf[d]
  BY DEF Loses, LanesOf, LaneOf
<1>3. notified' = notified /\ OutOf' = OutOf
  BY DEF Loses, OutOf
<1> QED BY <1>1, <1>2, <1>3 DEF Promise!Lose, LanesOf, LaneOf, MessageOf, OutOf

(* Per connection the server loses events but neither reorders nor repeats  *)
(* them, and each carries the SVM that ONTAP had named, whatever fails: it *)
(* implements the specification OrderedLanes.                              *)
THEOREM ServerImplementsLanes == Spec => ImplementsLanes
<1>1. Init => Promise!Init
  <2> SUFFICES ASSUME Init PROVE Promise!Init
    OBVIOUS
  <2>1. \A c \in Connections : UnderWay(c) = {}
    BY DEF Init, UnderWay, Unread, ToSet
  <2>2. LanesOf = [c \in Connections |-> {}]
    BY <2>1 DEF LanesOf, LaneOf
  <2>3. OutOf = <<>>
    BY DEF Init, OutOf
  <2>4. notified = 0
    BY DEF Init
  <2> QED BY <2>2, <2>3, <2>4 DEF Promise!Init, LanesOf, LaneOf, MessageOf, OutOf
<1>2. FInv /\ FInv' /\ [Next]_vars => [Promise!Next]_(Promise!vars)
  <2> SUFFICES ASSUME FInv, FInv', [Next]_vars PROVE Promise!Next
    OBVIOUS
  <2> QED BY StepEffects, LosesRefines, SendsRefines, EmitsRefines DEF Promise!Next
<1> QED BY <1>1, <1>2, ServerInvariance, PTL DEF Spec, ImplementsLanes, Promise!Spec
=============================================================================
