---------------------------- MODULE OrderedLanes ----------------------------
(***************************************************************************)
(* What a server of several connections promises of the events it makes,   *)
(* whatever happens inside it: every connection is a lane of its own, in   *)
(* which messages may be lost at any point, one or many at a time, but are *)
(* neither overtaken nor repeated, and come out under the name they were   *)
(* sent with.  Lanes are merged in any order.                              *)
(***************************************************************************)
EXTENDS Integers, Sequences

CONSTANTS Lanes, Names

VARIABLES
  sent,   \* number of messages so far; each has a number
  lane,   \* messages under way in each lane
  out     \* messages that came out, in order

vars == <<sent, lane, out>>

Message == [id : Nat \ {0}, conn : Lanes, svm : Names]

Init ==
  /\ sent = 0
  /\ lane = [l \in Lanes |-> {}]
  /\ out = <<>>

Send(l, name) ==
  /\ sent' = sent + 1
  /\ lane' = [lane EXCEPT ![l] = @ \cup {[id |-> sent + 1, conn |-> l, svm |-> name]}]
  /\ UNCHANGED out

(* The oldest message of a lane is the next to come out of it.             *)
Deliver(l) ==
  /\ \E m \in lane[l] :
       /\ \A other \in lane[l] : m.id <= other.id
       /\ out' = Append(out, m)
       /\ lane' = [lane EXCEPT ![l] = @ \ {m}]
  /\ UNCHANGED sent

Lose ==
  /\ lane' \in [Lanes -> SUBSET Message]
  /\ \A l \in Lanes : lane'[l] \subseteq lane[l]
  /\ UNCHANGED <<sent, out>>

Next ==
  \/ \E l \in Lanes : Deliver(l) \/ \E name \in Names : Send(l, name)
  \/ Lose

Spec == Init /\ [][Next]_vars
=============================================================================
