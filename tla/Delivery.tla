------------------------------ MODULE Delivery ------------------------------
(***************************************************************************)
(* What a function behind a queue promises, whatever happens inside it: a  *)
(* message takes effect only while the queue still has it, and one that    *)
(* owes an effect is not acknowledged before it took it.  A message may    *)
(* also be given up, or be delivered again after it was acknowledged.      *)
(***************************************************************************)
CONSTANT Messages

VARIABLES
  status,    \* "unsent", "waiting", "acknowledged" or "dead"
  owes,      \* sent messages that must take effect
  effects    \* messages that took effect

vars == <<status, owes, effects>>

Waiting == {m \in Messages : status[m] = "waiting"}

Init ==
  /\ status = [m \in Messages |-> "unsent"]
  /\ owes = {}
  /\ effects = {}

Send(m) ==
  /\ status[m] = "unsent"
  /\ status' = [status EXCEPT ![m] = "waiting"]
  /\ owes' \in {owes, owes \cup {m}}
  /\ UNCHANGED effects

TakeEffect(some) ==
  /\ effects' = effects \cup some
  /\ UNCHANGED <<status, owes>>

Settle(acked, dead) ==
  /\ acked \cap owes \subseteq effects
  /\ status' = [m \in Messages |-> IF m \in acked THEN "acknowledged"
                                   ELSE IF m \in dead THEN "dead"
                                   ELSE status[m]]
  /\ UNCHANGED <<owes, effects>>

SendAgain(m) ==
  /\ status[m] = "acknowledged"
  /\ status' = [status EXCEPT ![m] = "waiting"]
  /\ UNCHANGED <<owes, effects>>

Next ==
  \/ \E m \in Messages : Send(m) \/ SendAgain(m)
  \/ \E some \in SUBSET Waiting : TakeEffect(some)
  \/ \E acked, dead \in SUBSET Waiting : Settle(acked, dead)

Spec == Init /\ [][Next]_vars
=============================================================================
