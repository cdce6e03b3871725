----------------------------- MODULE LatestWins -----------------------------
(***************************************************************************)
(* What the catalogue promises its readers while news is still on its way: *)
(* of each file they see something that was really reported of it, and     *)
(* what they see is only ever replaced by something more recent.  News may *)
(* arrive in any order, several at a time, more than once or never.        *)
(***************************************************************************)
EXTENDS Integers

CONSTANTS Files, Times

VARIABLES
  news,    \* what was reported of each file so far, and when
  shown    \* what readers see of each file

vars == <<news, shown>>

Report == [at : Times, there : BOOLEAN]

Nothing == [at |-> 0, there |-> FALSE]

Init ==
  /\ news = [f \in Files |-> {}]
  /\ shown = [f \in Files |-> Nothing]

(* Readers come to see some of the news.                                   *)
Learn ==
  /\ UNCHANGED news
  /\ shown' \in [Files -> Report \cup {Nothing}]
  /\ \A f \in Files :
       shown'[f] = shown[f] \/ shown'[f] \in {r \in news[f] : r.at > shown[f].at}

(* Something happens to some files, after all that was reported of them.    *)
Announce(t) ==
  /\ UNCHANGED shown
  /\ news' \in [Files -> SUBSET Report]
  /\ \A f \in Files :
       \/ news'[f] = news[f]
       \/ /\ \A r \in news[f] : r.at < t
          /\ \E there \in BOOLEAN : news'[f] = news[f] \cup {[at |-> t, there |-> there]}

Next == Learn \/ \E t \in Times : Announce(t)

Spec == Init /\ [][Next]_vars
=============================================================================
