----------------------------- MODULE MCCatalogue -----------------------------
(***************************************************************************)
(* Catalogue on small instances.                                           *)
(***************************************************************************)
EXTENDS Catalogue

CONSTANTS f1, f2, scanned1, x1

MCFiles == {f1, f2}
MCExecutions == {x1}
MCOrder == [f \in MCFiles |-> IF f = f1 THEN 1 ELSE 2]

(* The keys of the access point are the paths of the events.               *)
SameIds == MCFiles
SameScannedAs == [f \in MCFiles |-> f]
SameKind == [f \in MCFiles |-> IF f = f1 THEN "readable" ELSE "other"]

(* The paths of the events begin with a slash, the keys do not.            *)
OneFile == {f1}
SlashIds == {f1, scanned1}
SlashScannedAs == [f \in OneFile |-> scanned1]
SlashKind == [id \in SlashIds |-> "media"]
OneOrder == [f \in OneFile |-> 1]
=============================================================================
