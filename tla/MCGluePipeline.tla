---------------------------- MODULE MCGluePipeline ----------------------------
(***************************************************************************)
(* GluePipeline on a small instance: two files of transactions and two of  *)
(* customers, each table in a folder of its own.                           *)
(***************************************************************************)
EXTENDS GluePipeline, TLC

CONSTANTS t1, t2, c1, c2, p1, p2, march, customers

TwoTransactions == {t1, t2}
TwoCustomers == {c1, c2}
NoEvents == {}
FourFiles == TwoTransactions \cup TwoCustomers
TwoFolders == {march, customers}
ByFolder == [f \in FourFiles |-> IF f \in TwoTransactions THEN march ELSE customers]
TwoPipelines == {p1, p2}

Symmetric ==
  Permutations(TwoPipelines) \cup Permutations(TwoCustomers) \cup Permutations(TwoTransactions)
=============================================================================
