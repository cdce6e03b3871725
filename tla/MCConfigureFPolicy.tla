-------------------------- MODULE MCConfigureFPolicy --------------------------
(***************************************************************************)
(* ConfigureFPolicy on small instances.                                    *)
(***************************************************************************)
EXTENDS ConfigureFPolicy, TLC

CONSTANTS t1, t2, i1, i2

TwoTasks == {t1, t2}
TwoInvocations == {i1, i2}

Symmetric == Permutations(TwoTasks) \cup Permutations(TwoInvocations)
=============================================================================
