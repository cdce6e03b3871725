-------------------------- MODULE MCSnowpipePoller --------------------------
(* Instances of SnowpipePoller for TLC.                                    *)
EXTENDS SnowpipePoller, TLC

InvocationSymmetry == Permutations(Invocations)
=============================================================================
