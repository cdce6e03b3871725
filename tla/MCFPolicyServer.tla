-------------------------- MODULE MCFPolicyServer --------------------------
(* Small instances of FPolicyServer.  Every connection has an SVM of its   *)
(* own, for which the connection itself stands.                            *)
EXTENDS FPolicyServer

MCSvmOf == [c \in Connections |-> c]
=============================================================================
