----------------------------- MODULE MCRelayHub -----------------------------
(* Instances of RelayHub for TLC. *)
EXTENDS RelayHub, TLC

CONSTANTS c1, i1, l1, l2, q1, q2

\* One connector with an instance to share.
oneConnector == c1 :> {i1}

\* A request for the instance, and one for a project of the connector.
oneTarget == q1 :> i1
twoTargets == q1 :> i1 @@ q2 :> c1

Interchangeable == Permutations(Links)
=============================================================================
