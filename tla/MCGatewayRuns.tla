---------------------------- MODULE MCGatewayRuns ----------------------------
(***************************************************************************)
(* Two places of a project: behind one relay, or one behind each of two.   *)
(***************************************************************************)
EXTENDS GatewayRuns

CONSTANTS near, far, p1, p2

MCPlaces == {p1, p2}
MCOneRelay == (p1 :> near) @@ (p2 :> near)
MCTwoRelays == (p1 :> near) @@ (p2 :> far)

\* Submissions that name the machine.
MCSelectors == {[relay |-> near, place |-> p1]}

\* Rows and handlers are alike.
MCSymmetry == Permutations(Records) \cup Permutations(Handlers)

\* Submissions that name nothing.
MCNoSelector == {[relay |-> None, place |-> None]}
=============================================================================
