--------------------------- MODULE MCRelayRouting ---------------------------
(* Instances of RelayRouting for TLC: one planner may do everything on every *)
(* instance, the other only reads, and only on one of them.                  *)
EXTENDS RelayRouting, TLC

CONSTANTS c1, c2, i1, i2, operator, reader, x1

MCGrants ==
  [who \in {operator, reader} |->
     IF who = operator
     THEN [scopes |-> {<<Wild, Wild>>}, instances |-> {}, projects |-> {}]
     ELSE [scopes |-> {<<"steps", "read">>, <<"projects", Wild>>},
           instances |-> {i1}, projects |-> {}]]

MCShareable == [c \in {c1, c2} |-> IF c = c1 THEN {i1} ELSE {i2}]

MCKind == [x \in {x1} |-> "step"]

Interchangeable == Permutations(Requests)
=============================================================================
