-------------------------- MODULE MCMcpEndpoints ---------------------------
(* An instance of McpEndpoints for TLC. *)
EXTENDS McpEndpoints

CONSTANTS p1, a1

MCScopes == {<<"steps", "read">>, <<"steps", "write">>}
MCGranted == [p \in {p1} |-> {<<"steps", Wild>>}]
MCAllowedScopes == {<<"steps", "read">>}
MCStoreScopes == [a \in {a1} |-> {<<"steps", "read">>}]
=============================================================================
