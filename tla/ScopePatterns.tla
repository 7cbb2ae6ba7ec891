--------------------------- MODULE ScopePatterns ---------------------------
(***************************************************************************)
(* The scopes of planner tokens (internal/relay/auth.go). A scope is a     *)
(* pair such as <<"steps", "write">>; a token holds patterns: scopes,      *)
(* families <<"steps", "*">> and the pattern for everything.               *)
(***************************************************************************)

Wild == "*"

\* A route that is open to every authenticated planner asks for no scope.
NoScope == <<>>

\* scopeAllowed: a scope matches itself, its family, or anything.
scopeAllowed(patterns, scope) ==
  scope # NoScope =>
    \E p \in patterns : p \in {scope, <<scope[1], Wild>>, <<Wild, Wild>>}
=============================================================================
