----------------------------- MODULE RemoteCall -----------------------------
(***************************************************************************)
(* What a planner may assume of one call through the relay: the daemon     *)
(* handles a call at most once, a call that is answered is answered with    *)
(* what became of it, and a call that fails says nothing: the daemon may   *)
(* handle it later still.                                                   *)
(***************************************************************************)
CONSTANT Calls

VARIABLES
  handled,  \* handled[r]: what the connector did with call r
  result    \* result[r]: what the planner was told

vars == <<handled, result>>

Init == /\ handled = [r \in Calls |-> "no"]
        /\ result = [r \in Calls |-> "idle"]

Call(r) == /\ result[r] = "idle"
           /\ result' = [result EXCEPT ![r] = "open"]
           /\ UNCHANGED handled

Handle(r) == /\ result[r] # "idle"
             /\ handled[r] = "no"
             /\ \E how \in {"ran", "refused"} :
                  handled' = [handled EXCEPT ![r] = how]
             /\ UNCHANGED result

Answer(r) == /\ result[r] = "open"
             /\ handled[r] # "no"
             /\ result' = [result EXCEPT ![r] = handled[r]]
             /\ UNCHANGED handled

Fail(r) == /\ result[r] \in {"idle", "open"}
           /\ result' = [result EXCEPT ![r] = "failed"]
           /\ UNCHANGED handled

Next == \E r \in Calls : Call(r) \/ Handle(r) \/ Answer(r) \/ Fail(r)

Spec == Init /\ [][Next]_vars
=============================================================================
