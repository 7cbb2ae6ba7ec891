--------------------------- MODULE WorkspaceMutex ---------------------------
(***************************************************************************)
(* What the workspace lock of internal/workspace/locks.go promises: of its *)
(* users at most one is inside at any time.  A crash of the process puts   *)
(* everyone outside; that the lock file then stays behind only means that  *)
(* nobody enters until it is removed.                                      *)
(***************************************************************************)
CONSTANT Users

VARIABLE inside   \* the users between AcquireLock and Release

Init == inside = {}

AcquireLock(u) == inside = {} /\ inside' = {u}

Release == inside # {} /\ inside' = {}

Next == (\E u \in Users : AcquireLock(u)) \/ Release

Spec == Init /\ [][Next]_inside
=============================================================================
