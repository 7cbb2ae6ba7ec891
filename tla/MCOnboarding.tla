----------------------------- MODULE MCOnboarding -----------------------------
(***************************************************************************)
(* Two machines of one person.                                             *)
(***************************************************************************)
EXTENDS Onboarding, TLC

CONSTANTS m1, m2

MCMachines == {m1, m2}
MCEmailOf == (m1 :> "ada") @@ (m2 :> "ada")

MCBudget(c, a, t, b, s, k, x, g) ==
  [codes |-> c, approvals |-> a, tokens |-> t, bindings |-> b, secrets |-> s,
   connectors |-> k, challenges |-> x, toggles |-> g]

\* Logins of one person at a time; a secret that two machines have; two
\* machines that are bound; connectors that open their sessions.
MCBudgets ==
  {MCBudget(2, 2, 2, 0, 0, 0, 0, 1), MCBudget(1, 1, 1, 1, 1, 2, 0, 0),
   MCBudget(2, 1, 2, 2, 1, 2, 0, 0), MCBudget(0, 0, 0, 0, 0, 2, 2, 1)}

\* Machines, approvals and sockets are alike.
MCSymmetry ==
  Permutations(Machines) \cup Permutations(Approvals) \cup Permutations(Sockets)
=============================================================================
