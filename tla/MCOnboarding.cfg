CONSTANTS
  None = None
  m1 = m1
  m2 = m2
  Machines <- MCMachines
  EmailOf <- MCEmailOf
  Approvals = {a1, a2}
  Sockets = {k1, k2}
  Profiles = {"default", "own"}
  Budgets <- MCBudgets
SPECIFICATION Spec
INVARIANTS TokenReachesRelay OneConnectorPerToken ChallengeAdmitsOnce BindingNamesItsConnector
SYMMETRY MCSymmetry
CHECK_DEADLOCK FALSE
