CONSTANTS
  Runs = {r1, r2}
  Steps = {s1, s2}
  Dispatches = {d1, d2}
  Clients = {c1}
  None = None
  NoOwner = NoOwner
  RunOf <- runEach
  MaxAttempts = 1
  Policy <- DefaultPolicy
  AdapterResults = {"completed", "needs_approval"}
  Routable = {s1}
  Validated = {s2}
  Ops = {"abort", "gate", "retry", "recover", "resume", "disconnect"}
  Pacing = "none"
  MaxCrashes = 0
SPECIFICATION Spec
SYMMETRY Interchangeable
INVARIANTS
  TypeOK
  WorkspaceExclusive
  LockReleased
 
CHECK_DEADLOCK FALSE
