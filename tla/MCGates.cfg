CONSTANTS
  Runs = {r1}
  Steps = {s1, s2}
  Dispatches = {d1, d2}
  Clients = {c1, c2}
  None = None
  NoOwner = NoOwner
  RunOf <- oneRun
  MaxAttempts = 2
  Policy <- DefaultPolicy
  AdapterResults = {"completed", "completed_with_warnings", "failed_terminal"}
  Routable = {s1, s2}
  Validated = {s1}
  Ops = {"gate"}
  Pacing = "goroutine"
  MaxCrashes = 0
SPECIFICATION Spec
SYMMETRY Interchangeable
INVARIANTS
  GatePairing
  GateHonoured
  RunAgrees
CHECK_DEADLOCK FALSE
