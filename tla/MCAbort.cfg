CONSTANTS
  Runs = {r1}
  Steps = {s1, s2}
  Dispatches = {d1, d2}
  Clients = {c1}
  None = None
  NoOwner = NoOwner
  RunOf <- oneRun
  MaxAttempts = 2
  Policy <- DefaultPolicy
  AdapterResults = {"completed"}
  Routable = {s1, s2}
  Validated = {}
  Ops = {"abort"}
  Pacing = "goroutine"
  MaxCrashes = 0
SPECIFICATION Spec
SYMMETRY Interchangeable
INVARIANTS
  CompletedWasAttempted
  AbortIsFinal
CHECK_DEADLOCK FALSE
