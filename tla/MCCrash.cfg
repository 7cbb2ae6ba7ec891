CONSTANTS
  Runs = {r1}
  Steps = {s1}
  Dispatches = {d1}
  Clients = {}
  None = None
  NoOwner = NoOwner
  RunOf <- oneRun
  MaxAttempts = 3
  Policy <- DefaultPolicy
  AdapterResults = {"completed", "failed_terminal", "needs_approval"}
  Routable = {s1}
  Validated = {s1}
  Ops = {}
  Pacing = "goroutine"
  MaxCrashes = 1
SPECIFICATION FairSpec
 
PROPERTIES
  SweepFreesLock
  SweepSettlesRunning
  
CHECK_DEADLOCK FALSE
