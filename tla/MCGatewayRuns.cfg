CONSTANTS
  None = None
  near = near
  far = far
  p1 = p1
  p2 = p2
  Places <- MCPlaces
  Relays = {near}
  RelayOf <- MCOneRelay
  Selectors <- MCSelectors
  RunIds = {r1}
  Records = {k1, k2}
  Handlers = {h1, h2}
  Ends = {"paused", "completed"}
  Follows = "record"
  MaxCalls = 2
SPECIFICATION Spec
INVARIANTS  OutcomeIsAudited SubmissionSettles
SYMMETRY MCSymmetry
CHECK_DEADLOCK FALSE
