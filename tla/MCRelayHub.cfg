CONSTANTS
  c1 = c1
  i1 = i1
  l1 = l1
  l2 = l2
  q1 = q1
  q2 = q2
  Connectors = {c1}
  Instances = {i1}
  Links = {l1, l2}
  Requests = {q1, q2}
  None = None
  Shareable <- oneConnector
  Target <- twoTargets
  MaxQueue = 2
  MaxEvents = 1
SPECIFICATION Spec
SYMMETRY Interchangeable
INVARIANTS
  RoutedSessionIsOpen
  DeliveryNeverBlocks
PROPERTY ImplementsRemoteCall
CHECK_DEADLOCK FALSE
