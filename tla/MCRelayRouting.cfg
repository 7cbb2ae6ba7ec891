CONSTANTS
  c1 = c1
  c2 = c2
  i1 = i1
  i2 = i2
  operator = operator
  reader = reader
  x1 = x1
  Connectors = {c1, c2}
  Instances = {i1, i2}
  Projects = {p1}
  Resources = {x1}
  Principals = {operator, reader}
  Requests = {r1, r2}
  None = None
  Shareable <- MCShareable
  Kind <- MCKind
  Grants <- MCGrants
  Offered = {"submit_task", "retry_step", "get_step", "submit_project_task"}
  MaxChanges = 3
SPECIFICATION Spec
INVARIANTS SentWithinGrant ReachesHolder 
SYMMETRY Interchangeable
