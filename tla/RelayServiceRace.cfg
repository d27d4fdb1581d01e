\* nginx dies while a request is executed.
CONSTANTS
  None = None
  Missing = Missing
  Proc = {p1, p2}
  OpId = {o1, o2, o3}
  RouteId = {r1, r2}
  Port = {n1, n2}
  MaxCrashes = 1
  ServiceRaces = TRUE
SPECIFICATION Spec
SYMMETRY Symmetry
INVARIANT ServesItsFile
