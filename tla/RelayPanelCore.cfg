CONSTANTS
  None = None
  Missing = Missing
  RouteId = {r1}
  Port = {p1}
  OpId = {o1, o2, o3}
  Actions = {"install", "apply", "remove", "disable", "uninstall"}
  MaxRegistrations = 1
  MaxChecks = 1
  MaxFaults = 1
SPECIFICATION Spec
SYMMETRY Symmetry
INVARIANTS TypeOK RowsOfOneState InStep FailedDidNothing DeletedUninstalled EndpointServed
PROPERTIES SettledStays
CHECK_DEADLOCK FALSE
