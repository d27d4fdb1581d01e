\* Two routes on two ports, three operations, one kill or reboot.
CONSTANTS
  None = None
  Missing = Missing
  Proc = {p1, p2}
  OpId = {o1, o2, o3}
  RouteId = {r1, r2}
  Port = {n1, n2}
  MaxCrashes = 1
  ServiceRaces = FALSE
SPECIFICATION Spec
SYMMETRY Symmetry
CONSTRAINT Bounded
INVARIANTS TypeOK OneAtATime ServesItsFile
PROPERTIES RestoredExactly IsAtomic
