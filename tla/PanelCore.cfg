CONSTANTS
  None = None
  Conn = {c1, c2}
  Foreign = {c1}
  OpId = {o1, o2}
  Limits = {{"expiry"}}
  MaxPolls = 1
  MaxFinds = 1
  MaxFaults = 1
  FoundModes = {"observed"}
  MaxRecords = 2
  MaxWaiting = 2
SPECIFICATION Spec
SYMMETRY Symmetry
INVARIANTS TypeOK RevokedStaysCut SucceededHappened IssuedOnce NoOrphan ObservedUntouched EnforcedByNode Agreement
PROPERTIES RecordIsFinal
CHECK_DEADLOCK FALSE
