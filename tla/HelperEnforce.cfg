\* The local enforcement beside suspend, resume, revoke and policy projections;
\* mv may report an error after its effect and rollbacks may fail.
CONSTANTS
  p1 = p1  p2 = p2  c1 = c1  c2 = c2  i1 = i1  i2 = i2
  None = None
  Proc = {p1, p2}
  Conn = {c1, c2}
  Inst = {i1}
  Home <- OneHome
  Imported = {c1, c2}
  Addr = {a1, a2}
  OpId = {o1, o2}
  Layout = {l1}
  Reasons = {"expired"}
  Rpc = {"disable", "enable", "revoke", "apply-policy"}
  MaxMinute = 1
  MaxCrashes = 0
  MaxEdits = 0
  EditsRace = FALSE
  ManualEnforce = TRUE
  Discovery = FALSE
  MayVanish = {}
  MoveMayMislead = TRUE
  RollbackMayFail = TRUE
  WriteMayFail = FALSE
SPECIFICATION Spec
SYMMETRY Symmetry
INVARIANTS TypeOK EnforcedIsOut FingerprintCurrent
CHECK_DEADLOCK FALSE
