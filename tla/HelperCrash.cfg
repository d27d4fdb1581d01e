\* A process is killed at any step, a write of Helper state fails.
CONSTANTS
  p1 = p1  p2 = p2  c1 = c1  c2 = c2  i1 = i1  i2 = i2
  None = None
  Proc = {p1, p2}
  Conn = {c1, c2}
  Inst = {i1}
  Home <- OneHome
  Imported = {c1}
  Addr = {a1, a2}
  OpId = {o1, o2, o3}
  Layout = {l1}
  Reasons = {}
  Rpc = {"create", "disable", "enable", "revoke"}
  MaxMinute = 0
  MaxCrashes = 1
  MaxEdits = 0
  EditsRace = FALSE
  ManualEnforce = FALSE
  Discovery = FALSE
  MayVanish = {}
  MoveMayMislead = TRUE
  RollbackMayFail = TRUE
  WriteMayFail = TRUE
SPECIFICATION Spec
SYMMETRY Symmetry
INVARIANTS PeerInv PeerKept AddressesUnique RevokeIsFinal
CHECK_DEADLOCK FALSE
