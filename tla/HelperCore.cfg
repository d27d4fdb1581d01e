\* Two processes beside an edit made outside AWG Control and discovery; no kill.
CONSTANTS
  p1 = p1  p2 = p2  c1 = c1  c2 = c2  i1 = i1  i2 = i2
  None = None
  Proc = {p1, p2}
  Conn = {c1, c2}
  Inst = {i1}
  Home <- OneHome
  Imported = {c1}
  Addr = {a1, a2}
  OpId = {o1, o2}
  Layout = {l1}
  Reasons = {}
  Rpc = {"create", "disable", "enable", "revoke"}
  MaxMinute = 0
  MaxCrashes = 0
  MaxEdits = 1
  EditsRace = FALSE
  ManualEnforce = FALSE
  Discovery = TRUE
  MayVanish = {i1}
  MoveMayMislead = TRUE
  RollbackMayFail = TRUE
  WriteMayFail = FALSE
SPECIFICATION Spec
SYMMETRY Symmetry
INVARIANTS ReplacesWhatWasExpected RevokedIsCut KernelFollowsFile AddressesUnique
PROPERTY ResultStays
CHECK_DEADLOCK FALSE
