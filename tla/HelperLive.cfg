\* Every request ends, whether or not a rollback succeeds.
CONSTANTS
  p1 = p1  p2 = p2  c1 = c1  c2 = c2  i1 = i1  i2 = i2
  None = None
  Proc = {p1, p2}
  Conn = {c1, c2}
  Inst = {i1}
  Home <- OneHome
  Imported = {c1}
  Addr = {a1}
  OpId = {o1, o2}
  Layout = {l1}
  Reasons = {"expired"}
  Rpc = {"disable", "enable", "apply-policy"}
  MaxMinute = 0
  MaxCrashes = 0
  MaxEdits = 0
  EditsRace = FALSE
  ManualEnforce = FALSE
  Discovery = FALSE
  MayVanish = {}
  MoveMayMislead = TRUE
  RollbackMayFail = TRUE
  WriteMayFail = FALSE
SPECIFICATION FairSpec
PROPERTY RequestsEnd
CHECK_DEADLOCK FALSE
