\* Two creates on different instances.
CONSTANTS
  p1 = p1  p2 = p2  c1 = c1  c2 = c2  i1 = i1  i2 = i2
  None = None
  Proc = {p1, p2}
  Conn = {c1, c2}
  Inst = {i1, i2}
  Home <- TwoHomes
  Imported = {}
  Addr = {a1, a2}
  OpId = {o1, o2}
  Layout = {l1}
  Reasons = {}
  Rpc = {"create"}
  MaxMinute = 0
  MaxCrashes = 0
  MaxEdits = 0
  EditsRace = FALSE
  ManualEnforce = FALSE
  Discovery = FALSE
  MayVanish = {}
  MoveMayMislead = FALSE
  RollbackMayFail = FALSE
  WriteMayFail = FALSE
SPECIFICATION Spec
SYMMETRY Symmetry
INVARIANT FingerprintCurrent
CHECK_DEADLOCK FALSE
