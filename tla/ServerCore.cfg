CONSTANTS
  None = None
  NotAsked = NotAsked
  Token = {t1, t2}
  Secret = {x1}
  Code = {k1}
  OpId = {o1}
  ShortTtl = 1
  RememberedTtl = 3
  IdleTtl = 2
  WriteInterval = 1
  KeepRevoked = 1
  MaxTime = 2
  MaxKills = 1
  Dir <- Directions
  Poll = {p1, p2}
  MaxBytes = 1
  MaxResets = 1
  MaxLoad = 3
SPECIFICATION Spec
INVARIANTS TypeOK CodeAdmitsOnce OnceOnly 
PROPERTIES DeadStaysDead PrunedEventually
CHECK_DEADLOCK FALSE
