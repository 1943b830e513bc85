SPECIFICATION Spec
CONSTANTS
  Replicas = {r1, r2}
  Apps = {x}
  Components = {k}
  Menus = {m}
  Token1 = t1
  Token2 = t2
  Pose1 = p1
  Tokens = {t1, t2}
  Poses = {p1, p2}
  Payloads <- MCPayloads
  None = None
  Closing = Closing
  MaxEvents = 3
  MaxRequests = 1
INVARIANTS
  TypeOK
  GrabbablesExact
  CopiesAgree
SYMMETRY Symmetry
CHECK_DEADLOCK FALSE
