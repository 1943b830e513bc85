SPECIFICATION Spec
CONSTANTS
  Replicas = {r1, r2}
  Sockets = {s1, s2}
  RoomIds = {a, b}
  Users = {u1, u2}
  Requests = {q1, q2}
  Colors = {0, 1}
  NoColor = NoColor
  None = None
  ClientChosenIds = {b}
  ReusedTickets = {u2}
  MayStop = {}
  MayDropEarly = {s1, s2}
INVARIANTS
  TypeOK
  LookupSocketExact
  NoOrphanMember
  SessionsBacked
  UsersKnownEverywhere
  SurvivorsAgree
  ColorsBalanced
SYMMETRY Symmetry
CHECK_DEADLOCK FALSE
