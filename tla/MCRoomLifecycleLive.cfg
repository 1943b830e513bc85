SPECIFICATION FairSpec
CONSTANTS
  Replicas = {r1, r2}
  Sockets = {s1, s2}
  RoomIds = {a}
  Users = {u1, u2}
  Requests = {q1}
  Colors = {0, 1}
  NoColor = NoColor
  None = None
  ClientChosenIds = {}
  ReusedTickets = {}
  MayStop = {r2}
  MayDropEarly = {}
PROPERTY
  LeaversRemoved
CHECK_DEADLOCK FALSE
