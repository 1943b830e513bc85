SPECIFICATION Spec
CONSTANTS
  Replicas = {r1, r2}
  Sockets = {s1}
  RoomIds = {a}
  Users = {u1}
  Requests = {q1}
  Colors = {0, 1}
  NoColor = NoColor
  None = None
  ClientChosenIds = {}
  ReusedTickets = {}
  MayStop = {r2}
  MayDropEarly = {}
INVARIANT
  RoomAvailableAtAllReplicas
CHECK_DEADLOCK FALSE
