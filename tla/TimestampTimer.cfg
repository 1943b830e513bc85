SPECIFICATION TimerSpec
CONSTANTS
  Replicas = {r1, r2}
  Sockets = {s1}
  RoomIds = {a}
  Users = {u1}
  Requests = {q1}
  Colors = {0}
  NoColor = NoColor
  None = None
  ClientChosenIds = {}
  ReusedTickets = {}
  MayStop = {}
  MayDropEarly = {}
PROPERTY
  OneTimestampSender
CHECK_DEADLOCK FALSE
