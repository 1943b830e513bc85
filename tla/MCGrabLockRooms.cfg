SPECIFICATION Spec
CONSTANTS
  Replicas = {r1}
  Rooms = {a, b}
  Objects = {x}
  Users = {u1, u2}
  Ops = {o1, o2}
  MaxReleases = 1
  PatientUsers = {u1, u2}
  MayStop = {}
  None = None
PROPERTIES
  GrabsLast
CHECK_DEADLOCK FALSE
