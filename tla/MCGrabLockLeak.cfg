SPECIFICATION Spec
CONSTANTS
  Replicas = {r1}
  Rooms = {a}
  Objects = {x}
  Users = {u1, u2}
  Ops = {o1, o2}
  MaxReleases = 1
  PatientUsers = {}
  MayStop = {}
  None = None
INVARIANTS
  LeaversFreeKeys
CHECK_DEADLOCK FALSE
