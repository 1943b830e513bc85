SPECIFICATION Spec
CONSTANTS
  Replicas = {r1, r2}
  Rooms = {a, b}
  Objects = {x}
  Users = {u1, u2, u3}
  Ops = {o1, o2, o3}
  MaxReleases = 1
  PatientUsers = {u1, u2}
  MayStop = {r1, r2}
  None = None
INVARIANTS
  TypeOK
  EntryBacked
  OneHolder
  PatientLeaversFreeKeys
  PatientReleasesSucceed
PROPERTIES
  ExclusiveSpec
  PatientGrabsLast
SYMMETRY Symmetry
CHECK_DEADLOCK FALSE
