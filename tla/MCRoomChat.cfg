SPECIFICATION Spec
CONSTANTS
  Replicas = {r1, r2}
  Users = {u, v, w}
  None = None
  MaxSteps = 6
INVARIANTS
  TypeOK
  ChatDiesWithRoom
  IdsUnique
  AuthorsKnown
  NoResurrection
  HistoryIsHeard
SYMMETRY Symmetry
CHECK_DEADLOCK FALSE
