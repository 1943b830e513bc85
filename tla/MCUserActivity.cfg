SPECIFICATION Spec
CONSTANTS
  Replicas = {r1, r2}
  Users = {s, u, v}
  Outsiders = {o}
  Stayers = {s}
  Entities = {e1, e2}
  Listed = {e1, e2}
  Controllers = {c}
  SpectatorLists <- MCSpectatorLists
  None = None
  MaxSteps = 4
INVARIANTS
  TypeOK
  EventsFindUsers
  ActivityAgrees
  ClientsKnowRoom
  HighlightsRecorded
  ControllersFollow
  SpectatorsInRoom
SYMMETRY Symmetry
CHECK_DEADLOCK FALSE
