--------------------------- MODULE MCUserActivity ----------------------------
(* UserActivity for TLC: clients let a stayer and one other spectate.       *)
(* Replicas are alike, and so are the users who do not stay, and entities:  *)
(* all are listed for newcomers, who are then told the most that can be.    *)
EXTENDS UserActivity, TLC

MCSpectatorLists == {Stayers \cup {u} : u \in (Users \ Stayers) \cup Outsiders}

Symmetry == Permutations(Replicas) \cup Permutations(Users \ Stayers)
            \cup Permutations(Entities)
=============================================================================
