----------------------------- MODULE MCGrabLock ------------------------------
(* GrabLock for TLC: the symmetries of its model values.  Users differ in   *)
(* whether they await their answers, nothing else differs from its likes.   *)
EXTENDS GrabLock, TLC

Symmetry == Permutations(Replicas) \cup Permutations(Rooms)
            \cup Permutations(Objects) \cup Permutations(Ops)
            \cup Permutations(PatientUsers)
            \cup Permutations(Users \ PatientUsers)
=============================================================================
