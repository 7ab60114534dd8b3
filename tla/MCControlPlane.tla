--------------------------- MODULE MCControlPlane ---------------------------
(* Instances of ControlPlane for TLC. *)
EXTENDS ControlPlane

Two == {1, 2}
Three == {1, 2, 3}
(* One virtual user: with two workers, one slice is empty. *)
OneUser == ClosedLoad(1)
(* More rate than in-flight slots: the slots decide how many are active. *)
RateLoad == OpenLoad(5, 2)
=============================================================================
