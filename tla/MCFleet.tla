------------------------------ MODULE MCFleet ------------------------------
(* An instance of Fleet for TLC: two reporting intervals with a partial one, *)
(* a queue of one message, two sessions and a clock beyond the deadline.     *)
EXTENDS Fleet
=============================================================================
