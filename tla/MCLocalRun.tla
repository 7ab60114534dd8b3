----------------------------- MODULE MCLocalRun -----------------------------
(* An instance of LocalRun for TLC: fewer slots and less room on the channel *)
(* than arrivals, and two users with three requests each to share.           *)
EXTENDS LocalRun
=============================================================================
