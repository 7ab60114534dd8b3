-------------------------- MODULE MCRunController --------------------------
(* An instance of RunController for TLC: one and a half reporting intervals, *)
(* a queue of one message, and a clock that outlasts the deadline.           *)
EXTENDS RunController
=============================================================================
