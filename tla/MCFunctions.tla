---------------------------- MODULE MCFunctions ----------------------------
(* An instance of PureFunctions for TLC: more workers than load, remainders, *)
(* ramps that end before and after the run, and each class of result.        *)
EXTENDS PureFunctions
=============================================================================
