---------------------------- MODULE MCCollector ----------------------------
(* Instances of Collector for TLC: a channel smaller than the burst. *)
EXTENDS Collector
=============================================================================
