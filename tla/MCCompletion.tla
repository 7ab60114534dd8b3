---------------------------- MODULE MCCompletion ----------------------------
(* Instances of Completion for TLC. *)
EXTENDS Completion

CONSTANTS a, b
One == {a}
Pair == {a, b}
(* One worker starts; a second joins it or takes its place. *)
Alone == <<{{a}}>>
Growing == <<{{a}}, {{a, b}, {b}}>>
=============================================================================
