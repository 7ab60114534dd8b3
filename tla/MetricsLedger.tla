--------------------------- MODULE MetricsLedger ---------------------------
(* What the orchestrator promises about the metrics of a run: per worker, a *)
(* ledger of disjoint, ordered intervals, each entered once, and a fleet    *)
(* total that is the sum of what was entered.  A revision that a worker has *)
(* closed receives nothing more from it.                                    *)
EXTENDS Naturals, Sequences

CONSTANTS Workers, MaxCount

VARIABLES ledger,   \* worker -> the deltas entered for it, oldest first
          total     \* requests entered for the whole fleet
vars == <<ledger, total>>

Init == ledger = [w \in Workers |-> <<>>] /\ total = 0

(* d may follow e in one worker's ledger. *)
MayFollow(d, e) == /\ d.start >= e.end
                   /\ d.revision >= e.revision
                   /\ e.final => d.revision > e.revision

Enter(w, d) ==
  /\ d.sequence = Len(ledger[w]) + 1 /\ d.start < d.end
  /\ ledger[w] # <<>> => MayFollow(d, ledger[w][Len(ledger[w])])
  /\ total + d.requests <= MaxCount
  /\ ledger' = [ledger EXCEPT ![w] = Append(@, d)]
  /\ total' = total + d.requests

Next == \E w \in Workers : /\ Len(ledger'[w]) = Len(ledger[w]) + 1
                           /\ Enter(w, ledger'[w][Len(ledger[w]) + 1])
Spec == Init /\ [][Next]_vars
=============================================================================
