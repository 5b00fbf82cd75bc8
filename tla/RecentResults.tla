----------------------------- MODULE RecentResults -----------------------------
(***************************************************************************)
(* What the session's backtest store promises its users: the most recent   *)
(* results, at most Capacity of them, in the order they were completed,    *)
(* until the process restarts and forgets them all.                        *)
(***************************************************************************)
EXTENDS Naturals, Sequences

CONSTANTS Results, Capacity

VARIABLE kept   \* the results kept, oldest first

\* The last n elements of a sequence, or all of it.
LastN(s, n) == IF Len(s) <= n THEN s ELSE SubSeq(s, Len(s) - n + 1, Len(s))

Init == kept = <<>>

Remember(result) == kept' = LastN(Append(kept, result), Capacity)

Forget == kept' = <<>>

Next == Forget \/ \E result \in Results : Remember(result)

Spec == Init /\ [][Next]_kept
=============================================================================
