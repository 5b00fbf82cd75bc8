--------------------------- MODULE MCExecutionParity ---------------------------
(* Values for model checking ExecutionParity. *)
EXTENDS ExecutionParity

\* A short, nothing, a part of the largest long, and more than cash can buy.
TargetValues == {-2, 0, 1, 3}
=============================================================================
