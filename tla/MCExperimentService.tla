-------------------------- MODULE MCExperimentService --------------------------
(***************************************************************************)
(* Instances of ExperimentService for TLC.  The first build to be deployed *)
(* changes the default costs and the default rate, the second the code;    *)
(* metrics tell apart whatever they are computed from.                     *)
(***************************************************************************)
EXTENDS ExperimentService, TLC

Values ==
  [initial_cash     |-> {"capital"},
   cost_model       |-> {"3/0/5/2", "1/0/1/1"},
   execution_model  |-> {"next_bar_open"},
   allow_short      |-> {FALSE},
   liquidate_at_end |-> {TRUE, FALSE},
   risk_free_rate   |-> {Zero, "7%"}]

Run(costs, liquidate, rate) ==
  [initial_cash |-> "capital", cost_model |-> costs, execution_model |-> "next_bar_open",
   allow_short |-> FALSE, liquidate_at_end |-> liquidate, risk_free_rate |-> rate]

DefaultOf(b) ==
  IF b = 0 THEN Run("3/0/5/2", TRUE, Zero) ELSE Run("1/0/1/1", TRUE, "7%")

CodeOf(b) == IF b < 2 THEN "old" ELSE "new"

\* Costs and rate are left to the defaults.
Runs == {Run(Zero, FALSE, Zero)}

MetricsOf(code, settings, primary, second) == <<code, settings, primary, second>>
Symmetry == Permutations(Requests)
=============================================================================
