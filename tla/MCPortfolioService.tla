-------------------------- MODULE MCPortfolioService ---------------------------
(***************************************************************************)
(* Instances of PortfolioService for TLC: requests are interchangeable.    *)
(***************************************************************************)
EXTENDS PortfolioService, TLC

Symmetry == Permutations(Requests)
=============================================================================
