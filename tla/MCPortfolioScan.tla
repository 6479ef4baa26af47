-------------------------- MODULE MCPortfolioScan --------------------------
(* Small instances of PortfolioScan. *)
EXTENDS PortfolioScan
=============================================================================
