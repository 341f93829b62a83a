--------------------------- MODULE MCRiskExposure ---------------------------
(***************************************************************************)
(* Two tickers in two overlapping groups, and proposals that the sizer     *)
(* cuts, leaves alone, or finds too small once they are reduced.           *)
(***************************************************************************)
EXTENDS RiskExposureInv

SomeProposals ==
  { [ticker |-> "btc", entry |-> 10, distance |-> 4, confidence |-> "none"],
    [ticker |-> "eth", entry |-> 10, distance |-> 10, confidence |-> "high"] }

SomeLevels == {-500, 0}

\* Exactly the daily limit of the initial equity.
SomeLoss == -200

SomeGroups == {[members |-> {"btc", "eth"}, pct |-> 35], [members |-> {"eth"}, pct |-> 50]}
=============================================================================
