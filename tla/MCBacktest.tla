----------------------------- MODULE MCBacktest -----------------------------
(***************************************************************************)
(* What TLC checks of the backtester: two tickers, bars that are flat,     *)
(* rise, fall, reach both sides, open beyond a stop, or are not a price.   *)
(***************************************************************************)
EXTENDS BacktestReport, BacktestInv, TLC

Bar(open, high, low, close, volume) ==
  [open |-> open, high |-> high, low |-> low, close |-> close, volume |-> volume]

SomeBars ==
  { Bar(3, 3, 3, 3, 1), Bar(2, 4, 2, 4, 1), Bar(3, 5, 1, 3, 0), Bar(1, 2, 1, 2, 1),
    Bar(0, 3, 0, 3, 1) }

SomeTickers == <<"btc", "eth">>

SomeLengths == <<3, 1>>

SomePicks == {-1, 1, 4}

Start == -1

SomeScores == {-1, 1, 2, 3}

=============================================================================
