---------------------------- MODULE FillSimulator ----------------------------
(***************************************************************************)
(* The fill simulators of the backtester (backtest/fill_simulator.py).     *)
(*                                                                         *)
(* Prices, amounts and fees are kept to eight decimals: they are counted   *)
(* in quanta of 1/Unit, and rounded to them where the code rounds.  The    *)
(* prices of bars and orders are whole quanta; products and quotients, 28  *)
(* digits in the code, are exact.  The draw that refuses a limit order is  *)
(* an argument.                                                            *)
(***************************************************************************)
EXTENDS Integers

CONSTANTS
  Unit,        \* quanta in one: 10^8
  Denom,       \* _BPS_DENOM; basis points are counted in quanta too
  FixedBps,    \* SlippageConfig.fixed_bps
  ImpactRate,  \* market_impact_coefficient, with the minutes of a bar
  FeeRate      \* fee_pct, in 1/Denom

ASSUME FillAssumption ==
  /\ Unit \in Nat \ {0} /\ Denom \in Nat \ {0}
  /\ FixedBps \in Nat /\ ImpactRate \in Nat /\ FeeRate \in Nat

Abs(x) == IF x < 0 THEN -x ELSE x

\* quantize: to the nearest, from the middle between two to the even one.
Rounded(num, den) ==
  LET floor == num \div den
      rest  == 2 * (num % den)
  IN  IF rest > den \/ (rest = den /\ floor % 2 = 1) THEN floor + 1 ELSE floor

NoBar == [open |-> 0, high |-> 0, low |-> 0, close |-> 0, volume |-> 0]

NotFilled == [filled |-> FALSE, price |-> 0, fees |-> 0]

\* The price is a quotient: the fees are taken of it before it is rounded.
Filled(price, amount) ==
  [filled |-> TRUE, price |-> Rounded(price.num, price.den),
   fees |-> Rounded(price.num * amount * FeeRate, price.den * Denom * Unit)]

\* Mutant of Slipped: sells slip upwards too.
SlippedUp(mid, side, bps) == [num |-> mid * (Denom + bps), den |-> Denom]

\* _apply_slippage: buys pay more, sells get less.
Slipped(mid, side, bps) ==
  IF side = "buy" THEN [num |-> mid * (Denom + bps), den |-> Denom]
                  ELSE [num |-> mid * Denom, den |-> Denom + bps]

\* _market_impact_bps: none on a bar without volume.
Impact(notional, bar) ==
  IF bar.volume <= 0 THEN 0 ELSE Rounded(ImpactRate * notional, bar.volume)

\* The bar a fill refers to: the next one, or on the last bar the current one.
RefBar(bar, next) == IF next = NoBar THEN bar ELSE next

\* _simulate_market
MarketFill(side, amount, bar, next) ==
  LET ref == RefBar(bar, next) IN
  IF ref.open <= 0 THEN NotFilled
  ELSE Filled(Slipped(ref.open, side, FixedBps + Impact(ref.open * amount, ref)), amount)

LimitCrosses(side, limit, next) ==
  IF side = "buy" THEN limit >= next.low ELSE limit <= next.high

\* _simulate_limit: it needs a next bar that crosses, and luck.
LimitFill(side, amount, limit, next, lucky) ==
  IF limit > 0 /\ next # NoBar /\ LimitCrosses(side, limit, next) /\ lucky
  THEN Filled([num |-> limit, den |-> 1], amount) ELSE NotFilled

StopTriggers(side, stop, next) ==
  IF side = "sell" THEN next.low <= stop ELSE next.high >= stop

\* _simulate_stop: half as much slippage again as a market order, from the stop
\* itself, even if the bar opened beyond it.
StopFill(side, amount, stop, next) ==
  IF stop > 0 /\ next # NoBar /\ StopTriggers(side, stop, next)
  THEN Filled(Slipped(stop, side, FixedBps + FixedBps \div 2), amount) ELSE NotFilled

\* NoFillSimulator: always filled, at the limit or the reference open, free.
NullFill(bar, next) ==
  [filled |-> TRUE, price |-> RefBar(bar, next).open, fees |-> 0]

=============================================================================
