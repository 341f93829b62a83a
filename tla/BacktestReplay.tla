---------------------------- MODULE BacktestReplay ----------------------------
(***************************************************************************)
(* One run of the backtester (backtest/engine.py): the tickers of the feed *)
(* one after the other, the bars of a ticker in order, at most one         *)
(* position at a time.  A bar is drawn when the loop first looks at it, as *)
(* the next bar of the one before it: what the strategy decides on a bar   *)
(* cannot depend on bars that are not drawn yet.                           *)
(*                                                                         *)
(* The strategies only go long (trading/strategy.py).  Whether one fires   *)
(* on a bar is a free choice, as is the distance of its stop.  Prices,     *)
(* sizes, fees and results are whole quanta; money that is a product of a  *)
(* price and a size is counted in 1/Unit of a quantum.                     *)
(***************************************************************************)
EXTENDS FillSimulator, Sequences, SequencesExt, FiniteSetsExt

CONSTANTS
  Universe,      \* the tickers of the feed, in its order
  Lengths,       \* the number of bars of each of them
  Bars,          \* the bars that may occur
  Distances,     \* k * ATR of a signal: the distance of its stop from the close
  RiskCapital,   \* initial capital times risk_per_trade_pct, in 1/Unit of a quantum
  ExitFeeRate,   \* the fee of an exit, 0.001 whatever fee_pct says, in 1/Denom
  Capital        \* initial_capital_quote

\* The feed is a dict: no ticker twice.  NoBar stands for None and is no bar.
ASSUME ReplayAssumption ==
  /\ Universe \in Seq(Range(Universe)) /\ Universe # <<>> /\ IsInjective(Universe)
  /\ Lengths \in [1 .. Len(Universe) -> Nat \ {0}] /\ RiskCapital \in Nat /\ ExitFeeRate \in Nat /\ Capital \in Nat \ {0}
  /\ Distances \subseteq Nat
  /\ Bars \subseteq [open : Int, high : Int, low : Int, close : Int, volume : Int] \ {NoBar}
  /\ \A b \in Bars : b.low <= b.open /\ b.low <= b.close
                     /\ b.open <= b.high /\ b.close <= b.high

VARIABLES
  simulator, \* "null" or "slippage"
  current,   \* index of the ticker in the feed
  idx,       \* index of the bar; NBars + 1 past the end
  bar, next, \* the bar and the one after it (NoBar after the last)
  scored,    \* the exit of this bar was taken: a signal may still fire on it
  position,  \* the open position, as a set of at most one
  trades,    \* the trades, in the order they were closed
  skipped,   \* skipped_signals
  cash       \* money spent and received so far, beside what the code keeps,
             \* in 1/Unit of a quantum

vars == <<simulator, current, idx, bar, next, scored, position, trades, skipped, cash>>

Reasons == {"stop", "target", "end_of_data"}

NBars == Lengths[current]

\* The bars that can follow bar i of the k-th ticker as the next one.
NextBars(k, i) == IF i < Lengths[k] THEN Bars ELSE {NoBar}

TypeOK ==
  /\ simulator \in {"null", "slippage"}
  /\ current \in 1 .. Len(Universe)
  /\ idx \in 1 .. NBars + 1
  /\ bar \in Bars \union {NoBar} /\ next \in Bars \union {NoBar}
  /\ scored \in BOOLEAN
  /\ \A p \in position :
       /\ p.at \in 1 .. NBars /\ p.size > 0 /\ p.fees >= 0
       /\ p.stop < p.target
  /\ \A i \in 1 .. Len(trades) :
       /\ trades[i].reason \in Reasons /\ trades[i].size > 0
       /\ trades[i].entryAt <= trades[i].exitAt
  /\ skipped \in Nat
  /\ cash \in Int

Init ==
  /\ simulator \in {"null", "slippage"}
  /\ current = 1 /\ idx = 1
  /\ bar \in Bars /\ next \in NextBars(1, 1)
  /\ scored = FALSE
  /\ position = {}
  /\ trades = <<>>
  /\ skipped = 0
  /\ cash = Capital * Unit

-----------------------------------------------------------------------------
(* Signals (trading/signals.py, the derivations)                             *)

\* derive_invalidation_long and derive_targets: the stop k*ATR below the entry
\* and the target as far above it.  A stop that is not a positive price, or no
\* distance at all, is refused: the evaluator raises.
WellFormed(entry, distance) == distance > 0 /\ entry - distance > 0

SignalOf(entry, distance) ==
  [mid |-> entry, stop |-> entry - distance, target |-> entry + distance]

\* The evaluators: none of them looks further than the last bar's close and
\* indicators, and which signal comes out, if any, is a free choice.
Signals == {SignalOf(bar.close, d) : d \in {x \in Distances : WellFormed(bar.close, x)}}

-----------------------------------------------------------------------------
(* The engine *)

\* _size_for_signal: the capital at risk over the distance of the stop, rounded
\* to a quantum, that may come to nothing.
SizeOf(signal) == Rounded(RiskCapital, signal.mid - signal.stop)

\* _try_enter: a market order.
Entry(size) ==
  IF simulator = "null" THEN NullFill(bar, next) ELSE MarketFill("buy", size, bar, next)

\* fill_at: the timestamp of the bar whose open was taken.
EntryAt == IF next = NoBar THEN idx ELSE idx + 1

Touches(p) == bar.low <= p.stop \/ bar.high >= p.target

\* _ExitOutcome, its fee rounded to a quantum.
Outcome(p, price, reason, at, rate) ==
  [price |-> price, reason |-> reason, at |-> at,
   fees |-> Rounded(price * p.size * rate, Denom * Unit)]

ExitAt(p, price, reason) == Outcome(p, price, reason, idx, ExitFeeRate)

\* Mutant of ExitOf: a bar that reaches both takes the target.
ExitOfHopeful(p) ==
  IF bar.high >= p.target THEN ExitAt(p, p.target, "target") ELSE ExitAt(p, p.stop, "stop")

\* _score_exit: the stop first, then the target, each at its own price.
ExitOf(p) ==
  IF bar.low <= p.stop THEN ExitAt(p, p.stop, "stop") ELSE ExitAt(p, p.target, "target")

\* Mutant of TradeOf: the entry's fee is not in the net result.
TradeOfExitFee(p, exit) ==
  [ticker |-> Universe[current], size |-> p.size, entry |-> p.price, entryAt |-> p.at,
   exit |-> exit.price, exitAt |-> exit.at, reason |-> exit.reason, stop |-> p.stop,
   fees |-> p.fees + exit.fees,
   net |-> Rounded((exit.price - p.price) * p.size - exit.fees * Unit, Unit)]

\* _close_position: fees of both sides, and the result net of them, rounded.
TradeOf(p, exit) ==
  [ticker |-> Universe[current], size |-> p.size, entry |-> p.price, entryAt |-> p.at,
   exit |-> exit.price, exitAt |-> exit.at, reason |-> exit.reason, stop |-> p.stop,
   fees |-> p.fees + exit.fees,
   net |-> Rounded((exit.price - p.price) * p.size - (p.fees + exit.fees) * Unit, Unit)]

Close(p, exit) ==
  /\ trades' = Append(trades, TradeOf(p, exit))
  /\ cash' = cash + exit.price * p.size - exit.fees * Unit
  /\ position' = {}

\* The loop goes on to the next bar, which draws the one after it; past the end
\* the last bar stays.
Advance ==
  /\ idx' = idx + 1
  /\ bar' = IF next = NoBar THEN bar ELSE next
  /\ next' \in NextBars(current, idx + 1)
  /\ scored' = FALSE

\* An open position that the bar does not touch: no signal is asked for.
Hold ==
  /\ idx <= NBars /\ ~scored
  /\ \E p \in position : ~Touches(p)
  /\ Advance
  /\ UNCHANGED <<simulator, current, position, trades, skipped, cash>>

\* The position is closed; the same bar may open another.
Exit ==
  /\ idx <= NBars /\ ~scored
  /\ \E p \in position :
       /\ Touches(p)
       /\ Close(p, ExitOf(p))
  /\ scored' = TRUE
  /\ UNCHANGED <<simulator, current, idx, bar, next, skipped>>

\* No signal, or an evaluator that raises.
NoSignal ==
  /\ idx <= NBars /\ position = {}
  /\ Advance
  /\ UNCHANGED <<simulator, current, position, trades, skipped, cash>>

\* A signal whose size comes to nothing, or whose order is not filled.
SkipSignal(signal) ==
  /\ idx <= NBars /\ position = {}
  /\ SizeOf(signal) <= 0 \/ ~Entry(SizeOf(signal)).filled
  /\ skipped' = skipped + 1
  /\ Advance
  /\ UNCHANGED <<simulator, current, position, trades, cash>>

Opened(signal, size, fill) ==
  [price |-> fill.price, at |-> EntryAt, size |-> size, fees |-> fill.fees,
   stop |-> signal.stop, target |-> signal.target]

Enter(signal) ==
  /\ idx <= NBars /\ position = {}
  /\ LET size == SizeOf(signal)
         fill == Entry(size)
     IN  /\ size > 0 /\ fill.filled
         /\ position' = {Opened(signal, size, fill)}
         /\ cash' = cash - fill.price * size - fill.fees * Unit
  /\ Advance
  /\ UNCHANGED <<simulator, current, trades, skipped>>

\* Past the last bar what is still open is closed at the last close.
EndOfData ==
  /\ idx > NBars
  /\ \E p \in position :
       Close(p, Outcome(p, bar.close, "end_of_data", NBars, FeeRate))
  /\ UNCHANGED <<simulator, current, idx, bar, next, scored, skipped>>

NextTicker ==
  /\ idx > NBars /\ position = {}
  /\ current < Len(Universe)
  /\ current' = current + 1
  /\ idx' = 1
  /\ bar' \in Bars /\ next' \in NextBars(current + 1, 1)
  /\ UNCHANGED <<simulator, scored, position, trades, skipped, cash>>

ReplayStep == Hold \/ Exit \/ NoSignal \/ EndOfData \/ NextTicker

Next ==
  \/ ReplayStep
  \/ \E signal \in Signals : SkipSignal(signal) \/ Enter(signal)

Spec == Init /\ [][Next]_vars

\* The run has come to its report.
Finished == current = Len(Universe) /\ idx > NBars /\ position = {}

-----------------------------------------------------------------------------
(* Properties *)

\* An ambiguous bar is taken for the worse: a trade closed on its stop or its
\* target does no better than any of the two levels that the bar reached, and a
\* bar that reached one leaves no position open.  The exit at the end of the data
\* scores nothing: it is at the last close, and the last bar may have reached a
\* level after all, the stop included - but only of a position that was filled on
\* that same bar, at its open (engine.py:190-203, 253-275, 330-352).
ExitIsPessimistic ==
  [][\A p \in position :
       LET reached == {level \in {p.stop, p.target} : bar.low <= level /\ level <= bar.high}
           trade   == trades'[Len(trades')]
       IN  IF position' = position THEN idx' = idx \/ reached = {}
           ELSE IF trade.reason = "end_of_data"
           THEN trade.exit = bar.close /\ (reached = {} \/ p.at = NBars)
           ELSE \A level \in reached : trade.exit <= level]_vars

\* The trades of a ticker follow one another: a position is opened on a later
\* bar than the one that closed the last, the last bar of the feed excepted,
\* and tickers keep the order of the feed (engine.py:165-256).
LedgerIsSequential ==
  \A i, j \in 1 .. Len(trades) :
    i < j /\ trades[i].ticker = trades[j].ticker =>
      \/ trades[i].exitAt < trades[j].entryAt
      \/ trades[j].reason = "end_of_data" /\ trades[i].exitAt = trades[j].exitAt

\* What the trades of a ledger say was earned.
Earned(s) == SumFunctionOnSet([i \in DOMAIN s |-> s[i].net], DOMAIN s)

\* This money is what the capital and the trades come to, to within half a
\* quantum of rounding for each trade.
Balanced(money, s) == 2 * Abs(money - (Capital + Earned(s)) * Unit) <= Len(s) * Unit

\* What the trades say was earned is what the fills moved: with no position
\* open the money spent and received, fees included, adds up to the net
\* results, each fee counted once, and no more is lost to rounding than half a
\* quantum a trade (engine.py:378-395).
CashMatchesTrades == position = {} => Balanced(cash, trades)

\* A position that is stopped where it should be loses no more than the
\* capital at risk from the price of its signal, however near the stop, but
\* for half a quantum of its size, which may be rounded up (engine.py:424-443).
RiskIsBounded ==
  \A p \in position :
    2 * (p.size * (p.target - p.stop)) <= 4 * RiskCapital + (p.target - p.stop)

\* The ledger of a run: entries follow exits, the cash that moved is what the
\* trades say was earned, and no position risks more than was to be risked
\* (engine.py:165-256, 378-443).
LedgerIsSound == TypeOK /\ LedgerIsSequential /\ CashMatchesTrades /\ RiskIsBounded

\* No fill beats the price that its order refers to, rounding included: a market
\* order fills no better than the open it slips from, a limit order no better
\* than its limit nor than the best price of the bar that crossed it, a stop no
\* better than the stop, and only once the bar reached it.  A stop is not held to
\* what the market traded at: through a gap, on a bar that lies beyond it as a
\* whole, it fills near the stop all the same, which may be better than any
\* price of that bar - but on no other bar (fill_simulator.py:245-410).
FillsNeverBeatTheirOrder ==
  \A b, n \in Bars, amount \in 1 .. RiskCapital, limit \in {x.close : x \in Bars} :
    LET buyM == MarketFill("buy", amount, b, n)   sellM == MarketFill("sell", amount, b, n)
        buyL == LimitFill("buy", amount, limit, n, TRUE)
        sellL == LimitFill("sell", amount, limit, n, TRUE)
        buyS == StopFill("buy", amount, limit, n) sellS == StopFill("sell", amount, limit, n)
    IN  /\ buyM.filled => buyM.price >= n.open
        /\ sellM.filled => sellM.price <= n.open
        /\ buyL.filled => buyL.price >= limit /\ buyL.price >= n.low
        /\ sellL.filled => sellL.price <= limit /\ sellL.price <= n.high
        /\ buyS.filled => /\ buyS.price >= limit /\ n.high >= limit
                          /\ buyS.price >= n.low \/ n.low > limit
        /\ sellS.filled => /\ sellS.price <= limit /\ n.low <= limit
                           /\ sellS.price <= n.high \/ n.high < limit

=============================================================================
