---------------------------- MODULE BacktestReport ----------------------------
(***************************************************************************)
(* What is computed of the trades of a run: the metrics                    *)
(* (backtest/metrics.py), the equity curve (backtest/equity.py) and, over  *)
(* the metrics of many runs, the walk-forward harness                      *)
(* (backtest/walk_forward.py).  All of it is pure.  Metrics are rounded to *)
(* a quantum where the code rounds them; the Sharpe and Sortino ratios are *)
(* left out.                                                               *)
(***************************************************************************)
EXTENDS BacktestReplay

CONSTANTS
  TrainWindow, TestWindow, WindowStep,   \* WalkForwardConfig, in days
  Horizon,                               \* bound: the length of the date range
  Params, Picks,                         \* bound: a grid's parameters and their values
  Scores,                                \* bound: metrics of a run, in quanta
  LeastMetric,                           \* what the grid search starts from
  Precision                              \* a square root is taken to 1/Precision

ASSUME WalkForwardAssumption ==
  /\ TrainWindow \in Nat \ {0} /\ TestWindow \in Nat \ {0} /\ WindowStep \in Nat \ {0}
  /\ Horizon \in Nat /\ Scores \subseteq Int /\ LeastMetric \in Int
  /\ IsFiniteSet(Params) /\ Picks \subseteq Int
  /\ Precision \in Nat \ {0} /\ Precision % 5 = 0

SumOf(s) == SumFunctionOnSet(s, DOMAIN s)

Net(s) == [i \in DOMAIN s |-> s[i].net]

-----------------------------------------------------------------------------
(* Metrics *)

\* What the winners won, and what the losers lost.
Won(pnls)  == SumFunctionOnSet(pnls, {i \in DOMAIN pnls : pnls[i] > 0})
Lost(pnls) == - SumFunctionOnSet(pnls, {i \in DOMAIN pnls : pnls[i] < 0})

\* INFINITY_SENTINEL
Sentinel == 1000000000 * Unit

\* _profit_factor; without losses the sentinel for infinity.
ProfitFactor(pnls) ==
  IF Lost(pnls) = 0 THEN IF Won(pnls) > 0 THEN Sentinel ELSE 0
                    ELSE Rounded(Won(pnls) * Unit, Lost(pnls))

\* _expectancy: win_rate * avg_win - loss_rate * avg_loss is what was won less
\* what was lost, over the number of trades.
Expectancy(pnls) ==
  IF Len(pnls) = 0 THEN 0 ELSE Rounded(Won(pnls) - Lost(pnls), Len(pnls))

\* A step of the walk over the cumulated results.
Fall(last, pnl) ==
  LET cum  == last.cum + pnl
      peak == IF cum > last.peak THEN cum ELSE last.peak
  IN  [cum |-> cum, peak |-> peak, max |-> IF peak - cum > last.max THEN peak - cum ELSE last.max]

\* Mutant of Drawdown: the peak starts at the first trade, not at the capital.
DrawdownFromFirst(pnls) ==
  LET walk[i \in 0 .. Len(pnls)] ==
        IF i = 0 THEN [cum |-> Capital, peak |-> 0, max |-> 0]
                 ELSE Fall(walk[i - 1], pnls[i])
  IN  walk[Len(pnls)].max

\* _max_drawdown: one walk over the cumulated results.
Drawdown(pnls) ==
  LET walk[i \in 0 .. Len(pnls)] ==
        IF i = 0 THEN [cum |-> Capital, peak |-> Capital, max |-> 0]
                 ELSE Fall(walk[i - 1], pnls[i])
  IN  walk[Len(pnls)].max

\* _r_multiple: the move over the distance of the stop from the entry; none
\* when they are the same.
RMultiple(trade) ==
  LET risk == Abs(trade.entry - trade.stop) IN
  IF risk = 0 THEN 0 ELSE Rounded((trade.exit - trade.entry) * Unit, risk)

\* _R_BINS: the lower bound of each bin; the first has none.
RBins == [b \in 1 .. 6 |-> (b - 4) * Unit]

InBin(r, b) == (b > 1 => r >= RBins[b]) /\ (b < 6 => r < RBins[b + 1])

\* _classify_r: the first bin that matches; ">=2R" is the fallback.
Classify(r) ==
  IF \E b \in 1 .. 6 : InBin(r, b) THEN CHOOSE b \in 1 .. 6 : InBin(r, b) ELSE 6

RDistribution(s, group) ==
  [b \in 1 .. 6 |-> Cardinality({i \in group : Classify(RMultiple(s[i])) = b})]

\* _group_metrics: the trades of one key.
Group(s, ticker) == {i \in DOMAIN s : s[i].ticker = ticker}

-----------------------------------------------------------------------------
(* Equity curve *)

\* The while loop: from the first trade not counted yet, all those that come
\* before the first one that closes after the sample.
Counted(s, from, time) ==
  LET late == {i \in from .. Len(s) : s[i].exitAt > time} IN
  IF late = {} THEN Len(s) ELSE Min(late) - 1

\* build_equity_curve: an anchor, a sample at each given time, and one for each
\* trade still left.  A sample keeps how many trades it has counted; its
\* equity is the capital and their net results, less their fees once more.
EquityCurve(s, times) ==
  LET Sample(time, n) ==
        [at |-> time, count |-> n, pnl |-> SumFunctionOnSet(Net(s), 1 .. n)]
      counts[k \in 0 .. Len(times)] ==
        IF k = 0 THEN 0 ELSE Counted(s, counts[k - 1] + 1, times[k])
      seen == counts[Len(times)]
  IN  <<Sample(0, 0)>> \o [k \in 1 .. Len(times) |-> Sample(times[k], counts[k])]
        \o [k \in 1 .. Len(s) - seen |-> Sample(s[seen + k].exitAt, seen + k)]

ExitTimes(s) == [i \in 1 .. Len(s) |-> s[i].exitAt]

-----------------------------------------------------------------------------
(* Walk-forward *)

\* _iterate_windows: the cursor moves by a step while the test slice, which
\* starts where training ends, fits the range.
Windows(end) ==
  LET room == end - TrainWindow - TestWindow
      n    == IF room < 0 THEN 0 ELSE room \div WindowStep + 1
  IN  [k \in 1 .. n |-> [trainFrom |-> (k - 1) * WindowStep,
                         trainTo   |-> (k - 1) * WindowStep + TrainWindow,
                         testTo    |-> (k - 1) * WindowStep + TrainWindow + TestWindow]]

\* The grid search on a training slice, its metrics in the order of the grid:
\* strictly better than the best so far replaces.  None, if no metric is better
\* than what the search starts from: the assertion after it fails.
BestParams(metrics) ==
  LET reached(k) == IF k = 0 THEN LeastMetric ELSE metrics[k]
      best[k \in 0 .. Len(metrics)] ==
        IF k = 0 THEN 0 ELSE IF metrics[k] > reached(best[k - 1]) THEN k ELSE best[k - 1]
  IN  best[Len(metrics)]

\* _decimal_sqrt of num / den, counted in 1/Precision: the code goes on to its 28
\* digits, as far as thirty steps of Newton's method take it.
Root(num, den) ==
  Max({k \in 0 .. Precision * (num \div den + 1) : k * k * den <= num * Precision * Precision})

\* The variance of the values that a parameter took in the windows, times the
\* square of their number.
Spread(values) ==
  Len(values) * SumOf([k \in DOMAIN values |-> values[k] * values[k]])
    - SumOf(values) * SumOf(values)

\* std/|mean| of values whose mean is not zero.
Coefficient(values) == Root(Spread(values), SumOf(values) * SumOf(values))

\* The parameters that count: the numeric ones whose values have a mean.  Truth
\* values, which the code takes for numbers and then fails to convert, are left out.
Counting(kinds, chosen) == {p \in Params : kinds[p] # "text" /\ SumOf(chosen[p]) # 0}

\* _param_stability: the average of the coefficients, in 1/Precision of a
\* parameter; without any, none at all.
Stability(kinds, chosen) ==
  LET counted == Counting(kinds, chosen) IN
  IF counted = {} THEN [num |-> 0, den |-> 1]
  ELSE [num |-> SumOf([p \in counted |-> Coefficient(chosen[p])]),
        den |-> Cardinality(counted) * Precision]

\* _classify_flag: thresholds of 0.2 and 0.5, and of 1.0 for the average of the
\* test metrics.
Flag(stability, metrics) ==
  IF 2 * stability.num > stability.den THEN "fragile"
  ELSE IF 5 * stability.num < stability.den /\ SumOf(metrics) > Len(metrics) * Unit THEN "robust"
  ELSE "moderate"

-----------------------------------------------------------------------------
(* Properties *)

\* The drawdown is the deepest fall between any two moments of the equity,
\* the start included (metrics.py:199-227).
DrawdownIsWorst ==
  LET pnls      == Net(trades)
      Equity(i) == SumFunctionOnSet(pnls, 1 .. i)
  IN  Finished => Drawdown(pnls) = Max({Equity(ij[1]) - Equity(ij[2]) :
                              ij \in {ij \in (0 .. Len(pnls)) \X (0 .. Len(pnls)) :
                                        ij[1] <= ij[2]}})

\* The metrics an optimiser may maximise tell the same story, as far as eight
\* decimals can: a profit factor above one means that money was made, money made
\* gives one of at least one, and the expectancy of the trades is their total to
\* half a quantum each, so that the two never contradict each other
\* (metrics.py:191-197, 311-328; walk_forward.py:35).
MetricsAgree ==
  LET pnls   == Net(trades)
      factor == ProfitFactor(pnls)
      mean   == Expectancy(pnls)
  IN  Finished =>
        /\ factor > Unit => SumOf(pnls) > 0 /\ mean >= 0
        /\ mean > 0 => SumOf(pnls) > 0
        /\ SumOf(pnls) > 0 => factor >= Unit
        /\ 2 * Abs(mean * Len(pnls) - SumOf(pnls)) <= Len(pnls)

\* The histogram of R multiples counts every trade once, those at a bound of a
\* bin and those of zero risk included, and so do the breakdowns by ticker
\* (metrics.py:288-308, 330-348).
EveryTradeInOneBin ==
  Finished =>
    /\ \A i \in 1 .. Len(trades) :
         Cardinality({b \in 1 .. 6 : InBin(RMultiple(trades[i]), b)}) = 1
    /\ \A b \in 1 .. 6 :
         RDistribution(trades, DOMAIN trades)[b] =
           SumOf([k \in DOMAIN Universe |-> RDistribution(trades, Group(trades, Universe[k]))[b]])

\* The curve ends with every trade counted, whatever the samples; a sample of a
\* single ticker has counted exactly the trades closed by its time
\* (equity.py:42-137).
EquityIsComplete ==
  Finished =>
    \A times \in {ExitTimes(trades), [i \in 1 .. Lengths[1] |-> i], <<1>>} :
      LET curve == EquityCurve(trades, times) IN
      /\ Last(curve).pnl = SumOf(Net(trades))
      /\ Group(trades, Universe[1]) = DOMAIN trades =>
           \A k \in 2 .. Len(times) + 1, i \in 1 .. Len(trades) :
             i <= curve[k].count <=> trades[i].exitAt <= curve[k].at

\* Parameters are chosen on days before those they are tested on, no test slice
\* leaves the range, and no window that would fit is missing
\* (walk_forward.py:178-197).
WindowsFit ==
  \A end \in 0 .. Horizon :
    LET windows == Windows(end) IN
    /\ \A k \in 1 .. Len(windows) :
         windows[k].trainFrom >= 0 /\ windows[k].testTo <= end
    /\ \A cursor \in 0 .. end :
         cursor % WindowStep = 0 /\ cursor + TrainWindow + TestWindow <= end
           => \E k \in 1 .. Len(windows) : windows[k].trainFrom = cursor

\* The parameters taken are the best of the grid, and of equals the first, so
\* that a repeated run chooses the same; there are none exactly if no metric is
\* better than the start of the search, and only then does it end in its
\* assertion (walk_forward.py:132-146).
BestIsFirst ==
  \A metrics \in [1 .. 3 -> Scores] :
    LET best == BestParams(metrics) IN
    IF best = 0 THEN \A k \in 1 .. 3 : metrics[k] <= LeastMetric
    ELSE \A k \in 1 .. 3 : metrics[k] <= metrics[best] /\ (metrics[k] = metrics[best] => best <= k)

\* A verdict is earned.  Robust means that the average metric is above one and
\* that, of m parameters that count, none has a value further from its mean than
\* m fifths of the mean times the root of the number of windows: the average
\* hides one that drifts among many that do not, and a parameter of mean zero is
\* not looked at.  Fragile means that the deviation of one at least is over half
\* its mean.  The unit that a parameter is counted in does not matter
\* (walk_forward.py:215-262).
FlagIsEarned ==
  \A n \in 1 .. 3, kinds \in [Params -> {"number", "text"}] :
  \A chosen \in [Params -> [1 .. n -> Picks]], metrics \in [1 .. n -> Scores] :
    LET counted == Counting(kinds, chosen)
        m       == Cardinality(counted)
        flag    == Flag(Stability(kinds, chosen), metrics)
    IN  /\ flag = "robust" =>
             /\ SumOf(metrics) > n * Unit
             /\ \A p \in counted, k \in 1 .. n :
                  LET sum == SumOf(chosen[p])  far == n * chosen[p][k] - sum
                  IN  25 * (far * far) < m * m * (n * (sum * sum))
        /\ flag = "fragile" =>
             \E p \in counted : 4 * Spread(chosen[p]) > SumOf(chosen[p]) * SumOf(chosen[p])
        /\ \A p \in Params :
             LET tens == [chosen EXCEPT ![p] = [k \in 1 .. n |-> 10 * chosen[p][k]]]
             IN  Flag(Stability(kinds, tens), metrics) = flag

\* What is reported of a run agrees with its trades: the drawdown, the metrics,
\* the histogram and the curve computed of the ledger, and the slices, the
\* choice and the verdict of the walk-forward harness (metrics.py:191-348,
\* equity.py:42-137, walk_forward.py:132-262).
ReportAgrees ==
  DrawdownIsWorst /\ MetricsAgree /\ EveryTradeInOneBin /\ EquityIsComplete
    /\ WindowsFit /\ BestIsFirst /\ FlagIsEarned

=============================================================================
