------------------------------ MODULE BacktestInv ------------------------------
(***************************************************************************)
(* The inductive invariant of a replay: what holds between any two steps   *)
(* of the bar loop, whatever the bars, the signals and the simulator.      *)
(***************************************************************************)
EXTENDS BacktestReplay

Positions ==
  [price : Int, at : Nat \ {0}, size : Nat \ {0}, fees : Nat, stop : Nat \ {0}, target : Int]

Trades ==
  [ticker : Range(Universe), size : Nat \ {0}, entry : Int, entryAt : Nat, exit : Int,
   exitAt : Nat, reason : Reasons, stop : Int, fees : Int, net : Int]

\* The loop's own variables: the bar in hand is one of the feed, and the bar
\* after it is missing exactly from the last one on.
LoopSound ==
  /\ simulator \in {"null", "slippage"}
  /\ current \in 1 .. Len(Universe)
  /\ idx \in 1 .. NBars + 1
  /\ bar \in Bars /\ next \in NextBars(current, idx)
  /\ scored \in BOOLEAN /\ (scored => idx <= NBars)
  /\ position \in SUBSET Positions /\ trades \in Seq(Trades)
  /\ skipped \in Nat /\ cash \in Int

\* There is one position at most, filled on a bar already drawn, that risks no
\* more than was to be risked; none is open on a bar that closed one.  Past the
\* end, the last bar left it alone or is the one that it was filled on.
PositionSound ==
  /\ \A p, q \in position : p = q
  /\ \A p \in position :
       /\ p.at <= idx /\ p.at <= NBars /\ ~scored
       /\ p.stop < p.target
       /\ 2 * (p.size * (p.target - p.stop)) <= 4 * RiskCapital + (p.target - p.stop)
       /\ idx > NBars => p.at = NBars \/ ~Touches(p)

\* A trade of the ticker in hand was closed on a bar before the present one, or
\* on the present one if that was scored, and before the open position was
\* filled, unless both fall on the last bar.
LedgerSound ==
  \A i \in 1 .. Len(trades) :
    /\ trades[i].entryAt <= trades[i].exitAt
    /\ \E k \in 1 .. current : trades[i].ticker = Universe[k]
    /\ trades[i].ticker = Universe[current] =>
         /\ trades[i].exitAt <= NBars /\ trades[i].exitAt <= idx
         /\ trades[i].exitAt = idx => scored
         /\ \A p \in position :
              \/ trades[i].exitAt < p.at
              \/ idx = NBars + 1 /\ p.at = NBars

\* The money that has moved is what the trades earned, less what the open
\* position cost.
CashSound ==
  /\ position = {} => Balanced(cash, trades)
  /\ \A p \in position : Balanced(cash + p.price * p.size + p.fees * Unit, trades)

ReplayInv == LoopSound /\ PositionSound /\ LedgerSound /\ LedgerIsSequential /\ CashSound

=============================================================================
