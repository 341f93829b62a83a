---------------------------- MODULE BacktestProofs ----------------------------
(***************************************************************************)
(* Proofs about the backtester: fills that never beat their order, exits   *)
(* that take the worse, a ledger that balances to the rounding, and        *)
(* reports that agree with it, for any feed, bars and settings.            *)
(***************************************************************************)
EXTENDS BacktestReport, BacktestInv, FiniteSums

-----------------------------------------------------------------------------
(* Arithmetic *)

LEMMA Times ==
  ASSUME NEW a \in Int, NEW b \in Int, NEW c \in Nat, a <= b
  PROVE  a * c \in Int /\ b * c \in Int /\ a * c <= b * c
OBVIOUS

LEMMA Positives ==
  ASSUME NEW a \in Nat, NEW b \in Nat
  PROVE  a * b \in Nat
OBVIOUS

LEMMA Integral ==
  ASSUME NEW a \in Int, NEW b \in Int
  PROVE  a * b \in Int
OBVIOUS

\* A number is its quotient and its remainder.
LEMMA Division ==
  ASSUME NEW a \in Int, NEW b \in Nat \ {0}
  PROVE  /\ a \div b \in Int /\ a % b \in Nat
         /\ a >= 0 => a \div b \in Nat
         /\ a = (a \div b) * b + (a % b)
         /\ a % b < b
OBVIOUS

\* What is rounded is no further away than half of what it is rounded to.
LEMMA RoundedIs ==
  ASSUME NEW num \in Int, NEW den \in Nat \ {0}
  PROVE  /\ Rounded(num, den) \in Int
         /\ 2 * (Rounded(num, den) * den - num) <= den
         /\ 2 * (num - Rounded(num, den) * den) <= den
<1>1. PICK q \in Int, r \in Nat : /\ q = num \div den /\ r = num % den
                                 /\ num = q * den + r /\ r < den
  BY Division
<1>2. PICK t \in Int : t = q * den
  BY <1>1, Integral
<1>3. (q + 1) * den = t + den /\ q + 1 \in Int
  BY <1>1, <1>2
<1>4. num = t + r
  BY <1>1, <1>2
<1>5. CASE Rounded(num, den) = q /\ 2 * r <= den
  BY <1>2, <1>4, <1>5
<1>6. CASE Rounded(num, den) = q + 1 /\ 2 * r >= den
  <2>1. Rounded(num, den) * den = t + den
    BY <1>3, <1>6
  <2> QED BY <1>1, <1>3, <1>4, <1>6, <2>1
<1>7. \/ Rounded(num, den) = q /\ 2 * r <= den
      \/ Rounded(num, den) = q + 1 /\ 2 * r >= den
  BY <1>1 DEF Rounded
<1> QED BY <1>5, <1>6, <1>7

\* So what lies at, above or below a whole stays there.
LEMMA RoundedKeeps ==
  ASSUME NEW num \in Int, NEW den \in Nat \ {0}, NEW m \in Int
  PROVE  /\ m * den <= num => m <= Rounded(num, den)
         /\ num <= m * den => Rounded(num, den) <= m
<1>0. PICK r \in Int : /\ r = Rounded(num, den)
                        /\ 2 * (r * den - num) <= den /\ 2 * (num - r * den) <= den
  BY RoundedIs
<1>1. PICK t \in Int, a \in Int :
        /\ t = r * den /\ a = m * den
        /\ 2 * (t - num) <= den /\ 2 * (num - t) <= den
  BY <1>0, Integral
<1>2. ASSUME a <= num, r + 1 <= m PROVE FALSE
  <2>1. (r + 1) * den <= m * den /\ (r + 1) * den = t + den
    BY <1>1, <1>2, Times
  <2> QED BY <1>1, <1>2, <2>1
<1>3. ASSUME num <= a, m + 1 <= r PROVE FALSE
  <2>1. (m + 1) * den <= r * den /\ (m + 1) * den = a + den
    BY <1>1, <1>3, Times
  <2> QED BY <1>1, <1>3, <2>1
<1> QED BY <1>0, <1>1, <1>2, <1>3

LEMMA WholeStays ==
  ASSUME NEW m \in Int
  PROVE  Rounded(m, 1) = m
<1>1. PICK one \in Nat \ {0} : one = 1
  OBVIOUS
<1>2. PICK x \in Int : x = m * one /\ x = m
  BY <1>1
<1>3. Rounded(x, one) \in Int
  BY RoundedIs
<1>4. m * one <= x /\ x <= m * one
  BY <1>2
<1>5. m <= Rounded(x, one) /\ Rounded(x, one) <= m
  BY <1>4, RoundedKeeps
<1> QED BY <1>1, <1>2, <1>3, <1>5

LEMMA SumTimes ==
  ASSUME NEW p \in Int, NEW q \in Int, NEW b \in Int
  PROVE  (p + q) * b = p * b + q * b
OBVIOUS

LEMMA SquareNat ==
  ASSUME NEW x \in Int
  PROVE  x * x \in Nat
<1>1. CASE x >= 0
  BY <1>1
<1>2. CASE x < 0
  <2>1. -x \in Nat /\ (-x) * (-x) = x * x
    BY <1>2
  <2> QED BY <2>1, Positives
<1> QED BY <1>1, <1>2

\* The least and the greatest of a set of numbers.
LEMMA MinIs ==
  ASSUME NEW S \in SUBSET Nat, S # {}
  PROVE  Min(S) \in S /\ \A y \in S : Min(S) <= y
<1>1. PICK x \in S : \A y \in S : <<y, x>> \notin OpToRel(<, Nat)
  BY NatLessThanWellFounded, WFMin
<1>2. ASSUME NEW y \in S PROVE x <= y
  <2>1. x \in Nat /\ y \in Nat
    OBVIOUS
  <2>2. ~(y < x)
    BY <1>1, <2>1 DEF OpToRel
  <2> QED BY <2>1, <2>2
<1>3. \E z \in S : \A y \in S : z <= y
  BY <1>2
<1> QED BY <1>3 DEF Min

LEMMA MaxIs ==
  ASSUME NEW S \in SUBSET Int, NEW m \in S, \A y \in S : y <= m
  PROVE  Max(S) = m
<1>1. m \in Int /\ \A y \in S : m >= y
  OBVIOUS
<1>2. \A x \in S : (\A y \in S : x >= y) => x = m
  BY <1>1
<1> QED BY <1>1, <1>2 DEF Max

\* A sequence put together from an element and two sequences.
LEMMA JoinFacts ==
  ASSUME NEW V, NEW a \in V, NEW b \in Seq(V), NEW c \in Seq(V), NEW t, t = <<a>> \o b \o c
  PROVE  /\ t \in Seq(V) /\ Len(t) = 1 + Len(b) + Len(c) /\ t[1] = a
         /\ \A k \in 2 .. Len(b) + 1 : t[k] = b[k - 1]
         /\ Len(c) > 0 => t[Len(t)] = c[Len(c)]
<1>1. PICK n \in Nat, m \in Nat : n = Len(b) /\ m = Len(c)
  OBVIOUS
<1>2. PICK u : u = <<a>> \o b
  OBVIOUS
<1>3. /\ u \in Seq(V) /\ Len(u) = n + 1 /\ u[1] = a
      /\ \A k \in 2 .. n + 1 : u[k] = b[k - 1]
  <2>1. <<a>> \in Seq(V) /\ Len(<<a>>) = 1 /\ <<a>>[1] = a
    OBVIOUS
  <2>2. \A k \in 2 .. n + 1 : k \in 1 .. n + 1 /\ ~(k <= 1)
    OBVIOUS
  <2> QED BY <1>1, <1>2, <2>1, <2>2
<1>4. t = u \o c
  BY <1>2
<1>5. t \in Seq(V) /\ Len(t) = n + 1 + m
  BY <1>1, <1>3, <1>4
<1>6. \A k \in 1 .. n + 1 : t[k] = u[k]
  BY <1>1, <1>3, <1>4
<1>7. ASSUME m > 0 PROVE t[n + 1 + m] = c[m]
  <2>1. n + 1 + m \in 1 .. Len(u) + Len(c) /\ ~(n + 1 + m <= Len(u)) /\ (n + 1 + m) - Len(u) = m
    BY <1>1, <1>3, <1>7
  <2> QED BY <1>1, <1>3, <1>4, <2>1
<1>8. \A k \in 2 .. n + 1 : k \in 1 .. n + 1
  OBVIOUS
<1>9. 1 \in 1 .. n + 1
  OBVIOUS
<1> QED BY <1>1, <1>3, <1>5, <1>6, <1>7, <1>8, <1>9

\* A buy slips upwards and a sell downwards, and rounding does not undo it.
LEMMA SlippedFacts ==
  ASSUME NEW mid \in Nat, NEW bps \in Nat, NEW side \in {"buy", "sell"},
         NEW f, f = Slipped(mid, side, bps)
  PROVE  /\ f.num \in Nat /\ f.den \in Nat \ {0}
         /\ Rounded(f.num, f.den) \in Int
         /\ side = "buy" => mid <= Rounded(f.num, f.den)
         /\ side = "sell" => Rounded(f.num, f.den) <= mid
<1>1. Denom \in Nat \ {0}
  BY FillAssumption
<1>2. PICK d \in Nat \ {0} : d = Denom + bps /\ d >= Denom
  BY <1>1
<1>3. mid * d \in Nat /\ mid * Denom \in Nat /\ mid * Denom <= mid * d
  BY <1>1, <1>2
<1>4. CASE side = "buy"
  <2>1. f.num = mid * d /\ f.den = Denom
    BY <1>2, <1>4 DEF Slipped
  <2>2. PICK x \in Nat : x \in Int /\ mid \in Int /\ x = mid * d /\ mid * Denom <= x
    BY <1>3
  <2>3. Rounded(x, Denom) \in Int /\ mid <= Rounded(x, Denom)
    BY <1>1, <2>2, RoundedIs, RoundedKeeps
  <2> QED BY <1>1, <1>4, <2>1, <2>2, <2>3
<1>5. CASE side = "sell"
  <2>1. f.num = mid * Denom /\ f.den = d
    BY <1>2, <1>5 DEF Slipped
  <2>2. PICK x \in Nat : x \in Int /\ mid \in Int /\ x = mid * Denom /\ x <= mid * d
    BY <1>3
  <2>3. Rounded(x, d) \in Int /\ Rounded(x, d) <= mid
    BY <1>2, <2>2, RoundedIs, RoundedKeeps
  <2> QED BY <1>2, <1>5, <2>1, <2>2, <2>3
<1> QED BY <1>4, <1>5

-----------------------------------------------------------------------------
(* Fills *)

LEMMA BarFacts ==
  ASSUME NEW b \in Bars
  PROVE  /\ b.open \in Int /\ b.high \in Int /\ b.low \in Int /\ b.close \in Int
         /\ b.volume \in Int /\ b # NoBar
         /\ b.low <= b.open /\ b.low <= b.close /\ b.open <= b.high /\ b.close <= b.high
BY ReplayAssumption

LEMMA ImpactFacts ==
  ASSUME NEW b \in Bars, NEW notional \in Nat
  PROVE  Impact(notional, b) \in Nat
<1>1. ImpactRate * notional \in Nat
  BY FillAssumption, Positives
<1>2. CASE b.volume <= 0
  BY <1>2 DEF Impact
<1>3. CASE b.volume > 0
  <2>1. PICK v \in Nat \ {0}, x \in Nat : v = b.volume /\ x = ImpactRate * notional
    BY <1>1, <1>3, BarFacts
  <2>2. 0 * v <= x
    BY <2>1
  <2>3. x \in Int /\ 0 \in Int
    BY <2>1
  <2>4. Rounded(x, v) \in Int /\ 0 <= Rounded(x, v)
    BY <2>1, <2>2, <2>3, RoundedIs, RoundedKeeps
  <2> QED BY <1>3, <2>1, <2>4 DEF Impact
<1> QED BY <1>2, <1>3, BarFacts

\* The fees of a fill are not negative.
LEMMA FeesNat ==
  ASSUME NEW price, price.num \in Nat, price.den \in Nat \ {0}, NEW amount \in Nat
  PROVE  Filled(price, amount).fees \in Nat
<1>1. PICK x \in Nat : x = price.num * amount * FeeRate
  BY FillAssumption, Positives
<1>2. PICK y \in Nat \ {0} : y = price.den * Denom * Unit
  <2>1. PICK z \in Nat \ {0} : z = price.den * Denom
    BY FillAssumption
  <2> QED BY <2>1, FillAssumption
<1>3. 0 * y <= x /\ x \in Int /\ 0 \in Int
  BY <1>1, <1>2
<1>4. Rounded(x, y) \in Int /\ 0 <= Rounded(x, y)
  BY <1>1, <1>2, <1>3, RoundedIs, RoundedKeeps
<1> QED BY <1>1, <1>2, <1>4 DEF Filled

\* A market order slips from the open of the bar it refers to.
LEMMA MarketFacts ==
  ASSUME NEW b \in Bars, NEW n \in Bars \union {NoBar}, NEW amount \in Nat,
         NEW ref, ref = RefBar(b, n)
  PROVE  /\ ref \in Bars
         /\ MarketFill("buy", amount, b, n).filled =>
              /\ ref.open > 0
              /\ MarketFill("buy", amount, b, n).price \in Int
              /\ MarketFill("buy", amount, b, n).price >= ref.open
              /\ MarketFill("buy", amount, b, n).fees \in Nat
         /\ MarketFill("sell", amount, b, n).filled =>
              MarketFill("sell", amount, b, n).price <= ref.open
<1>1. ref \in Bars
  BY DEF RefBar
<1>2. CASE ref.open <= 0
  <2>1. MarketFill("buy", amount, b, n) = NotFilled /\ MarketFill("sell", amount, b, n) = NotFilled
    BY <1>2 DEF MarketFill
  <2> QED BY <1>1, <2>1 DEF NotFilled
<1>3. CASE ref.open > 0
  <2>1. ref.open \in Nat
    BY <1>1, <1>3, BarFacts
  <2>2. PICK bps \in Nat : bps = FixedBps + Impact(ref.open * amount, ref)
    BY <1>1, <2>1, ImpactFacts, Positives, FillAssumption
  <2>3. PICK f, h : f = Slipped(ref.open, "buy", bps) /\ h = Slipped(ref.open, "sell", bps)
    OBVIOUS
  <2>4. /\ MarketFill("buy", amount, b, n) = Filled(f, amount)
        /\ MarketFill("sell", amount, b, n) = Filled(h, amount)
    BY <1>1, <1>3, <2>2, <2>3, BarFacts DEF MarketFill
  <2>5. /\ f.num \in Nat /\ f.den \in Nat \ {0}
        /\ Rounded(f.num, f.den) \in Int /\ ref.open <= Rounded(f.num, f.den)
    BY <2>1, <2>2, <2>3, SlippedFacts
  <2>6. Rounded(h.num, h.den) <= ref.open
    BY <2>1, <2>2, <2>3, SlippedFacts
  <2>7. Filled(f, amount).fees \in Nat
    BY <2>5, FeesNat
  <2>8. /\ Filled(f, amount).price = Rounded(f.num, f.den)
        /\ Filled(h, amount).price = Rounded(h.num, h.den)
    BY DEF Filled
  <2> QED BY <1>1, <1>3, <2>1, <2>4, <2>5, <2>6, <2>7, <2>8
<1> QED BY <1>1, <1>2, <1>3, BarFacts

\* A limit order fills at its limit, which the next bar crossed.
LEMMA LimitFacts ==
  ASSUME NEW n \in Bars, NEW amount \in Nat, NEW limit \in Int
  PROVE  /\ LimitFill("buy", amount, limit, n, TRUE).filled =>
              LimitFill("buy", amount, limit, n, TRUE).price = limit /\ n.low <= limit
         /\ LimitFill("sell", amount, limit, n, TRUE).filled =>
              LimitFill("sell", amount, limit, n, TRUE).price = limit /\ limit <= n.high
<1>1. PICK whole : whole = [num |-> limit, den |-> 1]
  OBVIOUS
<1>2. Rounded(limit, 1) = limit
  BY WholeStays
<1>3. Filled(whole, amount).price = limit
  <2>1. whole.num = limit /\ whole.den = 1
    BY <1>1
  <2>2. Filled(whole, amount).price = Rounded(whole.num, whole.den)
    BY DEF Filled
  <2> QED BY <1>2, <2>1, <2>2
<1>4. n.low \in Int /\ n.high \in Int
  BY BarFacts
<1>5. PICK f : f = LimitFill("buy", amount, limit, n, TRUE)
  OBVIOUS
<1>6. ASSUME f.filled PROVE f.price = limit /\ n.low <= limit
  <2>1. f = Filled(whole, amount) /\ LimitCrosses("buy", limit, n)
    BY <1>1, <1>5, <1>6 DEF LimitFill, NotFilled
  <2> QED BY <1>3, <1>4, <2>1 DEF LimitCrosses
<1>7. PICK h : h = LimitFill("sell", amount, limit, n, TRUE)
  OBVIOUS
<1>8. ASSUME h.filled PROVE h.price = limit /\ limit <= n.high
  <2>1. h = Filled(whole, amount) /\ LimitCrosses("sell", limit, n)
    BY <1>1, <1>7, <1>8 DEF LimitFill, NotFilled
  <2> QED BY <1>3, <1>4, <2>1 DEF LimitCrosses
<1> QED BY <1>5, <1>6, <1>7, <1>8

\* A stop that the next bar reached slips from its own price.
LEMMA StopFacts ==
  ASSUME NEW n \in Bars, NEW amount \in Nat, NEW stop \in Int
  PROVE  /\ StopFill("buy", amount, stop, n).filled =>
              /\ StopFill("buy", amount, stop, n).price \in Int
              /\ StopFill("buy", amount, stop, n).price >= stop /\ n.high >= stop
         /\ StopFill("sell", amount, stop, n).filled =>
              /\ StopFill("sell", amount, stop, n).price \in Int
              /\ StopFill("sell", amount, stop, n).price <= stop /\ n.low <= stop
<1>1. PICK bps \in Nat : bps = FixedBps + FixedBps \div 2
  <2>1. FixedBps \div 2 \in Int /\ FixedBps = (FixedBps \div 2) * 2 + (FixedBps % 2) /\ FixedBps % 2 < 2
    BY Division, FillAssumption
  <2> QED BY <2>1, FillAssumption
<1>2. PICK f, h : f = Slipped(stop, "buy", bps) /\ h = Slipped(stop, "sell", bps)
  OBVIOUS
<1>3. n.low \in Int /\ n.high \in Int
  BY BarFacts
<1>4. PICK fill : fill = StopFill("buy", amount, stop, n)
  OBVIOUS
<1>5. ASSUME fill.filled
      PROVE  fill.price \in Int /\ fill.price >= stop /\ n.high >= stop
  <2>1. fill = Filled(f, amount) /\ stop > 0 /\ StopTriggers("buy", stop, n)
    BY <1>1, <1>2, <1>4, <1>5 DEF StopFill, NotFilled
  <2>2. stop \in Nat
    BY <2>1
  <2>3. Rounded(f.num, f.den) \in Int /\ stop <= Rounded(f.num, f.den)
    BY <1>1, <1>2, <2>2, SlippedFacts
  <2>4. fill.price = Rounded(f.num, f.den)
    BY <2>1 DEF Filled
  <2> QED BY <1>3, <2>1, <2>3, <2>4 DEF StopTriggers
<1>6. PICK drop : drop = StopFill("sell", amount, stop, n)
  OBVIOUS
<1>7. ASSUME drop.filled
      PROVE  drop.price \in Int /\ drop.price <= stop /\ n.low <= stop
  <2>1. drop = Filled(h, amount) /\ stop > 0 /\ StopTriggers("sell", stop, n)
    BY <1>1, <1>2, <1>6, <1>7 DEF StopFill, NotFilled
  <2>2. stop \in Nat
    BY <2>1
  <2>3. Rounded(h.num, h.den) \in Int /\ Rounded(h.num, h.den) <= stop
    BY <1>1, <1>2, <2>2, SlippedFacts
  <2>4. drop.price = Rounded(h.num, h.den)
    BY <2>1 DEF Filled
  <2> QED BY <1>3, <2>1, <2>3, <2>4 DEF StopTriggers
<1> QED BY <1>4, <1>5, <1>6, <1>7

\* No fill beats the price that its order refers to, rounding included, whatever
\* the bars, the amount, the slippage and the limit: the open, the limit, or the
\* stop; and none but a stop jumped over by a gap beats every price of the bar
\* (fill_simulator.py:245-410).
THEOREM FillsKeepToTheirOrder == Spec => []FillsNeverBeatTheirOrder
<1>1. FillsNeverBeatTheirOrder
  <2> SUFFICES ASSUME NEW b \in Bars, NEW n \in Bars, NEW amount \in 1 .. RiskCapital,
                      NEW limit \in {x.close : x \in Bars}
               PROVE  LET buyM == MarketFill("buy", amount, b, n)
                          sellM == MarketFill("sell", amount, b, n)
                          buyL == LimitFill("buy", amount, limit, n, TRUE)
                          sellL == LimitFill("sell", amount, limit, n, TRUE)
                          buyS == StopFill("buy", amount, limit, n)
                          sellS == StopFill("sell", amount, limit, n)
                      IN  /\ buyM.filled => buyM.price >= n.open
                          /\ sellM.filled => sellM.price <= n.open
                          /\ buyL.filled => buyL.price >= limit /\ buyL.price >= n.low
                          /\ sellL.filled => sellL.price <= limit /\ sellL.price <= n.high
                          /\ buyS.filled => /\ buyS.price >= limit /\ n.high >= limit
                                            /\ buyS.price >= n.low \/ n.low > limit
                          /\ sellS.filled => /\ sellS.price <= limit /\ n.low <= limit
                                             /\ sellS.price <= n.high \/ n.high < limit
    BY Zenon DEF FillsNeverBeatTheirOrder
  <2>1. amount \in Nat /\ limit \in Int /\ n.low \in Int /\ n.high \in Int
    BY BarFacts, ReplayAssumption
  <2>2. RefBar(b, n) = n
    BY BarFacts DEF RefBar
  <2>3. /\ MarketFill("buy", amount, b, n).filled =>
             MarketFill("buy", amount, b, n).price >= n.open
        /\ MarketFill("sell", amount, b, n).filled =>
             MarketFill("sell", amount, b, n).price <= n.open
    BY <2>1, <2>2, MarketFacts
  <2>4. /\ LimitFill("buy", amount, limit, n, TRUE).filled =>
             LimitFill("buy", amount, limit, n, TRUE).price = limit /\ n.low <= limit
        /\ LimitFill("sell", amount, limit, n, TRUE).filled =>
             LimitFill("sell", amount, limit, n, TRUE).price = limit /\ limit <= n.high
    BY <2>1, LimitFacts
  <2>5. /\ limit >= limit /\ limit <= limit
        /\ n.low <= limit => limit >= n.low
    BY <2>1
  <2>6. LET fill == LimitFill("buy", amount, limit, n, TRUE)
        IN  fill.filled => fill.price >= limit /\ fill.price >= n.low
    BY Zenon, <2>4, <2>5
  <2>7. LET fill == LimitFill("sell", amount, limit, n, TRUE)
        IN  fill.filled => fill.price <= limit /\ fill.price <= n.high
    BY Zenon, <2>4, <2>5
  <2>8. LET fill == StopFill("buy", amount, limit, n)
        IN  fill.filled => /\ fill.price >= limit /\ n.high >= limit
                           /\ fill.price >= n.low \/ n.low > limit
    BY <2>1, StopFacts
  <2>9. LET fill == StopFill("sell", amount, limit, n)
        IN  fill.filled => /\ fill.price <= limit /\ n.low <= limit
                           /\ fill.price <= n.high \/ n.high < limit
    BY <2>1, StopFacts
  <2> QED BY Zenon, <2>3, <2>6, <2>7, <2>8, <2>9
<1> QED BY <1>1, PTL

-----------------------------------------------------------------------------
(* The ledger *)

\* What the trades of a ledger add up to is an integer.
LEMMA EarnedInt ==
  ASSUME NEW s \in Seq(Trades)
  PROVE  Earned(s) \in Int
<1> DEFINE f == [i \in DOMAIN s |-> s[i].net]
           S == 1 .. Len(s)
<1>1. DOMAIN s = S /\ Len(s) \in Nat /\ \A i \in S : s[i] \in Trades
  OBVIOUS
<1>2. \A i \in S : f[i] \in Int
  BY <1>1 DEF Trades
<1>3. IsFiniteSet(S)
  BY <1>1, FS_Interval
<1>4. Earned(s) = SumFunctionOnSet(f, S)
  BY <1>1 DEF Earned
<1> HIDE DEF f, S
<1> QED BY <1>2, <1>3, <1>4, SumInt

\* One more trade adds its own result.
LEMMA EarnedAppend ==
  ASSUME NEW s \in Seq(Trades), NEW trade \in Trades
  PROVE  Earned(Append(s, trade)) = Earned(s) + trade.net
<1> DEFINE n == Len(s)
           t == Append(s, trade)
           f == [i \in DOMAIN s |-> s[i].net]
           h == [i \in DOMAIN t |-> t[i].net]
           S == 1 .. n
           T == 1 .. n + 1
<1>1. /\ n \in Nat /\ DOMAIN s = S /\ DOMAIN t = T /\ t[n + 1] = trade
      /\ \A i \in S : t[i] = s[i] /\ s[i] \in Trades
  OBVIOUS
<1>2. trade.net \in Int /\ \A i \in S : s[i].net \in Int
  BY <1>1 DEF Trades
<1>3. /\ \A i \in S : f[i] \in Int /\ h[i] = f[i]
      /\ \A i \in T : h[i] \in Int
      /\ h[n + 1] = trade.net
  <2>1. \A i \in S : f[i] = s[i].net
    BY <1>1
  <2>2. \A i \in T : h[i] = t[i].net
    BY <1>1
  <2>3. \A i \in T : i \in S \/ i = n + 1
    BY <1>1
  <2>4. S \subseteq T /\ n + 1 \in T
    BY <1>1
  <2> HIDE DEF f, h, t, S, T
  <2> QED BY <1>1, <1>2, <2>1, <2>2, <2>3, <2>4
<1>4. IsFiniteSet(S) /\ IsFiniteSet(T)
  BY <1>1, FS_Interval
<1>5. n + 1 \in T /\ T \ {n + 1} = S
  BY <1>1
<1>6. Earned(s) = SumFunctionOnSet(f, S) /\ Earned(t) = SumFunctionOnSet(h, T)
  BY <1>1 DEF Earned
<1>7. SumFunctionOnSet(f, S) \in Int
  <2>1. Earned(s) \in Int
    BY EarnedInt
  <2> QED BY ONLY <1>6, <2>1
<1> HIDE DEF f, h, t, S, T, n
<1>8. SumFunctionOnSet(h, T) = h[n + 1] + SumFunctionOnSet(h, S)
  BY <1>3, <1>4, <1>5, SumTake
<1>9. SumFunctionOnSet(h, S) = SumFunctionOnSet(f, S)
  BY <1>3, <1>4, SumSame
<1> QED BY <1>2, <1>3, <1>6, <1>7, <1>8, <1>9 DEF t

\* An exit of a position.
Exits == [price : Int, reason : Reasons, at : Nat, fees : Int]

\* The money is the capital and what the trades earned, d away from it: two
\* inequalities about integers.
LEMMA BalancedIs ==
  ASSUME NEW money \in Int, NEW s \in Seq(Trades)
  PROVE  /\ Earned(s) \in Int /\ (Capital + Earned(s)) * Unit \in Int
         /\ Len(s) \in Nat /\ Len(s) * Unit \in Int
         /\ Balanced(money, s) <=>
              /\ 2 * (money - (Capital + Earned(s)) * Unit) <= Len(s) * Unit
              /\ 2 * ((Capital + Earned(s)) * Unit - money) <= Len(s) * Unit
<1>1. PICK e \in Int : e = Earned(s)
  BY EarnedInt
<1>2. PICK c \in Int : c = (Capital + e) * Unit
  BY FillAssumption, ReplayAssumption, Integral
<1>3. PICK l \in Nat : l = Len(s)
  OBVIOUS
<1>4. PICK u \in Int : u = l * Unit
  BY FillAssumption, Integral
<1>5. Abs(money - c) = IF money - c < 0 THEN -(money - c) ELSE money - c
  BY DEF Abs
<1>6. Balanced(money, s) <=> 2 * Abs(money - c) <= u
  BY <1>1, <1>2, <1>3, <1>4 DEF Balanced
<1>7. 2 * Abs(money - c) <= u <=> 2 * (money - c) <= u /\ 2 * (c - money) <= u
  BY <1>5
<1> QED BY <1>1, <1>2, <1>3, <1>4, <1>6, <1>7

LEMMA LoopFacts ==
  ASSUME LoopSound
  PROVE  /\ NBars \in Nat \ {0} /\ idx \in Nat \ {0} /\ current \in Nat \ {0}
         /\ current <= Len(Universe) /\ Len(Universe) \in Nat
         /\ next = NoBar <=> idx >= NBars
         /\ Len(trades) \in Nat /\ \A i \in 1 .. Len(trades) : trades[i] \in Trades
<1>1. current \in 1 .. Len(Universe) /\ Len(Universe) \in Nat
  BY ReplayAssumption DEF LoopSound
<1>2. NBars = Lengths[current] /\ NBars \in Nat \ {0}
  BY <1>1, ReplayAssumption DEF NBars
<1>3. idx \in Nat \ {0}
  BY <1>2 DEF LoopSound
<1>4. next \in IF idx < NBars THEN Bars ELSE {NoBar}
  BY <1>2 DEF LoopSound, NextBars
<1>5. next = NoBar <=> idx >= NBars
  BY <1>2, <1>3, <1>4, ReplayAssumption
<1>6. Len(trades) \in Nat /\ \A i \in 1 .. Len(trades) : trades[i] \in Trades
  BY DEF LoopSound
<1> QED BY <1>1, <1>2, <1>3, <1>5, <1>6

\* The loop goes on within its bars.
LEMMA AdvanceLoop ==
  ASSUME LoopSound, idx <= NBars, Advance, UNCHANGED <<simulator, current>>,
         position' \in SUBSET Positions, trades' \in Seq(Trades), skipped' \in Nat, cash' \in Int
  PROVE  LoopSound' /\ idx' = idx + 1 /\ NBars' = NBars /\ scored' = FALSE
<1>1. /\ idx' = idx + 1 /\ NBars' = NBars /\ current' = current /\ simulator' = simulator
      /\ scored' = FALSE /\ next' \in NextBars(current, idx + 1)
  BY DEF Advance, NBars
<1>2. idx' \in 1 .. NBars' + 1
  BY <1>1, LoopFacts
<1>3. bar' \in Bars
  <2>1. next \in Bars \/ next = NoBar
    BY DEF LoopSound, NextBars
  <2> QED BY <2>1 DEF Advance, LoopSound
<1>4. next' \in NextBars(current', idx')
  BY <1>1
<1>5. simulator' \in {"null", "slippage"} /\ current' \in 1 .. Len(Universe)
  BY <1>1 DEF LoopSound
<1> QED BY <1>1, <1>2, <1>3, <1>4, <1>5 DEF LoopSound

\* The derivations of a signal and of its size.
LEMMA SignalFacts ==
  ASSUME LoopSound, NEW signal \in Signals
  PROVE  /\ signal.stop \in Nat \ {0} /\ signal.target \in Int /\ signal.stop < signal.target
         /\ SizeOf(signal) \in Nat
         /\ 2 * (SizeOf(signal) * (signal.target - signal.stop))
              <= 4 * RiskCapital + (signal.target - signal.stop)
<1>1. PICK d \in Distances : WellFormed(bar.close, d) /\ signal = SignalOf(bar.close, d)
  BY DEF Signals
<1>2. d \in Nat \ {0} /\ bar.close \in Int /\ bar.close - d > 0
  BY <1>1, BarFacts, ReplayAssumption DEF WellFormed, LoopSound
<1>3. signal.mid = bar.close /\ signal.stop = bar.close - d /\ signal.target = bar.close + d
  BY <1>1 DEF SignalOf
<1>4. signal.mid - signal.stop = d /\ signal.target - signal.stop = 2 * d
  BY <1>2, <1>3
<1>5. RiskCapital \in Nat
  BY ReplayAssumption
<1>6. PICK q \in Int : q = Rounded(RiskCapital, d) /\ 2 * (q * d - RiskCapital) <= d
  <2>1. RiskCapital \in Int /\ d \in Nat \ {0}
    BY <1>2, <1>5
  <2> QED BY <2>1, RoundedIs
<1>7. SizeOf(signal) = q
  BY <1>4, <1>6 DEF SizeOf
<1>8. q \in Nat
  <2>1. 0 * d <= RiskCapital
    BY <1>2, <1>5
  <2>2. 0 \in Int /\ RiskCapital \in Int /\ d \in Nat \ {0}
    BY <1>2, <1>5
  <2>3. 0 <= q
    BY <1>6, <2>1, <2>2, RoundedKeeps
  <2> QED BY <1>6, <2>3
<1>9. PICK t \in Int : t = q * d
  BY <1>2, <1>6, Integral
<1>10. q * (2 * d) = 2 * t
  BY <1>2, <1>6, <1>9
<1>11. 2 * (q * (2 * d)) <= 4 * RiskCapital + 2 * d
  BY <1>2, <1>5, <1>6, <1>9, <1>10
<1> QED BY <1>2, <1>3, <1>4, <1>7, <1>8, <1>11

LEMMA EntryFacts ==
  ASSUME LoopSound, NEW size \in Nat, Entry(size).filled
  PROVE  Entry(size).price \in Int /\ Entry(size).fees \in Nat
<1>1. bar \in Bars /\ next \in Bars \union {NoBar}
  BY DEF LoopSound, NextBars
<1>2. RefBar(bar, next) \in Bars
  BY <1>1, MarketFacts
<1>3. CASE simulator = "null"
  <2>1. RefBar(bar, next).open \in Int
    BY <1>2, BarFacts
  <2> QED BY <1>3, <2>1 DEF Entry, NullFill
<1>4. CASE simulator # "null"
  BY <1>1, <1>4, MarketFacts DEF Entry
<1> QED BY <1>3, <1>4

\* The trade of a position that is closed: its net result is what its fills moved,
\* to half a quantum.
LEMMA TradeFacts ==
  ASSUME LoopSound, NEW p \in Positions, NEW exit \in Exits
  PROVE  /\ TradeOf(p, exit) \in Trades
         /\ p.price * p.size \in Int /\ exit.price * p.size \in Int
         /\ p.fees * Unit \in Int /\ exit.fees * Unit \in Int /\ TradeOf(p, exit).net * Unit \in Int
         /\ 2 * (TradeOf(p, exit).net * Unit - (exit.price * p.size - p.price * p.size
                     - p.fees * Unit - exit.fees * Unit)) <= Unit
         /\ 2 * ((exit.price * p.size - p.price * p.size
                     - p.fees * Unit - exit.fees * Unit) - TradeOf(p, exit).net * Unit) <= Unit
<1>1. /\ p.price \in Int /\ p.at \in Nat /\ p.size \in Nat \ {0} /\ p.fees \in Nat /\ p.stop \in Int
      /\ exit.price \in Int /\ exit.at \in Nat /\ exit.fees \in Int /\ exit.reason \in Reasons
      /\ Unit \in Nat \ {0}
  BY FillAssumption DEF Positions, Exits
<1>2. PICK a \in Int, b \in Int : a = p.price * p.size /\ b = exit.price * p.size
  BY <1>1, Integral
<1>3. PICK f \in Int, g \in Int : f = p.fees * Unit /\ g = exit.fees * Unit
  BY <1>1, Integral
<1>4. (exit.price - p.price) * p.size = b - a
  BY <1>1, <1>2
<1>5. (p.fees + exit.fees) * Unit = f + g
  BY <1>1, <1>3
<1>6. PICK moved \in Int : moved = b - a - (f + g)
  OBVIOUS
<1>7. TradeOf(p, exit).net = Rounded(moved, Unit)
  BY <1>4, <1>5, <1>6 DEF TradeOf
<1>8. PICK net \in Int : /\ net = Rounded(moved, Unit)
                         /\ 2 * (net * Unit - moved) <= Unit /\ 2 * (moved - net * Unit) <= Unit
  BY <1>1, RoundedIs
<1>9. PICK w \in Int : w = net * Unit
  BY <1>1, Integral
<1>10. Universe[current] \in Range(Universe)
  BY ReplayAssumption DEF LoopSound, Range
<1>11. TradeOf(p, exit) \in Trades
  <2>1. TradeOf(p, exit).net \in Int /\ p.fees + exit.fees \in Int
    BY <1>1, <1>7, <1>8
  <2> QED BY <1>1, <1>10, <2>1 DEF TradeOf, Trades
<1>12. 2 * (w - (b - a - f - g)) <= Unit /\ 2 * ((b - a - f - g) - w) <= Unit
  BY <1>1, <1>6, <1>8, <1>9
<1> QED BY <1>2, <1>3, <1>7, <1>8, <1>9, <1>11, <1>12

\* Closing a position makes its cost and its result one trade, and half a
\* quantum more may be out.
LEMMA CloseCash ==
  ASSUME LoopSound, CashSound, NEW p \in position, NEW exit \in Exits, Close(p, exit)
  PROVE  /\ trades' \in Seq(Trades) /\ cash' \in Int /\ position' = {}
         /\ CashSound'
<1> DEFINE t == TradeOf(p, exit)
           s == Append(trades, t)
<1>1. p \in Positions /\ trades \in Seq(Trades) /\ cash \in Int /\ Unit \in Nat \ {0}
  BY FillAssumption DEF LoopSound
<1>2. t \in Trades
  BY <1>1, TradeFacts
<1>3. trades' = s /\ position' = {} /\ cash' = cash + exit.price * p.size - exit.fees * Unit
  BY DEF Close
<1>4. /\ s \in Seq(Trades) /\ Len(s) = Len(trades) + 1
      /\ Earned(s) = Earned(trades) + t.net
  BY <1>1, <1>2, EarnedAppend
<1>5. PICK a \in Int, b \in Int, f \in Int, g \in Int, w \in Int :
        /\ a = p.price * p.size /\ b = exit.price * p.size
        /\ f = p.fees * Unit /\ g = exit.fees * Unit /\ w = t.net * Unit
        /\ 2 * (w - (b - a - f - g)) <= Unit /\ 2 * ((b - a - f - g) - w) <= Unit
  BY <1>1, TradeFacts
<1>6. t.net \in Int
  BY <1>2 DEF Trades
<1> HIDE DEF t, s
<1>7. PICK e \in Int, c \in Int, l \in Nat, u \in Int :
        /\ e = Earned(trades) /\ c = (Capital + Earned(trades)) * Unit
        /\ l = Len(trades) /\ u = Len(trades) * Unit
  BY <1>1, BalancedIs
<1>8. PICK m \in Int : m = cash + a + f
  BY <1>1
<1>9. Balanced(m, trades)
  BY <1>5, <1>8 DEF CashSound
<1>10. 2 * (m - c) <= u /\ 2 * (c - m) <= u
  BY <1>1, <1>7, <1>9, BalancedIs
<1>11. PICK n \in Int : n = cash + b - g /\ cash' = n
  BY <1>1, <1>3, <1>5
<1>12. (Capital + Earned(s)) * Unit = c + w
  <2>1. Capital \in Int /\ Earned(s) = e + t.net
    BY <1>4, <1>7, ReplayAssumption
  <2>2. (Capital + (e + t.net)) * Unit = (Capital + e) * Unit + t.net * Unit
    BY <1>1, <1>6, <2>1
  <2> QED BY <1>5, <1>7, <2>1, <2>2
<1>13. Len(s) * Unit = u + Unit
  BY <1>1, <1>4, <1>7
<1>14. 2 * (n - (c + w)) <= u + Unit /\ 2 * ((c + w) - n) <= u + Unit
  <2>1. PICK i \in Int, v \in Int : i = cash /\ v = Unit
    BY <1>1
  <2>2. /\ m = i + a + f /\ n = i + b - g
        /\ 2 * (w - (b - a - f - g)) <= v /\ 2 * ((b - a - f - g) - w) <= v
        /\ 2 * (m - c) <= u /\ 2 * (c - m) <= u
    BY <1>5, <1>8, <1>10, <1>11, <2>1
  <2>3. 2 * (n - (c + w)) <= u + v /\ 2 * ((c + w) - n) <= u + v
    BY ONLY <2>2
  <2> QED BY <2>1, <2>3
<1>15. Balanced(n, s)
  BY <1>4, <1>12, <1>13, <1>14, BalancedIs
<1>16. Balanced(cash', trades')
  BY <1>3, <1>11, <1>15
<1>17. CashSound'
  <2>1. Balanced(cash, trades)'
    BY <1>16 DEF Balanced, Earned
  <2> QED BY <1>3, <2>1 DEF CashSound
<1> QED BY <1>3, <1>4, <1>11, <1>17

\* A step that adds no trade leaves the ledger in order.
LEMMA SequentialKept ==
  ASSUME LedgerIsSequential, trades' = trades
  PROVE  LedgerIsSequential'
BY DEF LedgerIsSequential

\* The trade of a position that is closed, on the present bar or past the last,
\* follows those of its ticker.
LEMMA CloseLedger ==
  ASSUME LoopSound, PositionSound, LedgerSound, LedgerIsSequential,
         NEW p \in position, NEW exit \in Exits, Close(p, exit),
         UNCHANGED <<current, idx>>,
         \/ exit.at = idx /\ idx <= NBars /\ scored'
         \/ exit.at = NBars /\ idx = NBars + 1 /\ exit.reason = "end_of_data" /\ scored' = scored
  PROVE  LedgerSound' /\ LedgerIsSequential'
<1> DEFINE n == Len(trades)
           t == TradeOf(p, exit)
<1>1. /\ n \in Nat /\ NBars \in Nat \ {0} /\ idx \in Nat \ {0} /\ current \in Nat \ {0}
      /\ \A i \in 1 .. n : trades[i] \in Trades
  BY LoopFacts
<1>2. t \in Trades /\ trades \in Seq(Trades) /\ p \in Positions
  BY TradeFacts DEF LoopSound
<1>3. /\ trades' = Append(trades, t) /\ position' = {}
      /\ current' = current /\ idx' = idx /\ NBars' = NBars
  BY DEF Close, NBars
<1>4. /\ Len(trades') = n + 1 /\ trades'[n + 1] = t
      /\ \A i \in 1 .. n : trades'[i] = trades[i]
  BY <1>2, <1>3
<1>5. /\ t.ticker = Universe[current] /\ t.entryAt = p.at /\ t.exitAt = exit.at
      /\ t.reason = exit.reason
  BY DEF TradeOf
<1>6. p.at \in Nat \ {0} /\ p.at <= idx /\ p.at <= NBars /\ ~scored
  BY <1>2 DEF PositionSound, Positions
<1>7. p.at <= exit.at /\ exit.at <= NBars /\ exit.at <= idx /\ exit.at \in Nat
      /\ (exit.at = idx => scored')
  BY <1>1, <1>6
<1>8. \A i \in 1 .. n :
        /\ trades[i].exitAt \in Nat /\ trades[i].entryAt \in Nat
        /\ trades[i].entryAt <= trades[i].exitAt
        /\ \E k \in 1 .. current : trades[i].ticker = Universe[k]
        /\ trades[i].ticker = Universe[current] =>
             /\ trades[i].exitAt <= NBars /\ trades[i].exitAt <= idx /\ trades[i].exitAt # idx
             /\ trades[i].exitAt < p.at \/ (idx = NBars + 1 /\ p.at = NBars)
  BY <1>1, <1>6 DEF LedgerSound, Trades
<1>9. \A i \in 1 .. n + 1 : i \in 1 .. n \/ i = n + 1
  BY <1>1
<1> HIDE DEF n, t
<1>10. LedgerSound'
  <2> SUFFICES ASSUME NEW i \in 1 .. n + 1
               PROVE  /\ trades'[i].entryAt <= trades'[i].exitAt
                      /\ \E k \in 1 .. current : trades'[i].ticker = Universe[k]
                      /\ trades'[i].ticker = Universe[current] =>
                           /\ trades'[i].exitAt <= NBars /\ trades'[i].exitAt <= idx
                           /\ trades'[i].exitAt = idx => scored'
    BY <1>3, <1>4 DEF LedgerSound
  <2>1. CASE i \in 1 .. n
    BY <1>4, <1>8, <2>1
  <2>2. CASE i = n + 1
    <3>1. current \in 1 .. current
      BY <1>1
    <3> QED BY <1>4, <1>5, <1>7, <2>2, <3>1
  <2> QED BY <1>9, <2>1, <2>2
<1>11. LedgerIsSequential'
  <2> SUFFICES ASSUME NEW i \in 1 .. n + 1, NEW j \in 1 .. n + 1, i < j,
                      trades'[i].ticker = trades'[j].ticker
               PROVE  \/ trades'[i].exitAt < trades'[j].entryAt
                      \/ trades'[j].reason = "end_of_data" /\ trades'[i].exitAt = trades'[j].exitAt
    BY <1>4 DEF LedgerIsSequential
  <2>1. i \in 1 .. n
    BY <1>1
  <2>2. CASE j \in 1 .. n
    BY <1>4, <2>1, <2>2 DEF LedgerIsSequential, n
  <2>3. CASE j = n + 1
    <3>1. /\ trades'[j].entryAt = p.at /\ trades'[j].exitAt = exit.at
          /\ trades'[j].reason = exit.reason /\ trades'[i] = trades[i]
          /\ trades[i].ticker = Universe[current]
      BY <1>4, <1>5, <2>1, <2>3
    <3>2. /\ trades[i].exitAt \in Nat /\ trades[i].exitAt <= NBars
          /\ trades[i].exitAt < p.at \/ (idx = NBars + 1 /\ p.at = NBars)
      BY <1>8, <2>1, <3>1
    <3>3. CASE trades[i].exitAt < p.at
      BY <3>1, <3>3
    <3>4. CASE ~(trades[i].exitAt < p.at)
      <4>1. idx = NBars + 1 /\ p.at = NBars /\ trades[i].exitAt = NBars
        BY <1>1, <3>2, <3>4
      <4>2. exit.at = NBars /\ exit.reason = "end_of_data"
        BY <1>1, <4>1
      <4> QED BY <3>1, <4>1, <4>2
    <3> QED BY <3>3, <3>4
  <2> QED BY <1>9, <2>2, <2>3
<1> QED BY <1>10, <1>11

-----------------------------------------------------------------------------
(* The steps *)

LEMMA HoldStep ==
  ASSUME ReplayInv, Hold
  PROVE  ReplayInv'
<1>1. /\ LoopSound /\ PositionSound /\ LedgerSound /\ LedgerIsSequential /\ CashSound
      /\ idx <= NBars /\ ~scored /\ Advance
      /\ UNCHANGED <<simulator, current, position, trades, skipped, cash>>
  BY DEF ReplayInv, Hold
<1>2. LoopSound' /\ idx' = idx + 1 /\ NBars' = NBars /\ scored' = FALSE
  <2>1. /\ position' \in SUBSET Positions /\ trades' \in Seq(Trades)
        /\ skipped' \in Nat /\ cash' \in Int
    BY <1>1 DEF LoopSound
  <2> QED BY <1>1, <2>1, AdvanceLoop
<1>3. NBars \in Nat /\ idx \in Nat /\ Len(trades) \in Nat
      /\ \A i \in 1 .. Len(trades) : trades[i] \in Trades
  BY <1>1, LoopFacts
<1>4. \A p \in position : p.at \in Nat
  BY <1>1 DEF LoopSound, Positions
<1>5. PositionSound'
  <2>1. \A p, q \in position : p = q
    BY <1>1 DEF PositionSound
  <2>2. ASSUME NEW p \in position
        PROVE  /\ p.at <= idx + 1 /\ p.at <= NBars /\ p.stop < p.target
               /\ 2 * (p.size * (p.target - p.stop)) <= 4 * RiskCapital + (p.target - p.stop)
    BY <1>1, <1>3, <1>4 DEF PositionSound
  <2>3. ASSUME NEW p \in position, idx + 1 > NBars
        PROVE  bar.low > p.stop /\ bar.high < p.target /\ bar' = bar
    <3>1. \E q \in position : ~Touches(q)
      BY DEF Hold
    <3>2. ~Touches(p)
      BY <2>1, <3>1
    <3>3. next = NoBar
      BY <1>1, <1>3, <2>3, LoopFacts
    <3>4. bar' = bar
      BY <1>1, <3>3 DEF Advance
    <3>5. p.stop \in Int /\ p.target \in Int /\ bar.low \in Int /\ bar.high \in Int
      BY <1>1, BarFacts DEF LoopSound, Positions
    <3> QED BY <3>2, <3>4, <3>5 DEF Touches
  <2>4. ASSUME NEW p \in position, idx + 1 > NBars
        PROVE  ~(bar'.low <= p.stop \/ bar'.high >= p.target)
    <3>1. p.stop \in Int /\ p.target \in Int /\ bar.low \in Int /\ bar.high \in Int
      BY <1>1, BarFacts DEF LoopSound, Positions
    <3> QED BY <2>3, <2>4, <3>1
  <2>5. position' = position
    BY <1>1
  <2> QED BY <1>2, <2>1, <2>2, <2>4, <2>5 DEF PositionSound, Touches
<1>6. LedgerSound'
  BY <1>1, <1>2, <1>3, <1>4 DEF LedgerSound, Trades
<1>7. LedgerIsSequential' /\ CashSound'
  BY <1>1, SequentialKept DEF CashSound
<1> QED BY <1>2, <1>5, <1>6, <1>7 DEF ReplayInv

\* The steps that find no signal, or one that is not taken.
LEMMA PassStep ==
  ASSUME ReplayInv, idx <= NBars, position = {}, Advance, skipped' \in {skipped, skipped + 1},
         UNCHANGED <<simulator, current, position, trades, cash>>
  PROVE  ReplayInv'
<1>1. LoopSound /\ PositionSound /\ LedgerSound /\ LedgerIsSequential /\ CashSound
  BY DEF ReplayInv
<1>2. LoopSound' /\ idx' = idx + 1 /\ NBars' = NBars /\ scored' = FALSE
  <2>1. /\ position' \in SUBSET Positions /\ trades' \in Seq(Trades)
        /\ skipped' \in Nat /\ cash' \in Int
    BY <1>1 DEF LoopSound
  <2> QED BY <1>1, <2>1, AdvanceLoop
<1>3. NBars \in Nat /\ idx \in Nat /\ Len(trades) \in Nat
      /\ \A i \in 1 .. Len(trades) : trades[i] \in Trades
  BY <1>1, LoopFacts
<1>4. PositionSound'
  BY DEF PositionSound
<1>5. LedgerSound'
  BY <1>1, <1>2, <1>3 DEF LedgerSound, Trades
<1>6. LedgerIsSequential' /\ CashSound'
  BY <1>1, SequentialKept DEF CashSound
<1> QED BY <1>2, <1>4, <1>5, <1>6 DEF ReplayInv

\* What closes a position, its fee rounded.
LEMMA OutcomeFacts ==
  ASSUME NEW p \in Positions, NEW price \in Int, NEW reason \in Reasons, NEW at \in Nat, NEW rate \in Nat
  PROVE  /\ Outcome(p, price, reason, at, rate) \in Exits
         /\ Outcome(p, price, reason, at, rate).at = at
         /\ Outcome(p, price, reason, at, rate).reason = reason
         /\ Outcome(p, price, reason, at, rate).price = price
<1>1. PICK x \in Int : x = price * p.size * rate
  BY Integral DEF Positions
<1>2. PICK y \in Nat \ {0} : y = Denom * Unit
  BY FillAssumption
<1>3. Rounded(x, y) \in Int
  BY RoundedIs
<1> QED BY <1>1, <1>2, <1>3 DEF Outcome, Exits

LEMMA ExitFacts ==
  ASSUME LoopSound, NEW p \in Positions
  PROVE  /\ ExitOf(p) \in Exits /\ ExitOf(p).at = idx
         /\ ExitOf(p).price = IF bar.low <= p.stop THEN p.stop ELSE p.target
         /\ ExitOf(p).reason # "end_of_data"
<1>1. p.stop \in Int /\ p.target \in Int /\ idx \in Nat /\ ExitFeeRate \in Nat
  BY LoopFacts, ReplayAssumption DEF Positions
<1>2. "stop" \in Reasons /\ "target" \in Reasons
  BY DEF Reasons
<1>3. CASE bar.low <= p.stop
  <2>1. ExitOf(p) = Outcome(p, p.stop, "stop", idx, ExitFeeRate)
    BY <1>3 DEF ExitOf, ExitAt
  <2> QED BY <1>1, <1>2, <1>3, <2>1, OutcomeFacts
<1>4. CASE ~(bar.low <= p.stop)
  <2>1. ExitOf(p) = Outcome(p, p.target, "target", idx, ExitFeeRate)
    BY <1>4 DEF ExitOf, ExitAt
  <2> QED BY <1>1, <1>2, <1>4, <2>1, OutcomeFacts
<1> QED BY <1>3, <1>4

LEMMA ExitStep ==
  ASSUME ReplayInv, Exit
  PROVE  ReplayInv'
<1>1. /\ LoopSound /\ PositionSound /\ LedgerSound /\ LedgerIsSequential /\ CashSound
      /\ idx <= NBars /\ scored' = TRUE
      /\ UNCHANGED <<simulator, current, idx, bar, next, skipped>>
  BY DEF ReplayInv, Exit
<1>2. PICK p \in position : Close(p, ExitOf(p))
  BY DEF Exit
<1>3. ExitOf(p) \in Exits /\ ExitOf(p).at = idx
  BY <1>1, ExitFacts DEF LoopSound
<1>4. trades' \in Seq(Trades) /\ cash' \in Int /\ position' = {} /\ CashSound'
  BY <1>1, <1>2, <1>3, CloseCash
<1>5. LedgerSound' /\ LedgerIsSequential'
  BY <1>1, <1>2, <1>3, CloseLedger
<1>6. LoopSound'
  BY <1>1, <1>4 DEF LoopSound, NBars
<1>7. PositionSound'
  BY <1>4 DEF PositionSound
<1> QED BY <1>4, <1>5, <1>6, <1>7 DEF ReplayInv

LEMMA EndOfDataStep ==
  ASSUME ReplayInv, EndOfData
  PROVE  ReplayInv'
<1>1. /\ LoopSound /\ PositionSound /\ LedgerSound /\ LedgerIsSequential /\ CashSound
      /\ idx > NBars /\ UNCHANGED <<simulator, current, idx, bar, next, scored, skipped>>
  BY DEF ReplayInv, EndOfData
<1> DEFINE exit(p) == Outcome(p, bar.close, "end_of_data", NBars, FeeRate)
<1>2. PICK p \in position : Close(p, exit(p))
  BY DEF EndOfData
<1>3. /\ bar.close \in Int /\ p \in Positions /\ NBars \in Nat /\ idx \in Nat /\ FeeRate \in Nat
  BY <1>1, BarFacts, LoopFacts, FillAssumption DEF LoopSound
<1>4. "end_of_data" \in Reasons
  BY DEF Reasons
<1>5. exit(p) \in Exits /\ exit(p).at = NBars /\ exit(p).reason = "end_of_data"
  BY <1>3, <1>4, OutcomeFacts
<1>6. idx = NBars + 1 /\ scored' = scored
  BY <1>1, <1>3 DEF LoopSound
<1> HIDE DEF exit
<1>7. trades' \in Seq(Trades) /\ cash' \in Int /\ position' = {} /\ CashSound'
  BY <1>1, <1>2, <1>5, CloseCash
<1>8. LedgerSound' /\ LedgerIsSequential'
  BY <1>1, <1>2, <1>5, <1>6, CloseLedger
<1>9. LoopSound'
  BY <1>1, <1>7 DEF LoopSound, NBars
<1>10. PositionSound'
  BY <1>7 DEF PositionSound
<1> QED BY <1>7, <1>8, <1>9, <1>10 DEF ReplayInv

LEMMA EnterStep ==
  ASSUME ReplayInv, NEW signal \in Signals, Enter(signal)
  PROVE  ReplayInv'
<1> DEFINE size == SizeOf(signal)
           fill == Entry(size)
           p == Opened(signal, size, fill)
<1>1. /\ LoopSound /\ PositionSound /\ LedgerSound /\ LedgerIsSequential /\ CashSound
      /\ idx <= NBars /\ position = {} /\ size > 0 /\ fill.filled /\ position' = {p}
      /\ cash' = cash - fill.price * size - fill.fees * Unit
      /\ Advance /\ UNCHANGED <<simulator, current, trades, skipped>>
  BY DEF ReplayInv, Enter
<1>2. /\ signal.stop \in Nat \ {0} /\ signal.target \in Int /\ signal.stop < signal.target
      /\ size \in Nat \ {0}
      /\ 2 * (size * (signal.target - signal.stop)) <= 4 * RiskCapital + (signal.target - signal.stop)
  BY <1>1, SignalFacts
<1>3. fill.price \in Int /\ fill.fees \in Nat
  BY <1>1, <1>2, EntryFacts
<1>4. /\ NBars \in Nat \ {0} /\ idx \in Nat \ {0} /\ (next = NoBar <=> idx >= NBars)
      /\ Len(trades) \in Nat /\ \A i \in 1 .. Len(trades) : trades[i] \in Trades
  BY <1>1, LoopFacts
<1>5. /\ p.price = fill.price /\ p.fees = fill.fees /\ p.size = size /\ p.stop = signal.stop
      /\ p.target = signal.target /\ p.at = EntryAt
      /\ p = [price |-> fill.price, at |-> EntryAt, size |-> size, fees |-> fill.fees,
              stop |-> signal.stop, target |-> signal.target]
  BY DEF Opened
<1>6. \/ EntryAt = idx + 1 /\ idx < NBars
      \/ EntryAt = idx /\ idx = NBars
  BY <1>1, <1>4 DEF EntryAt
<1>7. EntryAt \in Nat \ {0} /\ EntryAt <= NBars /\ EntryAt <= idx + 1
  BY <1>4, <1>6
<1> HIDE DEF size, fill, p
<1>8. p \in Positions
  BY <1>2, <1>3, <1>5, <1>7 DEF Positions
<1>9. fill.price * size \in Int /\ fill.fees * Unit \in Int
  BY <1>2, <1>3, FillAssumption, Integral
<1>10. cash \in Int /\ cash' \in Int
  BY <1>1, <1>9 DEF LoopSound
<1>11. LoopSound' /\ idx' = idx + 1 /\ NBars' = NBars /\ scored' = FALSE
  BY <1>1, <1>8, <1>10, AdvanceLoop DEF LoopSound
<1>12. PositionSound'
  <2>1. /\ p.at <= idx' /\ p.at <= NBars' /\ ~scored' /\ p.stop < p.target
        /\ 2 * (p.size * (p.target - p.stop)) <= 4 * RiskCapital + (p.target - p.stop)
    BY <1>2, <1>5, <1>7, <1>11
  <2>2. idx' > NBars' => p.at = NBars'
    BY <1>4, <1>5, <1>6, <1>11
  <2>3. position' = {p}
    BY <1>1
  <2> QED BY <2>1, <2>2, <2>3 DEF PositionSound
<1>13. LedgerSound'
  <2> SUFFICES ASSUME NEW i \in 1 .. Len(trades)
               PROVE  /\ trades[i].entryAt <= trades[i].exitAt
                      /\ \E k \in 1 .. current : trades[i].ticker = Universe[k]
                      /\ trades[i].ticker = Universe[current] =>
                           /\ trades[i].exitAt <= NBars /\ trades[i].exitAt <= idx + 1
                           /\ trades[i].exitAt # idx + 1
                           /\ trades[i].exitAt < p.at \/ (idx = NBars /\ p.at = NBars)
    BY <1>1, <1>4, <1>11 DEF LedgerSound
  <2>1. /\ trades[i].exitAt \in Nat /\ trades[i].entryAt <= trades[i].exitAt
        /\ \E k \in 1 .. current : trades[i].ticker = Universe[k]
        /\ trades[i].ticker = Universe[current] =>
             trades[i].exitAt <= NBars /\ trades[i].exitAt <= idx
    BY <1>1, <1>4 DEF LedgerSound, Trades
  <2> QED BY <1>4, <1>5, <1>6, <2>1
<1>14. LedgerIsSequential'
  BY <1>1, SequentialKept
<1>15. CashSound'
  <2>1. Balanced(cash, trades)
    BY <1>1 DEF CashSound
  <2>2. cash' + p.price * p.size + p.fees * Unit = cash
    <3>1. PICK m \in Int, f \in Int : m = fill.price * size /\ f = fill.fees * Unit
      BY <1>9
    <3>2. cash' = cash - m - f
      BY <1>1, <3>1
    <3>3. cash' + m + f = cash
      BY <1>10, <3>1, <3>2
    <3> QED BY <1>5, <3>1, <3>3
  <2>3. trades' = trades /\ position' = {p}
    BY <1>1
  <2>4. Balanced(cash' + p.price * p.size + p.fees * Unit, trades')
    BY <2>1, <2>2, <2>3
  <2>5. CashSound' <=> Balanced(cash' + p.price * p.size + p.fees * Unit, trades')
    BY <2>3 DEF CashSound, Balanced, Earned
  <2> QED BY <2>4, <2>5
<1> QED BY <1>11, <1>12, <1>13, <1>14, <1>15 DEF ReplayInv

LEMMA NextTickerStep ==
  ASSUME ReplayInv, NextTicker
  PROVE  ReplayInv'
<1>1. /\ LoopSound /\ PositionSound /\ LedgerSound /\ LedgerIsSequential /\ CashSound
      /\ idx > NBars /\ position = {} /\ current < Len(Universe) /\ current' = current + 1
      /\ idx' = 1 /\ bar' \in Bars /\ next' \in NextBars(current + 1, 1)
      /\ UNCHANGED <<simulator, scored, position, trades, skipped, cash>>
  BY DEF ReplayInv, NextTicker
<1>2. /\ NBars \in Nat /\ idx \in Nat /\ current \in Nat \ {0} /\ Len(Universe) \in Nat
      /\ Len(trades) \in Nat
  BY <1>1, LoopFacts
<1>3. current' \in 1 .. Len(Universe)
  BY <1>1, <1>2
<1>4. NBars' \in Nat \ {0}
  BY <1>3, ReplayAssumption DEF NBars
<1>5. ~scored
  BY <1>1, <1>2 DEF LoopSound
<1>6. idx' \in 1 .. NBars' + 1 /\ next' \in NextBars(current', idx')
  <2>1. PICK n \in Nat \ {0} : n = NBars'
    BY <1>4
  <2>2. 1 \in 1 .. n + 1
    OBVIOUS
  <2>3. idx' \in 1 .. NBars' + 1
    BY <1>1, <2>1, <2>2
  <2>4. next' \in NextBars(current', idx')
    <3>1. next' \in NextBars(current + 1, 1) /\ current' = current + 1 /\ idx' = 1
      BY <1>1
    <3> QED BY ONLY <3>1
  <2> QED BY <2>3, <2>4
<1>7. LoopSound'
  BY <1>1, <1>3, <1>5, <1>6 DEF LoopSound
<1>8. PositionSound'
  BY <1>1 DEF PositionSound
<1>9. LedgerSound'
  <2> SUFFICES ASSUME NEW i \in 1 .. Len(trades)
               PROVE  /\ trades[i].entryAt <= trades[i].exitAt
                      /\ \E k \in 1 .. current + 1 : trades[i].ticker = Universe[k]
                      /\ trades[i].ticker # Universe[current + 1]
    BY <1>1 DEF LedgerSound
  <2>1. PICK k \in 1 .. current : trades[i].ticker = Universe[k]
    BY <1>1 DEF LedgerSound
  <2>2. k \in 1 .. current + 1 /\ k \in 1 .. Len(Universe) /\ current + 1 \in 1 .. Len(Universe)
        /\ k # current + 1
    BY <1>1, <1>2
  <2>3. \A a, b \in 1 .. Len(Universe) : Universe[a] = Universe[b] => a = b
    BY ReplayAssumption DEF IsInjective
  <2>4. trades[i].entryAt <= trades[i].exitAt
    BY <1>1 DEF LedgerSound
  <2> QED BY <2>1, <2>2, <2>3, <2>4
<1>10. LedgerIsSequential' /\ CashSound'
  BY <1>1, SequentialKept DEF CashSound
<1> QED BY <1>7, <1>8, <1>9, <1>10 DEF ReplayInv

LEMMA ReplayStutters ==
  ASSUME ReplayInv, UNCHANGED vars
  PROVE  ReplayInv'
<1>1. /\ NBars' = NBars /\ current' = current /\ idx' = idx /\ scored' = scored
      /\ position' = position /\ trades' = trades /\ cash' = cash
      /\ \A p \in position : Touches(p)' = Touches(p)
  BY DEF vars, NBars, Touches
<1>2. LoopSound'
  BY DEF vars, ReplayInv, LoopSound, NBars
<1>3. PositionSound'
  BY <1>1 DEF ReplayInv, PositionSound
<1>4. LedgerSound' /\ LedgerIsSequential'
  BY <1>1 DEF ReplayInv, LedgerSound, LedgerIsSequential
<1>5. CashSound'
  BY <1>1 DEF ReplayInv, CashSound
<1> QED BY <1>2, <1>3, <1>4, <1>5 DEF ReplayInv

LEMMA InitSound == Init => ReplayInv
<1> SUFFICES ASSUME Init PROVE ReplayInv
  OBVIOUS
<1>1. 1 \in 1 .. Len(Universe) /\ Len(Universe) \in Nat
  BY ReplayAssumption
<1>2. NBars \in Nat \ {0}
  BY <1>1, ReplayAssumption DEF Init, NBars
<1>3. LoopSound
  <2>1. 1 \in 1 .. NBars + 1
    BY <1>2
  <2>2. idx \in 1 .. NBars + 1 /\ next \in NextBars(current, idx)
    BY Zenon, <2>1 DEF Init
  <2>3. trades \in Seq(Trades) /\ position \in SUBSET Positions /\ skipped \in Nat
    BY DEF Init
  <2>4. /\ simulator \in {"null", "slippage"} /\ current \in 1 .. Len(Universe) /\ bar \in Bars
        /\ scored = FALSE /\ cash \in Int
    BY <1>1, ReplayAssumption, FillAssumption, Integral DEF Init
  <2> QED BY <2>2, <2>3, <2>4 DEF LoopSound
<1>4. PositionSound /\ LedgerSound /\ LedgerIsSequential
  BY DEF Init, PositionSound, LedgerSound, LedgerIsSequential
<1>5. Earned(trades) = 0
  <2>1. DOMAIN trades = {}
    BY DEF Init
  <2>2. IsFiniteSet({})
    BY FS_EmptySet
  <2> QED BY <2>1, <2>2, SumChoosing DEF Earned
<1>6. CashSound
  <2>1. PICK c \in Int : c = Capital * Unit /\ cash = c
    BY ReplayAssumption, FillAssumption, Integral DEF Init
  <2>2. (Capital + Earned(trades)) * Unit = c /\ Len(trades) = 0 /\ Len(trades) * Unit = 0
    BY <1>5, <2>1, ReplayAssumption, FillAssumption DEF Init
  <2>3. Abs(cash - c) = 0
    BY <2>1 DEF Abs
  <2>4. Balanced(cash, trades)
    BY <2>2, <2>3 DEF Balanced
  <2> QED BY <2>4 DEF Init, CashSound
<1> QED BY <1>3, <1>4, <1>6 DEF ReplayInv

LEMMA ReplayNext == ReplayInv /\ [Next]_vars => ReplayInv'
<1> SUFFICES ASSUME ReplayInv, [Next]_vars PROVE ReplayInv'
  OBVIOUS
<1>1. CASE NoSignal
  BY <1>1, PassStep DEF NoSignal
<1>2. ASSUME NEW signal \in Signals, SkipSignal(signal) PROVE ReplayInv'
  BY <1>2, PassStep DEF SkipSignal
<1> QED BY <1>1, <1>2, HoldStep, ExitStep, EndOfDataStep, NextTickerStep, EnterStep,
           ReplayStutters DEF Next, ReplayStep

\* The inductive invariant of a replay (engine.py:136-275).
THEOREM ReplayInductive == Spec => []ReplayInv
<1> QED BY InitSound, ReplayNext, PTL DEF Spec

\* Entries follow exits, the cash that moved is what the trades say was earned
\* and no position risks more than was to be risked, for any feed, bars and
\* signals and with either simulator (engine.py:165-256, 378-443).
THEOREM LedgersAreSound == Spec => []LedgerIsSound
<1>1. ReplayInv => LedgerIsSound
  <2> SUFFICES ASSUME ReplayInv PROVE LedgerIsSound
    OBVIOUS
  <2>1. LoopSound /\ PositionSound /\ LedgerSound /\ LedgerIsSequential /\ CashSound
    BY DEF ReplayInv
  <2>2. NBars \in Nat /\ \A i \in 1 .. Len(trades) : trades[i] \in Trades
    BY <2>1, LoopFacts
  <2>3. \A p \in position :
          p.at \in 1 .. NBars /\ p.size > 0 /\ p.fees >= 0 /\ p.stop < p.target
    BY <2>1, <2>2 DEF LoopSound, PositionSound, Positions
  <2>4. \A i \in 1 .. Len(trades) :
          /\ trades[i].reason \in Reasons /\ trades[i].size > 0
          /\ trades[i].entryAt <= trades[i].exitAt
    BY <2>1, <2>2 DEF LedgerSound, Trades
  <2>5. bar \in Bars \union {NoBar} /\ next \in Bars \union {NoBar}
    BY <2>1 DEF LoopSound, NextBars
  <2>6. TypeOK
    BY <2>1, <2>3, <2>4, <2>5 DEF TypeOK, LoopSound
  <2>7. CashMatchesTrades /\ RiskIsBounded
    BY <2>1 DEF CashMatchesTrades, CashSound, RiskIsBounded, PositionSound
  <2> QED BY <2>1, <2>6, <2>7 DEF LedgerIsSound
<1> QED BY <1>1, ReplayInductive, PTL

\* A trade closed on its stop or its target does no better than any of the levels
\* that the bar reached, and no bar that reached one leaves it open; at the end of
\* the data it is closed at the last close, and only a position filled on the last
\* bar itself can have passed over a level, its stop included, that this bar
\* reached (engine.py:190-203, 253-275, 330-352).
THEOREM ExitsArePessimistic == Spec => ExitIsPessimistic
<1> DEFINE Reached(p) == {level \in {p.stop, p.target} : bar.low <= level /\ level <= bar.high}
           trade == trades'[Len(trades')]
           Fair(p) == IF position' = position THEN idx' = idx \/ Reached(p) = {}
                      ELSE IF trade.reason = "end_of_data"
                      THEN trade.exit = bar.close /\ (Reached(p) = {} \/ p.at = NBars)
                      ELSE \A level \in Reached(p) : trade.exit <= level
           Worse == \A p \in position : Fair(p)
<1>1. ReplayInv /\ [Next]_vars => [Worse]_vars
  <2> SUFFICES ASSUME ReplayInv, Next, NEW p \in position PROVE Fair(p)
    BY Zenon
  <2>1. LoopSound /\ PositionSound
    BY DEF ReplayInv
  <2>2. /\ p \in Positions /\ trades \in Seq(Trades) /\ \A q \in position : q = p
        /\ p.stop \in Nat /\ p.target \in Int /\ p.stop < p.target
        /\ bar.low \in Int /\ bar.high \in Int /\ bar.close \in Int
    BY <2>1, BarFacts DEF LoopSound, PositionSound, Positions
  <2>3. ~Touches(p) => Reached(p) = {}
    BY <2>2 DEF Touches
  <2>4. ASSUME NEW exit \in Exits, Close(p, exit)
        PROVE  position' # position /\ trade.exit = exit.price /\ trade.reason = exit.reason
    <3>1. trades' = Append(trades, TradeOf(p, exit)) /\ position' = {}
      BY <2>4 DEF Close
    <3>2. TradeOf(p, exit) \in Trades
      BY <2>1, <2>2, TradeFacts
    <3>3. trade = TradeOf(p, exit)
      BY <2>2, <3>1, <3>2
    <3> QED BY <3>1, <3>3 DEF TradeOf
  <2> HIDE DEF trade
  <2>5. CASE Hold
    <3>1. ~Touches(p) /\ position' = position
      BY <2>2, <2>5 DEF Hold
    <3> QED BY <2>3, <3>1
  <2>6. CASE Exit
    <3>1. Close(p, ExitOf(p))
      BY <2>2, <2>6 DEF Exit
    <3>2. /\ ExitOf(p) \in Exits /\ ExitOf(p).reason # "end_of_data"
          /\ ExitOf(p).price = IF bar.low <= p.stop THEN p.stop ELSE p.target
      BY <2>1, <2>2, ExitFacts
    <3>3. /\ position' # position /\ trade.reason # "end_of_data"
          /\ trade.exit = IF bar.low <= p.stop THEN p.stop ELSE p.target
      BY <2>4, <3>1, <3>2
    <3>4. \A level \in Reached(p) : trade.exit <= level
      BY <2>2, <3>3
    <3> HIDE DEF Reached
    <3> QED BY <3>3, <3>4
  <2>7. CASE EndOfData
    <3> DEFINE exit == Outcome(p, bar.close, "end_of_data", NBars, FeeRate)
    <3>1. Close(p, exit) /\ idx > NBars
      BY <2>2, <2>7 DEF EndOfData
    <3>0. NBars \in Nat /\ FeeRate \in Nat /\ "end_of_data" \in Reasons
      BY <2>1, LoopFacts, FillAssumption DEF Reasons
    <3>2. PICK last \in Int, m \in Nat, rate \in Nat, reason \in Reasons :
            last = bar.close /\ m = NBars /\ rate = FeeRate /\ reason = "end_of_data"
      BY <2>2, <3>0
    <3>3. exit \in Exits /\ exit.price = last /\ exit.reason = reason
      <4>1. exit = Outcome(p, last, reason, m, rate)
        BY <3>2
      <4>2. p \in Positions
        BY <2>2
      <4> HIDE DEF exit
      <4>3. /\ Outcome(p, last, reason, m, rate) \in Exits
            /\ Outcome(p, last, reason, m, rate).reason = reason
            /\ Outcome(p, last, reason, m, rate).price = last
        BY ONLY <4>2, <3>2, OutcomeFacts
      <4> QED BY ONLY <4>1, <4>3
    <3> HIDE DEF exit
    <3>4. /\ position' # position /\ trade.reason = "end_of_data" /\ trade.exit = bar.close
      BY <2>4, <3>1, <3>2, <3>3
    <3>5. p.at = NBars \/ ~Touches(p)
      BY <2>1, <3>1 DEF PositionSound
    <3>6. Reached(p) = {} \/ p.at = NBars
      BY <2>3, <3>5
    <3> HIDE DEF Reached
    <3> QED BY Zenon, <3>4, <3>6
  <2>8. position # {}
    OBVIOUS
  <2> HIDE DEF Reached
  <2>9. CASE NoSignal \/ NextTicker
    BY <2>8, <2>9 DEF NoSignal, NextTicker
  <2>10. ASSUME NEW signal \in Signals, SkipSignal(signal) \/ Enter(signal) PROVE FALSE
    BY <2>8, <2>10 DEF SkipSignal, Enter
  <2> HIDE DEF Fair
  <2> QED BY <2>5, <2>6, <2>7, <2>8, <2>9, <2>10 DEF Next, ReplayStep
<1>2. Spec => [][Worse]_vars
  BY <1>1, ReplayInductive, PTL DEF Spec
<1>3. [][Worse]_vars => ExitIsPessimistic
  BY DEF ExitIsPessimistic
<1> QED BY <1>2, <1>3

-----------------------------------------------------------------------------
(* The drawdown *)

\* The equity after each of the results, over the capital.
EquityOf(pnls) == [i \in 0 .. Len(pnls) |-> SumFunctionOnSet(pnls, 1 .. i)]

\* It starts with nothing and each result is added.
LEMMA PrefixFacts ==
  ASSUME NEW pnls \in Seq(Int), NEW E,
         E = EquityOf(pnls)
  PROVE  /\ E \in [0 .. Len(pnls) -> Int] /\ E[0] = 0
         /\ \A i \in 1 .. Len(pnls) : E[i] = E[i - 1] + pnls[i]
<1> DEFINE n == Len(pnls)
           S == 1 .. n
           Sum(T) == SumFunctionOnSet(pnls, T)
<1>1. n \in Nat /\ \A i \in S : pnls[i] \in Int
  OBVIOUS
<1>2. IsFiniteSet(S)
  BY <1>1, FS_Interval
<1>3. \A T \in SUBSET S : Sum(T) \in Int
  BY <1>1, <1>2, SumInt
<1>4. \A i \in 0 .. n : 1 .. i \in SUBSET S
  BY <1>1
<1>5. Sum({}) = 0
  BY <1>2, SumChoosing
<1>6. ASSUME NEW i \in 1 .. n PROVE Sum(1 .. i) = Sum(1 .. i - 1) + pnls[i]
  <2>1. i \in 1 .. i /\ (1 .. i) \ {i} = 1 .. i - 1 /\ i \in S /\ 1 .. i \in SUBSET S
    BY <1>1
  <2>2. Sum(1 .. i) = pnls[i] + Sum((1 .. i) \ {i})
    <3> DEFINE T == 1 .. i
    <3>1. T \in SUBSET S /\ i \in S /\ i \in T
      BY <2>1
    <3> HIDE DEF T, S
    <3>2. \A x \in S : pnls[x] \in Int
      BY <1>1
    <3>3. \A U \in SUBSET S, x \in S :
            x \in U => SumFunctionOnSet(pnls, U) = pnls[x] + SumFunctionOnSet(pnls, U \ {x})
      BY <1>2, <3>2, SumTake
    <3>4. Sum(T) = pnls[i] + Sum(T \ {i})
      BY <3>1, <3>3
    <3> QED BY <3>4 DEF T
  <2>3. Sum(1 .. i - 1) \in Int
    <3>1. 1 .. i - 1 \in SUBSET S
      BY <1>1
    <3> QED BY <1>3, <3>1
  <2>4. pnls[i] \in Int
    BY <1>1
  <2> HIDE DEF Sum
  <2>5. Sum((1 .. i) \ {i}) = Sum(1 .. i - 1)
    BY <2>1
  <2> QED BY <2>2, <2>3, <2>4, <2>5
<1>7. 1 .. 0 = {}
  OBVIOUS
<1>8. \A i \in 0 .. n : E[i] = Sum(1 .. i)
  BY DEF EquityOf
<1> HIDE DEF Sum
<1>9. E \in [0 .. n -> Int]
  <2>1. \A i \in 0 .. n : Sum(1 .. i) \in Int
    BY <1>3, <1>4
  <2> QED BY <2>1 DEF EquityOf, Sum
<1>10. E[0] = 0
  <2>1. 0 \in 0 .. n
    BY <1>1
  <2> QED BY <1>5, <1>7, <1>8, <2>1
<1>11. \A i \in 1 .. n : E[i] = E[i - 1] + pnls[i]
  <2> TAKE i \in 1 .. n
  <2>1. i \in 0 .. n /\ i - 1 \in 0 .. n
    BY <1>1
  <2> QED BY <1>6, <1>8, <2>1
<1> QED BY <1>9, <1>10, <1>11

\* g is the walk of _max_drawdown over the results.
Walk(g, pnls) ==
  g = [i \in 0 .. Len(pnls) |->
         IF i = 0 THEN [cum |-> Capital, peak |-> Capital, max |-> 0]
                  ELSE Fall(g[i - 1], pnls[i])]

LEMMA DrawdownIsWalk ==
  ASSUME NEW pnls
  PROVE  Drawdown(pnls) = (CHOOSE g : Walk(g, pnls))[Len(pnls)].max
BY DEF Drawdown, Walk

\* What the walk carries.
Tracks == [cum : Int, peak : Int, max : Int]

\* The recursion that defines the walk has a solution.
LEMMA WalkExists ==
  ASSUME NEW pnls \in Seq(Int)
  PROVE  \E g : Walk(g, pnls)
<1> DEFINE n == Len(pnls)
           base == [cum |-> Capital, peak |-> Capital, max |-> 0]
           F == [i \in 1 .. n |-> [w \in Tracks |-> Fall(w, pnls[i])]]
<1>1. n \in Nat /\ \A i \in 1 .. n : pnls[i] \in Int
  OBVIOUS
<1>2. Capital \in Int
  BY ReplayAssumption
<1>3. base \in Tracks
  BY <1>2 DEF Tracks
<1>4. ASSUME NEW i \in 1 .. n, NEW w \in Tracks PROVE Fall(w, pnls[i]) \in Tracks
  BY <1>1 DEF Fall, Tracks
<1>6. \A i \in 1 .. n, w \in Tracks : F[i][w] = Fall(w, pnls[i])
  OBVIOUS
<1>5. Steps(F, n, Tracks, base)
  <2> HIDE DEF F
  <2> QED BY <1>1, <1>3, <1>4, <1>6 DEF Steps
<1> HIDE DEF F, base, n
<1>7. PICK g \in [0 .. n -> Tracks] : g[0] = base /\ \A i \in 1 .. n : g[i] = F[i][g[i - 1]]
  <2>1. \E g : Taken(g, F, n, Tracks, base)
    BY <1>5, Recursion
  <2> QED BY <2>1 DEF Taken
<1>8. \A i \in 0 .. n : g[i] = IF i = 0 THEN base ELSE Fall(g[i - 1], pnls[i])
  <2> TAKE i \in 0 .. n
  <2>1. CASE i = 0
    BY <1>7, <2>1
  <2>2. CASE i # 0
    <3>1. i \in 1 .. n /\ i - 1 \in 0 .. n
      BY <1>1, <2>2
    <3>2. g[i - 1] \in Tracks
      BY <1>7, <3>1
    <3> QED BY <1>6, <1>7, <2>2, <3>1, <3>2
  <2> QED BY <2>1, <2>2
<1>9. g = [i \in 0 .. n |-> IF i = 0 THEN base ELSE Fall(g[i - 1], pnls[i])]
  BY <1>7, <1>8
<1> QED BY <1>9 DEF Walk, n, base

\* What the walk knows after i results of which the first j add up to E[j]: the
\* present equity, its highest, and its deepest fall so far.
Tracked(cum, peak, max, E, i, c) ==
  /\ cum = c + E[i]
  /\ \A j \in 0 .. i : c + E[j] <= peak
  /\ \E j \in 0 .. i : peak = c + E[j]
  /\ \A j \in 0 .. i, k \in 0 .. i : j <= k => E[j] - E[k] <= max
  /\ \E j \in 0 .. i, k \in 0 .. i : j <= k /\ max = E[j] - E[k]

\* A step of it keeps that.
LEMMA FallTracks ==
  ASSUME NEW n \in Nat, NEW E \in [0 .. n -> Int], NEW c \in Int, NEW i \in 1 .. n, NEW pnl \in Int,
         E[i] = E[i - 1] + pnl,
         NEW cum \in Int, NEW peak \in Int, NEW max \in Int, Tracked(cum, peak, max, E, i - 1, c),
         NEW cum1 \in Int, NEW peak1 \in Int, NEW max1 \in Int,
         cum1 = cum + pnl,
         peak1 = IF cum1 > peak THEN cum1 ELSE peak,
         max1 = IF peak1 - cum1 > max THEN peak1 - cum1 ELSE max
  PROVE  Tracked(cum1, peak1, max1, E, i, c)
<1>4. \A j \in 0 .. i : E[j] \in Int /\ (j \in 0 .. i - 1 \/ j = i)
  OBVIOUS
<1>5. i \in 0 .. i /\ i - 1 \in 0 .. i - 1 /\ \A j \in 0 .. i - 1 : j \in 0 .. i
  OBVIOUS
<1>6. cum1 = c + E[i]
  <2>1. cum = c + E[i - 1] /\ E[i - 1] \in Int
    BY DEF Tracked
  <2> QED BY <2>1
<1>7. cum1 <= peak1 /\ peak <= peak1 /\ (peak1 = cum1 \/ peak1 = peak)
  OBVIOUS
<1>8. \A j \in 0 .. i : c + E[j] <= peak1
  <2> TAKE j \in 0 .. i
  <2>1. CASE j = i
    BY <1>6, <1>7, <2>1
  <2>2. CASE j \in 0 .. i - 1
    <3>1. c + E[j] <= peak
      BY <2>2 DEF Tracked
    <3>2. PICK x \in Int : x = E[j]
      BY <1>4
    <3>3. c + x <= peak
      BY <3>1, <3>2
    <3>4. c + x <= peak1
      BY <1>7, <3>3
    <3> QED BY <3>2, <3>4
  <2> QED BY <1>4, <2>1, <2>2
<1>9. \E j \in 0 .. i : peak1 = c + E[j]
  <2>1. CASE peak1 = cum1
    BY <1>5, <1>6, <2>1
  <2>2. CASE peak1 = peak
    <3>1. PICK j \in 0 .. i - 1 : peak = c + E[j]
      BY DEF Tracked
    <3> QED BY <1>5, <2>2, <3>1
  <2> QED BY <1>7, <2>1, <2>2
<1>10. max <= max1 /\ peak1 - cum1 <= max1 /\ (max1 = max \/ max1 = peak1 - cum1)
  OBVIOUS
<1>11. \A j \in 0 .. i, k \in 0 .. i : j <= k => E[j] - E[k] <= max1
  <2> SUFFICES ASSUME NEW j \in 0 .. i, NEW k \in 0 .. i, j <= k PROVE E[j] - E[k] <= max1
    OBVIOUS
  <2>3. PICK x \in Int, y \in Int : x = E[j] /\ y = E[k]
    BY <1>4
  <2>1. CASE k = i
    <3>1. c + x <= peak1 /\ cum1 = c + y
      BY <1>6, <1>8, <2>1, <2>3
    <3>2. x - y <= max1
      BY <1>10, <3>1
    <3> QED BY <2>3, <3>2
  <2>2. CASE k \in 0 .. i - 1
    <3>1. j \in 0 .. i - 1
      BY <2>2
    <3>2. E[j] - E[k] <= max
      BY <2>2, <3>1 DEF Tracked
    <3>3. x - y <= max
      BY <2>3, <3>2
    <3>4. x - y <= max1
      BY <1>10, <3>3
    <3> QED BY <2>3, <3>4
  <2> QED BY <1>4, <2>1, <2>2
<1>12. \E j \in 0 .. i, k \in 0 .. i : j <= k /\ max1 = E[j] - E[k]
  <2>1. CASE max1 = max
    <3>1. PICK j \in 0 .. i - 1, k \in 0 .. i - 1 : j <= k /\ max = E[j] - E[k]
      BY DEF Tracked
    <3> QED BY <1>5, <2>1, <3>1
  <2>2. CASE max1 = peak1 - cum1
    <3>1. PICK j \in 0 .. i : peak1 = c + E[j]
      BY <1>9
    <3>2. PICK x \in Int, y \in Int : x = E[j] /\ y = E[i]
      BY <1>4, <1>5
    <3>3. cum1 = c + y /\ peak1 = c + x
      BY <1>6, <3>1, <3>2
    <3>4. max1 = x - y
      BY <2>2, <3>3
    <3>5. j \in 0 .. i /\ i \in 0 .. i /\ j <= i
      OBVIOUS
    <3> QED BY <3>2, <3>4, <3>5
  <2> QED BY <1>10, <2>1, <2>2
<1> QED BY <1>6, <1>8, <1>9, <1>11, <1>12 DEF Tracked

\* So does the whole walk.
LEMMA DrawdownTracks ==
  ASSUME NEW pnls \in Seq(Int), NEW E,
         E = EquityOf(pnls)
  PROVE  /\ Drawdown(pnls) \in Int
         /\ \E cum \in Int, peak \in Int :
              Tracked(cum, peak, Drawdown(pnls), E, Len(pnls), Capital)
<1> DEFINE n == Len(pnls)
<1>1. n \in Nat /\ \A i \in 1 .. n : pnls[i] \in Int
  OBVIOUS
<1>2. PICK c \in Int : c = Capital
  BY ReplayAssumption
<1>3. E \in [0 .. n -> Int] /\ E[0] = 0 /\ \A i \in 1 .. n : E[i] = E[i - 1] + pnls[i]
  BY PrefixFacts
<1> DEFINE g == CHOOSE x : Walk(x, pnls)
<1>4. Walk(g, pnls)
  BY WalkExists
<1> HIDE DEF g, n
<1>5. \A i \in 0 .. n : g[i] = IF i = 0 THEN [cum |-> c, peak |-> c, max |-> 0]
                                        ELSE Fall(g[i - 1], pnls[i])
  BY <1>2, <1>4 DEF Walk, n
<1> DEFINE Good == {i \in 0 .. n : /\ g[i].cum \in Int /\ g[i].peak \in Int /\ g[i].max \in Int
                                   /\ Tracked(g[i].cum, g[i].peak, g[i].max, E, i, c)}
<1>6. 0 \in Good
  <2>1. 0 \in 0 .. n
    BY <1>1
  <2>2. g[0].cum = c /\ g[0].peak = c /\ g[0].max = 0
    BY <1>5, <2>1
  <2>3. \A j \in 0 .. 0 : j = 0
    OBVIOUS
  <2>4. 0 \in 0 .. 0
    OBVIOUS
  <2>5. Tracked(c, c, 0, E, 0, c)
    BY <1>3, <2>3, <2>4 DEF Tracked
  <2> QED BY <2>1, <2>2, <2>5
<1>7. ASSUME NEW i \in 1 .. n, i - 1 \in Good PROVE i \in Good
  <2>1. i \in 0 .. n /\ i # 0
    BY <1>1
  <2>2. g[i] = Fall(g[i - 1], pnls[i])
    BY <1>5, <2>1
  <2>3. PICK cum \in Int, peak \in Int, max \in Int, pnl \in Int :
          cum = g[i - 1].cum /\ peak = g[i - 1].peak /\ max = g[i - 1].max /\ pnl = pnls[i]
    BY <1>1, <1>7
  <2>4. PICK cum1 \in Int : cum1 = cum + pnl
    OBVIOUS
  <2>5. PICK peak1 \in Int : peak1 = IF cum1 > peak THEN cum1 ELSE peak
    OBVIOUS
  <2>6. PICK max1 \in Int : max1 = IF peak1 - cum1 > max THEN peak1 - cum1 ELSE max
    <3>1. PICK fall \in Int : fall = peak1 - cum1
      OBVIOUS
    <3>2. (IF fall > max THEN fall ELSE max) \in Int
      OBVIOUS
    <3> QED BY <3>1, <3>2
  <2>7. g[i].cum = cum1 /\ g[i].peak = peak1 /\ g[i].max = max1
    BY <2>2, <2>3, <2>4, <2>5, <2>6 DEF Fall
  <2>8. Tracked(cum, peak, max, E, i - 1, c)
    BY <1>7, <2>3
  <2>9. E[i] = E[i - 1] + pnl
    BY <1>3, <2>3
  <2>10. Tracked(cum1, peak1, max1, E, i, c)
    BY <1>1, <1>3, <2>4, <2>5, <2>6, <2>8, <2>9, FallTracks
  <2> QED BY <2>1, <2>7, <2>10
<1> HIDE DEF Good
<1>8. \A i \in 0 .. n : i \in Good
  BY <1>1, <1>6, <1>7, UpTo
<1>9. n \in Good
  <2>1. n \in 0 .. n
    BY <1>1
  <2> QED BY <1>8, <2>1
<1>10. Drawdown(pnls) = g[n].max
  BY DrawdownIsWalk DEF g, n
<1> QED BY <1>2, <1>9, <1>10 DEF Good, n

\* What it ends with is the deepest fall.
LEMMA DrawdownWorst ==
  ASSUME NEW pnls \in Seq(Int), NEW E,
         E = EquityOf(pnls)
  PROVE  Drawdown(pnls) = Max({E[ij[1]] - E[ij[2]] :
                              ij \in {ij \in (0 .. Len(pnls)) \X (0 .. Len(pnls)) :
                                        ij[1] <= ij[2]}})
<1> DEFINE n == Len(pnls)
           Pairs == {ij \in (0 .. n) \X (0 .. n) : ij[1] <= ij[2]}
           S == {E[ij[1]] - E[ij[2]] : ij \in Pairs}
           d == Drawdown(pnls)
<1>1. n \in Nat
  OBVIOUS
<1>2. E \in [0 .. n -> Int]
  BY PrefixFacts
<1>3. d \in Int /\ \E cum \in Int, peak \in Int : Tracked(cum, peak, d, E, n, Capital)
  BY DrawdownTracks
<1> HIDE DEF d, n
<1>4. \A ij \in Pairs : /\ ij[1] \in 0 .. n /\ ij[2] \in 0 .. n /\ ij[1] <= ij[2]
                        /\ E[ij[1]] \in Int /\ E[ij[2]] \in Int
  BY <1>2
<1>5. S \in SUBSET Int
  <2> HIDE DEF Pairs
  <2> QED BY <1>4
<1>6. d \in S
  <2>1. PICK j \in 0 .. n, k \in 0 .. n : j <= k /\ d = E[j] - E[k]
    BY <1>3 DEF Tracked
  <2>2. <<j, k>> \in Pairs /\ <<j, k>>[1] = j /\ <<j, k>>[2] = k
    BY <2>1
  <2> HIDE DEF Pairs
  <2> QED BY <2>1, <2>2
<1>7. \A y \in S : y <= d
  <2> SUFFICES ASSUME NEW ij \in Pairs PROVE E[ij[1]] - E[ij[2]] <= d
    OBVIOUS
  <2>1. PICK j \in 0 .. n, k \in 0 .. n : j = ij[1] /\ k = ij[2] /\ j <= k
    BY <1>4
  <2>2. E[j] - E[k] <= d
    BY <1>3, <2>1 DEF Tracked
  <2> QED BY <2>1, <2>2
<1> HIDE DEF S
<1>8. Max(S) = d
  BY <1>5, <1>6, <1>7, MaxIs
<1> QED BY <1>8 DEF S, d, n

\* The results of the ledger are integers.
LEMMA NetSeq ==
  ASSUME ReplayInv
  PROVE  Net(trades) \in Seq(Int) /\ Len(Net(trades)) = Len(trades)
<1>1. trades \in Seq(Trades)
  BY DEF ReplayInv, LoopSound
<1>2. Len(trades) \in Nat /\ DOMAIN trades = 1 .. Len(trades)
  BY <1>1
<1>3. \A i \in 1 .. Len(trades) : trades[i].net \in Int
  <2> TAKE i \in 1 .. Len(trades)
  <2>1. trades[i] \in Trades
    BY <1>1
  <2> QED BY <2>1 DEF Trades
<1>4. Net(trades) = [i \in 1 .. Len(trades) |-> trades[i].net]
  BY <1>2 DEF Net
<1> QED BY <1>2, <1>3, <1>4

LEMMA DrawdownReported ==
  ASSUME ReplayInv
  PROVE  DrawdownIsWorst
<1> DEFINE pnls == Net(trades)
           Equity(i) == SumFunctionOnSet(pnls, 1 .. i)
           E == EquityOf(pnls)
           Pairs == {ij \in (0 .. Len(pnls)) \X (0 .. Len(pnls)) : ij[1] <= ij[2]}
<1>1. pnls \in Seq(Int)
  BY NetSeq
<1>2. Drawdown(pnls) = Max({E[ij[1]] - E[ij[2]] : ij \in Pairs})
  <2>1. PICK F : F = E
    OBVIOUS
  <2> HIDE DEF pnls
  <2>2. Drawdown(pnls) = Max({F[ij[1]] - F[ij[2]] : ij \in Pairs})
    BY <1>1, <2>1, DrawdownWorst
  <2> QED BY <2>1, <2>2
<1>3. {E[ij[1]] - E[ij[2]] : ij \in Pairs} = {Equity(ij[1]) - Equity(ij[2]) : ij \in Pairs}
  <2>1. \A ij \in Pairs : ij[1] \in 0 .. Len(pnls) /\ ij[2] \in 0 .. Len(pnls)
    OBVIOUS
  <2>2. \A i \in 0 .. Len(pnls) : E[i] = Equity(i)
    BY DEF EquityOf
  <2> HIDE DEF Pairs, Equity, pnls, E
  <2>3. \A ij \in Pairs : E[ij[1]] = Equity(ij[1]) /\ E[ij[2]] = Equity(ij[2])
    BY <2>1, <2>2
  <2> QED BY <2>3
<1>4. Drawdown(pnls) = Max({Equity(ij[1]) - Equity(ij[2]) : ij \in Pairs})
  <2> HIDE DEF Pairs, Equity, pnls, E
  <2> QED BY <1>2, <1>3
<1> QED BY <1>4 DEF DrawdownIsWorst

-----------------------------------------------------------------------------
(* The metrics *)

\* All the results add up to what was won less what was lost.
LEMMA WonLessLost ==
  ASSUME NEW pnls \in Seq(Int)
  PROVE  Won(pnls) \in Int /\ Lost(pnls) \in Int /\ SumOf(pnls) = Won(pnls) - Lost(pnls)
<1> DEFINE S == 1 .. Len(pnls)
           Gains == {i \in S : pnls[i] > 0}
           Losses == {i \in S : pnls[i] < 0}
           Zeros == {i \in S : pnls[i] = 0}
           Sum(T) == SumFunctionOnSet(pnls, T)
<1>1. Len(pnls) \in Nat /\ DOMAIN pnls = S /\ \A i \in S : pnls[i] \in Int
  OBVIOUS
<1>2. IsFiniteSet(S)
  BY <1>1, FS_Interval
<1>3. /\ Gains \in SUBSET S /\ Losses \in SUBSET S /\ Zeros \in SUBSET S
      /\ Gains \cup Losses \in SUBSET S
      /\ Gains \cap Losses = {} /\ (Gains \cup Losses) \cap Zeros = {}
      /\ (Gains \cup Losses) \cup Zeros = S
  BY <1>1
<1>4. Sum(Zeros) = 0
  <2> DEFINE Z == Zeros
  <2>1. IsFiniteSet(Z) /\ \A x \in Z : pnls[x] \in Int /\ pnls[x] = 0
    BY <1>1, <1>2, <1>3, FS_Subset
  <2>2. Cardinality(Z) \in Nat
    BY <2>1, FS_CardinalityType
  <2> HIDE DEF Z
  <2>3. Combined(pnls, 0, pnls, 0, pnls, 0, Z)
    BY <2>1 DEF Combined
  <2>4. SumFunctionOnSet(pnls, Z)
          = 0 * SumFunctionOnSet(pnls, Z) + 0 * SumFunctionOnSet(pnls, Z) + 0 * Cardinality(Z)
    BY <2>1, <2>3, SumCombined
  <2>5. SumFunctionOnSet(pnls, Z) \in Int
    BY <2>1, SumInt
  <2>6. Sum(Z) = 0
    BY <2>2, <2>4, <2>5
  <2> QED BY <2>6 DEF Z
<1>5. \A A \in SUBSET S, B \in SUBSET S : A \cap B = {} => Sum(A \cup B) = Sum(A) + Sum(B)
  <2> HIDE DEF S
  <2> QED BY <1>1, <1>2, SumUnion
<1>6. \A T \in SUBSET S : Sum(T) \in Int
  <2> HIDE DEF S
  <2> QED BY <1>1, <1>2, SumInt
<1>7. Won(pnls) = Sum(Gains) /\ Lost(pnls) = - Sum(Losses) /\ SumOf(pnls) = Sum(S)
  BY <1>1 DEF Won, Lost, SumOf
<1> HIDE DEF Sum, Gains, Losses, Zeros, S
<1>8. Sum(Gains \cup Losses) = Sum(Gains) + Sum(Losses)
  BY <1>3, <1>5
<1>9. Sum((Gains \cup Losses) \cup Zeros) = Sum(Gains \cup Losses) + Sum(Zeros)
  BY <1>3, <1>5
<1>10. Sum(S) = Sum((Gains \cup Losses) \cup Zeros)
  BY <1>3
<1>11. Sum(Gains) \in Int /\ Sum(Losses) \in Int
  BY <1>3, <1>6
<1> QED BY <1>4, <1>7, <1>8, <1>9, <1>10, <1>11

\* Neither of the two is negative, and both are nothing if there are no results.
LEMMA WonAndLost ==
  ASSUME NEW pnls \in Seq(Int)
  PROVE  /\ Won(pnls) \in Nat /\ Lost(pnls) \in Nat
         /\ Len(pnls) = 0 => Won(pnls) = 0 /\ Lost(pnls) = 0
<1> DEFINE S == 1 .. Len(pnls)
           Gains == {i \in S : pnls[i] > 0}
           Losses == {i \in S : pnls[i] < 0}
<1>1. Len(pnls) \in Nat /\ DOMAIN pnls = S /\ \A i \in S : pnls[i] \in Int
  OBVIOUS
<1>2. IsFiniteSet(S)
  BY <1>1, FS_Interval
<1>3. Won(pnls) = SumFunctionOnSet(pnls, Gains) /\ Lost(pnls) = - SumFunctionOnSet(pnls, Losses)
  BY <1>1 DEF Won, Lost
<1>4. SumFunctionOnSet(pnls, Gains) \in Nat
  <2>1. \A i \in Gains : pnls[i] \in Nat
    BY <1>1
  <2>2. Gains \in SUBSET S
    OBVIOUS
  <2> HIDE DEF Gains, S
  <2>3. IsFiniteSet(Gains) /\ Gains \in SUBSET Gains
    BY <1>2, <2>2, FS_Subset
  <2> QED BY <2>1, <2>3, SumSubset
<1>5. - SumFunctionOnSet(pnls, Losses) \in Nat
  <2> DEFINE less == [i \in Losses |-> - pnls[i]]
  <2>1. \A i \in Losses : pnls[i] \in Int /\ less[i] = - pnls[i] /\ less[i] \in Nat
    BY <1>1
  <2>2. Losses \in SUBSET S
    OBVIOUS
  <2> HIDE DEF Losses, S, less
  <2>3. IsFiniteSet(Losses) /\ Losses \in SUBSET Losses
    BY <1>2, <2>2, FS_Subset
  <2>4. SumFunctionOnSet(less, Losses) \in Nat
    BY <2>1, <2>3, SumSubset
  <2>5. SumFunctionOnSet(pnls, Losses) \in Int /\ Cardinality(Losses) \in Nat
    BY <2>1, <2>3, SumInt, FS_CardinalityType
  <2>6. Combined(less, -1, pnls, 0, pnls, 0, Losses)
    BY <2>1 DEF Combined
  <2>7. SumFunctionOnSet(less, Losses)
          = (-1) * SumFunctionOnSet(pnls, Losses) + 0 * SumFunctionOnSet(pnls, Losses)
              + 0 * Cardinality(Losses)
    BY <2>3, <2>6, SumCombined
  <2> QED BY <2>4, <2>5, <2>7
<1>6. ASSUME Len(pnls) = 0 PROVE Won(pnls) = 0 /\ Lost(pnls) = 0
  <2>1. Gains = {} /\ Losses = {}
    BY <1>6
  <2>2. SumFunctionOnSet(pnls, {}) = 0
    BY <1>2, SumChoosing
  <2> HIDE DEF Gains, Losses
  <2> QED BY <1>3, <2>1, <2>2
<1> HIDE DEF Gains, Losses
<1> QED BY <1>3, <1>4, <1>5, <1>6

LEMMA MetricsReported ==
  ASSUME ReplayInv
  PROVE  MetricsAgree
<1> DEFINE pnls == Net(trades)
<1>1. pnls \in Seq(Int)
  BY NetSeq
<1> HIDE DEF pnls
<1>2. PICK w \in Nat, l \in Nat : w = Won(pnls) /\ l = Lost(pnls)
  BY <1>1, WonAndLost
<1>3. SumOf(pnls) = w - l
  BY <1>1, <1>2, WonLessLost
<1>4. PICK n \in Nat : n = Len(pnls)
  BY <1>1
<1>5. n = 0 => w = 0 /\ l = 0
  BY <1>1, <1>2, <1>4, WonAndLost
<1>6. PICK u \in Nat \ {0} : u = Unit
  BY FillAssumption
<1>7. PICK factor \in Int : /\ factor = ProfitFactor(pnls)
                            /\ factor > u => w > l
                            /\ w > l => factor >= u
  <2>1. CASE l = 0
    <3>1. ProfitFactor(pnls) = IF w > 0 THEN 1000000000 * u ELSE 0
      BY <1>2, <1>6, <2>1 DEF ProfitFactor, Sentinel
    <3> QED BY <2>1, <3>1
  <2>2. CASE l # 0
    <3>1. PICK x \in Int : x = w * u
      BY Integral
    <3>2. ProfitFactor(pnls) = Rounded(x, l)
      BY <1>2, <1>6, <2>2, <3>1 DEF ProfitFactor
    <3>3. l \in Nat \ {0} /\ u \in Int
      BY <2>2
    <3>4. Rounded(x, l) \in Int
      BY <3>3, RoundedIs
    <3>5. /\ u * l <= x => u <= Rounded(x, l)
          /\ x <= u * l => Rounded(x, l) <= u
      BY <3>3, RoundedKeeps
    <3>6. ASSUME w <= l PROVE x <= u * l
      <4>1. w * u <= l * u /\ l * u = u * l
        BY <3>6, Times
      <4> QED BY <3>1, <4>1
    <3>7. ASSUME l <= w PROVE u * l <= x
      <4>1. l * u <= w * u /\ l * u = u * l
        BY <3>7, Times
      <4> QED BY <3>1, <4>1
    <3> QED BY <3>2, <3>4, <3>5, <3>6, <3>7
  <2> QED BY <2>1, <2>2
<1>8. PICK mean \in Int : /\ mean = Expectancy(pnls)
                          /\ w > l => mean >= 0
                          /\ mean > 0 => w > l
                          /\ 2 * Abs(mean * n - (w - l)) <= n
  <2>1. CASE n = 0
    <3>1. Expectancy(pnls) = 0
      BY <1>4, <2>1 DEF Expectancy
    <3>2. PICK mean \in Int : mean = 0
      OBVIOUS
    <3>3. w = 0 /\ l = 0 /\ mean * n = 0
      BY <1>5, <2>1, <3>2
    <3>4. Abs(0 - (0 - 0)) = 0
      BY DEF Abs
    <3> QED BY <2>1, <3>1, <3>2, <3>3, <3>4
  <2>2. CASE n # 0
    <3>1. PICK x \in Int, zero \in Int : x = w - l /\ zero = 0
      OBVIOUS
    <3>2. Expectancy(pnls) = Rounded(x, n)
      BY <1>2, <1>4, <2>2, <3>1 DEF Expectancy
    <3>3. n \in Nat \ {0}
      BY <2>2
    <3>4. PICK e \in Int : /\ e = Rounded(x, n)
                           /\ 2 * (e * n - x) <= n /\ 2 * (x - e * n) <= n
      BY <3>3, RoundedIs
    <3>5. /\ zero * n <= x => zero <= Rounded(x, n)
          /\ x <= zero * n => Rounded(x, n) <= zero
      BY <3>3, RoundedKeeps
    <3>6. zero * n = 0
      BY <3>1
    <3>7. PICK y \in Int : y = e * n
      BY Integral
    <3>8. 2 * Abs(y - x) <= n
      BY <3>4, <3>7 DEF Abs
    <3> QED BY <3>1, <3>2, <3>4, <3>5, <3>6, <3>7, <3>8
  <2> QED BY <2>1, <2>2
<1>9. /\ factor > Unit => SumOf(pnls) > 0 /\ mean >= 0
      /\ mean > 0 => SumOf(pnls) > 0
      /\ SumOf(pnls) > 0 => factor >= Unit
  BY <1>3, <1>6, <1>7, <1>8
<1>10. 2 * Abs(mean * Len(pnls) - SumOf(pnls)) <= Len(pnls)
  BY <1>3, <1>4, <1>8
<1> QED BY <1>7, <1>8, <1>9, <1>10 DEF MetricsAgree, pnls

-----------------------------------------------------------------------------
(* The histogram of R multiples *)

\* Every number falls into exactly one bin.
LEMMA OneBin ==
  ASSUME NEW r \in Int
  PROVE  \E c \in 1 .. 6 : \A b \in 1 .. 6 : InBin(r, b) <=> b = c
<1>1. PICK u \in Nat \ {0} : u = Unit
  BY FillAssumption
<1>2. /\ 1 \in 1 .. 6 /\ 2 \in 1 .. 6 /\ 3 \in 1 .. 6 /\ 4 \in 1 .. 6 /\ 5 \in 1 .. 6 /\ 6 \in 1 .. 6
      /\ \A b \in 1 .. 6 : b = 1 \/ b = 2 \/ b = 3 \/ b = 4 \/ b = 5 \/ b = 6
  OBVIOUS
<1>3. /\ RBins[2] = (-2) * u /\ RBins[3] = (-1) * u /\ RBins[4] = 0 * u
      /\ RBins[5] = 1 * u /\ RBins[6] = 2 * u
  BY <1>1, <1>2 DEF RBins
<1>4. /\ InBin(r, 1) <=> r < (-2) * u
      /\ InBin(r, 2) <=> (-2) * u <= r /\ r < (-1) * u
      /\ InBin(r, 3) <=> (-1) * u <= r /\ r < 0 * u
      /\ InBin(r, 4) <=> 0 * u <= r /\ r < 1 * u
      /\ InBin(r, 5) <=> 1 * u <= r /\ r < 2 * u
      /\ InBin(r, 6) <=> 2 * u <= r
  BY <1>3 DEF InBin
<1>5. CASE r < (-2) * u
  BY <1>2, <1>4, <1>5
<1>6. CASE (-2) * u <= r /\ r < (-1) * u
  BY <1>2, <1>4, <1>6
<1>7. CASE (-1) * u <= r /\ r < 0
  BY <1>2, <1>4, <1>7
<1>8. CASE 0 <= r /\ r < u
  BY <1>2, <1>4, <1>8
<1>9. CASE u <= r /\ r < 2 * u
  BY <1>2, <1>4, <1>9
<1>10. CASE 2 * u <= r
  BY <1>2, <1>4, <1>10
<1> QED BY <1>5, <1>6, <1>7, <1>8, <1>9, <1>10

\* The R multiple of a trade is a number.
LEMMA RatioFacts ==
  ASSUME NEW trade \in Trades
  PROVE  RMultiple(trade) \in Int
<1>1. PICK a \in Int, e \in Int, s \in Int : a = trade.entry /\ e = trade.exit /\ s = trade.stop
  BY DEF Trades
<1>2. PICK risk \in Nat : risk = Abs(a - s)
  <2>1. PICK y \in Int : y = a - s
    OBVIOUS
  <2>2. Abs(y) \in Nat
    BY DEF Abs
  <2> QED BY <2>1, <2>2
<1>3. PICK x \in Int : x = (e - a) * Unit
  <2>1. PICK y \in Int : y = e - a
    OBVIOUS
  <2>2. Unit \in Int
    BY FillAssumption
  <2> QED BY <2>1, <2>2, Integral
<1>4. RMultiple(trade) = IF risk = 0 THEN 0 ELSE Rounded(x, risk)
  BY <1>1, <1>2, <1>3 DEF RMultiple
<1>5. risk # 0 => Rounded(x, risk) \in Int
  <2>1. risk # 0 => risk \in Nat \ {0}
    OBVIOUS
  <2> QED BY <2>1, RoundedIs
<1> QED BY <1>4, <1>5

\* So the R multiple of a trade falls into one bin, and is put there.
LEMMA ClassifyFacts ==
  ASSUME NEW trade \in Trades
  PROVE  /\ Cardinality({b \in 1 .. 6 : InBin(RMultiple(trade), b)}) = 1
         /\ Classify(RMultiple(trade)) \in 1 .. 6
<1>1. PICK r \in Int : r = RMultiple(trade)
  BY RatioFacts
<1>2. PICK c \in 1 .. 6 : \A b \in 1 .. 6 : InBin(r, b) <=> b = c
  BY OneBin
<1>3. {b \in 1 .. 6 : InBin(r, b)} = {c}
  BY <1>2
<1>4. Cardinality({b \in 1 .. 6 : InBin(r, b)}) = 1
  BY <1>3, FS_Singleton
<1>5. Classify(r) \in 1 .. 6
  BY <1>2 DEF Classify
<1> QED BY <1>1, <1>4, <1>5

\* The trades of a bin, by ticker: the ticker of each is one of the feed, at one
\* place.
LEMMA BinsReported ==
  ASSUME ReplayInv
  PROVE  EveryTradeInOneBin
<1> DEFINE S == 1 .. Len(trades)
           K == 1 .. Len(Universe)
           key == [i \in S |-> CHOOSE k \in K : Universe[k] = trades[i].ticker]
<1>1. trades \in Seq(Trades)
  BY DEF ReplayInv, LoopSound
<1>2. Len(trades) \in Nat /\ DOMAIN trades = S /\ \A i \in S : trades[i] \in Trades
  BY <1>1
<1>3. Universe \in Seq(Range(Universe)) /\ IsInjective(Universe)
  BY ReplayAssumption
<1>4. Len(Universe) \in Nat /\ DOMAIN Universe = K
  BY <1>3
<1>5. IsFiniteSet(S) /\ IsFiniteSet(K)
  BY <1>2, <1>4, FS_Interval
<1>6. \A i \in S : \E k \in K : Universe[k] = trades[i].ticker
  <2> TAKE i \in S
  <2>1. trades[i].ticker \in Range(Universe)
    BY <1>2 DEF Trades
  <2> QED BY <1>4, <2>1 DEF Range
<1>7. \A j \in K, k \in K : Universe[j] = Universe[k] => j = k
  BY <1>3, <1>4 DEF IsInjective
<1>8. \A i \in S, k \in K : key[i] \in K /\ (key[i] = k <=> trades[i].ticker = Universe[k])
  BY <1>6, <1>7
<1> HIDE DEF key
<1>9. ASSUME NEW b \in 1 .. 6
      PROVE  RDistribution(trades, DOMAIN trades)[b] =
               SumOf([k \in DOMAIN Universe |-> RDistribution(trades, Group(trades, Universe[k]))[b]])
  <2> DEFINE In(i) == Classify(RMultiple(trades[i])) = b
             A == {i \in S : In(i)}
             h == [k \in K |-> RDistribution(trades, Group(trades, Universe[k]))[b]]
  <2>1. \A k \in K : Group(trades, Universe[k]) = {i \in S : key[i] = k}
    BY <1>2, <1>8 DEF Group
  <2>2. \A G : RDistribution(trades, G)[b] = Cardinality({i \in G : In(i)})
    BY DEF RDistribution
  <2> HIDE DEF In
  <2>3. \A k \in K : {i \in Group(trades, Universe[k]) : In(i)} = {i \in A : key[i] = k}
    BY <2>1
  <2>4. \A k \in K : h[k] = Cardinality({i \in A : key[i] = k})
    <3> TAKE k \in K
    <3>1. h[k] = Cardinality({i \in Group(trades, Universe[k]) : In(i)})
      BY <2>2
    <3>2. {i \in Group(trades, Universe[k]) : In(i)} = {i \in A : key[i] = k}
      BY <2>3
    <3> HIDE DEF h, A
    <3> QED BY <3>1, <3>2
  <2>5. IsFiniteSet(A) /\ \A i \in A : key[i] \in K
    <3>1. A \subseteq S
      OBVIOUS
    <3>2. IsFiniteSet(A)
      <4> HIDE DEF A
      <4> QED BY <1>5, <3>1, FS_Subset
    <3>3. \A i \in A : key[i] \in K
      <4>1. K # {} => \A i \in S : key[i] \in K
        BY <1>8
      <4>2. \A i \in S : K # {}
        BY <1>6
      <4> QED BY <3>1, <4>1, <4>2
    <3> QED BY <3>2, <3>3
  <2>6. RDistribution(trades, S)[b] = Cardinality(A)
    BY <2>2
  <2>7. DOMAIN h = K
    OBVIOUS
  <2> HIDE DEF A, h, K, S
  <2>8. Counts(h, K, A, key)
    BY <2>4, <2>5 DEF Counts
  <2>9. SumFunctionOnSet(h, K) = Cardinality(A)
    BY <1>5, <2>5, <2>8, SumOfParts
  <2>10. SumOf(h) = RDistribution(trades, S)[b]
    BY <2>6, <2>7, <2>9 DEF SumOf
  <2>11. h = [k \in DOMAIN Universe |-> RDistribution(trades, Group(trades, Universe[k]))[b]]
    BY <1>4 DEF h
  <2> QED BY <1>2, <2>10, <2>11
<1>10. \A i \in 1 .. Len(trades) :
         Cardinality({b \in 1 .. 6 : InBin(RMultiple(trades[i]), b)}) = 1
  BY <1>2, ClassifyFacts
<1> QED BY <1>9, <1>10 DEF EveryTradeInOneBin

-----------------------------------------------------------------------------
(* The walk-forward harness *)

\* The windows are those whose cursor is a number of steps and whose test slice
\* ends in the range.
LEMMA WindowsReported == WindowsFit
<1> SUFFICES ASSUME NEW end \in 0 .. Horizon
             PROVE  /\ \A k \in 1 .. Len(Windows(end)) :
                         Windows(end)[k].trainFrom >= 0 /\ Windows(end)[k].testTo <= end
                    /\ \A cursor \in 0 .. end :
                         cursor % WindowStep = 0 /\ cursor + TrainWindow + TestWindow <= end
                           => \E k \in 1 .. Len(Windows(end)) : Windows(end)[k].trainFrom = cursor
  BY DEF WindowsFit
<1>1. PICK step \in Nat \ {0}, span \in Nat : step = WindowStep /\ span = TrainWindow + TestWindow
  BY WalkForwardAssumption
<1>2. end \in Nat
  BY WalkForwardAssumption
<1>3. PICK room \in Int : room = end - span
  BY <1>2
<1>4. PICK n \in Nat : n = IF room < 0 THEN 0 ELSE room \div step + 1
  <2>1. room >= 0 => room \div step \in Nat
    BY Division
  <2> QED BY <2>1
<1>5. Windows(end) = [k \in 1 .. n |-> [trainFrom |-> (k - 1) * step,
                                        trainTo   |-> (k - 1) * step + TrainWindow,
                                        testTo    |-> (k - 1) * step + span]]
  <2>1. room = end - TrainWindow - TestWindow
    BY <1>1, <1>2, <1>3, WalkForwardAssumption
  <2>2. \A x \in Int : x + TrainWindow + TestWindow = x + span
    BY <1>1, WalkForwardAssumption
  <2>3. \A k \in 1 .. n : (k - 1) * step \in Int
    BY Integral
  <2> QED BY <1>1, <1>4, <2>1, <2>2, <2>3 DEF Windows
<1>6. Len(Windows(end)) = n
  BY <1>5
<1>7. ASSUME NEW k \in 1 .. n
      PROVE  Windows(end)[k].trainFrom >= 0 /\ Windows(end)[k].testTo <= end
  <2>1. room \in Nat /\ n = room \div step + 1
    BY <1>4
  <2>2. PICK q \in Nat, r \in Nat : q = room \div step /\ room = q * step + r
    BY <2>1, Division
  <2>3. PICK m \in Nat, l \in Nat : m = k - 1 /\ l = q - m
    <3>1. n = q + 1
      BY <2>1, <2>2
    <3> QED BY <3>1
  <2>4. m * step \in Nat /\ l * step \in Nat
    BY Positives
  <2>5. q * step = m * step + l * step
    <3>1. q = m + l
      BY <2>3
    <3>2. (m + l) * step = m * step + l * step
      BY SumTimes
    <3> QED BY <3>1, <3>2
  <2>6. PICK a \in Nat, b \in Nat : a = m * step /\ b = l * step
    BY <2>4
  <2>7. a <= room
    BY <2>2, <2>5, <2>6
  <2>8. Windows(end)[k].trainFrom = a /\ Windows(end)[k].testTo = a + span
    BY <1>5, <2>3, <2>6
  <2> QED BY <1>2, <1>3, <2>7, <2>8
<1>8. ASSUME NEW cursor \in 0 .. end, cursor % step = 0, cursor + span <= end
      PROVE  \E k \in 1 .. n : Windows(end)[k].trainFrom = cursor
  <2>1. cursor \in Nat /\ room \in Nat /\ cursor <= room
    BY <1>2, <1>3, <1>8
  <2>2. PICK c \in Nat : c = cursor \div step /\ cursor = c * step
    BY <1>8, <2>1, Division
  <2>3. PICK q \in Nat, r \in Nat : q = room \div step /\ room = q * step + r /\ r < step
    BY <2>1, Division
  <2>4. c <= q
    <3> SUFFICES ASSUME q + 1 <= c PROVE FALSE
      OBVIOUS
    <3>1. (q + 1) * step <= c * step
      BY Times
    <3>2. (q + 1) * step = q * step + step
      <4>1. 1 * step = step
        OBVIOUS
      <4> QED BY <4>1, SumTimes
    <3>3. PICK a \in Int : a = q * step
      BY Integral
    <3> QED BY <2>1, <2>2, <2>3, <3>1, <3>2, <3>3
  <2>5. c + 1 \in 1 .. n /\ (c + 1) - 1 = c
    BY <1>4, <2>1, <2>3, <2>4
  <2>6. Windows(end)[c + 1].trainFrom = c * step
    BY <1>5, <2>5
  <2> QED BY <2>2, <2>5, <2>6
<1>9. \A cursor \in 0 .. end : cursor + TrainWindow + TestWindow = cursor + span
  BY <1>1, WalkForwardAssumption
<1> QED BY <1>1, <1>6, <1>7, <1>8, <1>9

\* The metric to beat, when w is the best so far.
ToBeat(metrics, w) == IF w = 0 THEN LeastMetric ELSE metrics[w]

\* g is the best so far of the grid search.
Search(g, metrics) ==
  g = [k \in 0 .. Len(metrics) |->
         IF k = 0 THEN 0
         ELSE IF metrics[k] > ToBeat(metrics, g[k - 1]) THEN k ELSE g[k - 1]]

LEMMA BestIsSearch ==
  ASSUME NEW metrics
  PROVE  BestParams(metrics) = (CHOOSE g : Search(g, metrics))[Len(metrics)]
BY DEF BestParams, Search, ToBeat

\* The recursion that defines it has a solution.
LEMMA SearchExists ==
  ASSUME NEW metrics, NEW n \in Nat, Len(metrics) = n
  PROVE  \E g : Search(g, metrics)
<1> DEFINE A == 0 .. n
           Better(k, w) == IF metrics[k] > ToBeat(metrics, w) THEN k ELSE w
           F == [k \in 1 .. n |-> [w \in A |-> Better(k, w)]]
<1>1. \A k \in 1 .. n, w \in A : F[k][w] = Better(k, w)
  OBVIOUS
<1>2. \A k \in 1 .. n, w \in A : Better(k, w) \in A
  OBVIOUS
<1>3. Steps(F, n, A, 0)
  <2>1. n \in Nat /\ 0 \in A
    OBVIOUS
  <2> HIDE DEF F, Better, A
  <2> QED BY <1>1, <1>2, <2>1 DEF Steps
<1> HIDE DEF F, Better, A
<1>4. PICK g \in [0 .. n -> A] : g[0] = 0 /\ \A k \in 1 .. n : g[k] = F[k][g[k - 1]]
  <2>1. \E g : Taken(g, F, n, A, 0)
    BY <1>3, Recursion
  <2> QED BY <2>1 DEF Taken
<1>5. \A k \in 0 .. n : g[k] = IF k = 0 THEN 0 ELSE Better(k, g[k - 1])
  <2> TAKE k \in 0 .. n
  <2>1. CASE k = 0
    BY <1>4, <2>1
  <2>2. CASE k # 0
    <3>1. k \in 1 .. n /\ k - 1 \in 0 .. n
      BY <2>2
    <3>2. g[k - 1] \in A
      BY <1>4, <3>1
    <3> QED BY <1>1, <1>4, <2>2, <3>1, <3>2
  <2> QED BY <2>1, <2>2
<1>6. g = [k \in 0 .. n |-> IF k = 0 THEN 0 ELSE Better(k, g[k - 1])]
  BY <1>4, <1>5
<1> QED BY <1>6 DEF Search, Better

\* w is the first of the greatest of k metrics, or none beats the start.
IsBest(metrics, k, w) ==
  /\ w \in 0 .. k
  /\ \A j \in 1 .. k :
       IF w = 0 THEN metrics[j] <= LeastMetric
       ELSE metrics[j] <= metrics[w] /\ (metrics[j] = metrics[w] => w <= j)

\* A step of the search keeps that.
LEMMA SearchStep ==
  ASSUME NEW metrics, NEW k \in Nat \ {0}, \A j \in 1 .. k : metrics[j] \in Int,
         NEW w, IsBest(metrics, k - 1, w),
         NEW b, b = IF metrics[k] > ToBeat(metrics, w) THEN k ELSE w
  PROVE  IsBest(metrics, k, b)
<1>1. /\ w \in 0 .. k - 1 /\ k \in 1 .. k /\ LeastMetric \in Int
      /\ \A j \in 1 .. k : metrics[j] \in Int /\ (j = k \/ j \in 1 .. k - 1)
  BY WalkForwardAssumption DEF IsBest
<1>2. PICK y \in Int : y = metrics[k]
  BY <1>1
<1>3. CASE w = 0
  <2>1. \A j \in 1 .. k - 1 : metrics[j] <= LeastMetric
    BY <1>3 DEF IsBest
  <2>2. CASE y > LeastMetric
    <3>1. b = k
      BY <1>2, <1>3, <2>2 DEF ToBeat
    <3>2. \A j \in 1 .. k : metrics[j] <= y /\ (metrics[j] = y => k <= j)
      BY <1>1, <1>2, <2>1, <2>2
    <3> QED BY <1>1, <1>2, <3>1, <3>2 DEF IsBest
  <2>3. CASE ~(y > LeastMetric)
    <3>1. b = 0
      BY <1>2, <1>3, <2>3 DEF ToBeat
    <3>2. \A j \in 1 .. k : metrics[j] <= LeastMetric
      BY <1>1, <1>2, <2>1, <2>3
    <3> QED BY <3>1, <3>2 DEF IsBest
  <2> QED BY <2>2, <2>3
<1>4. CASE w # 0
  <2>1. \A j \in 1 .. k - 1 : metrics[j] <= metrics[w] /\ (metrics[j] = metrics[w] => w <= j)
    BY <1>4 DEF IsBest
  <2>2. w \in 1 .. k - 1 /\ w \in 1 .. k
    BY <1>1, <1>4
  <2>3. PICK x \in Int : x = metrics[w]
    BY <1>1, <2>2
  <2>4. CASE y > x
    <3>1. b = k
      BY <1>2, <1>4, <2>3, <2>4 DEF ToBeat
    <3>2. \A j \in 1 .. k : metrics[j] <= y /\ (metrics[j] = y => k <= j)
      BY <1>1, <1>2, <2>1, <2>3, <2>4
    <3> QED BY <1>1, <1>2, <3>1, <3>2 DEF IsBest
  <2>5. CASE ~(y > x)
    <3>1. b = w
      BY <1>2, <1>4, <2>3, <2>5 DEF ToBeat
    <3>2. \A j \in 1 .. k : metrics[j] <= x /\ (metrics[j] = x => w <= j)
      BY <1>1, <1>2, <2>1, <2>2, <2>3, <2>5
    <3> QED BY <1>4, <2>2, <2>3, <3>1, <3>2 DEF IsBest
  <2> QED BY <2>4, <2>5
<1> QED BY <1>3, <1>4

\* What the search ends with.
LEMMA SearchFindsFirst ==
  ASSUME NEW metrics, NEW n \in Nat, Len(metrics) = n, \A k \in 1 .. n : metrics[k] \in Int
  PROVE  IsBest(metrics, n, BestParams(metrics))
<1> DEFINE g == CHOOSE x : Search(x, metrics)
<1>1. Search(g, metrics)
  BY SearchExists
<1> HIDE DEF g
<1>2. \A k \in 0 .. n :
        g[k] = IF k = 0 THEN 0
               ELSE IF metrics[k] > ToBeat(metrics, g[k - 1]) THEN k ELSE g[k - 1]
  BY <1>1 DEF Search
<1> DEFINE Good == {k \in 0 .. n : IsBest(metrics, k, g[k])}
<1>3. 0 \in Good
  <2>1. 0 \in 0 .. n
    OBVIOUS
  <2>2. g[0] = 0
    BY <1>2, <2>1
  <2> QED BY <2>1, <2>2 DEF IsBest
<1>4. ASSUME NEW k \in 1 .. n, k - 1 \in Good PROVE k \in Good
  <2>1. k \in Nat \ {0} /\ k \in 0 .. n /\ \A j \in 1 .. k : metrics[j] \in Int
    OBVIOUS
  <2>2. g[k] = IF metrics[k] > ToBeat(metrics, g[k - 1]) THEN k ELSE g[k - 1]
    BY <1>2, <2>1
  <2>3. IsBest(metrics, k - 1, g[k - 1])
    BY <1>4
  <2>4. IsBest(metrics, k, g[k])
    BY <2>1, <2>2, <2>3, SearchStep
  <2> QED BY <2>1, <2>4
<1> HIDE DEF Good
<1>5. \A k \in 0 .. n : k \in Good
  BY <1>3, <1>4, UpTo
<1>6. n \in Good
  <2>1. n \in 0 .. n
    OBVIOUS
  <2> QED BY <1>5, <2>1
<1>7. BestParams(metrics) = g[n]
  BY BestIsSearch DEF g
<1> QED BY <1>6, <1>7 DEF Good

LEMMA BestReported == BestIsFirst
<1> SUFFICES ASSUME NEW metrics \in [1 .. 3 -> Scores], NEW best, best = BestParams(metrics)
             PROVE  IF best = 0 THEN \A k \in 1 .. 3 : metrics[k] <= LeastMetric
                    ELSE \A k \in 1 .. 3 :
                           metrics[k] <= metrics[best] /\ (metrics[k] = metrics[best] => best <= k)
  BY Zenon DEF BestIsFirst
<1>1. \A j \in 1 .. 3 : metrics[j] \in Int
  BY WalkForwardAssumption
<1>2. Len(metrics) = 3 /\ 3 \in Nat
  OBVIOUS
<1>3. IsBest(metrics, 3, best)
  BY <1>1, <1>2, SearchFindsFirst
<1> QED BY <1>3 DEF IsBest

-----------------------------------------------------------------------------
(* Roots *)

\* More makes more.
LEMMA SquareMore ==
  ASSUME NEW x \in Nat, NEW y \in Nat, NEW b \in Nat, x <= y
  PROVE  x * x * b \in Nat /\ y * y * b \in Nat /\ x * x * b <= y * y * b
<1>1. x * x \in Nat /\ y * x \in Nat /\ y * y \in Nat
  BY Positives
<1>2. x * x <= y * x
  BY Times
<1>3. x * y <= y * y /\ x * y = y * x
  BY Times
<1>4. PICK u \in Nat, v \in Nat : u = x * x /\ v = y * y /\ u <= v
  BY <1>1, <1>2, <1>3
<1>5. u * b \in Nat /\ v * b \in Nat
  BY Positives
<1>6. u * b <= v * b
  BY <1>4, Times
<1> QED BY <1>4, <1>5, <1>6

\* What lies above everything that is tried is too much.
LEMMA TooMuch ==
  ASSUME NEW p \in Nat \ {0}, NEW q \in Nat, NEW b \in Nat \ {0}, NEW a \in Nat, a < (q + 1) * b,
         NEW l \in Nat, l = p * (q + 1)
  PROVE  a * p * p < (l + 1) * (l + 1) * b
<1>1. PICK s \in Nat \ {0} : s = q + 1
  OBVIOUS
<1>2. PICK c \in Nat : c = s * b
  BY Positives
<1>3. a < c
  BY <1>1, <1>2
<1>4. l * l * b = (p * p) * (s * c)
  <2>1. l * l * b = (p * s) * (p * s) * b
    BY <1>1
  <2>2. (p * s) * (p * s) * b = (p * p) * (s * (s * b))
    OBVIOUS
  <2> QED BY <1>2, <2>1, <2>2
<1>5. PICK d \in Nat : d = p * p
  BY Positives
<1>6. PICK e \in Nat : e = s * c
  BY Positives
<1>7. c <= e
  <2>1. 1 * c <= s * c
    BY Times
  <2> QED BY <1>6, <2>1
<1>8. a * d <= e * d /\ a * d \in Int
  <2>1. a <= e
    BY <1>3, <1>7
  <2> QED BY <2>1, Times
<1>9. a * p * p = a * d /\ l * l * b = e * d
  BY <1>4, <1>5, <1>6
<1>10. (l + 1) * (l + 1) * b = l * l * b + (2 * (l * b) + b)
  OBVIOUS
<1>11. l * b \in Nat /\ l * l * b \in Nat
  BY Positives, SquareMore
<1>12. l * l * b < (l + 1) * (l + 1) * b
  <2>1. PICK x \in Nat, y \in Nat : x = l * b /\ y = l * l * b
    BY <1>11
  <2> QED BY <1>10, <2>1
<1>13. PICK x \in Int, y \in Int : x = l * l * b /\ y = a * d
  BY <1>8, <1>11
<1>14. PICK z \in Int : z = (l + 1) * (l + 1) * b
  <2>1. l + 1 \in Nat
    OBVIOUS
  <2> QED BY <2>1, SquareMore
<1> QED BY <1>8, <1>9, <1>12, <1>13, <1>14

\* A root is the last number whose square is not too much.
LEMMA RootFacts ==
  ASSUME NEW a \in Nat, NEW b \in Nat \ {0}
  PROVE  /\ Root(a, b) \in Nat
         /\ Root(a, b) * Root(a, b) * b <= a * Precision * Precision
         /\ a * Precision * Precision < (Root(a, b) + 1) * (Root(a, b) + 1) * b
<1>1. PICK p \in Nat \ {0} : p = Precision
  BY WalkForwardAssumption
<1>2. PICK q \in Nat, r \in Nat : q = a \div b /\ a = q * b + r /\ r < b
  BY Division
<1>3. a < (q + 1) * b
  <2>1. PICK x \in Nat : x = q * b
    BY Positives
  <2>2. (q + 1) * b = x + b
    BY <2>1
  <2> QED BY <1>2, <2>1, <2>2
<1>4. PICK l \in Nat : l = p * (q + 1)
  BY Positives
<1>5. PICK limit \in Nat : limit = a * p * p
  <2>1. a * p \in Nat
    BY Positives
  <2> QED BY <2>1, Positives
<1> DEFINE S == {k \in 0 .. l : k * k * b <= limit}
           T == {l - k : k \in S}
<1>6. 0 \in S
  <2>1. 0 * 0 * b = 0
    OBVIOUS
  <2> QED BY <2>1
<1>7. T \in SUBSET Nat /\ T # {}
  BY <1>6
<1>8. \A k \in S : k \in 0 .. l /\ l - k \in T
  OBVIOUS
<1>9. \A y \in T : \E k \in S : y = l - k
  OBVIOUS
<1>10. \A k \in 0 .. l : k \in S <=> k * k * b <= limit
  OBVIOUS
<1> HIDE DEF S, T
<1>11. Min(T) \in T /\ \A y \in T : Min(T) <= y
  BY <1>7, MinIs
<1>12. PICK m \in S : Min(T) = l - m
  BY <1>9, <1>11
<1>13. m \in 0 .. l /\ m \in Nat
  BY <1>8
<1>14. \A k \in S : k <= m
  <2> TAKE k \in S
  <2>1. k \in 0 .. l /\ l - m <= l - k
    BY <1>8, <1>11, <1>12
  <2> QED BY <1>13, <2>1
<1>15. Root(a, b) = m
  <2>1. S \in SUBSET Int
    BY <1>8
  <2>2. Max(S) = m
    BY <1>14, <2>1, MaxIs
  <2>3. Root(a, b) = Max(S)
    BY <1>1, <1>2, <1>4, <1>5 DEF Root, S
  <2> QED BY <2>2, <2>3
<1>16. m * m * b <= limit
  BY <1>10, <1>13
<1>17. limit < (m + 1) * (m + 1) * b
  <2>1. CASE m = l
    <3>1. a * p * p < (l + 1) * (l + 1) * b
      BY <1>3, <1>4, TooMuch
    <3> QED BY <1>5, <2>1, <3>1
  <2>2. CASE m # l
    <3>1. m + 1 \in 0 .. l /\ m + 1 \in Nat /\ ~(m + 1 <= m)
      BY <1>13, <2>2
    <3>2. m + 1 \notin S
      BY <1>14, <3>1
    <3>3. ~((m + 1) * (m + 1) * b <= limit)
      BY <1>10, <3>1, <3>2
    <3>4. (m + 1) * (m + 1) * b \in Nat
      BY <3>1, SquareMore
    <3> QED BY <3>3, <3>4
  <2> QED BY <2>1, <2>2
<1> QED BY <1>1, <1>5, <1>13, <1>15, <1>16, <1>17

\* Only one number is.
LEMMA RootOnce ==
  ASSUME NEW r \in Nat, NEW s \in Nat, NEW b \in Nat \ {0}, NEW x \in Nat,
         r * r * b <= x, x < (s + 1) * (s + 1) * b
  PROVE  r <= s
<1> SUFFICES ASSUME s + 1 <= r PROVE FALSE
  OBVIOUS
<1>1. PICK t \in Nat : t = s + 1
  OBVIOUS
<1>2. t * t * b \in Nat /\ r * r * b \in Nat /\ t * t * b <= r * r * b
  BY <1>1, SquareMore
<1>3. x < t * t * b
  BY <1>1
<1> QED BY <1>2, <1>3

\* A root is of the quotient, however it is written.
LEMMA RootScaled ==
  ASSUME NEW a \in Nat, NEW b \in Nat \ {0}
  PROVE  Root(100 * a, 100 * b) = Root(a, b)
<1>1. PICK p \in Nat, a1 \in Nat, b1 \in Nat \ {0} : p = Precision /\ a1 = 100 * a /\ b1 = 100 * b
  BY WalkForwardAssumption
<1>2. PICK r \in Nat, s \in Nat : r = Root(a, b) /\ s = Root(a1, b1)
  BY RootFacts
<1>3. r * r * b <= a * p * p /\ a * p * p < (r + 1) * (r + 1) * b
  BY <1>1, <1>2, RootFacts
<1>4. s * s * b1 <= a1 * p * p /\ a1 * p * p < (s + 1) * (s + 1) * b1
  BY <1>1, <1>2, RootFacts
<1>5. PICK x \in Nat : x = a * p * p
  <2>1. a * p \in Nat
    BY Positives
  <2> QED BY <2>1, Positives
<1>6. a1 * p * p = 100 * x
  <2>1. (100 * a) * p * p = 100 * (a * p * p)
    OBVIOUS
  <2> QED BY <1>1, <1>5, <2>1
<1>7. \A k \in Nat : k * k * b1 = 100 * (k * k * b) /\ k * k * b \in Nat
  <2> TAKE k \in Nat
  <2>1. k * k * (100 * b) = 100 * (k * k * b)
    OBVIOUS
  <2>2. k * k * b \in Nat
    BY SquareMore
  <2> QED BY <1>1, <2>1, <2>2
<1>8. s * s * b <= x
  <2>1. PICK y \in Nat : y = s * s * b /\ s * s * b1 = 100 * y
    BY <1>7
  <2>2. 100 * y <= 100 * x
    BY <1>4, <1>6, <2>1
  <2> QED BY <2>1, <2>2
<1>9. x < (s + 1) * (s + 1) * b
  <2>1. PICK t \in Nat : t = s + 1
    OBVIOUS
  <2>2. PICK y \in Nat : y = t * t * b /\ t * t * b1 = 100 * y
    BY <1>7
  <2>3. 100 * x < 100 * y
    BY <1>4, <1>6, <2>1, <2>2
  <2> QED BY <2>1, <2>2, <2>3
<1>10. r <= s
  BY <1>3, <1>5, <1>9, RootOnce
<1>11. s <= r
  BY <1>3, <1>5, <1>8, RootOnce
<1> QED BY <1>1, <1>2, <1>10, <1>11

-----------------------------------------------------------------------------
(* The values of a parameter *)

\* The squares of the values.
Squares(values) == [k \in DOMAIN values |-> values[k] * values[k]]

\* p and q are the sums of n values and of their squares.
Moments(values, n, p, q) ==
  /\ n \in Nat \ {0} /\ DOMAIN values = 1 .. n /\ Len(values) = n /\ IsFiniteSet(1 .. n)
  /\ Cardinality(1 .. n) = n
  /\ \A k \in 1 .. n : values[k] \in Int
  /\ p \in Int /\ q \in Int
  /\ p = SumFunctionOnSet(values, 1 .. n)
  /\ q = SumFunctionOnSet(Squares(values), 1 .. n)

\* Any values have them.
LEMMA MomentsOf ==
  ASSUME NEW n \in Nat \ {0}, NEW values \in [1 .. n -> Int]
  PROVE  \E p \in Int, q \in Int : Moments(values, n, p, q)
<1>1. DOMAIN values = 1 .. n /\ Len(values) = n /\ \A k \in 1 .. n : values[k] \in Int
  OBVIOUS
<1>2. IsFiniteSet(1 .. n) /\ Cardinality(1 .. n) = n
  BY FS_Interval
<1>3. \A k \in 1 .. n : Squares(values)[k] \in Int
  <2> TAKE k \in 1 .. n
  <2>1. Squares(values)[k] = values[k] * values[k]
    BY <1>1 DEF Squares
  <2> QED BY <1>1, <2>1, Integral
<1> DEFINE S == 1 .. n
<1>4. S \in SUBSET S
  OBVIOUS
<1> HIDE DEF S
<1>5. SumFunctionOnSet(Squares(values), S) \in Int
  <2>1. IsFiniteSet(S) /\ \A x \in S : Squares(values)[x] \in Int
    BY <1>2, <1>3 DEF S
  <2> QED BY <1>4, <2>1, SumInt
<1>6. SumFunctionOnSet(values, S) \in Int
  <2>1. IsFiniteSet(S) /\ \A x \in S : values[x] \in Int
    BY <1>1, <1>2 DEF S
  <2> QED BY <1>4, <2>1, SumInt
<1> QED BY <1>1, <1>2, <1>5, <1>6 DEF S, Moments

LEMMA SquareOfDifference ==
  ASSUME NEW n \in Int, NEW x \in Int, NEW p \in Int
  PROVE  (n * x - p) * (n * x - p) = (n * n) * (x * x) + (-(2 * (n * p))) * x + p * p
OBVIOUS

LEMMA SumOfDifferences ==
  ASSUME NEW n \in Int, NEW p \in Int, NEW q \in Int
  PROVE  (n * n) * q + (-(2 * (n * p))) * p + (p * p) * n = n * (n * q - p * p)
OBVIOUS

\* No value is further from the mean than all of them together.
LEMMA WithinDeviation ==
  ASSUME NEW values, NEW n, NEW p, NEW q, Moments(values, n, p, q), NEW k \in 1 .. n
  PROVE  (n * values[k] - p) * (n * values[k] - p) <= n * (n * q - p * p)
<1> DEFINE Far(x) == (n * x - p) * (n * x - p)
           D == [j \in 1 .. n |-> Far(values[j])]
           S == 1 .. n
<1>1. n \in Int /\ p \in Int /\ q \in Int /\ \A j \in S : values[j] \in Int
  BY DEF Moments
<1>2. PICK a \in Int, b \in Int, c \in Int : a = n * n /\ b = -(2 * (n * p)) /\ c = p * p
  BY <1>1, Integral
<1>3. \A x \in Int : Far(x) = a * (x * x) + b * x + c /\ Far(x) \in Nat
  <2> TAKE x \in Int
  <2>1. n * x - p \in Int
    BY <1>1, Integral
  <2>2. Far(x) \in Nat
    BY <2>1, SquareNat
  <2>3. Far(x) = a * (x * x) + b * x + c
    BY <1>1, <1>2, SquareOfDifference
  <2> QED BY <2>2, <2>3
<1> HIDE DEF Far
<1>4. \A j \in S : D[j] = Far(values[j])
  OBVIOUS
<1>5. \A j \in S : Squares(values)[j] = values[j] * values[j] /\ Squares(values)[j] \in Int
  <2> TAKE j \in S
  <2>1. Squares(values)[j] = values[j] * values[j]
    BY DEF Moments, Squares
  <2> QED BY <1>1, <2>1, Integral
<1>6. IsFiniteSet(S) /\ Cardinality(S) = n /\ k \in S
  BY DEF Moments
<1>7. q = SumFunctionOnSet(Squares(values), S) /\ p = SumFunctionOnSet(values, S)
  BY DEF Moments
<1> HIDE DEF D, S
<1>8. Combined(D, a, Squares(values), b, values, c, S)
  BY <1>1, <1>3, <1>4, <1>5 DEF Combined
<1>9. SumFunctionOnSet(D, S) = a * q + b * p + c * n
  <2>1. SumFunctionOnSet(D, S) = a * SumFunctionOnSet(Squares(values), S)
          + b * SumFunctionOnSet(values, S) + c * Cardinality(S)
    BY <1>6, <1>8, SumCombined
  <2> QED BY ONLY <2>1, <1>6, <1>7
<1>10. a * q + b * p + c * n = n * (n * q - p * p)
  BY <1>1, <1>2, SumOfDifferences
<1>11. D[k] <= SumFunctionOnSet(D, S)
  <2>1. \A x \in S : D[x] \in Nat
    BY <1>1, <1>3, <1>4
  <2> QED BY <1>6, <2>1, SumAtLeast
<1>12. D[k] = (n * values[k] - p) * (n * values[k] - p)
  BY <1>4, <1>6 DEF Far
<1> QED BY <1>9, <1>10, <1>11, <1>12


\* The deviation, from the moments.
LEMMA SpreadIs ==
  ASSUME NEW values, NEW n, NEW p, NEW q, Moments(values, n, p, q)
  PROVE  SumOf(values) = p /\ Spread(values) = n * q - p * p /\ Spread(values) \in Nat
<1>1. /\ DOMAIN values = 1 .. n /\ Len(values) = n /\ n \in Nat \ {0}
      /\ p \in Int /\ q \in Int /\ 1 \in 1 .. n /\ values[1] \in Int
  BY DEF Moments
<1>2. SumOf(values) = p
  BY <1>1 DEF SumOf, Moments
<1>3. SumOf([k \in DOMAIN values |-> values[k] * values[k]]) = q
  <2>1. SumOf(Squares(values)) = q
    BY <1>1 DEF SumOf, Moments, Squares
  <2> QED BY <2>1 DEF Squares
<1>4. Spread(values) = n * q - p * p
  BY <1>1, <1>2, <1>3 DEF Spread
<1>5. PICK d \in Int : d = n * q - p * p
  <2>1. n * q \in Int /\ p * p \in Int
    BY <1>1, Integral
  <2> QED BY <2>1
<1>6. d >= 0
  <2>1. (n * values[1] - p) * (n * values[1] - p) <= n * d
    BY <1>1, <1>5, WithinDeviation
  <2>2. PICK far \in Int : far = n * values[1] - p
    <3>1. n * values[1] \in Int
      BY <1>1, Integral
    <3> QED BY <1>1, <3>1
  <2>3. far * far \in Nat /\ n * d \in Int
    BY <1>1, SquareNat, Integral
  <2>4. 0 <= n * d
    <3>1. PICK x \in Nat, y \in Int : x = far * far /\ y = n * d
      BY <2>3
    <3> QED BY <2>1, <2>2, <3>1
  <2> SUFFICES ASSUME d < 0 PROVE FALSE
    BY <1>5
  <2>5. (d + 1) * n <= 0 * n
    BY <1>1, Times
  <2>6. (d + 1) * n = n * d + n
    BY <1>1
  <2>7. PICK y \in Int : y = n * d
    BY <2>3
  <2> QED BY <1>1, <2>4, <2>5, <2>6, <2>7
<1> QED BY <1>2, <1>4, <1>5, <1>6

\* The moments of values counted in a tenth of the unit.
LEMMA ScaledMoments ==
  ASSUME NEW values, NEW n, NEW p, NEW q, Moments(values, n, p, q)
  PROVE  Moments([k \in 1 .. n |-> 10 * values[k]], n, 10 * p, 100 * q)
<1> DEFINE S == 1 .. n
           tens == [k \in S |-> 10 * values[k]]
<1>1. n \in Nat \ {0} /\ p \in Int /\ q \in Int /\ \A j \in S : values[j] \in Int
  BY DEF Moments
<1>2. DOMAIN tens = S /\ Len(tens) = n /\ \A j \in S : tens[j] = 10 * values[j]
  BY <1>1
<1>3. \A j \in S : tens[j] \in Int
  BY <1>1, <1>2
<1>4. \A j \in S : /\ Squares(values)[j] = values[j] * values[j]
                   /\ Squares(tens)[j] = tens[j] * tens[j]
  BY <1>2 DEF Moments, Squares
<1> HIDE DEF tens
<1>5. \A j \in S : Squares(values)[j] \in Int /\ Squares(tens)[j] = 100 * Squares(values)[j]
  <2> TAKE j \in S
  <2>1. PICK x \in Int : x = values[j]
    BY <1>1
  <2>2. (10 * x) * (10 * x) = 100 * (x * x) /\ x * x \in Int
    BY Integral
  <2> QED BY <1>2, <1>4, <2>1, <2>2
<1>6. IsFiniteSet(S) /\ Cardinality(S) = n
  BY DEF Moments
<1>7. q = SumFunctionOnSet(Squares(values), S) /\ p = SumFunctionOnSet(values, S)
  BY DEF Moments
<1>8. \A j \in S : values[j] \in Int
  BY <1>1
<1> HIDE DEF S
<1>9. Combined(tens, 10, values, 0, values, 0, S)
  BY <1>2, <1>8 DEF Combined
<1>10. Combined(Squares(tens), 100, Squares(values), 0, values, 0, S)
  BY <1>5, <1>8 DEF Combined
<1>11. SumFunctionOnSet(tens, S) = 10 * p
  <2>1. SumFunctionOnSet(tens, S)
          = 10 * SumFunctionOnSet(values, S) + 0 * SumFunctionOnSet(values, S) + 0 * Cardinality(S)
    BY <1>6, <1>9, SumCombined
  <2> QED BY <1>1, <1>6, <1>7, <2>1
<1>12. SumFunctionOnSet(Squares(tens), S) = 100 * q
  <2>1. SumFunctionOnSet(Squares(tens), S)
          = 100 * SumFunctionOnSet(Squares(values), S) + 0 * SumFunctionOnSet(values, S)
              + 0 * Cardinality(S)
    BY <1>6, <1>10, SumCombined
  <2> QED BY <1>1, <1>6, <1>7, <2>1
<1>13. 10 * p \in Int /\ 100 * q \in Int
  BY <1>1
<1>14. Moments(tens, n, 10 * p, 100 * q)
  BY <1>1, <1>2, <1>3, <1>6, <1>11, <1>12, <1>13 DEF Moments, S
<1> QED BY <1>14 DEF tens, S

\* What is known of a parameter whose values add up to something.
ParamSound(values, n, sum, spread, c) ==
  /\ sum \in Int /\ sum # 0 /\ sum = SumOf(values)
  /\ spread \in Nat /\ spread = Spread(values)
  /\ c \in Nat /\ c = Coefficient(values)
  /\ c * c * (sum * sum) <= spread * Precision * Precision
  /\ spread * Precision * Precision < (c + 1) * (c + 1) * (sum * sum)
  /\ \A k \in 1 .. n : values[k] \in Int /\ (n * values[k] - sum) * (n * values[k] - sum) <= n * spread

LEMMA ParamFacts ==
  ASSUME NEW n \in Nat \ {0}, NEW values \in [1 .. n -> Int], SumOf(values) # 0
  PROVE  \E sum \in Int, spread \in Nat, c \in Nat : ParamSound(values, n, sum, spread, c)
<1>1. PICK p \in Int, q \in Int : Moments(values, n, p, q)
  BY MomentsOf
<1>2. SumOf(values) = p /\ p # 0 /\ Spread(values) = n * q - p * p
  BY <1>1, SpreadIs
<1>3. PICK d \in Nat : d = Spread(values)
  BY <1>1, SpreadIs
<1>4. PICK e \in Nat \ {0} : e = p * p
  <2>1. p * p \in Nat
    BY SquareNat
  <2>2. p * p # 0
    <3>1. CASE p > 0
      <4>1. 1 * p <= p * p
        BY <3>1, Times
      <4> QED BY <2>1, <3>1, <4>1
    <3>2. CASE p < 0
      <4>1. PICK m \in Nat \ {0} : m = -p
        BY <3>2
      <4>2. 1 * m <= m * m /\ m * m = p * p
        BY <4>1, Times
      <4> QED BY <2>1, <4>1, <4>2
    <3> QED BY <1>2, <3>1, <3>2
  <2> QED BY <2>1, <2>2
<1>5. PICK c \in Nat : c = Root(d, e)
  BY RootFacts
<1>6. c * c * e <= d * Precision * Precision /\ d * Precision * Precision < (c + 1) * (c + 1) * e
  BY <1>5, RootFacts
<1>7. Coefficient(values) = c
  BY <1>2, <1>3, <1>4, <1>5 DEF Coefficient
<1>8. ASSUME NEW k \in 1 .. n
      PROVE  values[k] \in Int /\ (n * values[k] - p) * (n * values[k] - p) <= n * d
  BY <1>1, <1>2, <1>3, WithinDeviation
<1>9. ParamSound(values, n, p, d, c)
  BY <1>2, <1>3, <1>4, <1>6, <1>7, <1>8 DEF ParamSound
<1> QED BY <1>9

\* The unit of the values does not matter.
LEMMA ScaledValues ==
  ASSUME NEW n \in Nat \ {0}, NEW values \in [1 .. n -> Int],
         NEW tens, tens = [k \in 1 .. n |-> 10 * values[k]]
  PROVE  /\ SumOf(tens) # 0 <=> SumOf(values) # 0
         /\ SumOf(values) # 0 => Coefficient(tens) = Coefficient(values)
<1>1. PICK p \in Int, q \in Int : Moments(values, n, p, q)
  BY MomentsOf
<1>2. PICK p10 \in Int, q100 \in Int : p10 = 10 * p /\ q100 = 100 * q
  OBVIOUS
<1>3. Moments(tens, n, p10, q100)
  BY <1>1, <1>2, ScaledMoments
<1>4. PICK d \in Nat : d = Spread(values) /\ d = n * q - p * p /\ SumOf(values) = p
  BY <1>1, SpreadIs
<1>5. SumOf(tens) = p10 /\ Spread(tens) = n * q100 - p10 * p10
  BY <1>3, SpreadIs
<1>6. Spread(tens) = 100 * d
  <2>1. n * (100 * q) = 100 * (n * q) /\ (10 * p) * (10 * p) = 100 * (p * p)
    OBVIOUS
  <2>2. PICK a \in Int, b \in Int : a = n * q /\ b = p * p
    BY Integral
  <2> QED BY <1>2, <1>4, <1>5, <2>1, <2>2
<1>7. ASSUME p # 0 PROVE Coefficient(tens) = Coefficient(values)
  <2>1. PICK e \in Nat \ {0} : e = p * p
    <3>1. PICK sum \in Int, spread \in Nat, c \in Nat : ParamSound(values, n, sum, spread, c)
      BY <1>4, <1>7, ParamFacts
    <3>2. p * p \in Nat
      BY SquareNat
    <3>3. sum = p /\ spread * Precision * Precision < (c + 1) * (c + 1) * (p * p)
      BY <1>4, <3>1 DEF ParamSound
    <3>4. spread * Precision * Precision \in Nat
      <4>1. Precision \in Nat
        BY WalkForwardAssumption
      <4>2. spread * Precision \in Nat
        BY <4>1, Positives
      <4> QED BY <4>1, <4>2, Positives
    <3>5. (c + 1) * (c + 1) * 0 = 0
      OBVIOUS
    <3>6. p * p # 0
      BY <3>3, <3>4, <3>5
    <3> QED BY <3>2, <3>6
  <2>2. p10 * p10 = 100 * e
    <3>1. (10 * p) * (10 * p) = 100 * (p * p)
      OBVIOUS
    <3> QED BY <1>2, <2>1, <3>1
  <2>3. Root(100 * d, 100 * e) = Root(d, e)
    BY RootScaled
  <2> QED BY <1>4, <1>5, <1>6, <2>1, <2>2, <2>3 DEF Coefficient
<1> QED BY <1>2, <1>4, <1>5, <1>7

-----------------------------------------------------------------------------
(* The verdict *)

\* What the threshold of a robust verdict says of each value.
LEMMA RobustMeans ==
  ASSUME NEW n \in Nat \ {0}, NEW m \in Nat, NEW far \in Int, NEW e \in Nat, NEW spread \in Nat,
         NEW c \in Nat, NEW t \in Nat \ {0}, c + 1 <= m * t, far * far <= n * spread,
         spread * (5 * t) * (5 * t) < (c + 1) * (c + 1) * e
  PROVE  25 * (far * far) < m * m * (n * e)
<1>1. PICK g \in Nat : g = c + 1
  OBVIOUS
<1>2. PICK h \in Nat : h = m * t
  BY Positives
<1>3. g * g * e \in Nat /\ h * h * e \in Nat /\ g * g * e <= h * h * e
  <2>1. g <= h
    BY <1>1, <1>2
  <2> QED BY <2>1, SquareMore
<1>4. PICK y \in Nat, u \in Nat : y = m * m * e /\ u = t * t
  BY SquareMore, Positives
<1>5. h * h * e = y * u
  <2>1. (m * t) * (m * t) * e = (m * m * e) * (t * t)
    OBVIOUS
  <2> QED BY <1>2, <1>4, <2>1
<1>6. PICK x \in Nat : x = 25 * spread
  OBVIOUS
<1>7. spread * (5 * t) * (5 * t) = x * u
  <2>1. spread * (5 * t) * (5 * t) = (25 * spread) * (t * t)
    OBVIOUS
  <2> QED BY <1>4, <1>6, <2>1
<1>8. x < y
  <2> SUFFICES ASSUME y <= x PROVE FALSE
    OBVIOUS
  <2>1. y * u \in Int /\ x * u \in Int /\ y * u <= x * u
    BY Times
  <2>2. x * u < g * g * e
    BY <1>1, <1>7
  <2>3. PICK z \in Nat : z = g * g * e
    BY <1>3
  <2> QED BY <1>3, <1>5, <2>1, <2>2, <2>3
<1>9. (x + 1) * n \in Int /\ (x + 1) * n <= y * n
  <2>1. x + 1 <= y /\ x + 1 \in Int
    BY <1>8
  <2> QED BY <2>1, Times
<1>10. PICK a \in Nat, b \in Nat : a = far * far /\ b = n * spread
  BY SquareNat, Positives
<1>11. (x + 1) * n = 25 * b + n
  <2>1. (25 * spread + 1) * n = 25 * (n * spread) + n
    OBVIOUS
  <2> QED BY <1>6, <1>10, <2>1
<1>12. y * n = m * m * (n * e)
  <2>1. (m * m * e) * n = m * m * (n * e)
    OBVIOUS
  <2> QED BY <1>4, <2>1
<1>13. PICK z \in Int : z = y * n
  BY Integral
<1>14. a <= b
  BY <1>10
<1>15. 25 * a < z
  BY <1>9, <1>11, <1>13, <1>14
<1> QED BY <1>10, <1>12, <1>13, <1>15

\* And that of a fragile one, of a parameter that is above it.
LEMMA FragileMeans ==
  ASSUME NEW p \in Nat, NEW c \in Nat, NEW e \in Nat \ {0}, NEW spread \in Nat, 2 * c > p,
         c * c * e <= spread * p * p
  PROVE  4 * spread > e
<1> SUFFICES ASSUME 4 * spread <= e PROVE FALSE
  OBVIOUS
<1>1. PICK g \in Nat, h \in Nat : g = p + 1 /\ h = 2 * c /\ g <= h
  OBVIOUS
<1>2. g * g * e \in Nat /\ h * h * e \in Nat /\ g * g * e <= h * h * e
  BY <1>1, SquareMore
<1>3. h * h * e = 4 * (c * c * e)
  <2>1. (2 * c) * (2 * c) * e = 4 * (c * c * e)
    OBVIOUS
  <2> QED BY <1>1, <2>1
<1>4. PICK u \in Nat : u = p * p
  BY Positives
<1>5. PICK x \in Int, y \in Int : x = (4 * spread) * u /\ y = e * u /\ x <= y
  <2>1. 4 * spread \in Int
    OBVIOUS
  <2> QED BY <2>1, Times
<1>6. 4 * (spread * p * p) = x
  <2>1. 4 * (spread * p * p) = (4 * spread) * (p * p)
    OBVIOUS
  <2> QED BY <1>4, <1>5, <2>1
<1>7. g * g * e = y + (2 * (p * e) + e)
  <2>1. (p + 1) * (p + 1) * e = e * (p * p) + (2 * (p * e) + e)
    OBVIOUS
  <2> QED BY <1>1, <1>4, <1>5, <2>1
<1>8. PICK v \in Nat, w \in Nat, z \in Int : v = p * e /\ w = c * c * e /\ z = spread * p * p
  <2>1. c * c * e \in Nat /\ p * e \in Nat
    BY SquareMore, Positives
  <2>2. spread * p \in Int
    BY Integral
  <2>3. spread * p * p \in Int
    BY <2>2, Integral
  <2> QED BY <2>1, <2>3
<1>9. w <= z /\ 4 * z = x
  BY <1>6, <1>8
<1>10. y + (2 * v + e) <= 4 * w
  BY <1>2, <1>3, <1>7, <1>8
<1> QED BY <1>5, <1>8, <1>9, <1>10

\* None of several numbers is above a half of p, so their sum is not above as
\* many halves.
LEMMA SumOfHalves ==
  ASSUME NEW S, IsFiniteSet(S), NEW p \in Nat, NEW c, \A x \in S : c[x] \in Nat /\ ~(2 * c[x] > p)
  PROVE  2 * SumFunctionOnSet(c, S) <= Cardinality(S) * p
<1> DEFINE rest == [x \in S |-> p - 2 * c[x]]
<1>1. \A x \in S : rest[x] \in Nat /\ c[x] \in Int /\ rest[x] = -2 * c[x] + p
  <2> TAKE x \in S
  <2>1. PICK y \in Nat : y = c[x] /\ 2 * y <= p
    OBVIOUS
  <2> QED BY <2>1
<1> HIDE DEF rest
<1>2. S \in SUBSET S
  OBVIOUS
<1>3. SumFunctionOnSet(rest, S) \in Nat
  BY <1>1, <1>2, SumSubset
<1>4. SumFunctionOnSet(c, S) \in Int /\ Cardinality(S) \in Nat
  BY <1>1, <1>2, SumInt, FS_CardinalityType
<1>5. Combined(rest, -2, c, 0, c, p, S)
  BY <1>1 DEF Combined
<1>6. SumFunctionOnSet(rest, S)
        = (-2) * SumFunctionOnSet(c, S) + 0 * SumFunctionOnSet(c, S) + p * Cardinality(S)
  BY <1>5, SumCombined
<1>7. PICK s \in Int, m \in Nat, y \in Int :
        s = SumFunctionOnSet(c, S) /\ m = Cardinality(S) /\ y = m * p /\ p * m = y
  BY <1>4, Integral
<1>8. PICK x \in Nat : x = SumFunctionOnSet(rest, S) /\ x = (-2) * s + 0 * s + y
  BY <1>3, <1>6, <1>7
<1>9. 2 * s <= y
  BY <1>8
<1> QED BY <1>7, <1>9

\* The thresholds, in terms of the sum of the coefficients that count.
LEMMA FlagIs ==
  ASSUME NEW kinds, NEW chosen, NEW metrics, NEW S, S = Counting(kinds, chosen), IsFiniteSet(S),
         NEW c, c = [p \in S |-> Coefficient(chosen[p])], NEW flag,
         flag = Flag(Stability(kinds, chosen), metrics)
  PROVE  /\ flag = "robust" =>
              /\ SumOf(metrics) > Len(metrics) * Unit
              /\ S = {} \/ 5 * SumFunctionOnSet(c, S) < Cardinality(S) * Precision
         /\ flag = "fragile" =>
              S # {} /\ 2 * SumFunctionOnSet(c, S) > Cardinality(S) * Precision
<1>1. SumOf(c) = SumFunctionOnSet(c, S)
  BY DEF SumOf
<1>2. CASE S = {}
  <2>1. Stability(kinds, chosen) = [num |-> 0, den |-> 1]
    BY <1>2 DEF Stability
  <2>2. flag # "fragile" /\ (flag = "robust" => SumOf(metrics) > Len(metrics) * Unit)
    BY <2>1 DEF Flag
  <2> QED BY <1>2, <2>2
<1>3. CASE S # {}
  <2>1. PICK num, den : num = SumFunctionOnSet(c, S) /\ den = Cardinality(S) * Precision
    OBVIOUS
  <2>2. Stability(kinds, chosen) = [num |-> num, den |-> den]
    BY <1>1, <1>3, <2>1 DEF Stability
  <2>3. /\ flag = "robust" => SumOf(metrics) > Len(metrics) * Unit /\ 5 * num < den
        /\ flag = "fragile" => 2 * num > den
    BY <2>2 DEF Flag
  <2> QED BY <1>3, <2>1, <2>3
<1> QED BY <1>2, <1>3

LEMMA FlagReported == FlagIsEarned
<1> SUFFICES ASSUME NEW n \in 1 .. 3, NEW kinds \in [Params -> {"number", "text"}],
                    NEW chosen \in [Params -> [1 .. n -> Picks]], NEW metrics \in [1 .. n -> Scores]
             PROVE  LET counted == Counting(kinds, chosen)
                        m       == Cardinality(counted)
                        flag    == Flag(Stability(kinds, chosen), metrics)
                    IN  /\ flag = "robust" =>
                             /\ SumOf(metrics) > n * Unit
                             /\ \A p \in counted, k \in 1 .. n :
                                  LET sum == SumOf(chosen[p])  far == n * chosen[p][k] - sum
                                  IN  25 * (far * far) < m * m * (n * (sum * sum))
                        /\ flag = "fragile" =>
                             \E p \in counted :
                               4 * Spread(chosen[p]) > SumOf(chosen[p]) * SumOf(chosen[p])
                        /\ \A p \in Params :
                             LET tens == [chosen EXCEPT ![p] = [k \in 1 .. n |-> 10 * chosen[p][k]]]
                             IN  Flag(Stability(kinds, tens), metrics) = flag
  BY Zenon DEF FlagIsEarned
<1> DEFINE Far(values, k) == n * values[k] - SumOf(values)
           Near(values, m, k) ==
             25 * (Far(values, k) * Far(values, k)) < m * m * (n * (SumOf(values) * SumOf(values)))
           Wide(values) == 4 * Spread(values) > SumOf(values) * SumOf(values)
           Tens(p) == [chosen EXCEPT ![p] = [k \in 1 .. n |-> 10 * chosen[p][k]]]
           S == Counting(kinds, chosen)
           flag == Flag(Stability(kinds, chosen), metrics)
<1>0. S = Counting(kinds, chosen) /\ flag = Flag(Stability(kinds, chosen), metrics)
  OBVIOUS
<1> HIDE DEF S, flag
<1> DEFINE c == [p \in S |-> Coefficient(chosen[p])]
<1>1. n \in Nat \ {0} /\ Len(metrics) = n
  OBVIOUS
<1>2. \A p \in Params : chosen[p] \in [1 .. n -> Int]
  BY WalkForwardAssumption
<1>3. \A p \in S : p \in Params /\ SumOf(chosen[p]) # 0
  BY <1>0 DEF Counting
<1>4. IsFiniteSet(S)
  <2>1. S \subseteq Params
    BY <1>3
  <2> QED BY <2>1, WalkForwardAssumption, FS_Subset
<1>5. PICK m \in Nat : m = Cardinality(S)
  BY <1>4, FS_CardinalityType
<1>6. \A p \in S : \E sum \in Int, spread \in Nat, x \in Nat :
        ParamSound(chosen[p], n, sum, spread, x)
  BY <1>1, <1>2, <1>3, ParamFacts
<1>7. \A p \in S : c[p] = Coefficient(chosen[p])
  OBVIOUS
<1>8. \A p \in S : c[p] \in Nat
  <2> TAKE p \in S
  <2>1. PICK sum \in Int, spread \in Nat, x \in Nat : ParamSound(chosen[p], n, sum, spread, x)
    BY <1>6
  <2> QED BY <1>7, <2>1 DEF ParamSound
<1>9. /\ flag = "robust" =>
           /\ SumOf(metrics) > Len(metrics) * Unit
           /\ S = {} \/ 5 * SumFunctionOnSet(c, S) < Cardinality(S) * Precision
      /\ flag = "fragile" =>
           S # {} /\ 2 * SumFunctionOnSet(c, S) > Cardinality(S) * Precision
  <2>1. PICK d : d = c
    OBVIOUS
  <2> QED BY <1>4, <1>0, <2>1, FlagIs
<1> HIDE DEF c
<1>10. ASSUME flag = "robust", NEW p \in S, NEW k \in 1 .. n PROVE Near(chosen[p], Cardinality(S), k)
  <2>1. PICK t \in Nat \ {0} : Precision = 5 * t
    <3>1. PICK x \in Nat, y \in Nat : /\ x = Precision \div 5 /\ y = Precision % 5
                                      /\ Precision = x * 5 + y
      BY WalkForwardAssumption, Division
    <3>2. Precision = 5 * x /\ x # 0
      BY <3>1, WalkForwardAssumption
    <3> QED BY <3>2
  <2>2. PICK sum \in Int, spread \in Nat, x \in Nat : ParamSound(chosen[p], n, sum, spread, x)
    BY <1>6
  <2>3. PICK e \in Nat : e = sum * sum
    BY SquareNat
  <2>4. /\ sum = SumOf(chosen[p]) /\ x = c[p]
        /\ spread * (5 * t) * (5 * t) < (x + 1) * (x + 1) * e
    BY <1>7, <2>1, <2>2, <2>3 DEF ParamSound
  <2>5. x + 1 <= m * t
    <3>1. PICK s \in Nat : s = SumFunctionOnSet(c, S)
      <4>1. S \in SUBSET S
        OBVIOUS
      <4> QED BY <1>4, <1>8, <4>1, SumSubset
    <3>2. x <= s
      BY <1>4, <1>8, <2>4, <3>1, SumAtLeast
    <3>3. 5 * s < m * (5 * t)
      BY <1>5, <1>9, <1>10, <2>1, <3>1
    <3>4. PICK y \in Nat : y = m * t
      BY Positives
    <3>5. m * (5 * t) = 5 * (m * t)
      OBVIOUS
    <3> QED BY <3>2, <3>3, <3>4, <3>5
  <2>6. PICK far \in Int : far = Far(chosen[p], k)
    <3>1. chosen[p][k] \in Int
      BY <2>2 DEF ParamSound
    <3>2. n * chosen[p][k] \in Int
      BY <1>1, <3>1, Integral
    <3> QED BY <2>4, <3>2
  <2>7. far * far <= n * spread
    BY <2>2, <2>4, <2>6 DEF ParamSound
  <2> HIDE DEF Far
  <2>8. 25 * (far * far) < m * m * (n * e)
    BY <1>1, <2>4, <2>5, <2>7, RobustMeans
  <2> QED BY <1>5, <2>3, <2>4, <2>6, <2>8
<1>11. ASSUME flag = "fragile" PROVE \E p \in S : Wide(chosen[p])
  <2>1. PICK w \in Nat : w = Precision
    BY WalkForwardAssumption
  <2>2. PICK p \in S : 2 * c[p] > w
    <3>1. 2 * SumFunctionOnSet(c, S) > m * w
      BY <1>5, <1>9, <1>11, <2>1
    <3>2. SumFunctionOnSet(c, S) \in Nat
      <4>1. S \in SUBSET S
        OBVIOUS
      <4> QED BY <1>4, <1>8, <4>1, SumSubset
    <3>3. PICK y \in Nat : y = m * w
      BY Positives
    <3> SUFFICES ASSUME \A p \in S : ~(2 * c[p] > w) PROVE FALSE
      OBVIOUS
    <3>4. 2 * SumFunctionOnSet(c, S) <= Cardinality(S) * w
      BY <1>4, <1>8, SumOfHalves
    <3> QED BY <1>5, <3>1, <3>2, <3>3, <3>4
  <2>3. PICK sum \in Int, spread \in Nat, x \in Nat : ParamSound(chosen[p], n, sum, spread, x)
    BY <1>6
  <2>4. PICK e \in Nat : e = sum * sum
    BY SquareNat
  <2>5. /\ sum = SumOf(chosen[p]) /\ x = c[p] /\ spread = Spread(chosen[p])
        /\ x * x * e <= spread * w * w /\ spread * w * w < (x + 1) * (x + 1) * e
    BY <1>7, <2>1, <2>3, <2>4 DEF ParamSound
  <2>6. e # 0
    <3>1. spread * w \in Nat
      BY Positives
    <3>2. spread * w * w \in Nat
      BY <2>1, <3>1, Positives
    <3>3. (x + 1) * (x + 1) * 0 = 0
      OBVIOUS
    <3> QED BY <2>5, <3>2, <3>3
  <2>7. 4 * spread > e
    BY <2>2, <2>5, <2>6, FragileMeans
  <2>8. Wide(chosen[p])
    BY <2>4, <2>5, <2>7
  <2> QED BY <2>8
<1>12. ASSUME NEW p \in Params
       PROVE  Flag(Stability(kinds, Tens(p)), metrics) = flag
  <2>1. PICK values, tens, other :
          /\ values = chosen[p] /\ tens = [k \in 1 .. n |-> 10 * values[k]]
          /\ other = [chosen EXCEPT ![p] = tens]
    OBVIOUS
  <2>2. \A x \in Params : other[x] = IF x = p THEN tens ELSE chosen[x]
    BY <2>1
  <2>3. /\ SumOf(tens) # 0 <=> SumOf(values) # 0
        /\ SumOf(values) # 0 => Coefficient(tens) = Coefficient(values)
    <3>1. values \in [1 .. n -> Int] /\ tens = [k \in 1 .. n |-> 10 * values[k]]
      BY <1>2, <2>1
    <3> QED BY ONLY <1>1, <3>1, ScaledValues
  <2>4. \A x \in Params : /\ SumOf(other[x]) # 0 <=> SumOf(chosen[x]) # 0
                          /\ SumOf(chosen[x]) # 0 => Coefficient(other[x]) = Coefficient(chosen[x])
    BY <2>1, <2>2, <2>3
  <2>5. Counting(kinds, other) = Counting(kinds, chosen)
    BY <2>4 DEF Counting
  <2>6. [x \in Counting(kinds, chosen) |-> Coefficient(other[x])]
          = [x \in Counting(kinds, chosen) |-> Coefficient(chosen[x])]
    BY <1>3, <1>0, <2>4
  <2>7. Stability(kinds, other) = Stability(kinds, chosen)
    BY <2>5, <2>6 DEF Stability
  <2>8. Tens(p) = other
    BY <2>1
  <2> QED BY <1>0, <2>7, <2>8
<1>13. flag = "robust" => SumOf(metrics) > n * Unit
  BY <1>1, <1>9
<1> QED BY Zenon, <1>10, <1>11, <1>12, <1>13 DEF S, flag

-----------------------------------------------------------------------------
(* The equity curve *)

\* The loop stops before the first trade that closes after the sample.
LEMMA CountedFacts ==
  ASSUME NEW s \in Seq(Trades), NEW from \in 1 .. Len(s) + 1, NEW time \in Nat
  PROVE  /\ Counted(s, from, time) \in from - 1 .. Len(s)
         /\ \A i \in from .. Counted(s, from, time) : s[i].exitAt <= time
         /\ Counted(s, from, time) < Len(s) => s[Counted(s, from, time) + 1].exitAt > time
<1> DEFINE late == {i \in from .. Len(s) : s[i].exitAt > time}
<1>1. PICK m \in Nat : m = Len(s)
  OBVIOUS
<1>2. \A i \in from .. m : s[i].exitAt \in Nat
  <2> TAKE i \in from .. m
  <2>1. i \in 1 .. Len(s)
    BY <1>1
  <2>2. s[i] \in Trades
    BY <2>1
  <2> QED BY <2>2 DEF Trades
<1>3. Counted(s, from, time) = IF late = {} THEN m ELSE Min(late) - 1
  BY <1>1 DEF Counted
<1>4. CASE late = {}
  <2>1. \A i \in from .. m : ~(s[i].exitAt > time)
    BY <1>1, <1>4
  <2>2. \A i \in from .. m : s[i].exitAt <= time
    BY <1>2, <2>1
  <2>3. Counted(s, from, time) = m
    BY <1>3, <1>4
  <2> QED BY <1>1, <2>2, <2>3
<1>5. CASE late # {}
  <2>1. late \in SUBSET Nat
    BY <1>1
  <2>2. Min(late) \in late /\ \A y \in late : Min(late) <= y
    <3> HIDE DEF late
    <3> QED BY <1>5, <2>1, MinIs
  <2>3. PICK c \in from .. m : c = Min(late) /\ s[c].exitAt > time
    BY <1>1, <2>2
  <2>4. \A i \in from .. c - 1 : s[i].exitAt <= time
    <3> TAKE i \in from .. c - 1
    <3>1. i \in from .. m /\ i < c
      BY <1>1
    <3>2. i \notin late
      <4> HIDE DEF late
      <4> QED BY <2>2, <2>3, <3>1
    <3>3. ~(s[i].exitAt > time)
      BY <1>1, <3>1, <3>2
    <3> QED BY <1>2, <3>1, <3>3
  <2>5. Counted(s, from, time) = c - 1 /\ (c - 1) + 1 = c
    BY <1>3, <1>5, <2>3
  <2> QED BY <1>1, <2>3, <2>4, <2>5
<1> QED BY <1>4, <1>5

\* g is how many trades the curve has counted at each time.
Tally(g, s, times) ==
  g = [k \in 0 .. Len(times) |->
         IF k = 0 THEN 0 ELSE Counted(s, g[k - 1] + 1, times[k])]

\* A sample of the curve.
SampleOf(s, time, n) ==
  [at |-> time, count |-> n, pnl |-> SumFunctionOnSet(Net(s), 1 .. n)]

LEMMA CurveIsTally ==
  ASSUME NEW s, NEW times, NEW g, g = CHOOSE x : Tally(x, s, times)
  PROVE  EquityCurve(s, times) =
           <<SampleOf(s, 0, 0)>> \o [k \in 1 .. Len(times) |-> SampleOf(s, times[k], g[k])]
             \o [k \in 1 .. Len(s) - g[Len(times)] |->
                   SampleOf(s, s[g[Len(times)] + k].exitAt, g[Len(times)] + k)]
BY DEF EquityCurve, Tally, SampleOf

\* The recursion that defines the counts has a solution.
LEMMA TallyExists ==
  ASSUME NEW s \in Seq(Trades), NEW times \in Seq(Nat)
  PROVE  \E g : Tally(g, s, times)
<1>1. PICK m \in Nat, n \in Nat : m = Len(s) /\ n = Len(times)
  OBVIOUS
<1> DEFINE A == 0 .. m
           Count(k, w) == Counted(s, w + 1, times[k])
           F == [k \in 1 .. n |-> [w \in A |-> Count(k, w)]]
<1>2. \A k \in 1 .. n, w \in A : F[k][w] = Count(k, w)
  OBVIOUS
<1>3. \A k \in 1 .. n, w \in A : Count(k, w) \in A
  <2> TAKE k \in 1 .. n, w \in A
  <2>1. w + 1 \in 1 .. Len(s) + 1 /\ times[k] \in Nat
    BY <1>1
  <2>2. Count(k, w) \in (w + 1) - 1 .. m
    BY <1>1, <2>1, CountedFacts
  <2> HIDE DEF Count
  <2> QED BY <2>2
<1>4. Steps(F, n, A, 0)
  <2>1. n \in Nat /\ 0 \in A
    BY <1>1
  <2> HIDE DEF F, Count, A
  <2> QED BY <1>2, <1>3, <2>1 DEF Steps
<1> HIDE DEF F, Count, A
<1>5. PICK g \in [0 .. n -> A] : g[0] = 0 /\ \A k \in 1 .. n : g[k] = F[k][g[k - 1]]
  <2>1. \E g : Taken(g, F, n, A, 0)
    BY <1>4, Recursion
  <2> QED BY <2>1 DEF Taken
<1>6. \A k \in 0 .. n : g[k] = IF k = 0 THEN 0 ELSE Count(k, g[k - 1])
  <2> TAKE k \in 0 .. n
  <2>1. CASE k = 0
    BY <1>5, <2>1
  <2>2. CASE k # 0
    <3>1. k \in 1 .. n /\ k - 1 \in 0 .. n
      BY <2>2
    <3>2. g[k - 1] \in A
      BY <1>5, <3>1
    <3> QED BY <1>2, <1>5, <2>2, <3>1, <3>2
  <2> QED BY <2>1, <2>2
<1>7. g = [k \in 0 .. n |-> IF k = 0 THEN 0 ELSE Count(k, g[k - 1])]
  BY <1>5, <1>6
<1> QED BY <1>1, <1>7 DEF Tally, Count

\* What has been counted at each sample, whatever the times.
LEMMA TallyFacts ==
  ASSUME NEW s \in Seq(Trades), NEW times \in Seq(Nat), NEW g, Tally(g, s, times)
  PROVE  /\ g[0] = 0
         /\ \A k \in 0 .. Len(times) : g[k] \in 0 .. Len(s)
         /\ \A k \in 1 .. Len(times) : g[k] = Counted(s, g[k - 1] + 1, times[k])
<1>1. PICK m \in Nat, n \in Nat : m = Len(s) /\ n = Len(times)
  OBVIOUS
<1>2. \A k \in 0 .. n : g[k] = IF k = 0 THEN 0 ELSE Counted(s, g[k - 1] + 1, times[k])
  BY <1>1 DEF Tally
<1> DEFINE Good == {k \in 0 .. n : g[k] \in 0 .. m}
<1>3. 0 \in 0 .. n /\ g[0] = 0
  <2>1. 0 \in 0 .. n
    OBVIOUS
  <2> QED BY <1>2, <2>1
<1>4. ASSUME NEW k \in 1 .. n, k - 1 \in Good PROVE k \in Good
  <2>1. k \in 0 .. n /\ k # 0
    OBVIOUS
  <2>2. PICK w \in 0 .. m : w = g[k - 1]
    BY <1>4
  <2>3. w + 1 \in 1 .. Len(s) + 1 /\ times[k] \in Nat
    BY <1>1
  <2>4. Counted(s, w + 1, times[k]) \in (w + 1) - 1 .. m
    BY <1>1, <2>3, CountedFacts
  <2>5. g[k] = Counted(s, w + 1, times[k])
    BY <1>2, <2>1, <2>2
  <2>6. g[k] \in 0 .. m
    BY <2>4, <2>5
  <2> QED BY <2>1, <2>6
<1>5. 0 \in Good
  BY <1>3
<1> HIDE DEF Good
<1>6. \A k \in 0 .. n : k \in Good
  BY <1>4, <1>5, UpTo
<1>7. \A k \in 0 .. n : g[k] \in 0 .. m
  BY <1>6 DEF Good
<1>8. \A k \in 1 .. n : g[k] = Counted(s, g[k - 1] + 1, times[k])
  <2> TAKE k \in 1 .. n
  <2>1. k \in 0 .. n /\ k # 0
    OBVIOUS
  <2> QED BY <1>2, <2>1
<1> QED BY <1>1, <1>3, <1>7, <1>8

\* With exits and samples in order, a sample has counted what closed by then.
LEMMA TallyInOrder ==
  ASSUME NEW s \in Seq(Trades), NEW times \in Seq(Nat), NEW g, Tally(g, s, times),
         \A i, j \in 1 .. Len(s) : i <= j => s[i].exitAt <= s[j].exitAt,
         \A i, j \in 1 .. Len(times) : i <= j => times[i] <= times[j]
  PROVE  \A k \in 1 .. Len(times), i \in 1 .. Len(s) : i <= g[k] <=> s[i].exitAt <= times[k]
<1>1. PICK m \in Nat, n \in Nat : m = Len(s) /\ n = Len(times)
  OBVIOUS
<1>2. /\ g[0] = 0 /\ \A k \in 0 .. n : g[k] \in 0 .. m
      /\ \A k \in 1 .. n : g[k] = Counted(s, g[k - 1] + 1, times[k])
  BY <1>1, TallyFacts
<1>3. \A i \in 1 .. m : s[i].exitAt \in Nat
  <2> TAKE i \in 1 .. m
  <2>1. s[i] \in Trades
    BY <1>1
  <2> QED BY <2>1 DEF Trades
<1>4. \A k \in 1 .. n : times[k] \in Nat
  BY <1>1
<1> DEFINE Right(k) == \A i \in 1 .. m : i <= g[k] <=> s[i].exitAt <= times[k]
           Good == {k \in 0 .. n : k > 0 => Right(k)}
<1>5. 0 \in Good
  OBVIOUS
<1>6. ASSUME NEW k \in 1 .. n, k - 1 \in Good PROVE k \in Good
  <2>1. k \in 0 .. n /\ k - 1 \in 0 .. n
    OBVIOUS
  <2>2. PICK w \in 0 .. m, c \in 0 .. m, time \in Nat : w = g[k - 1] /\ c = g[k] /\ time = times[k]
    BY <1>2, <1>4, <2>1
  <2>3. w + 1 \in 1 .. Len(s) + 1
    BY <1>1
  <2>4. /\ c \in (w + 1) - 1 .. m
        /\ \A i \in w + 1 .. c : s[i].exitAt <= time
        /\ c < m => s[c + 1].exitAt > time
    <3>1. c = Counted(s, w + 1, time)
      BY <1>2, <2>2
    <3> QED BY <1>1, <2>3, <3>1, CountedFacts
  <2>5. ASSUME NEW i \in 1 .. m, i <= w PROVE s[i].exitAt <= time
    <3>1. k - 1 \in 1 .. n
      <4>1. k - 1 = 0 => w = 0
        BY <1>2, <2>2
      <4> QED BY <2>1, <2>5, <4>1
    <3>2. Right(k - 1)
      BY <1>6, <3>1
    <3>3. s[i].exitAt <= times[k - 1]
      BY <2>2, <2>5, <3>2
    <3>4. times[k - 1] <= times[k]
      BY <1>1, <3>1
    <3>5. PICK x \in Nat, y \in Nat : x = s[i].exitAt /\ y = times[k - 1]
      BY <1>3, <1>4, <3>1
    <3> QED BY <2>2, <3>3, <3>4, <3>5
  <2>6. ASSUME NEW i \in 1 .. m, i <= c PROVE s[i].exitAt <= time
    <3>1. i <= w \/ i \in w + 1 .. c
      BY <2>6
    <3> QED BY <2>4, <2>5, <3>1
  <2>7. ASSUME NEW i \in 1 .. m, ~(i <= c) PROVE ~(s[i].exitAt <= time)
    <3>1. c < m /\ c + 1 \in 1 .. m /\ c + 1 <= i
      BY <2>7
    <3>2. s[c + 1].exitAt <= s[i].exitAt /\ s[c + 1].exitAt > time
      BY <1>1, <2>4, <3>1
    <3>3. PICK x \in Nat, y \in Nat : x = s[i].exitAt /\ y = s[c + 1].exitAt
      BY <1>3, <3>1
    <3> QED BY <3>2, <3>3
  <2>8. Right(k)
    BY <2>2, <2>6, <2>7
  <2> QED BY <2>1, <2>8
<1> HIDE DEF Good
<1>7. \A k \in 0 .. n : k \in Good
  BY <1>5, <1>6, UpTo
<1>8. \A k \in 1 .. n : Right(k)
  <2> TAKE k \in 1 .. n
  <2>1. k \in 0 .. n /\ k > 0
    OBVIOUS
  <2> HIDE DEF Right
  <2> QED BY <1>7, <2>1 DEF Good
<1> QED BY <1>1, <1>8

\* The curve holds a sample at each of the times, and counts every trade at
\* its end.
LEMMA CurveFacts ==
  ASSUME NEW s \in Seq(Trades), NEW times \in Seq(Nat), NEW g,
         g = CHOOSE x : Tally(x, s, times), Tally(g, s, times)
  PROVE  /\ Last(EquityCurve(s, times)).pnl = SumFunctionOnSet(Net(s), 1 .. Len(s))
         /\ \A k \in 2 .. Len(times) + 1 : /\ EquityCurve(s, times)[k].at = times[k - 1]
                                           /\ EquityCurve(s, times)[k].count = g[k - 1]
<1>1. PICK m \in Nat, n \in Nat : m = Len(s) /\ n = Len(times)
  OBVIOUS
<1>2. g[0] = 0 /\ \A k \in 0 .. n : g[k] \in 0 .. m
  BY <1>1, TallyFacts
<1>3. PICK seen \in 0 .. m : seen = g[n]
  <2>1. n \in 0 .. n
    OBVIOUS
  <2> QED BY <1>2, <2>1
<1> DEFINE V == {SampleOf(s, time, c) : time \in Nat, c \in Nat}
           a == SampleOf(s, 0, 0)
           b == [k \in 1 .. n |-> SampleOf(s, times[k], g[k])]
           c == [k \in 1 .. m - seen |-> SampleOf(s, s[seen + k].exitAt, seen + k)]
           t == EquityCurve(s, times)
<1>4. t = <<a>> \o b \o c
  BY <1>1, <1>3, CurveIsTally
<1>5. \A time, count : /\ SampleOf(s, time, count).at = time
                       /\ SampleOf(s, time, count).count = count
                       /\ SampleOf(s, time, count).pnl = SumFunctionOnSet(Net(s), 1 .. count)
  BY DEF SampleOf
<1>6. a \in V /\ b \in Seq(V) /\ c \in Seq(V)
  <2>1. \A time \in Nat, count \in Nat : SampleOf(s, time, count) \in V
    OBVIOUS
  <2>5. a \in V
    <3> HIDE DEF V
    <3> QED BY <2>1
  <2>2. \A k \in 1 .. n : SampleOf(s, times[k], g[k]) \in V
    <3> TAKE k \in 1 .. n
    <3>1. times[k] \in Nat /\ g[k] \in Nat
      BY <1>1, <1>2
    <3> HIDE DEF V
    <3> QED BY <2>1, <3>1
  <2>3. \A k \in 1 .. m - seen : SampleOf(s, s[seen + k].exitAt, seen + k) \in V
    <3> TAKE k \in 1 .. m - seen
    <3>1. seen + k \in 1 .. m
      OBVIOUS
    <3>2. s[seen + k] \in Trades
      BY <1>1, <3>1
    <3>3. s[seen + k].exitAt \in Nat
      BY <3>2 DEF Trades
    <3>4. seen + k \in Nat
      BY <3>1
    <3> HIDE DEF V
    <3> QED BY <2>1, <3>3, <3>4
  <2>4. m - seen \in Nat
    OBVIOUS
  <2> HIDE DEF V
  <2> QED BY <2>2, <2>3, <2>4, <2>5
<1>7. Len(b) = n /\ Len(c) = m - seen
  <2>1. m - seen \in Nat
    OBVIOUS
  <2> QED BY <2>1
<1>8. \A k \in 1 .. n : b[k] = SampleOf(s, times[k], g[k])
  OBVIOUS
<1>9. seen < m => c[m - seen] = SampleOf(s, s[seen + (m - seen)].exitAt, m)
  <2>1. seen < m => m - seen \in 1 .. m - seen /\ seen + (m - seen) = m
    OBVIOUS
  <2> QED BY <2>1
<1> HIDE DEF V, a, b, c, t
<1>10. /\ t \in Seq(V) /\ Len(t) = 1 + n + (m - seen) /\ t[1] = a
       /\ \A k \in 2 .. n + 1 : t[k] = b[k - 1]
       /\ m - seen > 0 => t[Len(t)] = c[m - seen]
  <2>1. /\ t \in Seq(V) /\ Len(t) = 1 + Len(b) + Len(c) /\ t[1] = a
        /\ \A k \in 2 .. Len(b) + 1 : t[k] = b[k - 1]
        /\ Len(c) > 0 => t[Len(t)] = c[Len(c)]
    BY ONLY <1>4, <1>6, JoinFacts
  <2> QED BY ONLY <1>7, <2>1
<1>11. ASSUME NEW k \in 2 .. n + 1
       PROVE  t[k].at = times[k - 1] /\ t[k].count = g[k - 1]
  <2>1. k - 1 \in 1 .. n
    OBVIOUS
  <2>2. t[k] = SampleOf(s, times[k - 1], g[k - 1])
    BY <1>8, <1>10, <2>1
  <2> QED BY <1>5, <2>2
<1>12. \E time : t[Len(t)] = SampleOf(s, time, m)
  <2>1. CASE seen < m
    BY <1>9, <1>10, <2>1
  <2>2. CASE seen = m /\ n = 0
    <3>1. Len(t) = 1
      BY <1>10, <2>2
    <3>2. m = 0
      BY <1>2, <1>3, <2>2
    <3>3. t[Len(t)] = SampleOf(s, 0, 0)
      BY <1>10, <3>1 DEF a
    <3> QED BY <3>2, <3>3
  <2>3. CASE seen = m /\ n # 0
    <3>1. Len(t) = n + 1 /\ n + 1 \in 2 .. n + 1 /\ n \in 1 .. n /\ (n + 1) - 1 = n
      BY <1>10, <2>3
    <3>2. t[n + 1] = b[n]
      BY <1>10, <3>1
    <3> QED BY <1>3, <1>8, <2>3, <3>1, <3>2
  <2> QED BY <2>1, <2>2, <2>3
<1>13. Last(t).pnl = SumFunctionOnSet(Net(s), 1 .. m)
  BY <1>5, <1>12 DEF Last
<1> QED BY <1>1, <1>11, <1>13 DEF t

\* The trades of a single ticker were closed in order.
LEMMA ExitsInOrder ==
  ASSUME ReplayInv, Group(trades, Universe[1]) = DOMAIN trades
  PROVE  \A i, j \in 1 .. Len(trades) : i <= j => trades[i].exitAt <= trades[j].exitAt
<1>1. trades \in Seq(Trades) /\ LedgerSound /\ LedgerIsSequential
  BY DEF ReplayInv, LoopSound
<1>2. PICK m \in Nat : m = Len(trades) /\ DOMAIN trades = 1 .. m
  BY <1>1
<1>3. \A i \in 1 .. m : /\ trades[i].ticker = Universe[1]
                        /\ trades[i].exitAt \in Nat /\ trades[i].entryAt \in Nat
                        /\ trades[i].entryAt <= trades[i].exitAt
  <2> TAKE i \in 1 .. m
  <2>1. trades[i] \in Trades
    BY <1>1, <1>2
  <2>2. trades[i].ticker = Universe[1]
    BY <1>2 DEF Group
  <2>3. trades[i].entryAt <= trades[i].exitAt
    BY <1>1, <1>2 DEF LedgerSound
  <2> QED BY <2>1, <2>2, <2>3 DEF Trades
<1>4. ASSUME NEW i \in 1 .. m, NEW j \in 1 .. m, i < j
      PROVE  trades[i].exitAt <= trades[j].exitAt
  <2>1. trades[i].ticker = trades[j].ticker
    BY <1>3
  <2>2. trades[i].exitAt < trades[j].entryAt \/ trades[i].exitAt = trades[j].exitAt
    BY <1>1, <1>2, <1>4, <2>1 DEF LedgerIsSequential
  <2>3. PICK x \in Nat, y \in Nat, z \in Nat :
          x = trades[i].exitAt /\ y = trades[j].entryAt /\ z = trades[j].exitAt /\ y <= z
    BY <1>3
  <2> QED BY <2>2, <2>3
<1>5. ASSUME NEW i \in 1 .. m PROVE trades[i].exitAt <= trades[i].exitAt
  BY <1>3
<1>6. \A i \in 1 .. m, j \in 1 .. m : i <= j => i < j \/ i = j
  OBVIOUS
<1> QED BY <1>2, <1>4, <1>5, <1>6

LEMMA EquityReported ==
  ASSUME ReplayInv
  PROVE  EquityIsComplete
<1>1. trades \in Seq(Trades)
  BY DEF ReplayInv, LoopSound
<1>2. PICK m \in Nat : m = Len(trades)
  BY <1>1
<1>3. \A i \in 1 .. m : trades[i].exitAt \in Nat
  <2> TAKE i \in 1 .. m
  <2>1. trades[i] \in Trades
    BY <1>1, <1>2
  <2> QED BY <2>1 DEF Trades
<1>4. SumOf(Net(trades)) = SumFunctionOnSet(Net(trades), 1 .. m)
  <2>1. Net(trades) \in Seq(Int) /\ Len(Net(trades)) = m
    BY <1>2, NetSeq
  <2>2. DOMAIN Net(trades) = 1 .. m
    BY <2>1
  <2> QED BY <2>2 DEF SumOf
<1> DEFINE Chosen == {ExitTimes(trades), [i \in 1 .. Lengths[1] |-> i], <<1>>}
           InOrder(times) == \A i, j \in 1 .. Len(times) : i <= j => times[i] <= times[j]
<1>5. ASSUME NEW times \in Chosen
      PROVE  times \in Seq(Nat) /\ (Group(trades, Universe[1]) = DOMAIN trades => InOrder(times))
  <2>1. CASE times = ExitTimes(trades)
    <3>1. times = [i \in 1 .. m |-> trades[i].exitAt]
      BY <1>2, <2>1 DEF ExitTimes
    <3>2. times \in Seq(Nat) /\ Len(times) = m /\ \A i \in 1 .. m : times[i] = trades[i].exitAt
      BY <1>3, <3>1
    <3> QED BY <1>2, <3>2, ExitsInOrder
  <2>2. CASE times = [i \in 1 .. Lengths[1] |-> i]
    <3>1. Lengths[1] \in Nat
      <4>1. 1 \in 1 .. Len(Universe)
        BY ReplayAssumption
      <4> QED BY <4>1, ReplayAssumption
    <3>2. times \in Seq(Nat) /\ Len(times) = Lengths[1] /\ \A i \in 1 .. Lengths[1] : times[i] = i
      BY <2>2, <3>1
    <3> QED BY <3>2
  <2>3. CASE times = <<1>>
    <3>1. times \in Seq(Nat) /\ Len(times) = 1 /\ times[1] = 1
      BY <2>3
    <3>2. \A i, j \in 1 .. 1 : i = 1 /\ j = 1
      OBVIOUS
    <3> QED BY <3>1, <3>2
  <2> QED BY <2>1, <2>2, <2>3
<1>6. ASSUME NEW times \in Chosen
      PROVE  /\ Last(EquityCurve(trades, times)).pnl = SumOf(Net(trades))
             /\ Group(trades, Universe[1]) = DOMAIN trades =>
                  \A k \in 2 .. Len(times) + 1, i \in 1 .. Len(trades) :
                    i <= EquityCurve(trades, times)[k].count
                      <=> trades[i].exitAt <= EquityCurve(trades, times)[k].at
  <2>1. times \in Seq(Nat)
    BY <1>5
  <2> DEFINE h == CHOOSE x : Tally(x, trades, times)
  <2>2. Tally(h, trades, times)
    BY <1>1, <2>1, TallyExists
  <2>3. PICK g : g = (CHOOSE x : Tally(x, trades, times)) /\ Tally(g, trades, times)
    BY <2>2
  <2>4. PICK n \in Nat : n = Len(times)
    BY <2>1
  <2>5. /\ Last(EquityCurve(trades, times)).pnl = SumFunctionOnSet(Net(trades), 1 .. m)
        /\ \A k \in 2 .. n + 1 : /\ EquityCurve(trades, times)[k].at = times[k - 1]
                                 /\ EquityCurve(trades, times)[k].count = g[k - 1]
    <3>1. /\ Last(EquityCurve(trades, times)).pnl
               = SumFunctionOnSet(Net(trades), 1 .. Len(trades))
          /\ \A k \in 2 .. Len(times) + 1 : /\ EquityCurve(trades, times)[k].at = times[k - 1]
                                            /\ EquityCurve(trades, times)[k].count = g[k - 1]
      BY <1>1, <2>1, <2>3, CurveFacts
    <3> QED BY ONLY <1>2, <2>4, <3>1
  <2>6. ASSUME Group(trades, Universe[1]) = DOMAIN trades
        PROVE  \A k \in 1 .. n, i \in 1 .. m : i <= g[k] <=> trades[i].exitAt <= times[k]
    <3>1. \A i, j \in 1 .. Len(trades) : i <= j => trades[i].exitAt <= trades[j].exitAt
      BY <2>6, ExitsInOrder
    <3>2. \A i, j \in 1 .. Len(times) : i <= j => times[i] <= times[j]
      BY <1>5, <2>6
    <3> QED BY <1>1, <1>2, <2>1, <2>3, <2>4, <3>1, <3>2, TallyInOrder
  <2>7. \A k \in 2 .. n + 1 : k - 1 \in 1 .. n
    OBVIOUS
  <2> QED BY <1>2, <1>4, <2>4, <2>5, <2>6, <2>7
<1> QED BY <1>6 DEF EquityIsComplete

\* Whatever the feed, the bars and the settings, what is reported of a run
\* agrees with its trades, and the slices, the choice and the verdict of the
\* walk-forward harness are what they claim (metrics.py:191-348,
\* equity.py:42-137, walk_forward.py:132-262).
THEOREM ReportsAgree == Spec => []ReportAgrees
<1>1. ReplayInv => ReportAgrees
  BY DrawdownReported, MetricsReported, BinsReported, EquityReported,
     WindowsReported, BestReported, FlagReported DEF ReportAgrees
<1> QED BY <1>1, ReplayInductive, PTL

=============================================================================
