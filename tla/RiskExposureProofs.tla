-------------------------- MODULE RiskExposureProofs --------------------------
(***************************************************************************)
(* Proofs about RiskExposure and PortfolioState: RiskInv (RiskExposureInv) *)
(* is inductive.  First what the sizer computes and what the lock of the   *)
(* snapshots keeps in order, then what a step does to the decisions of the *)
(* signals it is not about (Forth), and then the steps.                    *)
(***************************************************************************)
EXTENDS RiskExposureInv, FiniteSums

-----------------------------------------------------------------------------
(* Arithmetic *)

LEMMA MinOfFour ==
  ASSUME NEW a \in Int, NEW b \in Int, NEW c \in Int, NEW d \in Int
  PROVE  /\ Min({a, b, c, d}) \in {a, b, c, d}
         /\ Min({a, b, c, d}) <= a /\ Min({a, b, c, d}) <= b
         /\ Min({a, b, c, d}) <= c /\ Min({a, b, c, d}) <= d
<1> DEFINE S == {a, b, c, d}
<1>1. \E x \in S : \A y \in S : x <= y
  OBVIOUS
<1>2. Min(S) \in S /\ \A y \in S : Min(S) <= y
  BY <1>1 DEF Min
<1> QED BY <1>2

LEMMA NatTimes ==
  ASSUME NEW x \in Nat, NEW y \in Nat PROVE x * y \in Nat
OBVIOUS

\* A quotient rounded down loses at most the remainder.
LEMMA DivTimes ==
  ASSUME NEW x \in Nat, NEW y \in Nat \ {0}, NEW z \in Nat, z <= x \div y
  PROVE  z * y <= x
<1>1. x \div y \in Nat /\ (x \div y) * y <= x
  OBVIOUS
<1>2. z * y <= (x \div y) * y
  BY <1>1
<1> QED BY <1>1, <1>2

LEMMA NextMultiple ==
  ASSUME NEW x \in Nat, NEW y \in Nat \ {0}, NEW q, q = x \div y
  PROVE  (q + 1) * y \in Nat /\ x < (q + 1) * y
<1>1. q \in Nat /\ x < q * y + y
  BY SMTT(30)
<1>2. (q + 1) * y = q * y + y /\ q * y \in Nat
  BY <1>1, NatTimes
<1> QED BY <1>1, <1>2

LEMMA PercentOf ==
  ASSUME NEW x \in Nat, NEW p \in Nat
  PROVE  /\ (x * p) \div 100 \in Nat
         /\ 100 * ((x * p) \div 100) <= x * p
         /\ p <= 100 => (x * p) \div 100 <= x
<1>1. x * p \in Nat
  BY NatTimes
<1>2. p <= 100 => x * p <= x * 100
  OBVIOUS
<1> QED BY <1>1, <1>2

-----------------------------------------------------------------------------
(* What the sizer computes *)

LEMMA PercentsType ==
  /\ RiskPct \in Nat /\ TickerPct \in Nat /\ PositionPct \in Nat /\ MinNotional \in Nat
  /\ ModifierPct \in Nat /\ ModifierPct <= 100 /\ DrawdownPct \in Nat
  /\ \A g \in Groups : g.pct \in Nat /\ g.members \subseteq Tickers
BY RiskAssumption DEF Percent, WellFormedGroup

LEMMA ProposalsType ==
  ASSUME TypeOK, NEW s \in Signals
  PROVE  /\ proposal[s].ticker \in Tickers /\ proposal[s].entry \in Nat
         /\ proposal[s].distance \in Nat
<1>1. proposal[s] \in [ticker : Tickers, entry : Nat, distance : Nat,
                       confidence : {"none", "low", "high"}]
  BY RiskAssumption DEF TypeOK
<1> QED BY <1>1

\* A positive size is within every cap of the snapshot, at least the minimum,
\* and loses no more than the risk budget at the invalidation.
LEMMA SizeIsLimited ==
  ASSUME TypeOK, NEW s \in Signals, NEW snap \in Snapshots, NEW reduced \in BOOLEAN,
         SizeOf(s, snap, reduced) # 0
  PROVE  /\ SizeOf(s, snap, reduced) \in Nat
         /\ snap.equity > 0
         /\ SizeOf(s, snap, reduced) >= MinNotional
         /\ SizeOf(s, snap, reduced) <= snap.free
         /\ 100 * SizeOf(s, snap, reduced) <= PositionPct * snap.equity
         /\ 100 * SizeOf(s, snap, reduced) <= TickerPct * snap.equity
         /\ 100 * SizeOf(s, snap, reduced) * proposal[s].distance
              <= RiskPct * snap.equity * proposal[s].entry
<1> DEFINE size == SizeOf(s, snap, reduced)
           e == snap.equity
           cap == Capped(s, snap)
           budget == RiskPct * e * proposal[s].entry
           risk == 100 * proposal[s].distance
<1>1. e \in Int /\ snap.free \in Nat
  BY DEF Snapshots
<1>2. /\ e > 0 /\ proposal[s].distance # 0
      /\ size = IF reduced THEN (cap * ModifierPct) \div 100 ELSE cap
      /\ ~(size < MinNotional)
  BY <1>1 DEF SizeOf
<1>3. e \in Nat /\ proposal[s].entry \in Nat /\ proposal[s].distance \in Nat \ {0}
  BY <1>1, <1>2, ProposalsType
<1>4. /\ RiskPct * e \in Nat /\ TickerPct * e \in Nat /\ PositionPct * e \in Nat
      /\ budget \in Nat /\ risk \in Nat \ {0}
  <2>1. RiskPct * e \in Nat /\ TickerPct * e \in Nat /\ PositionPct * e \in Nat
    BY <1>3, PercentsType, NatTimes
  <2>2. budget \in Nat
    BY <1>3, <2>1, NatTimes
  <2> QED BY <1>3, <2>1, <2>2
<1>5. /\ budget \div risk \in Nat
      /\ (TickerPct * e) \div 100 \in Nat /\ (PositionPct * e) \div 100 \in Nat
  <2> HIDE DEF budget, risk, e
  <2> QED BY <1>4
<1>6. /\ cap \in Nat /\ cap <= budget \div risk /\ cap <= snap.free
      /\ cap <= (TickerPct * e) \div 100 /\ cap <= (PositionPct * e) \div 100
  <2> DEFINE a == budget \div risk
             b == (TickerPct * e) \div 100
             c == (PositionPct * e) \div 100
             d == snap.free
  <2>1. cap = Min({a, b, c, d})
    BY DEF Capped, Natural, Share
  <2>2. a \in Int /\ b \in Int /\ c \in Int /\ d \in Int
    BY <1>1, <1>5
  <2>3. a \in Nat /\ b \in Nat /\ c \in Nat /\ d \in Nat
    BY <1>1, <1>5
  <2> HIDE DEF a, b, c, d, cap
  <2>4. /\ cap \in {a, b, c, d}
        /\ cap <= a /\ cap <= b /\ cap <= c /\ cap <= d
    BY <2>1, <2>2, MinOfFour
  <2>5. cap \in Nat
    BY <2>3, <2>4
  <2> QED BY <2>4, <2>5 DEF a, b, c, d
<1>7. size \in Nat /\ size <= cap
  <2> HIDE DEF size, cap
  <2> QED BY <1>2, <1>6, PercentOf, PercentsType
<1>8. 100 * size <= TickerPct * e /\ 100 * size <= PositionPct * e /\ size <= snap.free
  <2> HIDE DEF size, cap, e
  <2> QED BY <1>1, <1>4, <1>5, <1>6, <1>7
<1>9. size * risk <= budget
  <2> HIDE DEF size, cap, e, budget, risk
  <2>1. size <= budget \div risk
    BY <1>5, <1>6, <1>7
  <2> QED BY <1>4, <1>7, <2>1, DivTimes
<1>10. 100 * size * proposal[s].distance = size * risk
  <2> HIDE DEF size
  <2> QED BY <1>3, <1>7
<1> QED BY <1>2, <1>7, <1>8, <1>9, <1>10, PercentsType

-----------------------------------------------------------------------------
(* The lock of the snapshots *)

LEMMA OneHolder ==
  ASSUME PortfolioSound, NEW c \in Callers, NEW d \in Callers, phase[c] = "positions",
         phase[d] = "positions"
  PROVE  c = d
BY DEF PortfolioSound, Holds

LEMMA SnapshotsType ==
  NoSnapshot \in Snapshots /\ NoView \in [ok : BOOLEAN, snap : Snapshots]
  /\ NoBalance \in [free : Nat, total : Nat, at : Nat]
<1>1. NoSnapshot \in Snapshots
  BY DEF NoSnapshot, Snapshots
<1> QED BY <1>1 DEF NoView, NoBalance

\* Whoever asks goes to the end of the queue.
LEMMA AskKeeps ==
  ASSUME PortfolioTypeOK, PortfolioSound, NEW c \in Callers, Ask(c)
  PROVE  PortfolioTypeOK' /\ PortfolioSound'
<1>1. /\ phase[c] = "idle" /\ phase' = [phase EXCEPT ![c] = "wait"]
      /\ queue' = Append(queue, c) /\ UNCHANGED <<now, account, cache, balance>>
      /\ view' = [d \in DOMAIN view |-> IF d = c THEN NoView ELSE view[d]]
  BY DEF Ask
<1> DEFINE n == Len(queue)
<1>2. /\ queue \in Seq(Callers) /\ n \in Nat /\ DOMAIN queue = 1 .. n
      /\ queue' \in Seq(Callers) /\ DOMAIN queue' = 1 .. n + 1
      /\ queue'[n + 1] = c /\ \A i \in 1 .. n : queue'[i] = queue[i]
  BY <1>1 DEF PortfolioTypeOK
<1>3. \A d \in Callers : phase'[d] = IF d = c THEN "wait" ELSE phase[d]
  BY <1>1 DEF PortfolioTypeOK
<1>4. \A i \in 1 .. n : queue[i] # c
  BY <1>1, <1>2 DEF PortfolioTypeOK
<1>5. view' \in [Callers \ {Job} -> [ok : BOOLEAN, snap : Snapshots]]
  BY <1>1, SnapshotsType DEF PortfolioTypeOK
<1>6. phase' \in [Callers -> Phases]
  BY <1>1 DEF PortfolioTypeOK, Phases
<1>7. {queue'[i] : i \in DOMAIN queue'} = {d \in Callers : phase'[d] # "idle"}
  <2>1. {queue'[i] : i \in DOMAIN queue'} = {queue[i] : i \in DOMAIN queue} \cup {c}
    <3> HIDE DEF n
    <3>1. \A i \in 1 .. n + 1 : i \in 1 .. n \/ i = n + 1
      BY <1>2
    <3>2. \A i \in 1 .. n : i \in 1 .. n + 1
      BY <1>2
    <3>3. n + 1 \in 1 .. n + 1
      BY <1>2
    <3> QED BY <1>2, <3>1, <3>2, <3>3, Zenon
  <2>2. {d \in Callers : phase'[d] # "idle"} = {d \in Callers : phase[d] # "idle"} \cup {c}
    BY <1>3
  <2> QED BY <2>1, <2>2 DEF PortfolioTypeOK
<1>8. PortfolioTypeOK'
  BY <1>1, <1>2, <1>5, <1>6, <1>7 DEF PortfolioTypeOK
<1>9. \A i, j \in DOMAIN queue' : queue'[i] = queue'[j] => i = j
  <2>1. \A i \in 1 .. n + 1 : i \in 1 .. n \/ i = n + 1
    BY <1>2
  <2> HIDE DEF n
  <2> QED BY <1>2, <1>4, <2>1 DEF PortfolioSound
<1>10. ASSUME NEW d \in Callers, phase'[d] = "positions"
       PROVE  Holds(d)' /\ phase[d] = "positions"
  <2>1. phase[d] = "positions" /\ Holds(d)
    BY <1>3, <1>10 DEF PortfolioSound
  <2>2. n >= 1 /\ Head(queue) = queue[1]
    BY <1>2, <2>1 DEF Holds
  <2>3. Head(queue') = queue'[1] /\ queue' # <<>>
    BY <1>2
  <2> QED BY <1>2, <2>1, <2>2, <2>3 DEF Holds
<1>11. PortfolioSound'
  BY <1>1, <1>9, <1>10 DEF PortfolioSound
<1> QED BY <1>8, <1>11

\* The holder leaves the lock to the next in the queue, and nobody is between
\* the two calls.
LEMMA ReleaseKeeps ==
  ASSUME PortfolioTypeOK, PortfolioSound, NEW c \in Callers, Holds(c), Release(c)
  PROVE  /\ queue' \in Seq(Callers) /\ phase' \in [Callers -> Phases]
         /\ balance' \in [Callers -> [free : Nat, total : Nat, at : Nat]]
         /\ {queue'[i] : i \in DOMAIN queue'} = {d \in Callers : phase'[d] # "idle"}
         /\ \A i, j \in DOMAIN queue' : queue'[i] = queue'[j] => i = j
         /\ \A d \in Callers : phase'[d] # "positions"
<1>1. /\ queue' = Tail(queue) /\ phase' = [phase EXCEPT ![c] = "idle"]
      /\ balance' = [balance EXCEPT ![c] = NoBalance]
  BY DEF Release
<1> DEFINE n == Len(queue)
<1>2. /\ queue \in Seq(Callers) /\ n \in Nat /\ DOMAIN queue = 1 .. n
      /\ queue # <<>> /\ Head(queue) = c /\ n >= 1 /\ queue[1] = c
  BY DEF PortfolioTypeOK, Holds
<1>3. /\ queue' \in Seq(Callers) /\ DOMAIN queue' = 1 .. n - 1
      /\ \A i \in 1 .. n - 1 : queue'[i] = queue[i + 1]
  BY <1>1, <1>2
<1>4. phase' \in [Callers -> Phases]
      /\ \A d \in Callers : phase'[d] = IF d = c THEN "idle" ELSE phase[d]
  BY <1>1 DEF PortfolioTypeOK, Phases
<1>5. balance' \in [Callers -> [free : Nat, total : Nat, at : Nat]]
  BY <1>1, SnapshotsType DEF PortfolioTypeOK
<1>6. /\ \A i \in 1 .. n - 1 : i + 1 \in 1 .. n
      /\ \A i \in 1 .. n : i = 1 \/ (i - 1 \in 1 .. n - 1 /\ i = (i - 1) + 1)
      /\ \A i, j \in 1 .. n - 1 : i + 1 = j + 1 => i = j
      /\ \A i \in 1 .. n - 1 : i + 1 # 1
      /\ 1 \in 1 .. n
  BY <1>2
<1>7. \A i, j \in DOMAIN queue : queue[i] = queue[j] => i = j
  BY DEF PortfolioSound
<1>8. {queue'[i] : i \in DOMAIN queue'} = {d \in Callers : phase'[d] # "idle"}
  <2> HIDE DEF n
  <2>1. \A i \in 1 .. n - 1 : queue[i + 1] # c
    BY <1>2, <1>6, <1>7
  <2>2. \A i \in 1 .. n - 1 : queue'[i] \in Callers /\ phase'[queue'[i]] # "idle"
    <3>1. \A i \in 1 .. n : queue[i] \in Callers /\ phase[queue[i]] # "idle"
      BY <1>2 DEF PortfolioTypeOK
    <3> QED BY <1>3, <1>4, <1>6, <2>1, <3>1
  <2>3. ASSUME NEW d \in Callers, phase'[d] # "idle"
        PROVE  \E i \in 1 .. n - 1 : queue'[i] = d
    <3>1. d # c /\ phase[d] # "idle"
      BY <1>4, <2>3
    <3>2. PICK i \in 1 .. n : queue[i] = d
      BY <1>2, <3>1 DEF PortfolioTypeOK
    <3>3. i - 1 \in 1 .. n - 1 /\ queue'[i - 1] = queue[i]
      BY <1>2, <1>3, <1>6, <3>1, <3>2
    <3> QED BY <3>2, <3>3
  <2> QED BY <1>3, <2>2, <2>3
<1>9. \A i, j \in DOMAIN queue' : queue'[i] = queue'[j] => i = j
  <2> HIDE DEF n
  <2>1. ASSUME NEW i \in 1 .. n - 1, NEW j \in 1 .. n - 1, queue'[i] = queue'[j]
        PROVE  i = j
    <3>1. i + 1 \in DOMAIN queue /\ j + 1 \in DOMAIN queue /\ queue[i + 1] = queue[j + 1]
      BY <1>2, <1>3, <1>6, <2>1
    <3>2. i + 1 = j + 1
      BY <1>7, <3>1
    <3> QED BY <1>6, <3>2
  <2> QED BY <1>3, <2>1
<1>10. \A d \in Callers : phase'[d] # "positions"
  BY <1>2, <1>4 DEF PortfolioSound, Holds
<1> QED BY <1>3, <1>4, <1>5, <1>8, <1>9, <1>10

\* The holder is served, or gets on with its fetch, or a call of it fails.
LEMMA FetchKeeps ==
  ASSUME PortfolioTypeOK, PortfolioSound, NEW c \in Callers,
         FetchStep(c) \/ LosePositions(c) \/ FetchFails(c)
  PROVE  /\ PortfolioTypeOK' /\ PortfolioSound' /\ UNCHANGED <<now, account>>
         /\ cache' # cache /\ cache.ok => cache'.ok /\ cache'.snap.from >= cache.snap.at
<1>1. Holds(c) /\ UNCHANGED <<now, account>>
  BY DEF FetchStep, FetchFails, Serve, ReadBalance, ReadPositions, LosePositions, Store,
         PortfolioSound
<1>2. /\ now \in Nat /\ account \in Accounts /\ cache \in [ok : BOOLEAN, snap : Snapshots]
      /\ balance[c] \in [free : Nat, total : Nat, at : Nat]
      /\ view \in [Callers \ {Job} -> [ok : BOOLEAN, snap : Snapshots]]
  BY DEF PortfolioTypeOK
<1>3. CASE Serve(c) \/ FetchFails(c)
  <2>1. Release(c) /\ UNCHANGED <<now, account, cache>>
        /\ (view' = [view EXCEPT ![c] = cache] \/ view' = view)
    BY <1>3 DEF Serve, FetchFails
  <2>2. view' \in [Callers \ {Job} -> [ok : BOOLEAN, snap : Snapshots]]
    BY <1>2, <2>1
  <2>3. PortfolioTypeOK'
    BY <1>1, <1>2, <2>1, <2>2, ReleaseKeeps DEF PortfolioTypeOK
  <2>4. PortfolioSound'
    BY <1>1, <2>1, ReleaseKeeps DEF PortfolioSound
  <2> QED BY <2>1, <2>3, <2>4
<1>4. CASE ReadBalance(c)
  <2>1. /\ phase[c] = "wait" /\ phase' = [phase EXCEPT ![c] = "positions"]
        /\ balance' = [balance EXCEPT ![c] = [free |-> account.free, total |-> account.total,
                                             at |-> now]]
        /\ UNCHANGED <<now, account, cache, queue, view>>
    BY <1>4 DEF ReadBalance
  <2>2. phase' \in [Callers -> Phases]
        /\ \A d \in Callers : phase'[d] = IF d = c THEN "positions" ELSE phase[d]
    BY <2>1 DEF PortfolioTypeOK, Phases
  <2>3. balance' \in [Callers -> [free : Nat, total : Nat, at : Nat]]
        /\ \A d \in Callers : balance'[d].at = IF d = c THEN now ELSE balance[d].at
    BY <1>2, <2>1 DEF PortfolioTypeOK, Accounts
  <2>4. {d \in Callers : phase'[d] # "idle"} = {d \in Callers : phase[d] # "idle"}
    BY <2>1, <2>2
  <2>5. PortfolioTypeOK'
    BY <2>1, <2>2, <2>3, <2>4 DEF PortfolioTypeOK
  <2>6. PortfolioSound'
    <3>1. \A d \in Callers : phase'[d] = "positions" => Holds(d)'
      BY <1>1, <2>1, <2>2 DEF PortfolioSound, Holds
    <3> QED BY <1>2, <2>1, <2>2, <2>3, <3>1 DEF PortfolioSound, Snapshots
  <2> QED BY <2>1, <2>5, <2>6
<1>5. CASE ReadPositions(c) \/ LosePositions(c)
  <2>1. PICK held \in [Tickers -> Nat], pnl \in Int :
          phase[c] = "positions" /\ Store(c, SnapshotOf(balance[c], held, pnl))
    <3>1. account.held \in [Tickers -> Nat] /\ account.pnl \in Int
      BY <1>2 DEF Accounts
    <3>2. CASE ReadPositions(c)
      BY <3>1, <3>2 DEF ReadPositions
    <3>3. CASE LosePositions(c)
      <4>1. [t \in Tickers |-> 0] \in [Tickers -> Nat] /\ 0 \in Int
        OBVIOUS
      <4> QED BY <3>3, <4>1 DEF LosePositions
    <3> QED BY <1>5, <3>2, <3>3
  <2> DEFINE made == [ok |-> TRUE, snap |-> SnapshotOf(balance[c], held, pnl)]
  <2>2. /\ Release(c) /\ phase[c] = "positions" /\ cache' = made
        /\ view' = [d \in DOMAIN view |-> IF d = c THEN made ELSE view[d]]
    BY <2>1 DEF Store
  <2>3. made \in [ok : BOOLEAN, snap : Snapshots]
        /\ made.snap.from = balance[c].at /\ made.snap.at = now /\ made.ok
    <3>1. SnapshotOf(balance[c], held, pnl) \in Snapshots
      BY <1>2, <2>1 DEF SnapshotOf, Snapshots
    <3> QED BY <3>1 DEF SnapshotOf
  <2> HIDE DEF made
  <2>4. view' \in [Callers \ {Job} -> [ok : BOOLEAN, snap : Snapshots]]
    BY <1>2, <2>2, <2>3
  <2>5. PortfolioTypeOK'
    BY <1>1, <1>2, <2>2, <2>3, <2>4, ReleaseKeeps DEF PortfolioTypeOK
  <2>6. PortfolioSound'
    BY <1>1, <1>2, <2>2, <2>3, ReleaseKeeps DEF PortfolioSound
  <2>7. cache.ok => balance[c].at >= cache.snap.at
    BY <2>2 DEF PortfolioSound
  <2> QED BY <1>1, <2>2, <2>3, <2>5, <2>6, <2>7
<1> QED BY <1>3, <1>4, <1>5 DEF FetchStep

\* The lock and the cache do not care for the clock, the account or the views.
LEMMA PortfolioKept ==
  ASSUME PortfolioTypeOK, PortfolioSound, UNCHANGED <<cache, queue, phase, balance>>,
         now' \in Nat, now <= now', account' \in Accounts,
         view' \in [Callers \ {Job} -> [ok : BOOLEAN, snap : Snapshots]]
  PROVE  PortfolioTypeOK' /\ PortfolioSound'
<1>1. PortfolioTypeOK'
  BY DEF PortfolioTypeOK
<1>2. cache.snap.at \in Nat /\ now \in Nat
  BY DEF PortfolioTypeOK, Snapshots
<1>3. PortfolioSound'
  BY <1>2 DEF PortfolioSound, Holds
<1> QED BY <1>1, <1>3

-----------------------------------------------------------------------------
(* What was executed before a decision *)

LEMMA SignalsFinite == IsFiniteSet(Signals)
<1>1. 1 \in Int /\ MaxSignals \in Int
  BY RiskAssumption
<1> QED BY <1>1, FS_Interval DEF Signals

\* What a step may do to the signals that decisions have seen: they stay
\* consumed under the same decision, and what is no longer on record does not
\* come back.
Forth ==
  /\ \A t \in Consumed :
       t \in Consumed' /\ used'[t] = used[t] /\ (latest'[t] = used'[t] => latest[t] = used[t])
  /\ \A t \in Signals :
       status[t] # "none" => status'[t] # "none" /\ proposal'[t] = proposal[t]

LEMMA UsedAmounts ==
  ASSUME TypeOK, NEW S \in SUBSET Signals
  PROVE  /\ SumUsed(S) \in Nat
         /\ \A R \in SUBSET S : SumUsed(R) \in Nat /\ SumUsed(R) <= SumUsed(S)
<1> PICK f : f = [t \in Signals |-> used[t].amount]
  OBVIOUS
<1>1. \A t \in Signals : f[t] \in Nat
  <2>1. \A t \in Signals : used[t] \in Decisions
    BY DEF TypeOK
  <2> QED BY <2>1 DEF Decisions
<1>2. IsFiniteSet(S)
  BY SignalsFinite, FS_Subset
<1>3. \A R \in SUBSET S : /\ SumFunctionOnSet(f, R) \in Nat /\ SumFunctionOnSet(f, S) \in Nat
                          /\ SumFunctionOnSet(f, R) <= SumFunctionOnSet(f, S)
  BY <1>1, <1>2, SumSubset
<1>4. \A R : SumUsed(R) = SumFunctionOnSet(f, R)
  BY DEF SumUsed
<1> QED BY <1>3, <1>4

\* What a step leaves of the signals a decision saw is no more than before.
LEMMA BeforeKept ==
  ASSUME TypeOK, TypeOK', RowsSound, Forth, NEW d, d.saw \subseteq Consumed, NEW M
  PROVE  /\ SumUsed(Before(d, M)) \in Nat /\ SumUsed(Before(d, M))' \in Nat
         /\ SumUsed(Before(d, M))' <= SumUsed(Before(d, M))
<1>1. PICK B : B = Before(d, M)
  OBVIOUS
<1>2. PICK C : C = Before(d, M)'
  OBVIOUS
<1>3. PICK f : f = [t \in Signals |-> used[t].amount]
  OBVIOUS
<1>4. PICK h : h = [t \in Signals |-> used'[t].amount]
  OBVIOUS
<1>5. \A t \in Consumed : t \in Signals /\ status[t] # "none"
  BY DEF Consumed
<1>6. B \in SUBSET Signals /\ C \in SUBSET B
  <2>1. \A t \in C : t \in d.saw /\ latest'[t] = used'[t] /\ proposal'[t].ticker \in M
    BY <1>2 DEF Before, TickerOf
  <2>2. \A t \in C : t \in B
    BY <1>1, <1>5, <2>1 DEF Before, TickerOf, Forth
  <2>3. \A t \in B : t \in Signals
    BY <1>1, <1>5 DEF Before
  <2> QED BY <2>2, <2>3
<1>7. \A t \in C : f[t] = h[t]
  <2>1. \A t \in C : t \in Consumed
    BY <1>1, <1>6 DEF Before
  <2> QED BY <1>3, <1>4, <1>5, <2>1 DEF Forth
<1>8. IsFiniteSet(C)
  BY <1>6, SignalsFinite, FS_Subset
<1>9. SumFunctionOnSet(f, C) = SumFunctionOnSet(h, C)
  BY <1>7, <1>8, SumSame
<1>10. SumUsed(B) = SumFunctionOnSet(f, B) /\ SumUsed(C) = SumFunctionOnSet(f, C)
  BY <1>3 DEF SumUsed
<1>11. SumUsed(Before(d, M))' = SumFunctionOnSet(h, C)
  BY <1>2, <1>4 DEF SumUsed
<1>12. SumUsed(B) \in Nat /\ SumUsed(C) \in Nat /\ SumUsed(C) <= SumUsed(B)
  BY <1>6, UsedAmounts
<1> QED BY <1>1, <1>9, <1>10, <1>11, <1>12

LEMMA HeadroomKept ==
  ASSUME TypeOK, TypeOK', RowsSound, Forth, NEW s \in Signals, status[s] # "none",
         NEW d, d.saw \subseteq Consumed, d.equity \in Int, Headroom(s, d)
  PROVE  Headroom(s, d)'
<1> PICK t : t = TickerOf(s)
  OBVIOUS
<1>1. TickerOf(s)' = t
  BY DEF TickerOf, Forth
<1>2. \A M : /\ SumUsed(Before(d, M)) \in Nat /\ SumUsed(Before(d, M))' \in Nat
             /\ SumUsed(Before(d, M))' <= SumUsed(Before(d, M))
  BY BeforeKept
<1>3. ASSUME NEW M, NEW pct \in Nat, 100 * SumUsed(Before(d, M)) < pct * d.equity
      PROVE  100 * SumUsed(Before(d, M))' < pct * d.equity
  <2>1. pct * d.equity \in Int
    OBVIOUS
  <2> QED BY <1>2, <1>3, <2>1
<1>4. 100 * SumUsed(Before(d, {t}))' < TickerPct * d.equity
  BY <1>3, PercentsType DEF Headroom
<1>5. \A g \in Groups : t \in g.members =>
        100 * SumUsed(Before(d, g.members))' < g.pct * d.equity
  BY <1>3, PercentsType DEF Headroom
<1>6. SumUsed(Before(d, {TickerOf(s)}))' = SumUsed(Before(d, {t}))'
  BY <1>1 DEF SumUsed, Before
<1> QED BY <1>1, <1>4, <1>5, <1>6 DEF Headroom

\* What the gates count covers what was executed before: a group, or a ticker,
\* that is not saturated has room for it.
LEMMA RoomCovers ==
  ASSUME RiskInv, TypeOK', NEW s \in Signals, NEW snap \in Snapshots, NEW M \in SUBSET Tickers,
         NEW pct \in Nat, ~Saturated(snap, M, pct), NEW d, d.saw = Consumed,
         \A t \in Consumed : used'[t] = used[t] /\ proposal'[t] = proposal[t],
         \A t \in Signals : t # s => latest'[t] = latest[t],
         s \in Consumed => latest'[s] # used'[s]
  PROVE  100 * SumUsed(Before(d, M))' < pct * snap.equity
<1>1. PICK C : C = Before(d, M)'
  OBVIOUS
<1>2. PICK P : P = {t \in Consumed : TickerOf(t) \in M}
  OBVIOUS
<1>3. PICK f : f = Amounts
  OBVIOUS
<1>4. PICK h : h = [t \in Signals |-> used'[t].amount]
  OBVIOUS
<1>5. TypeOK /\ Consumed \subseteq Signals
  BY DEF RiskInv, Consumed
<1>6. P \in SUBSET Signals /\ C \in SUBSET P
  <2>1. \A t \in C : t \in Consumed /\ proposal'[t].ticker \in M
    BY <1>1 DEF Before, TickerOf
  <2> QED BY <1>2, <1>5, <2>1 DEF TickerOf
<1>7. \A t \in C : f[t] = h[t]
  <2>1. \A t \in C : t \in Consumed /\ latest'[t] = used'[t]
    BY <1>1 DEF Before
  <2>2. \A t \in C : t \in Signals /\ latest'[t] = latest[t]
    BY <1>5, <2>1
  <2> QED BY <1>3, <1>4, <2>1, <2>2 DEF Amounts
<1>8. \A t \in Signals : f[t] \in Nat
  <2>1. \A t \in Signals : latest[t] \in Decisions
    BY <1>5 DEF TypeOK
  <2> QED BY <1>3, <2>1 DEF Amounts, Decisions
<1>9. IsFiniteSet(P) /\ IsFiniteSet(C) /\ IsFiniteSet(M)
  BY <1>6, SignalsFinite, FS_Subset, PortfolioAssumption
<1>10. SumFunctionOnSet(f, C) = SumFunctionOnSet(h, C)
  BY <1>7, <1>9, SumSame
<1>11. /\ SumFunctionOnSet(f, C) \in Nat /\ SumFunctionOnSet(f, P) \in Nat
       /\ SumFunctionOnSet(f, C) <= SumFunctionOnSet(f, P)
  <2>1. \A t \in P : f[t] \in Nat
    BY <1>6, <1>8
  <2> QED BY <1>6, <1>9, <2>1, SumSubset
<1>12. SumUsed(Before(d, M))' = SumFunctionOnSet(h, C)
  BY <1>1, <1>4 DEF SumUsed
<1>13. Pending(M) = SumFunctionOnSet(f, P)
  BY <1>2, <1>3 DEF Pending
<1>14. Realized(snap, M) \in Nat
  <2>1. \A t \in M : snap.held[t] \in Nat
    BY DEF Snapshots
  <2>2. M \in SUBSET M
    OBVIOUS
  <2>3. SumFunctionOnSet(snap.held, M) \in Nat
    BY <1>9, <2>1, <2>2, SumSubset
  <2> QED BY <2>3 DEF Realized
<1>15. snap.equity \in Int /\ pct * snap.equity \in Int
  BY DEF Snapshots
<1>16. 100 * (Realized(snap, M) + Pending(M)) < pct * snap.equity
  BY <1>11, <1>13, <1>14, <1>15 DEF Saturated, Exposure
<1> HIDE DEF Realized, Pending
<1> QED BY <1>10, <1>11, <1>12, <1>13, <1>14, <1>15, <1>16

LEMMA NewHeadroom ==
  ASSUME RiskInv, TypeOK', NEW s \in Signals, NEW snap \in Snapshots, snap.equity # 0,
         Passes(s, snap), NEW d, d.saw = Consumed, d.equity = snap.equity,
         proposal' = proposal,
         \A t \in Consumed : used'[t] = used[t],
         \A t \in Signals : t # s => latest'[t] = latest[t],
         s \in Consumed => latest'[s] # used'[s]
  PROVE  Headroom(s, d)'
<1>1. PICK t : t = TickerOf(s)
  OBVIOUS
<1>2. TickerOf(s)' = t /\ t \in Tickers
  BY <1>1, ProposalsType DEF TickerOf, RiskInv
<1>3. ~Saturated(snap, {t}, TickerPct)
      /\ \A g \in Groups : t \in g.members => ~Saturated(snap, g.members, g.pct)
  BY <1>1 DEF Passes, TickerHasRoom, GroupsHaveRoom, GroupsOf
<1>4. \A M \in SUBSET Tickers, pct \in Nat : ~Saturated(snap, M, pct) =>
         100 * SumUsed(Before(d, M))' < pct * snap.equity
  BY RoomCovers
<1>5. {t} \in SUBSET Tickers /\ TickerPct \in Nat
      /\ \A g \in Groups : g.members \in SUBSET Tickers /\ g.pct \in Nat
  BY <1>2, PercentsType
<1>6. 100 * SumUsed(Before(d, {t}))' < TickerPct * d.equity
  BY <1>3, <1>4, <1>5
<1>7. \A g \in Groups : t \in g.members =>
        100 * SumUsed(Before(d, g.members))' < g.pct * d.equity
  BY <1>3, <1>4, <1>5
<1>8. SumUsed(Before(d, {TickerOf(s)}))' = SumUsed(Before(d, {t}))'
  BY <1>2 DEF SumUsed, Before
<1> QED BY <1>2, <1>6, <1>7, <1>8 DEF Headroom

-----------------------------------------------------------------------------
(* The decisions of a step *)

\* Decisions taken earlier stand; the new ones are the step's to justify.
LEMMA DecisionsKept ==
  ASSUME RiskInv, TypeOK', Forth,
         \A s \in Signals : \A d : d = latest'[s] =>
            \/ d = latest[s]
            \/ d.ok => Limited(s, d)' /\ Headroom(s, d)',
         \A s \in Consumed' : s \in Consumed \/ (used'[s] = latest'[s] /\ latest'[s].ok)
  PROVE  DecisionsSound'
<1>1. TypeOK /\ RowsSound /\ DecisionsSound
  BY DEF RiskInv
<1>2. \A s \in Signals : latest[s] \in Decisions /\ used[s] \in Decisions
  BY <1>1 DEF TypeOK
<1>3. \A d \in Decisions : d.equity \in Int
  BY DEF Decisions
<1>4. ASSUME NEW s \in Signals, NEW d, d = latest'[s], d.ok
      PROVE  Limited(s, d)' /\ Headroom(s, d)'
  <2>1. CASE d = latest[s]
    <3>1. /\ Limited(s, d) /\ Headroom(s, d) /\ status[s] # "none"
          /\ d.saw \subseteq Consumed /\ d.equity \in Int
      BY <1>1, <1>2, <1>3, <1>4, <2>1 DEF DecisionsSound, RowsSound
    <3>2. Headroom(s, d)'
      BY <1>1, <3>1, HeadroomKept
    <3>3. Limited(s, d)'
      BY <3>1 DEF Limited, Forth
    <3> QED BY <3>2, <3>3
  <2>2. CASE d # latest[s]
    BY <1>4, <2>2
  <2> QED BY <2>1, <2>2
<1>5. ASSUME NEW s \in Consumed', NEW d, d = used'[s]
      PROVE  Headroom(s, d)'
  <2>1. s \in Signals
    BY DEF Consumed
  <2>2. CASE s \in Consumed
    <3>1. d = used[s] /\ status[s] # "none"
      BY <1>5, <2>2 DEF Forth, Consumed
    <3>2. Headroom(s, d) /\ d.saw \subseteq Consumed /\ d.equity \in Int
      BY <1>1, <1>2, <1>3, <2>1, <2>2, <3>1 DEF DecisionsSound, RowsSound
    <3> QED BY <1>1, <2>1, <3>1, <3>2, HeadroomKept
  <2>3. CASE used'[s] = latest'[s] /\ latest'[s].ok
    BY <1>4, <1>5, <2>1, <2>3
  <2> QED BY <2>2, <2>3
<1> QED BY <1>4, <1>5 DEF DecisionsSound, Limited, Headroom, Before

LEMMA Numbers ==
  ASSUME TypeOK
  PROVE  /\ now \in Nat /\ Midnight \in Nat /\ now < Midnight /\ NoSignal \notin Signals
         /\ \A s \in Signals : latest[s] \in Decisions /\ used[s] \in Decisions
         /\ \A d \in Decisions : d.at \in Nat /\ d.equity \in Int
<1>1. now \in Nat /\ Day \in Nat \ {0}
  BY RiskAssumption DEF TypeOK, PortfolioTypeOK
<1>2. Midnight \in Nat /\ now < Midnight
  <2>1. PICK q : q = now \div Day
    OBVIOUS
  <2>2. Midnight = (q + 1) * Day
    BY <2>1 DEF Midnight
  <2>3. (q + 1) * Day \in Nat /\ now < (q + 1) * Day
    BY <1>1, <2>1, NextMultiple, Zenon
  <2> QED BY <2>2, <2>3
<1>3. /\ NoSignal \notin Signals
      /\ \A s \in Signals : latest[s] \in Decisions /\ used[s] \in Decisions
  BY DEF TypeOK, Signals, NoSignal
<1>4. \A d \in Decisions : d.at \in Nat /\ d.equity \in Int
  BY DEF Decisions
<1> QED BY <1>1, <1>2, <1>3, <1>4

\* Steps that leave the signals alone.
LEMMA QuietKeeps ==
  ASSUME RiskInv, TypeOK', UNCHANGED signalVars, now <= now', cur' \in {cur, NoSignal}
  PROVE  RowsSound' /\ UsedSound' /\ DecisionsSound'
<1>1. TypeOK /\ RowsSound /\ UsedSound
  BY DEF RiskInv
<1>2. UNCHANGED <<proposal, status, latest, used>> /\ Consumed' = Consumed
  BY DEF signalVars, Consumed
<1>3. /\ now \in Nat /\ now' \in Nat
      /\ \A s \in Signals : latest[s].at \in Nat
  BY <1>1, Numbers DEF TypeOK, PortfolioTypeOK
<1>4. RowsSound'
  BY <1>1, <1>2, <1>3 DEF RowsSound
<1>5. UsedSound'
  <2>1. cur # NoSignal => cur \in Signals
    BY <1>1 DEF TypeOK
  <2> QED BY <1>1, <1>2, <1>3, <2>1 DEF UsedSound
<1>6. Forth
  BY <1>2 DEF Forth
<1>7. DecisionsSound'
  <2>1. \A s \in Signals : \A d : d = latest'[s] =>
           \/ d = latest[s]
           \/ d.ok => Limited(s, d)' /\ Headroom(s, d)'
    BY <1>2
  <2>2. \A s \in Consumed' : s \in Consumed \/ (used'[s] = latest'[s] /\ latest'[s].ok)
    BY <1>2
  <2> QED BY <1>6, <2>1, <2>2, DecisionsKept, Zenon
<1> QED BY <1>4, <1>5, <1>7

LEMMA PortfolioPart ==
  ASSUME RiskInv
  PROVE  /\ PortfolioTypeOK /\ PortfolioSound /\ now \in Nat /\ account \in Accounts
         /\ view \in [Callers \ {Job} -> [ok : BOOLEAN, snap : Snapshots]]
         /\ Bot \in Callers \ {Job}
BY RiskAssumption DEF RiskInv, TypeOK, PortfolioTypeOK

\* Steps of somebody else, at the same time of the same day.
LEMMA StandingKeeps ==
  ASSUME RiskInv, UNCHANGED <<now, signalVars, botVars, killedUntil, breached>>,
         dayPnl' = dayPnl \/ dayPnl' \in Int, moves' \in 0 .. MaxMoves,
         PortfolioTypeOK', PortfolioSound'
  PROVE  RiskInv'
<1>1. TypeOK /\ DaySound
  BY DEF RiskInv
<1>2. TypeOK'
  BY <1>1 DEF TypeOK, signalVars, botVars
<1>3. RowsSound' /\ UsedSound' /\ DecisionsSound'
  BY <1>2, PortfolioPart, QuietKeeps DEF botVars
<1>4. DaySound'
  BY <1>1 DEF DaySound, Midnight
<1> QED BY <1>2, <1>3, <1>4 DEF RiskInv

\* The world and the callers of the snapshots.
LEMMA WorldPreserves ==
  ASSUME RiskInv,
         \/ Mark \/ (\E t \in Tickers : ClosePosition(t)) \/ Tick
         \/ \E c \in Callers : OtherAsks(c) \/ Answered(c)
  PROVE  RiskInv'
<1>1. TypeOK /\ DaySound
  BY DEF RiskInv
<1>3. CASE Mark
  <2>1. /\ account' \in Accounts /\ moves' \in 0 .. MaxMoves
        /\ UNCHANGED <<now, portfolioVars, signalVars, botVars, dayVars>>
    BY <1>1, <1>3, PortfolioPart, RiskAssumption DEF Mark, Accounts, TypeOK
  <2>2. /\ UNCHANGED <<now, signalVars, botVars, killedUntil, breached>>
        /\ UNCHANGED <<dayPnl, cache, queue, phase, balance, view>>
    BY <2>1 DEF portfolioVars, dayVars
  <2>3. PortfolioTypeOK' /\ PortfolioSound'
    BY <2>1, <2>2, PortfolioPart, PortfolioKept
  <2> QED BY <2>1, <2>2, <2>3, StandingKeeps
<1>4. ASSUME NEW t \in Tickers, ClosePosition(t) PROVE RiskInv'
  <2>1. /\ account' = [free |-> account.free + account.held[t] + account.pnl,
                        total |-> account.total + account.pnl,
                        held |-> [account.held EXCEPT ![t] = 0], pnl |-> 0]
        /\ account.total + account.pnl >= 0
        /\ account.free + account.held[t] + account.pnl >= 0
        /\ dayPnl' = dayPnl + account.pnl
        /\ moves' = moves + 1 /\ moves < MaxMoves
        /\ UNCHANGED <<now, portfolioVars, signalVars, botVars, killedUntil, breached>>
    BY <1>4 DEF ClosePosition
  <2>2. account' \in Accounts /\ dayPnl' \in Int
    BY <1>1, <1>4, <2>1, PortfolioPart DEF Accounts, TypeOK
  <2>3. moves' \in 0 .. MaxMoves
    BY <1>1, <2>1, RiskAssumption DEF TypeOK
  <2>4. PortfolioTypeOK' /\ PortfolioSound'
    BY <2>1, <2>2, PortfolioPart, PortfolioKept DEF portfolioVars
  <2> QED BY <1>1, <2>1, <2>2, <2>3, <2>4, StandingKeeps DEF TypeOK
<1>5. CASE Tick
  <2>1. /\ now' = now + 1 /\ killedUntil' = killedUntil
        /\ \/ now' % Day = 0 /\ dayPnl' = 0 /\ breached' = FALSE
           \/ now' % Day # 0 /\ UNCHANGED <<dayPnl, breached>>
        /\ UNCHANGED <<account, portfolioVars, signalVars, botVars, moves>>
    BY <1>5 DEF Tick
  <2>2. PortfolioTypeOK' /\ PortfolioSound'
    BY <2>1, PortfolioPart, PortfolioKept DEF portfolioVars
  <2>3. DaySound'
    <3>1. now' % Day # 0 => now' \div Day = now \div Day
      BY <2>1, PortfolioPart, RiskAssumption
    <3> QED BY <1>1, <2>1, <3>1 DEF DaySound, Midnight
  <2>4. TypeOK'
    <3>1. UNCHANGED <<proposal, status, latest, used, cur, click, killedUntil, moves>>
      BY <2>1 DEF signalVars, botVars
    <3>2. dayPnl' \in Int
      BY <1>1, <2>1 DEF TypeOK
    <3>3. breached' \in BOOLEAN
      BY <1>1, <2>1, Zenon DEF TypeOK
    <3> QED BY <1>1, <2>2, <3>1, <3>2, <3>3 DEF TypeOK
  <2>5. RowsSound' /\ UsedSound' /\ DecisionsSound'
    BY <2>1, <2>4, PortfolioPart, QuietKeeps DEF botVars
  <2> QED BY <2>2, <2>3, <2>4, <2>5 DEF RiskInv
<1>6. ASSUME NEW c \in Callers, OtherAsks(c) PROVE RiskInv'
  <2>1. PortfolioTypeOK' /\ PortfolioSound' /\ now' = now
    BY <1>6, PortfolioPart, AskKeeps DEF OtherAsks, Ask
  <2>2. moves' \in 0 .. MaxMoves
    BY <1>1, <1>6, RiskAssumption DEF OtherAsks, TypeOK
  <2>3. UNCHANGED <<now, signalVars, botVars, killedUntil, breached>> /\ dayPnl' = dayPnl
    BY <1>6, <2>1 DEF OtherAsks, dayVars
  <2> QED BY <2>1, <2>2, <2>3, StandingKeeps
<1>7. ASSUME NEW c \in Callers, Answered(c) PROVE RiskInv'
  <2>1. PortfolioTypeOK' /\ PortfolioSound' /\ now' = now
    BY <1>7, PortfolioPart, FetchKeeps DEF Answered
  <2>2. moves' \in 0 .. MaxMoves
    BY <1>1, <1>7, RiskAssumption DEF Answered, TypeOK
  <2>3. UNCHANGED <<now, signalVars, botVars, killedUntil, breached>> /\ dayPnl' = dayPnl
    BY <1>7, <2>1 DEF Answered, dayVars
  <2> QED BY <2>1, <2>2, <2>3, StandingKeeps
<1> QED BY <1>3, <1>4, <1>5, <1>6, <1>7

-----------------------------------------------------------------------------
(* The bot *)

\* A decision d about the signal being evaluated goes on record.  If it lets the
\* signal through, d is within the limits and the gates had room; a click
\* consumes its signal in the same step.
LEMMA DecidedKeeps ==
  ASSUME RiskInv, cur # NoSignal, Decided, NEW d \in Decisions,
         latest' = [latest EXCEPT ![cur] = d], d.made, d.at = now, d.saw = Consumed,
         \/ UNCHANGED <<status, used>>
         \/ /\ status[cur] = "pending" /\ d.ok
            /\ status' = [status EXCEPT ![cur] = "consumed"]
            /\ used' = [used EXCEPT ![cur] = d],
         d.ok => \E snap \in Snapshots : /\ snap.equity # 0 /\ d.equity = snap.equity
                                         /\ Passes(cur, snap) /\ Limited(cur, d),
         dayPnl' = dayPnl, killedUntil' \in Nat, breached' \in BOOLEAN, DaySound'
  PROVE  RiskInv'
<1>1. TypeOK /\ RowsSound /\ UsedSound
  BY DEF RiskInv
<1>2. PICK c : c = cur
  OBVIOUS
<1>3. c \in Signals /\ c # NoSignal
  BY <1>1, <1>2 DEF TypeOK
<1>4. /\ \A s \in Signals : latest'[s] = IF s = c THEN d ELSE latest[s]
      /\ latest' \in [Signals -> Decisions]
  BY <1>1, <1>2, <1>3 DEF TypeOK
<1>5. /\ now' = now /\ proposal' = proposal /\ cur' = NoSignal /\ click' = FALSE
      /\ UNCHANGED <<account, cache, queue, phase, balance, moves>>
      /\ view' = [view EXCEPT ![Bot] = NoView]
  BY DEF Decided
<1>7. /\ \A s \in Signals : s # c => status'[s] = status[s] /\ used'[s] = used[s]
      /\ \/ status'[c] = status[c] /\ used'[c] = used[c]
         \/ status[c] = "pending" /\ status'[c] = "consumed" /\ used'[c] = d /\ d.ok
      /\ used' \in [Signals -> Decisions]
  BY <1>1, <1>2, <1>3 DEF TypeOK
<1>8. status' \in [Signals -> {"none", "pending", "consumed", "filled"}]
  BY <1>1, <1>2, <1>3 DEF TypeOK
<1>9. PortfolioTypeOK' /\ PortfolioSound'
  <2>1. view' \in [Callers \ {Job} -> [ok : BOOLEAN, snap : Snapshots]]
    BY <1>5, PortfolioPart, SnapshotsType
  <2> QED BY <1>5, <2>1, PortfolioPart, PortfolioKept
<1>10. TypeOK'
  BY <1>1, <1>4, <1>5, <1>7, <1>8, <1>9 DEF TypeOK
<1>11. now \in Nat /\ \A s \in Signals : latest[s].at \in Nat /\ used[s].at \in Nat
  BY <1>1, Numbers
<1>12. /\ \A s \in Signals : s # c => (s \in Consumed' <=> s \in Consumed)
       /\ c \in Consumed' <=> c \in Consumed \/ status'[c] # status[c]
       /\ c \in Consumed => status'[c] = status[c] /\ used'[c] = used[c]
       /\ Consumed \subseteq Signals
  BY <1>3, <1>7 DEF Consumed
<1>13. Consumed \subseteq Consumed'
  BY <1>12
<1>14. c \in Consumed => used[c].at < now
  <2> SUFFICES ASSUME c \in Consumed PROVE used[c].at < now
    OBVIOUS
  <2>1. latest[c].made /\ latest[c].at < now
    BY <1>1, <1>2, <1>3 DEF RowsSound, UsedSound
  <2>2. latest[c] = used[c] \/ used[c].at < latest[c].at
    BY <1>1 DEF UsedSound
  <2> QED BY <1>3, <1>11, <2>1, <2>2
<1>15. c \in Consumed => latest'[c] # used'[c]
  BY <1>3, <1>4, <1>11, <1>12, <1>14
<1>16. status[c] # "none" /\ status'[c] # "none"
  BY <1>1, <1>2, <1>3, <1>7 DEF UsedSound
<1>17. Forth
  <2>1. ASSUME NEW t \in Consumed
        PROVE  /\ t \in Consumed' /\ used'[t] = used[t]
               /\ latest'[t] = used'[t] => latest[t] = used[t]
    BY <1>4, <1>7, <1>12, <1>13, <1>15, <2>1
  <2>2. \A t \in Signals :
          status[t] # "none" => status'[t] # "none" /\ proposal'[t] = proposal[t]
    BY <1>5, <1>7, <1>16
  <2> QED BY <2>1, <2>2 DEF Forth
<1>18. RowsSound'
  <2>1. ASSUME NEW s \in Signals
        PROVE  /\ latest'[s].made => status'[s] # "none" /\ latest'[s].at <= now'
               /\ latest'[s].ok => latest'[s].made
               /\ latest'[s].saw \subseteq Consumed'
               /\ s \in Consumed' => /\ latest'[s].made /\ used'[s].ok
                                     /\ used'[s].saw \subseteq Consumed'
    <3>1. CASE s = c
      <4>1. latest'[s] = d /\ latest'[s].at <= now' /\ status'[s] # "none"
        BY <1>4, <1>5, <1>11, <1>16, <2>1, <3>1
      <4>2. s \in Consumed' => used'[s].ok /\ used'[s].saw \subseteq Consumed'
        BY <1>1, <1>7, <1>12, <1>13, <2>1, <3>1 DEF RowsSound
      <4> QED BY <1>13, <4>1, <4>2
    <3>2. CASE s # c
      BY <1>1, <1>4, <1>5, <1>7, <1>12, <1>13, <2>1, <3>2 DEF RowsSound
    <3> QED BY <3>1, <3>2
  <2> QED BY <2>1 DEF RowsSound
<1>19. UsedSound'
  <2>1. ASSUME NEW s \in Consumed' PROVE latest'[s] = used'[s] \/ used'[s].at < latest'[s].at
    <3>1. s \in Signals
      BY DEF Consumed
    <3>2. CASE s = c
      BY <1>3, <1>4, <1>7, <1>12, <1>14, <3>2
    <3>3. CASE s # c
      BY <1>1, <1>4, <1>7, <1>12, <3>1, <3>3 DEF UsedSound
    <3> QED BY <3>2, <3>3
  <2> QED BY <1>5, <2>1 DEF UsedSound
<1>20. d.ok => Limited(c, d)' /\ Headroom(c, d)'
  <2> SUFFICES ASSUME d.ok PROVE Limited(c, d)' /\ Headroom(c, d)'
    OBVIOUS
  <2>1. PICK snap \in Snapshots : /\ snap.equity # 0 /\ d.equity = snap.equity
                                  /\ Passes(c, snap) /\ Limited(c, d)
    BY <1>2
  <2>2. Limited(c, d)'
    BY <1>5, <2>1 DEF Limited
  <2>3. \A t \in Consumed : used'[t] = used[t]
    BY <1>17 DEF Forth
  <2>4. \A t \in Signals : t # c => latest'[t] = latest[t]
    BY <1>4
  <2>5. Headroom(c, d)'
    BY <1>3, <1>5, <1>10, <1>15, <2>1, <2>3, <2>4, NewHeadroom
  <2> QED BY <2>2, <2>5
<1>21. DecisionsSound'
  <2>1. \A s \in Signals : \A x : x = latest'[s] =>
           \/ x = latest[s]
           \/ x.ok => Limited(s, x)' /\ Headroom(s, x)'
    <3>1. SUFFICES ASSUME NEW s \in Signals, NEW x, x = latest'[s], x # latest[s], x.ok
                   PROVE  Limited(s, x)' /\ Headroom(s, x)'
      OBVIOUS
    <3>2. s = c /\ x = d
      BY <1>4, <3>1
    <3> QED BY <1>20, <3>1, <3>2
  <2>2. \A s \in Consumed' : s \in Consumed \/ (used'[s] = latest'[s] /\ latest'[s].ok)
    <3>1. \A s \in Consumed' : s \in Signals
      BY DEF Consumed
    <3> QED BY <1>3, <1>4, <1>7, <1>12, <3>1
  <2> QED BY <1>10, <1>17, <2>1, <2>2, DecisionsKept, Zenon
<1> QED BY <1>9, <1>10, <1>18, <1>19, <1>21 DEF RiskInv

\* A rejection is a record of the right kind.
LEMMA RejectionType ==
  ASSUME RiskInv, NEW d, d = Decision(FALSE, 0, 0)
  PROVE  d \in Decisions /\ d.made /\ d.ok = FALSE /\ d.at = now /\ d.saw = Consumed
<1>1. view[Bot].snap \in Snapshots /\ now \in Nat
  BY PortfolioPart
<1>2. view[Bot].snap.free \in Nat /\ view[Bot].snap.equity \in Int
  BY <1>1 DEF Snapshots
<1>3. Consumed \in SUBSET Signals
  BY DEF Consumed
<1> QED BY <1>1, <1>2, <1>3 DEF Decision, Decisions

\* The validator's modifiers are clamped.
LEMMA ModifiersType ==
  \A m \in AiModifiers : m \in Nat /\ m <= 150
BY RiskAssumption DEF MaxModifier

LEMMA BreachPreserves ==
  ASSUME RiskInv, BreachTheDay PROVE RiskInv'
<1> PICK d : d = Decision(FALSE, 0, 0)
  OBVIOUS
<1>1. /\ cur # NoSignal /\ Decided /\ latest' = [latest EXCEPT ![cur] = d]
      /\ killedUntil' = Midnight /\ breached' = TRUE /\ UNCHANGED <<status, used, dayPnl>>
  BY DEF BreachTheDay
<1>2. d \in Decisions /\ d.made /\ d.ok = FALSE /\ d.at = now /\ d.saw = Consumed
  BY RejectionType
<1>3. Midnight \in Nat
  BY Numbers DEF RiskInv
<1>4. DaySound'
  BY <1>1, <1>3 DEF DaySound, Midnight, Decided
<1> QED BY <1>1, <1>2, <1>3, <1>4, DecidedKeeps

LEMMA RejectPreserves ==
  ASSUME RiskInv, Reject PROVE RiskInv'
<1> PICK d : d = Decision(FALSE, 0, 0)
  OBVIOUS
<1>1. /\ cur # NoSignal /\ Decided /\ latest' = [latest EXCEPT ![cur] = d]
      /\ UNCHANGED <<status, used, dayPnl, killedUntil, breached>>
  BY DEF Reject, dayVars
<1>2. d \in Decisions /\ d.made /\ d.ok = FALSE /\ d.at = now /\ d.saw = Consumed
  BY RejectionType
<1>3. killedUntil \in Nat /\ breached \in BOOLEAN
  BY DEF RiskInv, TypeOK
<1>4. DaySound'
  BY <1>1 DEF RiskInv, DaySound, Midnight, Decided
<1> QED BY <1>1, <1>2, <1>3, <1>4, DecidedKeeps

LEMMA ApprovePreserves ==
  ASSUME RiskInv, Approve PROVE RiskInv'
<1>1. PICK snap : snap = view[Bot].snap
  OBVIOUS
<1>2. snap \in Snapshots
  BY <1>1, PortfolioPart
<1>3. PICK reduced \in Reductions, modifier \in Modifiers :
        /\ SizeOf(cur, snap, reduced) > 0
        /\ latest' = [latest EXCEPT ![cur] =
                       Decision(TRUE, SizeOf(cur, snap, reduced),
                                (SizeOf(cur, snap, reduced) * modifier) \div 100)]
  BY <1>1 DEF Approve
<1>4. PICK size : size = SizeOf(cur, snap, reduced)
  OBVIOUS
<1>5. PICK onRecord : onRecord = (size * modifier) \div 100
  OBVIOUS
<1>6. PICK d : d = Decision(TRUE, size, onRecord)
  OBVIOUS
<1>7. /\ cur # NoSignal /\ Decided /\ Passes(cur, snap) /\ Act(cur)
      /\ latest' = [latest EXCEPT ![cur] = d]
      /\ UNCHANGED <<dayPnl, killedUntil, breached>>
  BY <1>1, <1>3, <1>4, <1>5, <1>6 DEF Approve, dayVars
<1>8. TypeOK /\ cur \in Signals
  BY <1>7 DEF RiskInv, TypeOK
<1>9. reduced \in BOOLEAN /\ modifier \in Nat /\ modifier <= 150
  <2>1. reduced \in BOOLEAN
    BY <1>3, Zenon DEF Reductions
  <2>2. modifier = 100 \/ modifier \in AiModifiers
    BY <1>3 DEF Modifiers
  <2>3. modifier \in Nat /\ modifier <= 150
    BY <2>2, ModifiersType
  <2> QED BY <2>1, <2>3, Zenon
<1>10. /\ size \in Nat /\ size > 0 /\ snap.equity > 0 /\ size >= MinNotional
       /\ size <= snap.free
       /\ 100 * size <= PositionPct * snap.equity /\ 100 * size <= TickerPct * snap.equity
       /\ 100 * size * proposal[cur].distance <= RiskPct * snap.equity * proposal[cur].entry
  <2>1. SizeOf(cur, snap, reduced) # 0
    BY <1>3
  <2> QED BY <1>2, <1>3, <1>4, <1>8, <1>9, <2>1, SizeIsLimited
<1>11. onRecord \in Nat /\ 100 * onRecord <= MaxModifier * size
  <2>1. onRecord \in Nat /\ 100 * onRecord <= size * modifier
    BY <1>5, <1>9, <1>10, PercentOf
  <2>2. size * modifier <= 150 * size
    BY <1>9, <1>10
  <2>3. size * modifier \in Nat /\ 150 * size \in Nat
    BY <1>9, <1>10, NatTimes
  <2> QED BY <2>1, <2>2, <2>3 DEF MaxModifier
<1>12. /\ d \in Decisions /\ d.made /\ d.ok /\ d.sized = size /\ d.amount = onRecord
       /\ d.at = now /\ d.free = snap.free /\ d.equity = snap.equity /\ d.saw = Consumed
  <2>1. size \in Nat /\ onRecord \in Nat
    BY <1>10, <1>11
  <2>2. d = [made |-> TRUE, ok |-> TRUE, sized |-> size, amount |-> onRecord, at |-> now,
             free |-> snap.free, equity |-> snap.equity, saw |-> Consumed]
    BY <1>1, <1>6 DEF Decision
  <2>3. snap.free \in Nat /\ snap.equity \in Int /\ now \in Nat
    BY <1>2, PortfolioPart DEF Snapshots
  <2>4. Consumed \in SUBSET Signals
    BY DEF Consumed
  <2>5. d \in Decisions
    BY <2>1, <2>2, <2>3, <2>4 DEF Decisions
  <2> QED BY <2>2, <2>5
<1>13. Limited(cur, d)
  BY <1>10, <1>11, <1>12 DEF Limited
<1>14. \/ UNCHANGED <<status, used>>
       \/ /\ status[cur] = "pending" /\ d.ok
          /\ status' = [status EXCEPT ![cur] = "consumed"]
          /\ used' = [used EXCEPT ![cur] = d]
  <2>1. latest'[cur] = d
    BY <1>7, <1>8 DEF TypeOK
  <2> QED BY <1>7, <1>12, <2>1 DEF Act
<1>15. snap.equity # 0
  BY <1>2, <1>10
<1>16. killedUntil \in Nat /\ breached \in BOOLEAN
  BY <1>8 DEF TypeOK
<1>17. DaySound'
  BY <1>7 DEF RiskInv, DaySound, Midnight, Decided
<1>18. \E x \in Snapshots : /\ x.equity # 0 /\ d.equity = x.equity
                            /\ Passes(cur, x) /\ Limited(cur, d)
  BY <1>2, <1>7, <1>12, <1>13, <1>15
<1> QED BY <1>7, <1>12, <1>14, <1>16, <1>17, <1>18, DecidedKeeps

LEMMA GiveUpPreserves ==
  ASSUME RiskInv, GiveUp PROVE RiskInv'
<1>1. /\ cur' = NoSignal /\ click' = FALSE /\ UNCHANGED signalVars
      /\ UNCHANGED <<now, account, cache, queue, phase, balance, view>>
      /\ UNCHANGED <<dayPnl, killedUntil, breached, moves>>
      /\ UNCHANGED <<proposal, status, latest, used>>
  BY DEF GiveUp, portfolioVars, dayVars, signalVars
<1>2. PortfolioTypeOK' /\ PortfolioSound'
  BY <1>1, PortfolioPart, PortfolioKept
<1>3. TypeOK'
  BY <1>1, <1>2 DEF RiskInv, TypeOK
<1>4. RowsSound' /\ UsedSound' /\ DecisionsSound'
  BY <1>1, <1>3, PortfolioPart, QuietKeeps
<1>5. DaySound'
  BY <1>1 DEF RiskInv, DaySound, Midnight
<1> QED BY <1>2, <1>3, <1>4, <1>5 DEF RiskInv

\* A scan stores a signal that had no row, or a click asks again for one.
LEMMA BeginPreserves ==
  ASSUME RiskInv, NEW s \in Signals, Begin(s) PROVE RiskInv'
<1>1. TypeOK /\ RowsSound /\ UsedSound /\ DaySound
  BY DEF RiskInv
<1>2. /\ cur = NoSignal /\ cur' = s /\ click' \in BOOLEAN /\ Ask(Bot)
      /\ UNCHANGED <<latest, used, dayPnl, killedUntil, breached, moves>>
  BY DEF Begin, dayVars
<1>3. \/ /\ status[s] = "none" /\ status' = [status EXCEPT ![s] = "pending"]
         /\ \E p \in Proposals : proposal' = [proposal EXCEPT ![s] = p]
      \/ /\ status[s] # "none" /\ UNCHANGED <<proposal, status>>
         /\ ~latest[s].made \/ now > latest[s].at + StaleAfter
  BY DEF Begin
<1>4. PortfolioTypeOK' /\ PortfolioSound' /\ now' = now
  BY <1>2, PortfolioPart, AskKeeps DEF Ask
<1>5. /\ \A t \in Signals : status[t] # "none" => proposal'[t] = proposal[t]
      /\ \A t \in Signals : status'[t] = IF t = s /\ status[s] = "none" THEN "pending"
                                         ELSE status[t]
      /\ proposal' \in [Signals -> Proposals]
      /\ status' \in [Signals -> {"none", "pending", "consumed", "filled"}]
  BY <1>1, <1>3 DEF TypeOK
<1>6. TypeOK'
  BY <1>1, <1>2, <1>4, <1>5 DEF TypeOK
<1>7. Consumed' = Consumed
  BY <1>5 DEF Consumed
<1>8. \A t \in Signals : status[t] # "none" => status'[t] # "none"
  BY <1>5
<1>9. RowsSound'
  BY <1>1, <1>2, <1>4, <1>7, <1>8 DEF RowsSound
<1>10. status'[s] # "none" /\ (latest[s].made => latest[s].at < now)
  <2>1. status'[s] # "none"
    BY <1>5
  <2>2. latest[s].made => status[s] # "none"
    BY <1>1 DEF RowsSound
  <2>3. now \in Nat /\ latest[s].at \in Nat /\ StaleAfter \in Nat
    BY <1>1, Numbers, RiskAssumption
  <2>4. now > latest[s].at + StaleAfter => latest[s].at < now
    BY <2>3
  <2> QED BY <1>3, <2>1, <2>2, <2>4
<1>11. UsedSound'
  BY <1>1, <1>2, <1>4, <1>7, <1>10 DEF UsedSound
<1>12. Forth
  BY <1>2, <1>5, <1>7, <1>8 DEF Forth
<1>13. DecisionsSound'
  <2>1. \A r \in Signals : \A d : d = latest'[r] =>
           \/ d = latest[r]
           \/ d.ok => Limited(r, d)' /\ Headroom(r, d)'
    BY <1>2
  <2>2. \A r \in Consumed' : r \in Consumed \/ (used'[r] = latest'[r] /\ latest'[r].ok)
    BY <1>7
  <2> QED BY <1>6, <1>12, <2>1, <2>2, DecisionsKept, Zenon
<1>14. DaySound'
  BY <1>1, <1>2, <1>4 DEF DaySound, Midnight
<1> QED BY <1>4, <1>6, <1>9, <1>11, <1>13, <1>14 DEF RiskInv

\* A click on a recent card: what is on record becomes what was executed.
LEMMA ConsumePreserves ==
  ASSUME RiskInv, NEW s \in Signals, Consume(s) PROVE RiskInv'
<1>1. TypeOK /\ RowsSound /\ UsedSound /\ DaySound
  BY DEF RiskInv
<1>2. /\ cur = NoSignal /\ status[s] = "pending" /\ latest[s].ok
      /\ status' = [status EXCEPT ![s] = "consumed"]
      /\ used' = [used EXCEPT ![s] = latest[s]]
      /\ UNCHANGED <<now, account, cache, queue, phase, balance, view>>
      /\ UNCHANGED <<proposal, latest, cur, click, dayPnl, killedUntil, breached, moves>>
  BY DEF Consume, portfolioVars, botVars, dayVars
<1>3. PortfolioTypeOK' /\ PortfolioSound'
  BY <1>2, PortfolioPart, PortfolioKept
<1>4. /\ \A t \in Signals : status'[t] = IF t = s THEN "consumed" ELSE status[t]
      /\ \A t \in Signals : used'[t] = IF t = s THEN latest[s] ELSE used[t]
      /\ used' \in [Signals -> Decisions]
      /\ status' \in [Signals -> {"none", "pending", "consumed", "filled"}]
  BY <1>1, <1>2 DEF TypeOK
<1>5. TypeOK'
  BY <1>1, <1>2, <1>3, <1>4 DEF TypeOK
<1>6. /\ s \notin Consumed /\ Consumed \subseteq Consumed' /\ Consumed \subseteq Signals
      /\ \A t \in Consumed' : t \in Signals /\ (t = s \/ t \in Consumed)
  BY <1>2, <1>4 DEF Consumed
<1>7. \A t \in Signals : status[t] # "none" => status'[t] # "none"
  BY <1>4
<1>8. RowsSound'
  <2>1. ASSUME NEW t \in Signals
        PROVE  /\ latest'[t].made => status'[t] # "none" /\ latest'[t].at <= now'
               /\ latest'[t].ok => latest'[t].made
               /\ latest'[t].saw \subseteq Consumed'
               /\ t \in Consumed' => /\ latest'[t].made /\ used'[t].ok
                                     /\ used'[t].saw \subseteq Consumed'
    <3>1. latest'[t] = latest[t] /\ now' = now
      BY <1>2
    <3>2. CASE t = s
      <4>1. used'[t] = latest[t] /\ latest[t].ok
        BY <1>2, <1>4, <2>1, <3>2
      <4> QED BY <1>1, <1>6, <1>7, <2>1, <3>1, <4>1 DEF RowsSound
    <3>3. CASE t # s
      BY <1>1, <1>4, <1>6, <1>7, <2>1, <3>1, <3>3 DEF RowsSound
    <3> QED BY <3>2, <3>3
  <2> QED BY <2>1 DEF RowsSound
<1>9. UsedSound'
  <2>1. \A t \in Consumed' : latest'[t] = used'[t] \/ used'[t].at < latest'[t].at
    BY <1>1, <1>2, <1>4, <1>6 DEF UsedSound
  <2> QED BY <1>2, <2>1 DEF UsedSound
<1>10. Forth
  BY <1>2, <1>4, <1>6, <1>7 DEF Forth
<1>11. DecisionsSound'
  <2>1. \A r \in Signals : \A d : d = latest'[r] =>
           \/ d = latest[r]
           \/ d.ok => Limited(r, d)' /\ Headroom(r, d)'
    BY <1>2
  <2>2. \A r \in Consumed' : r \in Consumed \/ (used'[r] = latest'[r] /\ latest'[r].ok)
    BY <1>2, <1>4, <1>6
  <2> QED BY <1>5, <1>10, <2>1, <2>2, DecisionsKept, Zenon
<1>12. DaySound'
  BY <1>1, <1>2 DEF DaySound, Midnight
<1> QED BY <1>3, <1>5, <1>8, <1>9, <1>11, <1>12 DEF RiskInv

\* The entry fills: cash becomes a position.
LEMMA FillPreserves ==
  ASSUME RiskInv, NEW s \in Signals, Fill(s) PROVE RiskInv'
<1>1. TypeOK /\ RowsSound /\ UsedSound /\ DaySound
  BY DEF RiskInv
<1>2. /\ status[s] = "consumed" /\ used[s].amount <= account.free
      /\ status' = [status EXCEPT ![s] = "filled"]
      /\ account' = [account EXCEPT !.free = @ - used[s].amount,
                                    !.held[TickerOf(s)] = @ + used[s].amount]
      /\ UNCHANGED <<now, cache, queue, phase, balance, view>>
      /\ UNCHANGED <<proposal, latest, used, cur, click, dayPnl, killedUntil, breached, moves>>
  BY DEF Fill, portfolioVars, botVars, dayVars
<1>3. account' \in Accounts
  <2>1. used[s].amount \in Nat
    <3>1. used[s] \in Decisions
      BY <1>1 DEF TypeOK
    <3> QED BY <3>1 DEF Decisions
  <2>2. TickerOf(s) \in Tickers
    BY <1>1, ProposalsType DEF TickerOf
  <2>3. PICK u \in Nat, k \in Tickers : u = used[s].amount /\ k = TickerOf(s)
    BY <2>1, <2>2
  <2>4. account' = [account EXCEPT !.free = @ - u, !.held[k] = @ + u] /\ u <= account.free
    BY <1>2, <2>3
  <2>5. account.free - u \in Nat /\ account.held[k] + u \in Nat
    BY <2>4, PortfolioPart DEF Accounts
  <2> QED BY <2>4, <2>5, PortfolioPart DEF Accounts
<1>4. PortfolioTypeOK' /\ PortfolioSound'
  BY <1>2, <1>3, PortfolioPart, PortfolioKept
<1>5. /\ \A t \in Signals : status'[t] = IF t = s THEN "filled" ELSE status[t]
      /\ status' \in [Signals -> {"none", "pending", "consumed", "filled"}]
  BY <1>1, <1>2 DEF TypeOK
<1>6. TypeOK'
  BY <1>1, <1>2, <1>4, <1>5 DEF TypeOK
<1>7. Consumed' = Consumed
  BY <1>2, <1>5 DEF Consumed
<1>8. \A t \in Signals : status[t] # "none" => status'[t] # "none"
  BY <1>5
<1>9. RowsSound'
  BY <1>1, <1>2, <1>7, <1>8 DEF RowsSound
<1>10. UsedSound'
  <2>1. cur # NoSignal => cur \in Signals
    BY <1>1 DEF TypeOK
  <2> QED BY <1>1, <1>2, <1>7, <1>8, <2>1 DEF UsedSound
<1>11. Forth
  BY <1>2, <1>7, <1>8 DEF Forth
<1>12. DecisionsSound'
  <2>1. \A r \in Signals : \A d : d = latest'[r] =>
           \/ d = latest[r]
           \/ d.ok => Limited(r, d)' /\ Headroom(r, d)'
    BY <1>2
  <2>2. \A r \in Consumed' : r \in Consumed \/ (used'[r] = latest'[r] /\ latest'[r].ok)
    BY <1>7
  <2> QED BY <1>6, <1>11, <2>1, <2>2, DecisionsKept, Zenon
<1>13. DaySound'
  BY <1>1, <1>2 DEF DaySound, Midnight
<1> QED BY <1>4, <1>6, <1>9, <1>10, <1>12, <1>13 DEF RiskInv

-----------------------------------------------------------------------------
(* The specification *)

LEMMA InitSound == Init => RiskInv
<1> SUFFICES ASSUME Init PROVE RiskInv
  OBVIOUS
<1>1. /\ now = 0 /\ cache = NoView /\ queue = <<>>
      /\ phase = [c \in Callers |-> "idle"]
      /\ balance = [c \in Callers |-> NoBalance]
      /\ view = [c \in Callers \ {Job} |-> NoView]
      /\ account = [free |-> Deposit, total |-> Deposit,
                    held |-> [t \in Tickers |-> 0], pnl |-> 0]
      /\ proposal = [s \in Signals |-> CHOOSE p \in Proposals : TRUE]
      /\ status = [s \in Signals |-> "none"]
      /\ latest = [s \in Signals |-> NoDecision]
      /\ used   = [s \in Signals |-> NoDecision]
      /\ cur = NoSignal /\ click = FALSE
      /\ dayPnl = EarlierPnl /\ killedUntil = 0 /\ breached = FALSE /\ moves = 0
  BY DEF Init, PortfolioInit
<1>2. PortfolioTypeOK
  <2>1. account \in Accounts
    BY <1>1, RiskAssumption DEF Accounts
  <2>2. /\ phase \in [Callers -> Phases] /\ queue \in Seq(Callers)
        /\ balance \in [Callers -> [free : Nat, total : Nat, at : Nat]]
        /\ view \in [Callers \ {Job} -> [ok : BOOLEAN, snap : Snapshots]]
        /\ cache \in [ok : BOOLEAN, snap : Snapshots]
    BY <1>1, SnapshotsType DEF Phases
  <2>3. {queue[i] : i \in DOMAIN queue} = {} /\ {c \in Callers : phase[c] # "idle"} = {}
    BY <1>1
  <2> QED BY <1>1, <2>1, <2>2, <2>3 DEF PortfolioTypeOK
<1>3. NoDecision \in Decisions /\ NoDecision.made = FALSE /\ NoDecision.ok = FALSE
      /\ NoDecision.saw = {}
  BY DEF NoDecision, Decisions
<1>4. TypeOK
  <2>1. proposal \in [Signals -> Proposals]
    <3>1. (CHOOSE p \in Proposals : TRUE) \in Proposals
      BY RiskAssumption
    <3> QED BY <1>1, <3>1
  <2>2. /\ status \in [Signals -> {"none", "pending", "consumed", "filled"}]
        /\ latest \in [Signals -> Decisions] /\ used \in [Signals -> Decisions]
    BY <1>1, <1>3
  <2>3. /\ cur \in Signals \union {NoSignal} /\ click \in BOOLEAN
        /\ killedUntil \in Nat /\ breached \in BOOLEAN
    BY <1>1
  <2>4. dayPnl \in Int /\ moves \in 0 .. MaxMoves
    BY <1>1, RiskAssumption
  <2> QED BY <1>2, <2>1, <2>2, <2>3, <2>4 DEF TypeOK
<1>5. PortfolioSound
  <2>1. \A c \in Callers : phase[c] # "positions"
    BY <1>1
  <2>2. DOMAIN queue = {}
    BY <1>1
  <2>3. cache.ok = FALSE
    BY <1>1 DEF NoView
  <2> QED BY <2>1, <2>2, <2>3 DEF PortfolioSound
<1>6. Consumed = {}
  BY <1>1 DEF Consumed
<1>7. \A s \in Signals : latest[s] = NoDecision
  BY <1>1
<1>8. RowsSound
  BY <1>3, <1>6, <1>7 DEF RowsSound
<1>9. UsedSound
  BY <1>1, <1>6 DEF UsedSound
<1>10. DecisionsSound
  BY <1>3, <1>6, <1>7 DEF DecisionsSound
<1>11. DaySound
  BY <1>1 DEF DaySound
<1> QED BY <1>4, <1>5, <1>8, <1>9, <1>10, <1>11 DEF RiskInv

LEMMA IdleKeeps ==
  ASSUME RiskInv, UNCHANGED vars PROVE RiskInv'
<1>1. /\ UNCHANGED <<now, signalVars, botVars, killedUntil, breached>>
      /\ UNCHANGED <<account, cache, queue, phase, balance, view, dayPnl, moves>>
  BY DEF vars, portfolioVars, dayVars
<1>2. PortfolioTypeOK' /\ PortfolioSound'
  BY <1>1, PortfolioPart, PortfolioKept
<1>3. moves' \in 0 .. MaxMoves /\ dayPnl' = dayPnl
  BY <1>1 DEF RiskInv, TypeOK
<1> QED BY <1>1, <1>2, <1>3, StandingKeeps

LEMMA StepPreserves == RiskInv /\ [Next]_vars => RiskInv'
<1> SUFFICES ASSUME RiskInv, [Next]_vars PROVE RiskInv'
  OBVIOUS
<1>1. ASSUME NEW s \in Signals, Begin(s) \/ Consume(s) \/ Fill(s) PROVE RiskInv'
  BY <1>1, BeginPreserves, ConsumePreserves, FillPreserves
<1>2. CASE BotStep
  BY <1>2, BreachPreserves, RejectPreserves, ApprovePreserves, GiveUpPreserves DEF BotStep
<1>3. CASE \/ Mark \/ (\E t \in Tickers : ClosePosition(t)) \/ Tick
           \/ \E c \in Callers : OtherAsks(c) \/ Answered(c)
  BY <1>3, WorldPreserves
<1>4. CASE UNCHANGED vars
  BY <1>4, IdleKeeps
<1> QED BY <1>1, <1>2, <1>3, <1>4 DEF Next

\* The inductive invariant holds for every set of callers, tickers and groups,
\* whatever the percentages, the deposit and the bounds are.
THEOREM RiskInductive == Spec => []RiskInv
<1> QED BY InitSound, StepPreserves, PTL DEF Spec

\* Every approving decision on record respects the caps of the snapshot it was
\* computed from (sizing.py:70-160, models.py:137-160).
THEOREM SizesWithinLimits == Spec => []SizeWithinLimits
<1>1. RiskInv => SizeWithinLimits
  BY DEF RiskInv, SizeWithinLimits, DecisionsSound, Limited, Approved
<1> QED BY <1>1, RiskInductive, PTL

\* Whatever a signal was executed under, what had been executed before it of its
\* ticker and of each of its groups was below the cap: no staleness or tearing of
\* the snapshot gets round the gates (exposure_ticker.py:95-118,
\* correlation_group.py).
THEOREM ApprovalsSawHeadroom == Spec => []EveryApprovalSawHeadroom
<1>1. RiskInv => EveryApprovalSawHeadroom
  <2> SUFFICES ASSUME RiskInv, NEW s \in Consumed
      PROVE  /\ 100 * SumUsed({t \in Counted(s) : TickerOf(t) \in {TickerOf(s)}})
                  < TickerPct * used[s].equity
             /\ \A g \in Groups : TickerOf(s) \in g.members =>
                  100 * SumUsed({t \in Counted(s) : TickerOf(t) \in g.members})
                    < g.pct * used[s].equity
    BY DEF EveryApprovalSawHeadroom
  <2>1. \A M : Before(used[s], M) = {t \in Counted(s) : TickerOf(t) \in M}
    BY DEF Before, Counted
  <2>2. s \in Signals
    BY DEF Consumed
  <2>3. Headroom(s, used[s])
    BY <2>2 DEF RiskInv, DecisionsSound
  <2> QED BY <2>1, <2>3 DEF Headroom
<1> QED BY <1>1, RiskInductive, PTL

LEMMA StepOfBreach ==
  RiskInv /\ [Next]_vars =>
    \A s \in Signals : breached /\ latest'[s].ok => latest'[s] = latest[s]
<1> SUFFICES ASSUME RiskInv, [Next]_vars, NEW s \in Signals, breached, latest'[s].ok
             PROVE  latest'[s] = latest[s]
  OBVIOUS
<1>1. /\ TypeOK /\ now \in Nat /\ Midnight \in Nat /\ now < Midnight
      /\ killedUntil \in Nat /\ Midnight <= killedUntil
  BY Numbers DEF RiskInv, DaySound, TypeOK
<1>2. Killed
  BY <1>1 DEF Killed
<1>3. ASSUME UNCHANGED latest PROVE latest'[s] = latest[s]
  BY <1>3
<1>4. ASSUME NEW r \in Signals, Begin(r) \/ Consume(r) \/ Fill(r) PROVE UNCHANGED latest
  BY <1>4 DEF Begin, Consume, Fill
<1>5. CASE BotStep
  <2>1. ~Approve
    BY <1>2 DEF Approve, Passes
  <2>2. CASE GiveUp
    BY <2>2 DEF GiveUp, signalVars
  <2>3. CASE BreachTheDay \/ Reject
    <3>1. latest' = [latest EXCEPT ![cur] = Decision(FALSE, 0, 0)]
      BY <2>3 DEF BreachTheDay, Reject
    <3>2. Decision(FALSE, 0, 0).ok = FALSE
      BY DEF Decision
    <3>3. s # cur
      BY <1>1, <3>1, <3>2 DEF TypeOK
    <3> QED BY <1>1, <3>1, <3>3 DEF TypeOK
  <2> QED BY <1>5, <2>1, <2>2, <2>3 DEF BotStep
<1>6. ASSUME NEW c \in Callers, OtherAsks(c) \/ Answered(c) PROVE UNCHANGED latest
  BY <1>6 DEF OtherAsks, Answered, signalVars
<1>7. ASSUME NEW t \in Tickers, ClosePosition(t) PROVE UNCHANGED latest
  BY <1>7 DEF ClosePosition, signalVars
<1>8. CASE Mark \/ Tick \/ UNCHANGED vars
  BY <1>8 DEF Mark, Tick, vars, signalVars
<1> QED BY <1>3, <1>4, <1>5, <1>6, <1>7, <1>8 DEF Next

\* Once an evaluation has seen the daily loss limit broken, no decision of that
\* day approves (daily_drawdown.py).
THEOREM BreachesEndTheDay == Spec => BreachEndsTheDay
<1>1. RiskInv /\ [Next]_vars =>
        [\A s \in Signals : breached /\ latest'[s].ok => latest'[s] = latest[s]]_latest
  BY StepOfBreach
<1> QED BY <1>1, RiskInductive, PTL DEF Spec, BreachEndsTheDay

LEMMA StepOfCache ==
  RiskInv /\ [Next]_vars =>
    cache' = cache \/ (cache.ok => cache'.ok /\ cache'.snap.from >= cache.snap.at)
<1> SUFFICES ASSUME RiskInv, [Next]_vars, cache' # cache
             PROVE  cache.ok => cache'.ok /\ cache'.snap.from >= cache.snap.at
  OBVIOUS
<1>1. ASSUME NEW s \in Signals, Begin(s) \/ Consume(s) \/ Fill(s) PROVE FALSE
  BY <1>1 DEF Begin, Consume, Fill, Ask, portfolioVars
<1>2. ASSUME BotStep PROVE FALSE
  BY <1>2 DEF BotStep, BreachTheDay, Reject, Approve, GiveUp, Decided, portfolioVars
<1>3. ASSUME NEW c \in Callers, OtherAsks(c) PROVE FALSE
  BY <1>3 DEF OtherAsks, Ask
<1>4. ASSUME NEW t \in Tickers, ClosePosition(t) PROVE FALSE
  BY <1>4 DEF ClosePosition, portfolioVars
<1>5. ASSUME Mark \/ Tick \/ UNCHANGED vars PROVE FALSE
  BY <1>5 DEF Mark, Tick, vars, portfolioVars
<1>6. PICK c \in Callers : FetchStep(c) \/ LosePositions(c) \/ FetchFails(c)
  BY <1>1, <1>2, <1>3, <1>4, <1>5 DEF Next, Answered
<1> QED BY <1>6, PortfolioPart, FetchKeeps

\* The lock keeps the cache moving forward in time, whoever calls, whenever the
\* market moves and whichever of the two calls fails: a balance call that raises
\* leaves the cache alone, a positions call that fails replaces it with a later
\* snapshot without positions (portfolio.py:57-112, ccxt_trader.py:399-431).
THEOREM CachesNeverGoBack == Spec => CacheNeverGoesBack
<1>1. RiskInv /\ [Next]_vars =>
        [cache.ok => cache'.ok /\ cache'.snap.from >= cache.snap.at]_cache
  BY StepOfCache
<1> QED BY <1>1, RiskInductive, PTL DEF Spec, CacheNeverGoesBack

=============================================================================
