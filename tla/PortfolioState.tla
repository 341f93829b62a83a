---------------------------- MODULE PortfolioState ----------------------------
(***************************************************************************)
(* The cached snapshot of the account (trading/portfolio.py) and the job   *)
(* that refreshes it (trading/jobs/portfolio_sync.py).  A snapshot is two  *)
(* calls to the exchange, made under an asyncio lock: waiters are served   *)
(* in the order they came, and whoever holds the lock first looks whether  *)
(* the cache is fresh.  The account changes meanwhile, so the balance and  *)
(* the positions of a snapshot may never have been true together.          *)
(*                                                                         *)
(* Amounts are in hundredths of the quote currency.                        *)
(***************************************************************************)
EXTENDS Integers, Sequences, FiniteSets, FiniteSetsExt

CONSTANTS
  Callers,    \* tasks that ask for snapshots
  Job,        \* the one of them that is portfolio_sync_job
  Tickers,    \* symbols a position may have
  Ttl         \* DEFAULT_TTL_SECONDS, in ticks

ASSUME PortfolioAssumption ==
  /\ IsFiniteSet(Callers) /\ Job \in Callers
  /\ IsFiniteSet(Tickers)
  /\ Ttl \in Nat \ {0}

Phases == {"idle", "wait", "positions"}

VARIABLES
  now,        \* the clock
  account,    \* the account at the exchange
  cache,      \* PortfolioState._cache
  queue,      \* who waits for _lock; the head holds it
  phase,      \* where each caller is in snapshot() or refresh()
  balance,    \* the balance a fetch has read so far
  view        \* the snapshot a caller was given; the job only logs its own

portfolioVars == <<cache, queue, phase, balance, view>>

\* What the exchange knows: free and total quote balance, notional by symbol,
\* unrealized profit of the open positions.
Accounts == [free : Nat, total : Nat, held : [Tickers -> Nat], pnl : Int]

\* A snapshot, with when its balance was read (history) and last_synced_at.
Snapshots ==
  [free : Nat, equity : Int, held : [Tickers -> Nat], from : Nat, at : Nat]

NoSnapshot ==
  [free |-> 0, equity |-> 0, held |-> [t \in Tickers |-> 0], from |-> 0, at |-> 0]
NoView     == [ok |-> FALSE, snap |-> NoSnapshot]
NoBalance  == [free |-> 0, total |-> 0, at |-> 0]

PortfolioTypeOK ==
  /\ now \in Nat
  /\ account \in Accounts
  /\ cache \in [ok : BOOLEAN, snap : Snapshots]
  /\ queue \in Seq(Callers)
  /\ phase \in [Callers -> Phases]
  /\ {queue[i] : i \in DOMAIN queue} = {c \in Callers : phase[c] # "idle"}
  /\ balance \in [Callers -> [free : Nat, total : Nat, at : Nat]]
  /\ view \in [Callers \ {Job} -> [ok : BOOLEAN, snap : Snapshots]]

PortfolioInit ==
  /\ now = 0
  /\ cache = NoView
  /\ queue = <<>>
  /\ phase = [c \in Callers |-> "idle"]
  /\ balance = [c \in Callers |-> NoBalance]
  /\ view = [c \in Callers \ {Job} |-> NoView]

\* _is_fresh.
Fresh == cache.ok /\ now - cache.snap.at < Ttl

\* _parse_balances, _parse_positions and _compute_equity_quote: what was read
\* of the balance earlier with the positions as they are answered now.
SnapshotOf(bal, held, pnl) ==
  [free   |-> bal.free,
   equity |-> bal.total + pnl,
   held   |-> held,
   from   |-> bal.at,
   at     |-> now]

Holds(c) == queue # <<>> /\ Head(queue) = c

Release(c) ==
  /\ queue' = Tail(queue)
  /\ phase' = [phase EXCEPT ![c] = "idle"]
  /\ balance' = [balance EXCEPT ![c] = NoBalance]

-----------------------------------------------------------------------------

\* snapshot() or refresh() is called and waits for the lock.
Ask(c) ==
  /\ phase[c] = "idle"
  /\ phase' = [phase EXCEPT ![c] = "wait"]
  /\ queue' = Append(queue, c)
  /\ view' = [d \in DOMAIN view |-> IF d = c THEN NoView ELSE view[d]]
  /\ UNCHANGED <<now, account, cache, balance>>

\* snapshot() finds a fresh cache; the job's refresh() never looks.
Serve(c) ==
  /\ phase[c] = "wait" /\ Holds(c)
  /\ c # Job /\ Fresh
  /\ view' = [view EXCEPT ![c] = cache]
  /\ Release(c)
  /\ UNCHANGED <<now, account, cache>>

\* Mutant of ReadBalance: the lock is not taken.
ReadBalanceUnlocked(c) ==
  /\ phase[c] = "wait"
  /\ c = Job \/ ~Fresh
  /\ phase' = [phase EXCEPT ![c] = "positions"]
  /\ balance' = [balance EXCEPT ![c] = [free |-> account.free, total |-> account.total,
                                     at |-> now]]
  /\ UNCHANGED <<now, account, cache, queue, view>>

\* _fetch_snapshot, first call.
ReadBalance(c) ==
  /\ phase[c] = "wait" /\ Holds(c)
  /\ c = Job \/ ~Fresh
  /\ phase' = [phase EXCEPT ![c] = "positions"]
  /\ balance' = [balance EXCEPT ![c] = [free |-> account.free, total |-> account.total,
                                     at |-> now]]
  /\ UNCHANGED <<now, account, cache, queue, view>>

\* The cache is replaced, whoever asked gets it, and the lock is released.
Store(c, snap) ==
  /\ cache' = [ok |-> TRUE, snap |-> snap]
  /\ view' = [d \in DOMAIN view |-> IF d = c THEN cache' ELSE view[d]]
  /\ Release(c)
  /\ UNCHANGED <<now, account>>

\* _fetch_snapshot, second call.
ReadPositions(c) ==
  /\ phase[c] = "positions"
  /\ Store(c, SnapshotOf(balance[c], account.held, account.pnl))

\* The second call fails: CCXTTrader.fetch_positions swallows the exception and
\* answers that there are no positions, and the cache is replaced all the same.
LosePositions(c) ==
  /\ phase[c] = "positions"
  /\ Store(c, SnapshotOf(balance[c], [t \in Tickers |-> 0], 0))

\* The first call raises: the lock is released, the cache stays as it was, the
\* job logs a warning and every other caller gets the exception.
FetchFails(c) ==
  /\ phase[c] = "wait" /\ Holds(c)
  /\ c = Job \/ ~Fresh
  /\ Release(c)
  /\ UNCHANGED <<now, account, cache, view>>

FetchStep(c) == Serve(c) \/ ReadBalance(c) \/ ReadPositions(c)

-----------------------------------------------------------------------------
(* Properties *)

\* The cache only moves forward in time and is never emptied: a snapshot is
\* replaced only by one whose every call to the exchange was made after it was
\* completed, whatever fails and whoever fetches meanwhile (portfolio.py:57-72).
\* What the later one says may still be less: a positions call that failed
\* leaves it without positions (ccxt_trader.py:423-431).
CacheNeverGoesBack ==
  [][cache.ok => cache'.ok /\ cache'.snap.from >= cache.snap.at]_cache

=============================================================================
