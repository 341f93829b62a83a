# Formal models of MIB

MIB is an assistant that trades crypto spot with an operator in the loop: a
strategy engine proposes signals, an AI validator and a chain of risk gates vet
them, the operator approves them with a Telegram button, and an executor sends
the entry order and its protective stop to the exchange. This directory holds
TLA+ models of that program, the TLC runs that check them, and theorems that
TLAPS checks. Every definition is translated from the code under
`src/src/mib/` (paths below are relative to it); `PROJECT.json` names, for each
definition, the lines it stands for.

1. [How to run](#how-to-run)
2. [Inventory of the system](#inventory-of-the-system)
3. [Modules and the code they model](#modules-and-the-code-they-model)
4. [What the runs check](#what-the-runs-check)
5. [Bounds](#bounds)
6. [Fairness](#fairness)
7. [What is proved](#what-is-proved)
8. [What the code does that its documentation does not say](#what-the-code-does-that-its-documentation-does-not-say)
9. [What is not modelled](#what-is-not-modelled)
10. [Plan](#plan)

## How to run

| Configuration | Module |
|---|---|
| `ExecSafety.cfg` | `MCPanicExecution.tla` |
| `ExecLiveness.cfg`, `ClaimRetriesSend.cfg` | `MCOrderExecution.tla` |
| `ApprovalSafety.cfg`, `ApprovalLiveness.cfg` | `MCSignalApproval.tla` |
| `ModesLadder.cfg`, `ModesSwitch.cfg` | `MCOperatingModes.tla` |
| `RiskExposure.cfg` | `MCRiskExposure.tla` |
| `IncidentWatch.cfg` | `MCIncidentWatch.tla` |
| `Backtest.cfg` | `MCBacktest.tla` |
| `Services.cfg`, `ClaimNews.cfg` | `MCServices.tla` |

    tlc -workers 2 -config ExecSafety.cfg MCPanicExecution.tla
    tlapm OrderExecutionProofs.tla

Every configuration passes, each in a few minutes at most, except the two
`Claim*.cfg`, which are meant to end with a counterexample
([section 8](#what-the-code-does-that-its-documentation-does-not-say)). The
modules with proofs are the `*Proofs.tla` and `FiniteSums.tla`.

## Inventory of the system

One process runs one asyncio event loop with three kinds of actors: the Telegram
application, which handles **one update at a time** (`telegram/bot.py` does not
set `concurrent_updates`); the APScheduler jobs (one instance of each at a time,
missed runs coalesced); and the executor tasks that approvals start and nobody
awaits. They share an SQLite database, in which each repository call is a
transaction of its own, and an exchange behind ccxt. Two awaits of one handler are never
atomic with respect to jobs and executor tasks, and a crash may fall between any two.

| Component | State it keeps | Operations | Hard because | What makes it correct |
|---|---|---|---|---|
| Scan and card (`trading/notify.py`) | none of its own | store signal, AI verdict, evaluate, append decision, send card | every step may fail and is swallowed | no card for a signal that was not vetted |
| Signals table (`trading/signal_repo.py`) | status, expiry, events | add, compare-and-set transition, list expired | three writers of one row | one outcome per signal |
| Approval buttons (`telegram/handlers/signals.py`) | none | ok, no | old decision, second click, crash before the task starts | approved once, executed at most once, old decisions refused |
| Expiry job (`trading/expiration.py`) | its candidate list | list, transition each | list is stale when used | nothing pending for ever, never undoes a click |
| Risk manager and gates (`trading/risk/`) | decisions, `trading_state` | evaluate, append | read at one time, used at another | caps and kill switch hold when the decision is taken |
| Executor (`trading/executor.py`) | one task per approval | trade row, entry, wait, stop, link, open, notify, fail | fire and forget, each step its own transaction | open only with a stop; failures reported |
| Exchange adapter (`sources/ccxt_trader.py`) | order row around the call | seatbelt, send, classify the answer | lost answers | row never claims more than happened |
| Fill detector (`trading/fill_detector.py`) | poll counter | poll, write terminal status, time out | unconditional write, late fill | stop sized by what really filled |
| Stop placer (`trading/stop_placer.py`) | attempt counter | place, retry, fall back to stop-limit | retry of what may have been done | one live stop |
| Orders and trades (`order_repo.py`, `trade_repo.py`) | rows, events | add_or_get, compare-and-set | idempotency by client id | no double send |
| Reconciler (`trading/reconcile.py`) | reports | fetch, diff, patch | feed read before the table; overlapping passes | final rows only corrected |
| Mode ladder (`trading/mode_*.py`) | mode, transitions | transition, force | two transactions per transition | no climb before its time |
| Go-live (`operations/go_live.py`) | pending rows | initiate, confirm | three transactions, delays, attempt limit | live only after a confirmed code |
| Wind-down (`operations/wind_down.py`) | wind-down rows | start, tick | row before flag | no new entries once accepted |
| Panic (`trading/panic.py`) | its report | cancel all, close all, kill window | best effort, executor tasks go on, the seatbelt may have changed at a restart | the report is true within a process, the kill switch set whatever fails |
| Sizer and gates (`trading/sizing.py`, `trading/risk/gates/`) | none | caps, exposure, correlation, drawdown | the snapshot is stale or torn, signals of one scan do not see each other | sizes within every cap, a breach ends the day |
| Portfolio (`trading/portfolio.py`) | cached snapshot and lock | snapshot, refresh | two calls to the exchange, concurrent refresh | the cache only moves forward |
| Incidents, streak, breaker, supervisor (`observability/`) | incidents, in-memory streaks and marks | emit, register, resolve, count days | one-shot alerts, failed inserts, restarts | one incident per outage; heartbeat, preflight and counter agree with it |
| AI router (`ai/`) | usage table, threads | fallback chain under quotas | check, call, then log | overshoot bounded, every request answered |
| Cache and sources (`cache/store.py`, `sources/base.py`) | cache rows, token bucket, verdict of the probe | read-through, limit, retry | no single flight, cancelled waiters, each source answers the probe its own way | nothing stale is served, rate bounded |
| Message jobs (`telegram/jobs/`, `/watch`) | alerts, sent messages, processed news | price alerts, watchlist, news | one session per run, SQLite's single writer, restarts | what was sent is sent again only after a lost run |
| Backtest (`backtest/`) | position, trades | bar loop, fills, metrics, walk-forward | order of events inside a bar, fees in three places, rounding at every step | the ledger balances, fills and exits do not flatter, the report agrees with it |
| News reactor (`trading/news_reactor.py`) | reactions table | react, dedupe | the news service gives no item a sentiment | skips every item: nothing to check |
| Market data, other services, API, reports | none | read and show | | display only |

How they interact: *scan* writes signals and decisions and sends cards; a *click*
reads the latest decision, may take a new one, settles the signal and starts an
*executor task*; the task writes a trade and orders, talks to the exchange, calls
the *fill detector* and the *stop placer*; the *reconciler* compares the orders
table with the exchange's open orders and patches rows behind the executor's
back; the *expiry job* settles signals behind the click's back; `/stop`,
`/freeze`, `/panic`, `/wind_down` and `/go_live_confirm` write `trading_state`,
which only the gates read: not the click, and not the executor. The gates and the
sizer work on the *portfolio cache*; the scan's validator, `/ask` and the news
job share the *AI router*; all market data goes through the *cache* and each
source's limiter; the *supervisor* turns failed reconcile passes into incidents,
which the mode ladder and go-live read through the clean streak.

## Modules and the code they model

| Module | What it is |
|---|---|
| `OrderExecution` | the executor, exchange adapter, fill detector, stop placer, orders and trades tables, reconciler, and the exchange |
| `PanicExecution` | `/panic` composed with `OrderExecution` |
| `TradeContract` | abstract: what execution promises about a trade |
| `OrderExecutionInv`, `OrderExecutionProofs` | two inductive invariants; safety theorems, refinement theorem, theorems of the composition with a panic |
| `SignalApproval` | scan, validator outcome, gates, buttons, expiry job, kill switch |
| `SignalOutcome` | abstract: what approval promises about a signal |
| `SignalApprovalInv`, `SignalApprovalProofs` | inductive invariant; theorems and refinement |
| `OperatingModes` | mode ladder, go-live, wind-down, `/stop`, the kill windows of `/panic` and of the drawdown gate: every writer of `trading_state` |
| `OperatingModesInv`, `OperatingModesProofs` | two inductive invariants; theorems |
| `PortfolioState` | the cached snapshot of the account, under its lock |
| `RiskExposure` | gates, sizer and manager over `PortfolioState`, with signals evaluated, consumed and filled |
| `RiskExposureInv`, `RiskExposureProofs` | inductive invariant of both; theorems |
| `IncidentWatch` | reconcile passes and runs, supervisor, health marks, breakers, incidents, streak |
| `IncidentWatchInv`, `IncidentWatchProofs` | inductive invariant; theorems |
| `FillSimulator`, `BacktestReplay`, `BacktestReport` | fills as operators; the bar loop over them; metrics, equity and walk-forward over its trades |
| `BacktestInv`, `BacktestProofs` | inductive invariant of the bar loop; theorems about the replay and its report |
| `AiRouter`, `SourceCache`, `AlertJobs` | the services beside the trading path |
| `AiRouterInv`, `ServicesInv`, `ServicesProofs` | an inductive invariant for each of the three; theorems |
| `FiniteSums` | lemmas about `SumFunctionOnSet` and recursion up to a number, for the proofs of risk, services and backtest |
| `MC*` | instances for TLC; `MCServices` composes the last three, `MCOrderExecution` and `ClaimNews.cfg` hold the refuted statements |

The two systems meet in one place: `Spawn` of `SignalApproval` creates the task
whose first step is `Approve` of `OrderExecution`. `SignalOutcome` promises that
this happens at most once per signal and only after approval, which is what lets
`OrderExecution` run one task per signal.

**OrderExecution.** `pc[s]` is where the executor task of signal `s` is
suspended; each await of `_execute_inner` and of what it calls is an action of
its own:

| Steps of `pc` | Code |
|---|---|
| `add_trade` | `TradeRepository.add` (`AddTrade`) |
| `create`, `submit`, `record` | `CCXTTrader.create_order`: seatbelt and `add_or_get` (`AddOrGet`, `SubmitGated`), the call (`Submit`), the row after it (`Record`). `call[s]` says whether it is the entry or a stop |
| `wait`, `poll`, `poll_write`, `refresh` | `FillDetector.wait_for_fill` (`BeginWait`, `Poll`, `PollWrite`, `Refresh`, `PollTimeout`) |
| `stop_get`, `stop_failed` | `NativeStopPlacer.place_stop_after_fill` (`BeginStop`, `Returned`/`Raised`, `StopFailed`) |
| `link`, `open`, `notify`, `fail`, `fail_alert` | the rest of `_execute_inner` and `_fail` |
| `lost` | the task died in a crash |

Orders are named `<<signal, kind>>`, because `derive_client_order_id` gives each
of them one client id. Database errors are actions too, one for each way the
code reacts: uncaught and abandoned by `execute()`, caught and failed, or swallowed.
A reconcile pass fetches (`FetchExchange`, per-symbol failures included), reads
the table and diffs (`DiffOrders`), patches row after row (`PatchOrphan`), and ends;
it may also fail as a whole before it has a diff (`PassFails`). `gate` is the triple
seatbelt: a process reads it from its settings once, and the restart in `Crash` may
find another one, with the orders of the last process still at the exchange; behind
it the feed of a pass is empty, and without credentials a pass cannot begin.
The exchange accepts each client id once and refuses a second order under it,
fills orders unit by unit, and cancels, expires or rejects them whenever it likes;
its answers to `create_order` may be lost.

**SignalApproval.** `bot` is where the Telegram update being handled is
suspended: `ScanSteps` are `scanner_to_signals_job` for one signal after the
other (`todo`), `OkSteps` are `_consume_signal`, `cancel` is `_cancel_signal`.
The expiry job (`cand`), the clock and crashes interleave with it. `latest[s]` is
the newest risk decision of the signal, `draft` the one in the handler's hands.
An evaluation is one step over the three gates that read shared state (kill
switch, cap of consumed signals, hourly rate); what all other gates and the sizer
decide is a free choice, so a decision may always be a rejection. `used[s]`
records, at the consumption, when its decision was taken and when its click began
to be handled; `stoppedAt` when trading was last disabled. Only properties and,
for the rate gate, the event time `used[s].at` use them.

**OperatingModes.** `enabled`, `mode` and `killedUntil` are the row of
`trading_state`; `log`, `pendings` and `windDown` are the tables
`mode_transitions`, `go_live_pendings` and `wind_down_state`. An operation is a
series of transactions, and `job` says which comes next: `Move` writes the mode
and leaves the audit row to `AddRow`; an accepted code (`Verify`) goes on to
`Enable` and `MarkConfirmed`; `StartWindDown` inserts its row, then `Disable`,
then `Complete`. `Abort` ends an operation where it is, for the exception and the
crash alike. Updates are handled one at a time, and `/scan` and the approval
buttons evaluate the gates inside an update, so two operations never interleave and a
new one needs `job = Idle`; the clock, trades and incidents do not wait.

| Actions | Code |
|---|---|
| `SetMode`, `ForceMode` with `MayTransition`, `ForcesInWindow`, then `Move`, `AddRow` | `/mode`, `/mode_force`: `ModeService.transition_to`, `check_transition_allowed`, `list_forces_in_window` |
| `Initiate`, `Email` | `GoLiveFlow.initiate`; `Preflight` is its verdict |
| `Refuse`, `Verify`, `Enable`, `MarkConfirmed` | `GoLiveFlow.confirm` |
| `StartWindDown`, `Disable`, `Complete` | `WindDownService.start` |
| `Panic`, `Breach`, `Stop` | the last phase of `execute_panic`, `DailyDrawdownGate.check`, `/stop` and `/freeze` |

What the guards compute is written as what it means: `StayedFor(m, d)` that
`days_in_current_mode` reaches `d`, `ClosedIn(m)` the trades that
`closed_trades_in_mode` counts over its windows, `LatestPending(a)` the row that
`confirm` selects. `since`, `lastForce`, `inPaper`, `promised`, `lost` and
`excused` are history: the code has no such fields and no action reads them,
except that `NoMoveNow` and `NoCloseNow` keep a trade from closing in the very
instant of a change of mode, which the code's microseconds make as good as
impossible and ticks do not. `CloseTrade` is external: no code under
`src/` marks a trade closed, although the guards count closed trades.

**PanicExecution.** `execute_panic` is five actions: `ListOrders`, `CancelListed`
for each, `ListTrades`, `CloseListed` for each, `FlipKillSwitch`; every step of
`OrderExecution` may fall between any two. `cancelled`, `closed` and the sets of
errors are the report the operator is shown. The adapter answers both calls behind the
seatbelt without the exchange (`AdapterConfirms`) and raises past it. A crash is
`OrderExecution`'s, and takes the panic with it; a panic after a restart with the
seatbelt on is told that orders of the process before are cancelled which are not.

**PortfolioState, RiskExposure.** `queue` is the FIFO of the asyncio lock and
`phase[c]` where a caller is: `Ask`, `Serve` from a fresh cache, or `ReadBalance`
and `ReadPositions`, the two calls of a fetch. When the first fails (`FetchFails`) the cache
stays as it is; when the second does (`LosePositions`) the adapter answers with no
positions, and a snapshot without any replaces it. `from`
and `at` of a snapshot are when its balance was read and when it was completed. `Begin`
asks for a snapshot on behalf of a scan or of a click; with it there, the gates
and the sizer are one step (`BreachTheDay`, `Reject`, `Approve`), because the bot
handles one update at a time and their reads are of its own database. `SizeOf` is
`PositionSizer.size`, `Capped` its caps in order, `Exposure` what both exposure
gates add up. What consumption and filling are in detail is `SignalApproval`'s
and `OrderExecution`'s; here they move money.

**IncidentWatch.** A pass of the job is `StartPass` (the tick), `RunPass` (what
becomes of it, and the row it leaves), `Feed` (health mark, then `record_run`) and
`EmitFailure`; `OperatorPass` is `/reconcile`, which leaves a row and tells
nobody. `check` is a `check_prolonged` in progress, one action per breaker and
one per awaited insert. `Resets` is what a row contributes to
`_find_last_reset_at`; `HeartbeatOk` and `ReconcileClean` are what `/heartbeat`
and preflight answer. `booted` is history: `counter` starts at zero with the process.

**FillSimulator, BacktestReplay, BacktestReport.** Prices, sizes and
fees are whole quanta of `1/Unit` (eight decimals in the code, halves in the run),
rounded half-even where the code quantizes (`Rounded`): sizes, fills, fees, impact,
results, metrics. In between the code has 28 digits and the model exact quotients. A bar is drawn when the
loop first looks at it, as the successor of the one before: what happens on a bar
cannot depend on later ones unless the code makes it. Whether a strategy fires
is free. `BacktestReport` translates the pure functions (`metrics.py`,
`equity.py`, `walk_forward.py`) over the trades of a finished replay; `BestParams` starts from
`LeastMetric` and finds nothing when nothing is better, `Stability` averages over the
numeric parameters of a grid, `Root` is the square root of `_decimal_sqrt` to `1/Precision`.

**AiRouter.** `call[r]` is the position of request `r` in the fallback chain and what
it awaits: the gate (`Skip`, `Try`), a thread for Gemini's synchronous client, the
reply, the log row. `AskTimesOut` cancels `/ask` at any of them and leaves Gemini's
thread running (`orphans`). A completion may come to several HTTP requests, because
the SDK's clients keep their default retries (`Sends`): `issued` counts the first,
`requested` the second.

**SourceCache.** One source: `Get`, `DropExpired`, `Set` are the store's
transactions, `queue`, `tokens` and `refilled` the limiter, `Load` the call with its
retries, `LogSourceCall` the row of the call. Times are kept as ages, so that the state
space is finite without a horizon. The probe runs once, and `health` says how the source
answers it (`HealthKinds`): like any caller (ccxt, yfinance, finnhub, fred, rss), with a
request past cache and limiter (`ProbeDirectly`, `Pinged`: CoinGecko), or without asking
anybody (`ProbeAsksNobody`: always yes for TradingView, no for finnhub and fred without a key).

**AlertJobs.** A run of a job is one database session: the first flush takes
SQLite's write lock (`writer`), the commit at its end releases it, and everything
that fails or waits too long in between (`PriceCommitFails`, `WatchFails`,
`NewsFails`, `NewsAborts`, `ModelRaises`, `Restart`) rolls it back, messages already sent
notwithstanding. `last` and `asked` remember what became of the run that sent or
classified last.

**MCServices.** The three share no state, so a behaviour follows one `part`: the
router, the source, or two jobs that compete for the lock ("alerts and news",
without the passing of days; "watchlist and news", without restarts; both with one
url), or the news job alone with every url.

## What the runs check

| Run | Shows |
|---|---|
| `exec_safety` | an open trade has a filled entry and a stop of that size at the exchange (`OpenTradeIsProtected`); rows never claim more than the exchange did (`LedgerAgrees`); at most one live stop without database errors (`AtMostOneLiveStop`); a client id is resent at most once per database error (`ResentOnlyAfterFault`); an executor that ends without cover has failed the trade and alerted (`UncoveredFillIsReported`); a panic confirms only behind the seatbelt, its report is true within the life of a process, and trading is off after it, whatever executor and exchange did between its steps (`PanicIsHonest`); final rows are only corrected (`RewritesOnlyCorrect`); refinement of `TradeContract` |
| `exec_liveness` | with two overlapping passes: the inductive invariant; pending trades are decided unless the process crashed or the database failed (`PendingResolves`); submitted rows converge even after a crash and failed passes, unless the process has come back without credentials (`SubmittedRowsConverge`) |
| `approval_safety` | a card is sent and a signal consumed only with an approving decision on record and no rejection by the AI, though the write of `ai_rejected` fails; a crashed validator counts as an approval (`OfferedIsVetted`); each consumption rests on a decision within the caps of its time; clicks outrun a `/stop` by at most the five-minute limit; one outcome and one task per signal (refinement of `SignalOutcome`) |
| `approval_liveness` | the expiry job ends every pending signal, also after a scan that died; an approved signal reaches the executor unless something failed; the rate of one binds |
| `modes_ladder` | without force no rung is skipped and none left before the stay its guard names, forces are a window apart; paper is left only with enough trades closed in paper, over bounced stays; each unless an audit row was lost, which the run lets happen |
| `modes_switch` | trading is enabled only by a code confirmed in its time, in live mode; a panic keeps the kill switch closed for its days whatever go-lives, breaches, stops and aborts follow; the inductive invariant, and with it that an uncut wind-down keeps entries disabled until a go-live |
| `risk_exposure` | what the sizer says is within every cap of its snapshot and at most half as much again is recorded (`SizeWithinLimits`); what was executed before of a ticker or group was below its cap at each approval, however stale the snapshot (`EveryApprovalSawHeadroom`); after a seen breach nothing is approved that day (`BreachEndsTheDay`); the cache moves forward in time, in content as in stamp, and is never emptied, though it may lose its positions (`CacheNeverGoesBack`) |
| `incidents` | `OutagesAreTold`: one incident per outage, never early and retried after a failed insert, which stops the heartbeat and, with the exceptions it names, preflight, and a counter equal to the rows; an opening of a breaker is told once (`OneIncidentPerOpening`); the clean streak is never given back days (`ResetNeverMovesBack`) |
| `backtest` | the ledger balances to the fee and its rounding, and a trade is entered after the one before it was closed (`LedgerIsSound`); no fill beats the price of its order, nor, but for a stop jumped by a gap, the prices of its bar (`FillsNeverBeatTheirOrder`); a bar that touches both sides is a stop, and what is closed unscored at the end of the data was filled on the last bar if that reached a level (`ExitIsPessimistic`); drawdown, metrics, histogram, equity curve, walk-forward slices, choice and verdict against their definitions (`ReportAgrees`) |
| `services` | router: the day's completions pass the gate by at most one per other request and the unlogged ones, and its HTTP requests by what the SDK may resend of each (`OvershootIsBounded`), every request ends (`EveryRequestIsAnswered`); source: nothing older than its lifetime and its awaits is served, and a source shown reachable had answered, except the one that says so without asking (`ServedIsRecent`), at most twice `max_calls` in a period (`RateIsBounded`); jobs: an alert that fired was delivered (`AlertEndsDelivered`), a message is repeated only after a lost run (`RepeatsNeedALostRun`), a due alert is sent (`EveryDueAlertIsSent`) |
| `claim_retries_send`, `claim_news` | [section 8](#what-the-code-does-that-its-documentation-does-not-say) |

Each property has a mutant in `PROJECT.json`: a plausible slip in one mapped
definition (a dropped `expected_from_status`, an off-by-one cap, a retry that
resends) that makes TLC find the property violated under the same run.

## Bounds

- `exec_safety`: one signal, because tasks of different signals share no row and
  no order; they meet only in a pass and in a panic, which treat rows one by one. Entry of two units, so that a
  partial fill exists; three attempts as in the code, so that an attempt after a
  fallback and an exhausted budget exist; two polls (a poll that sees nothing and
  one that does); one database error, one crash, one panic, one pass. 2.0 million states.
- `exec_liveness`: two passes, the job's and `/reconcile`, one unit, two attempts
  and one poll: a poll that fails or sees nothing is already a timeout. 0.3 million states.
- `approval_safety`: two signals and a cap of one, so that the cap can bind and
  be outrun; staleness and window of one tick against a horizon of three, so that
  decisions are fresh, on the edge and stale; one fault, one crash. 2.6 million states.
- `approval_liveness`: the rate is one and the cap two, the other way round.
- `modes_ladder`: two operators, so that one's force does not count for the
  other; four rows, which is two stays in one mode with another between, or a
  climb from off to live; stays of one tick and a window of two against four ticks; one
  trade, one lost row, one incident. 2.6 million states.
- `modes_switch`: one operator (rows of different operators never meet), two
  codes, so that a second hides the first; two changes of mode; two of wind-down, panic and
  breach, so that each can follow each; one abort. Days of two ticks, five ticks,
  so that a midnight falls inside a panic. 2.5 million states.
- `risk_exposure`: two signals, so that one is consumed between the other's
  evaluation and its click; two tickers in two overlapping groups; proposals that the sizer cuts,
  leaves alone, or finds too small once they are reduced; a day longer than the horizon,
  so that a breach and what follows are of one day. 0.9 million states.
- `incidents`: two breakers, because a check has one in hand while another
  changes; two rows, for one outage told and another, or one outage told twice; two failed inserts, which is
  what it takes for the errors of an outage to leave no row; outages of two periods in a horizon of
  three, one restart. Breakers and passes share only the table, so a behaviour
  has one of the two (`OneWatcher`); so with the operator's passes and incidents.
  4 million states.
- `backtest`: five kinds of bar (flat, rising, both sides touched, a gap through the
  stop, a row that is no price) in every sequence of three bars of one ticker and one of the next,
  with two stop distances and both simulators; metrics and windows are compared on every
  finished run, the walk-forward choice on every three metrics below, at and above its
  start, the verdict on every grid of two parameters, numbers or texts, over up to three
  windows. A quantum is a half, so that most prices and fees are rounded.
- `services`: requests of both kinds with one thread, gates at one call and one
  midnight, each completion resent at most once; two callers of one key, one token per period of two, lifetimes of one;
  two alerts, prices at and off the target, snapshots at the edge of both thresholds, two
  urls, one fault. `claim_news` allows none.

The constants named `Max...` and `Horizon`, `Midnights`, `Scores`, `Params`, `Picks` and `Precision` are the only bounds that the code does not have
(`MaxPolls`, `MaxCalls`, `MaxRetries` and the cap of signals are the code's own);
they appear as guards of the actions that count against them. A scan only
starts when its signals can expire before the horizon, so that the end of time does
not look like a failure to expire. The theorems hold for every value of all constants.

## Fairness

`FairSpec` of `OrderExecution`: weak fairness for each executor task (the event
loop resumes a task whose await is done; every call has a timeout) and for each
reconcile pass (the scheduler starts one every five minutes), and strong fairness for
its `DiffOrders`: passes may fail, also many in a row, but not every one for ever. `FairSpec` of
`SignalApproval`: weak fairness for the update being handled, for the expiry job
and for the clock. `MCServices`: weak fairness for every request of the router
(each await of the chain has a timeout of its own; threads of Gemini's client need
never end) and for the price job (its interval trigger); strong fairness for the
two free outcomes on which a due alert depends, that its ticker's price can be had
and that its message arrives, each of which must happen again and again but not
every time. Operators, the exchange, database errors, crashes and markets
get none: nothing has to be clicked, filled or to fail. `OperatingModes`,
`RiskExposure`, `IncidentWatch`, `SourceCache` and `BacktestReplay` have no
liveness: a command cut short is not resumed, a loader may hang for as long as its
caller lets it, and a replay is a loop over finite data. The models let the system stop, so deadlock is not checked
where a behaviour legitimately ends.

## What is proved

Every safety and action property of the passing runs is a
theorem: it holds for every set of signals, passes, callers, alerts and bars, and for all
values of the limits. The assumptions are those on the constants that the modules
name (types, finiteness of the sets that are counted, and what the code says of its
own settings, such as that the tickers of a feed, the keys of a dict, are distinct), and one more:
`OutagesToldRight` assumes `HeartbeatAge < Threshold`. It is so by default (600 seconds
against 30 minutes), but `config.py:128-130` lets the age go up to 3600 seconds; beyond the
threshold an outage may be reported while the heartbeat still answers.

| Theorem | Statement |
|---|---|
| `TypeCorrect`, `Inductive` | `Spec => []TypeOK`, `Spec => []IInv` |
| `OpenTradesAreProtected` | `[]OpenTradeIsProtected` |
| `LedgerAlwaysAgrees` | `[]LedgerAgrees` |
| `StopsFollowFills` | `[]StopOnlyAfterFill` |
| `CountInductive` | `Spec => [](IInv /\ CountInv)` |
| `OneStopAtMost` | `[]AtMostOneLiveStop` |
| `SendsAreAccounted` | `[]ResentOnlyAfterFault` |
| `UncoveredFillsAreReported` | `[]UncoveredFillIsReported` |
| `RewritesAreCorrect` | the action property `RewritesOnlyCorrect` |
| `ImplementsContract` | `Spec => RefinesContract` |
| `PanicInductive`, `PanicsAreHonest` | `PanicSpec => []PanicInv`, `PanicSpec => []PanicIsHonest` |
| `ApprovalTypeCorrect`, `ApprovalInductive` | `Spec => []TypeOK`, `Spec => []ApprovalInv` |
| `OfferedAreVetted` | the action property `OfferedIsVetted` |
| `CapsHold` | `[]CapsHeldAtDecision` |
| `LateApprovalsRefused` | `[]LateApprovalRefused` |
| `ImplementsOutcome` | `Spec => RefinesOutcome` |
| `OperatingTypeCorrect`, `OperatingInductive` | `Spec => []TypeOK`, `Spec => []OperatingInv` |
| `PanicsHold`, `WindDownsHold` | `[]PanicHolds`, `[]WindDownHolds` |
| `LadderIsRespected`, `ForcesAreFarApart` | the action properties `LadderRespected`, `ForcesAreRare` |
| `PaperMustBeEarned` | the action property `PaperIsEarned` |
| `OnlyCodesEnable` | the action property `EnabledByCode` |
| `RiskInductive` | `Spec => []RiskInv` |
| `SizesWithinLimits` | `[]SizeWithinLimits` |
| `ApprovalsSawHeadroom` | `[]EveryApprovalSawHeadroom` |
| `BreachesEndTheDay`, `CachesNeverGoBack` | the action properties `BreachEndsTheDay`, `CacheNeverGoesBack` |
| `WatchInductive` | `Spec => []WatchInv` |
| `OutagesToldRight` | `HeartbeatAge < Threshold` implies `Spec => []OutagesAreTold` |
| `OpeningsToldOnce` | `[]OneIncidentPerOpening` |
| `ResetsNeverMoveBack` | the action property `ResetNeverMovesBack` |
| `OvershootBounded` | `RouterSpec => []OvershootIsBounded` |
| `SourceInductive`, `ServedInTime`, `RateStaysBounded` | `[]SourceInv`, `[]ServedIsRecent`, `[]RateIsBounded` |
| `JobsInductive` | `[]JobsInv` |
| `AlertsEndDelivered`, `RepeatsFollowLostRuns` | `[]AlertEndsDelivered`, the action property `RepeatsNeedALostRun` |
| `ReplayInductive` | `Spec => []ReplayInv` |
| `LedgersAreSound`, `FillsKeepToTheirOrder` | `[]LedgerIsSound`, `[]FillsNeverBeatTheirOrder` |
| `ExitsArePessimistic` | the action property `ExitIsPessimistic` |
| `ReportsAgree` | `ReportAgrees`: the report of every ledger that a replay can produce |

*Execution.* None of the properties is inductive alone: that a trade about to be
opened has its stop depends on what the task knew when it left the placer, which
depends on the amount the detector read, which depends on what a poll that a
reconcile pass may have overtaken can still see. `IInv` says this step by step:
`OrderSound` relates each row to the exchange's order, `FillSound` what is known
before and after the fill, `StepSound` what each suspended step relies on,
`CoverSound` what opening relies on. The proof has one lemma per action;
`OneOrder`, `OneTask` and `NoTask` say that a step that touches one order or one
task only has to be looked at there.

Three properties say how often something was sent or failed, and `IInv` knows no
history. `CountInv` adds it, relative to `IInv`. `SendSound`: an order is sent
from a created row only, so every send but the one about to be recorded that left
the row created was hidden by a fault. `FallbackSound`: without faults a refused
order was never sent before, so the refusal means that the exchange does not have
it, and the fallback starts from there. `ReportSound` says what a task that gives up
has told by then. The lemmas speak of `Forward`, which is what every step but a send
does to an order.

*Panic.* A panic shares the database's errors with the execution layer, so a
behaviour of `PanicSpec` is not one of `Spec`, and the invariants are proved again for
the composition: a step of the panic leaves the layer alone or adds a fault, and both
invariants stand that (`LayerKept`). The adapter confirms only behind the seatbelt
(`Confirmed`); within one process the seatbelt does not change (`GateFixed`), so that nothing was
sent past it (`NothingSent`) and what is reported cancelled never rested anywhere. A
restart ends that argument, which is why the property stops there.

*Approval.* `CapsHeldAtDecision` speaks of a decision at the moment of a
consumption that may come much later, so the invariant has to carry it for every
decision still in someone's hands: the one in memory and the latest one of each
signal (`Held`, `DecisionSound`). What makes it stable is that the past is fixed:
a consumption at the present time adds nothing before a time that has come
(`WithinKept`), while `GatesHoldCaps` shows that what the gates count covers what
`WithinCaps` counts. `LateApprovalRefused` needs that a click judges a decision at
most `StaleAfter` older than its beginning (`ClickSound`) and that an approving
decision was taken while trading was enabled (`DecisionSound`). `StructureStep` carries the handler's own
bookkeeping; the refinement follows from `RowStep`, the three things a step can do
to a row.

*Modes.* The guards read the audit rows while the properties speak of the mode, so
the invariant ties the two: unless a row was lost, the last row is the current
mode's entry, at the time it was entered (`AuditSound`), and every operator's last
force has its row (`ForcesSound`); both have to say the same of a row about to be
written. The latest row into the current mode is then the last one, so what
`days_in_current_mode` counts is the latest stay. `CodeSound` carries what
`confirm` established about a code over the transactions that follow it. That a
panic holds is `promised <= killedUntil`: the breach that would shorten the window
needs an open kill switch, so it comes after the promise.
`PaperIsEarned` compares a count of the trades closed in paper with a set that the
guard computes from the windows between rows. `TradesInv` counts the trades
in the windows, with the row of a change under way taken as written (`InPaperWindow`):
a new row shortens the last window and admits no trade, and a trade that closes now is
past every window but the last, which is the current mode's.

*Router.* What bounds the calls of a day is not in the counters themselves: the gate
reads the rows, and between it and the row a request may wait for a thread, for the
answer and for the log. `RouterInv` therefore counts requests by where they are.
`CountSound` says that the calls issued, with those that wait for a thread and can no
longer be called back, are at most the rows, the attempts whose row was lost, and
the requests past the gate. The request that passes the gate is not past it yet,
so at that moment there are at most `N - 1` others and the rows are below the gate's
limit; that gives the second half of `CountSound`, which is the property. Midnight
empties the rows and keeps those on their way. `ThreadsSound` says that
replies awaited from Gemini and threads left behind together fit the pool. `RequestsSound`, kept
beside it, says that the HTTP requests are at most `Sends` for each completion.

*Risk.* `EveryApprovalSawHeadroom` speaks of a consumption that may come long after its
decision, so `RiskInv` carries it for the latest decision of every signal and for the one
each was executed under (`DecisionsSound`). What makes it stable is `UsedSound`: a signal
that is evaluated again is evaluated later, so a decision that is no longer on record
never returns there, and the set that the property counts can only lose members; sums of
amounts are monotone in that set (`SumSubset`). `SizeWithinLimits` is the arithmetic
of the sizer, with the divisions that round down (`Capped`, `SizeOf`), for all money
and prices. That the cache goes forward is `PortfolioSound`: whoever is between the
two calls of a fetch holds the lock, so nothing newer is stored before it, and what
replaces the cache is read later, with its positions or without.

*Incidents.* A reported outage, a row and the supervisor's flag have to agree whatever
insert fails and whatever restart forgets. `OutageSound` counts the rows of the process about
the streak under way; `RowSound` says that each was stored a threshold after the streak
began, so the next streak is about a time of its own; `RunSound` says which clean
runs can be on record during a streak, which is where the exceptions of
`OutagesAreTold` come from. `BreakersSound` looks at the insert that a check awaits while
the breaker it is about is closed and opened again: an opening with an incident is
marked as told, unless the breaker has opened again since.

*Source.* Ages are carried from await to await (`CarriedSound`): what a caller brings to the
store is at most the lag old, what a row gains in age it loses of its time to live, and what
is served adds the lag of the last read. `RateSound` says for each `t` that the loads let
through in the last `t` periods of a token, and what is left in the bucket, are covered by a
full bucket and `t` refills: the property follows from the last instance. Passing time shifts
the sum (`SumShifted`).

*Alert jobs.* `PriceSound`, `WatchSound` and `NewsSound` tie what was sent in an open session to
that session's own list, and what a run still has to send to what nobody was told.
A commit makes all of the list committed at once, a rollback all of it lost, so a
message can only be repeated past one of the two; that nobody else's commit comes between is `LockSound`.

*Backtest.* The ledger is in order because of the bar at which each trade was closed:
`LedgerSound` relates it to the bar in hand, to whether that bar was scored, and to the
bar at which the open position was filled, the two meeting on the last bar only.
`CashSound` is the balance with a position open, when its cost is spent and not yet in any
trade, to within half a quantum for each trade (`TradeFacts`, `CloseCash`). That the current ticker has no earlier trades when it begins needs
that no ticker comes twice. The proof of `FillsKeepToTheirOrder` is arithmetic: what lies at,
above or below a whole number of quanta is still there when it is rounded (`RoundedKeeps`),
so rounding never undoes a slip. A stop jumped by a gap is no exception to that: it slips
from its own price, which is all the property holds it to.

*Report.* `ReportsAgree` takes from `ReplayInv` that the ledger is one of integers in which
the trades of a ticker are in order; the rest is about the functions themselves. Those that
the code writes as loops are recursive functions here (`Drawdown`, `BestParams`,
`EquityCurve`), and each proof has the loop invariant the code relies on: `Tracked` (the
equity, its peak and its deepest fall so far), the first of the greatest metrics so far
above the start of the search (`SearchFindsFirst`), and that the trades counted are those that
closed by the sample (`TallyInOrder`). That a robust verdict bounds each window's value is Chebyshev's
argument: one squared distance from the mean is no more than all of them
(`WithinDeviation`), and their sum is the variance because sums are linear. The verdict
is of an average: one coefficient is at most the sum of all (`RobustMeans`), which is where
the number of parameters in the bound comes from, and an average above a half has a member
above it (`SumOfHalves`, `FragileMeans`). The lemmas hold for any number of windows, parameters
and combinations; the property looks at three windows and three combinations.

*Sums.* `SumFunctionOnSet` chooses its elements in an order nobody knows.
`FiniteSums` proves by well-founded induction over the subsets of a finite set, in
first-order form (`SubsetInduction`: no subset is a minimal counterexample), that the
recursion that defines it exists, that any element may be taken out first, and that
it is monotone, extensional, linear, additive over disjoint sets and over the parts of a
set, and stable under a shift of indices. `UpTo` and `Recursion` are induction and recursion
up to a number in the same form: the library's own theorems take an operator as a parameter,
which the provers cannot instantiate.

Only model-checked: the liveness properties (`PendingResolves`,
`SubmittedRowsConverge`, `PendingEnds`, `ApprovedIsExecuted`, `EveryRequestIsAnswered`,
`EveryDueAlertIsSent`): fairness and ENABLED are outside what TLAPS handles.

## What the code does that its documentation does not say

Two are runs that end in a counterexample, and findings in `PROJECT.json`:

- `claim_retries_send`: attempts two and three of the placer get the failed row of
  attempt one and never reach the exchange, because the attempt number is not part
  of the client id.
- `claim_news`: a url can be processed twice, without any failure from outside: the
  news run's own flush locks the database against the log row of its next model
  call, that call raises after 30 seconds, the run is rolled back, and the next one
  classifies and sends again what users have already had.

The others were seen while modelling and are part of the models.

*Execution.* A reconcile pass always writes `cancelled`: the exchange's status
is looked up in the list of open orders, where it never is. When the stop cannot
be placed nobody closes the entry. A feed
fetched before a submission makes a live row look orphaned, and it is patched;
the detector rewrites rows that are already final; a 5xx answer is recorded as
rejected and ends the placement at once; a
database error after the fill leaves the trade pending for ever; the reconciler
reports an order as unknown although its row exists with another status; nothing in
the program ever closes a trade, so the daily-drawdown gate and the climb out of
PAPER see no closed trades, and consumed signals count against the cap for ever.
Panic's cancels and closes are confirmed without reaching the exchange while the
seatbelt is on (`ccxt_trader.py:361-400`), and raise `NotImplementedError` when it is off: after a
restart with trading disabled or dry-run, the report that shows "exactly what landed"
(`panic.py:20-21`) lists as cancelled (`panic.py:95-107`) orders of the process before that rest at the exchange.
`PanicIsHonest` states what remains: such a report takes a restart. After the same
restart every reconcile pass has an empty feed and closes the rows of those orders as cancelled.

*Approval.* An exception in the validator is logged as "treating as ai_rejected"
(`notify.py:135-138`; `ai_validator.py:17-20` names that as the default policy), but the code goes on to
the risk gates and the card as after an approval, without a size modifier: `OfferedIsVetted`
admits the verdict `crash` for that reason; a re-evaluation forgets the AI's size modifier; a second click
five minutes later re-evaluates a consumed signal and leaves it a rejected
decision, whose amount no longer counts as exposure; approval does
not look at `expires_at`, only at whether the job has come by; after `/freeze` a
card with a fresh decision still opens a position (`emergency.py:74-76` says new ones
are paused), and cards offered below the "hard cap" can all be approved, because
kill switch and cap are read at the decision only: `LateApprovalRefused` and
`CapsHeldAtDecision` state what remains.

*Modes.* The mode and its audit row are two transactions, not one; when the
second is lost, the climb out of the mode counts from an earlier stay.
`paper_validation` counts days since the last entry into
PAPER, also after PAPER was left (`preflight.py:48-49` means days in PAPER); a wind-down whose
second transaction fails leaves entries enabled and refuses the next wind-down as
already in progress; a go-live whose enabled flip fails leaves the mode live, and its
code then meets `no_op_transition`, as does any go-live after a `/stop` in LIVE:
trading is enabled again only after the mode was changed away; one force upwards and
a regression with a reason reach any rung below without a day on it; a panic's window ends at
the midnight that begins the seventh day after the panic's, six full days, where its header
announces next midnight plus seven days; with no trade ever closed, the way to
SEMI_AUTO and every go-live is shut.

*Risk.* The exposure of a ticker can exceed its cap: the manager passes the sizer no
existing exposure (`manager.py:110`), and a scan multiplies the capped size by up
to 1.5 (`notify.py:178`), while `config.py:98-99` says the sum must stay below; a modifier of
zero gives an approved decision of amount zero; a filled signal counts twice, as a
position and as a consumed signal; a positions call that fails is answered as no positions
(`ccxt_trader.py:423-431`), and a snapshot in which nothing is held replaces the cache; a snapshot may hold a balance and positions that
were never true together; past its time to live a snapshot that cannot be refreshed
raises, and the last good one is not used.

*Incidents.* No incident comes out of a reconcile pass: the drift compares the
equity with itself, and orphans lack the flag that would make them one. Nothing in the
program opens a breaker or runs `check_prolonged`, so that `OneIncidentPerOpening` is about what
the registry promises to a caller it does not have yet. An operator's `/reconcile` that succeeds lets
preflight pass in the middle of a reported outage.

*Services.* "Every attempt is logged" (`router.py:8-9`) fails when `/ask` times out
and when a reply has no choices; the clients of groq, nvidia and openrouter are built without
`max_retries` (`groq_provider.py:47`, `nvidia_provider.py:52`, `openrouter_provider.py:42`), so what the
quota counts as one call may be several requests; a plan with null tickers is an HTTP 500. `max_calls` is called the
upper bound (`base.py:63-64`): the bucket lets twice as many through in a period,
and retries take no token; only `TimeoutError` and `ConnectionError` are retried, and the branch for `RetryError` is
dead. The source probe's job is added paused (`next_run_time=None`), so `/health` shows for ever what the one probe at
startup found, where `scheduler.py:68` says every five minutes; that probe may be
answered from the cache. TradingView's `health` is `True` without a call
(`tradingview_ta.py:131-133`), so `/health` never shows it down; CoinGecko's asks `/ping` past cache and
limiter (`coingecko.py:94-98`). The RSS cache key leaves out the limit (`rss.py:60`). The
watchlist's "> 5 %" is 5 % or more; a message that could not be sent is recorded as sent
(`watchlist_monitor.py:155`, `news_monitor.py:176`); long runs hold the write lock
across their sends.

*Backtest.* A market entry on the last bar fills at that bar's own open, before the
close it was decided on, and is closed at that bar's close although the bar may have been
through its stop (`engine.py:253-275`); a gap through a stop fills it near the stop's price, better
than anything the bar traded at (`fill_simulator.py:345-355`), and exits at that price in the engine too; the exit's
fee is 0.001 whatever `fee_pct` says (`engine.py:343`); the equity "with fees" subtracts fees
that the results have already paid; trades of several tickers are not in the order
of their exits, which the curve and the drawdown take for granted; a walk-forward step of zero
never ends, a grid whose every metric is -10^9 or less ends in an assertion
(`walk_forward.py:140-146`), a parameter whose mean is zero counts as stable however it varies, the
average over parameters lets one drift among many that do not, and
a boolean one, "ignored" by its docstring, is an `int` to `isinstance` and ends in
`InvalidOperation`.

## What is not modelled

Listed with the reasons in `PROJECT.json` (`components`). In short: HTTP clients,
formatting, charts, metrics and reports have no state that anything depends on;
prompts and JSON parsing are reduced to their outcomes; indicators and the
Sharpe and Sortino ratios are numeric. The news reactor is left out because in this program it
never gets past its first condition. Inside the modelled parts: a wind-down's
`tick`, which nothing schedules; the preflight checks
of scheduler, keys and gates, taken to pass; backoff and poll
delays (they only delay); event rows written with a status, which nothing reads; decision
version numbers (updates are handled one at a time, so two appends for a
signal never overlap); the pictures and tables of reports and backtests; truth values among
the parameters of a grid; the 29th digit of the backtester's decimals, and that thirty steps of
`_decimal_sqrt` do not converge for variances of more than some fifteen orders of magnitude from
one; the age of the scheduler's tick in `/heartbeat` and an incident counter whose
increment fails (`emitter.py:9-11`); which answer of the RSS feeds counts as
none, which makes its probe fail (a failed probe is there).

Execution, risk and modes are modelled apart and meet in what they promise each
other: `SignalOutcome` (one task per signal), the decision a consumption rests on,
and `trading_state`. A single module of all of them would be out of TLC's reach.

## Plan

Every module of the plan is written: execution with its panic, approval, modes, risk,
observability, services, backtest. What could follow, in this order:

1. the mode ladder as an abstract specification that `OperatingModes` refines;
2. the news reactor, when the news service gives its items a sentiment, and the
   closing of trades, when something closes them: both change what the gates see.
