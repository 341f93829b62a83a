---------------------------- MODULE RiskExposure ----------------------------
(***************************************************************************)
(* How much a signal may be traded for: the exposure, correlation and      *)
(* drawdown gates (trading/risk/gates), the position sizer                 *)
(* (trading/sizing.py) and the chain that runs them                        *)
(* (trading/risk/manager.py), over the cached snapshot of PortfolioState   *)
(* and the signals consumed so far.  An evaluation uses a snapshot that    *)
(* may be Ttl old, torn, or without the positions of a call that failed,   *)
(* and a decision is acted upon for StaleAfter ticks: signals of one       *)
(* ticker evaluated in one scan do not see each other.                     *)
(*                                                                         *)
(* The bot handles one update after another, so the gates' own reads of    *)
(* the database and the sizer are one step after the snapshot is there.    *)
(* The rest of the approval flow is SignalApproval's; here a signal is     *)
(* evaluated, consumed and filled.                                         *)
(***************************************************************************)
EXTENDS PortfolioState

CONSTANTS
  Bot,          \* the caller that evaluates signals
  Proposals,    \* what a signal may propose: ticker, entry, distance, confidence
  MaxSignals,   \* bound: signals produced
  Groups,       \* config/correlation_groups.yaml
  RiskPct,      \* settings.risk_per_trade_pct, in hundredths; so the others
  TickerPct,    \* settings.max_exposure_per_ticker_pct
  PositionPct,  \* settings.max_position_pct
  DrawdownPct,  \* trading_state.daily_dd_max_pct
  ModifierPct,  \* settings.live_first_30_days_sizing_modifier
  MinNotional,  \* settings.min_notional_quote
  AiModifiers,  \* size modifiers of the AI validator, in hundredths; 100 is none
  UseAi,        \* settings.risk_use_ai_confidence
  Live,         \* the last transition into LIVE is less than 30 days old
  StaleAfter,   \* _DECISION_STALE_AFTER, in ticks
  Day,          \* ticks of a day
  Deposit,      \* the quote balance at the start
  EarlierPnl,   \* what trades closed before the start have made today
  Levels,       \* unrealised results the market may give the open positions
  MaxMoves,     \* bound: market moves, closed positions, runs of the job and
                \* failed calls to the exchange
  Horizon       \* bound: last tick of the clock

Percent == 1 .. 100

\* MAX_SIZE_MODIFIER: what the validator clamps the modifier to.
MaxModifier == 150

\* CorrelationGroups.from_yaml: what a group must be for the bot to start.
WellFormedGroup(g) ==
  /\ g.members # {} /\ g.members \subseteq Tickers
  /\ g.pct \in Percent

ASSUME RiskAssumption ==
  /\ Bot \in Callers \ {Job}
  /\ Proposals # {} /\ MaxSignals \in Nat
  /\ Proposals \subseteq [ticker : Tickers, entry : Nat, distance : Nat,
                           confidence : {"none", "low", "high"}]
  /\ \A g \in Groups : WellFormedGroup(g)
  /\ {RiskPct, TickerPct, PositionPct, DrawdownPct, ModifierPct} \subseteq Percent
  /\ AiModifiers \subseteq 0 .. MaxModifier
  /\ MinNotional \in Nat /\ UseAi \in BOOLEAN /\ Live \in BOOLEAN
  /\ StaleAfter \in Nat /\ Day \in Nat \ {0}
  /\ Deposit \in Nat /\ EarlierPnl \in Int /\ Levels \subseteq Int
  /\ MaxMoves \in Nat /\ Horizon \in Nat

\* Ids of rows, given in order.
Signals  == 1 .. MaxSignals
NoSignal == 0

\* A risk decision: what the sizer said, what is on record after the AI's
\* modifier, with the money of the snapshot it was taken on and the
\* consumed signals it saw (history).
Decisions == [made : BOOLEAN, ok : BOOLEAN, sized : Nat, amount : Nat, at : Nat,
              free : Nat, equity : Int, saw : SUBSET Signals]

NoDecision == [made |-> FALSE, ok |-> FALSE, sized |-> 0, amount |-> 0, at |-> 0,
               free |-> 0, equity |-> 0, saw |-> {}]

VARIABLES
  proposal,     \* what each signal proposes
  status,       \* "none", "pending", "consumed" or "filled" (a consumed one)
  latest,       \* RiskDecisionRepository.latest_for_signal
  used,         \* the decision a consumed signal was executed under
  cur,          \* the signal the bot evaluates
  click,        \* on behalf of a click, not of a scan
  dayPnl,       \* realised result of the day, in closed trades
  killedUntil,  \* trading_state.killed_until
  breached,     \* an evaluation has seen the day's loss limit broken (history)
  moves         \* what MaxMoves bounds, so far

signalVars == <<proposal, status, latest, used>>
botVars    == <<cur, click>>
dayVars    == <<dayPnl, killedUntil, breached>>
vars == <<now, account, portfolioVars, signalVars, botVars, dayVars, moves>>

TypeOK ==
  /\ PortfolioTypeOK
  /\ proposal \in [Signals -> Proposals]
  /\ status \in [Signals -> {"none", "pending", "consumed", "filled"}]
  /\ latest \in [Signals -> Decisions]
  /\ used \in [Signals -> Decisions]
  /\ cur \in Signals \union {NoSignal}
  /\ click \in BOOLEAN
  /\ dayPnl \in Int /\ killedUntil \in Nat /\ breached \in BOOLEAN
  /\ moves \in 0 .. MaxMoves

Init ==
  /\ PortfolioInit
  /\ account = [free |-> Deposit, total |-> Deposit,
                held |-> [t \in Tickers |-> 0], pnl |-> 0]
  /\ proposal = [s \in Signals |-> CHOOSE p \in Proposals : TRUE]
  /\ status = [s \in Signals |-> "none"]
  /\ latest = [s \in Signals |-> NoDecision]
  /\ used   = [s \in Signals |-> NoDecision]
  /\ cur = NoSignal /\ click = FALSE
  /\ dayPnl = EarlierPnl /\ killedUntil = 0 /\ breached = FALSE
  /\ moves = 0

-----------------------------------------------------------------------------
(* Gates *)

\* Signals whose row says consumed: filling one does not change its row.
Consumed == {s \in Signals : status[s] \in {"consumed", "filled"}}

TickerOf(s) == proposal[s].ticker

Amounts == [s \in Signals |-> latest[s].amount]

\* Mutant of Pending: signals already filled are left to the positions.
PendingUnfilled(members) ==
  SumFunctionOnSet(Amounts, {s \in Signals : status[s] = "consumed" /\ TickerOf(s) \in members})

\* _sum_sized_pending: the latest decision of each consumed signal.
Pending(members) == SumFunctionOnSet(Amounts, {s \in Consumed : TickerOf(s) \in members})

\* _realized_exposure and the realized part of _combined_exposure.
Realized(snap, members) == SumFunctionOnSet(snap.held, members)

Exposure(snap, members) == Realized(snap, members) + Pending(members)

\* pct of the equity.
Share(pct, equity) == (pct * equity) \div 100

Saturated(snap, members, pct) ==
  100 * Exposure(snap, members) >= pct * snap.equity

\* ExposurePerTickerGate.check.
TickerHasRoom(snap, t) == snap.equity = 0 \/ ~Saturated(snap, {t}, TickerPct)

\* groups_for_ticker: a ticker may be a member of several.
GroupsOf(t) == {g \in Groups : t \in g.members}

\* CorrelationGroupGate.check: every group of the ticker must have room.
GroupsHaveRoom(snap, t) ==
  \/ snap.equity = 0
  \/ \A g \in GroupsOf(t) : ~Saturated(snap, g.members, g.pct)

\* MinAIConfidenceGate.check, when it is in the chain.
Confident(s) == UseAi => proposal[s].confidence # "low"

\* DailyDrawdownGate.check: the loss limit, on the equity of the snapshot.
Breach(snap) == snap.equity # 0 /\ 100 * dayPnl < -(DrawdownPct * snap.equity)

Killed == now < killedUntil

Midnight == (now \div Day + 1) * Day

-----------------------------------------------------------------------------
(* Sizing *)

\* What risking RiskPct of the equity down to the invalidation comes to.
Natural(s, equity) ==
  (RiskPct * equity * proposal[s].entry) \div (100 * proposal[s].distance)

\* The caps, in the order of the code.  The manager passes no existing exposure
\* of the ticker, so its whole cap is headroom.
Capped(s, snap) ==
  Min({Natural(s, snap.equity), Share(TickerPct, snap.equity),
       Share(PositionPct, snap.equity), snap.free})

\* Mutant of SizeOf: the reduction comes after the minimum is looked at.
SizeOfReducedLast(s, snap, reduced) ==
  IF snap.equity <= 0 \/ proposal[s].distance = 0 \/ Capped(s, snap) < MinNotional THEN 0
  ELSE IF reduced THEN (Capped(s, snap) * ModifierPct) \div 100 ELSE Capped(s, snap)

\* PositionSizer.size: zero when the signal cannot be traded.
SizeOf(s, snap, reduced) ==
  LET size == IF reduced THEN (Capped(s, snap) * ModifierPct) \div 100 ELSE Capped(s, snap)
  IN  IF snap.equity <= 0 \/ proposal[s].distance = 0 \/ size < MinNotional THEN 0 ELSE size

\* apply_size_modifier: a scan multiplies what the sizer said, caps and minimum
\* notwithstanding; a click does not.
Modifiers == IF click THEN {100} ELSE AiModifiers

\* _is_live_first_30d_active: a lookup that fails counts as no.
Reductions == IF Live THEN {TRUE, FALSE} ELSE {FALSE}

-----------------------------------------------------------------------------
(* The bot *)

\* A scan has stored a signal and asks for a snapshot, or a click finds the
\* decision of its signal missing or stale and asks for one.  Only the decision
\* is looked at: the signal may be consumed already.
Begin(s) ==
  /\ cur = NoSignal
  /\ \/ /\ status[s] = "none" /\ \A r \in 1 .. s - 1 : status[r] # "none"
        /\ \E p \in Proposals : proposal' = [proposal EXCEPT ![s] = p]
        /\ status' = [status EXCEPT ![s] = "pending"]
        /\ click' = FALSE
     \/ /\ status[s] # "none"
        /\ ~latest[s].made \/ now > latest[s].at + StaleAfter
        /\ click' = TRUE
        /\ UNCHANGED <<proposal, status>>
  /\ cur' = s
  /\ Ask(Bot)
  /\ UNCHANGED <<latest, used, dayVars, moves>>

\* The snapshot could not be had: the scan sends the card without a decision,
\* the click answers with an error.
GiveUp ==
  /\ cur # NoSignal /\ phase[Bot] = "idle" /\ ~view[Bot].ok
  /\ cur' = NoSignal /\ click' = FALSE
  /\ UNCHANGED <<now, account, portfolioVars, signalVars, dayVars, moves>>

Decision(ok, sized, amount) ==
  [made |-> TRUE, ok |-> ok, sized |-> sized, amount |-> amount, at |-> now,
   free |-> view[Bot].snap.free, equity |-> view[Bot].snap.equity, saw |-> Consumed]

\* The signal of a click is consumed under the decision just taken, if it is
\* still pending.
Act(s) ==
  IF click /\ latest'[s].ok /\ status[s] = "pending"
  THEN /\ status' = [status EXCEPT ![s] = "consumed"]
       /\ used' = [used EXCEPT ![s] = latest'[s]]
  ELSE UNCHANGED <<status, used>>

\* The evaluation is over; the snapshot was its own.
Decided ==
  /\ cur' = NoSignal /\ click' = FALSE
  /\ view' = [view EXCEPT ![Bot] = NoView]
  /\ UNCHANGED <<now, account, cache, queue, phase, balance, proposal, moves>>

\* Mutant of BreachTheDay: the window is not written.
BreachUnwritten ==
  /\ cur # NoSignal /\ phase[Bot] = "idle" /\ view[Bot].ok
  /\ ~Killed /\ Breach(view[Bot].snap)
  /\ latest' = [latest EXCEPT ![cur] = Decision(FALSE, 0, 0)]
  /\ breached' = TRUE
  /\ Decided
  /\ UNCHANGED <<status, used, dayPnl, killedUntil>>

\* The drawdown gate rejects and kills trading until midnight.
BreachTheDay ==
  /\ cur # NoSignal /\ phase[Bot] = "idle" /\ view[Bot].ok
  /\ ~Killed /\ Breach(view[Bot].snap)
  /\ latest' = [latest EXCEPT ![cur] = Decision(FALSE, 0, 0)]
  /\ killedUntil' = Midnight
  /\ breached' = TRUE
  /\ Decided
  /\ UNCHANGED <<status, used, dayPnl>>

Passes(s, snap) ==
  /\ ~Killed /\ ~Breach(snap)
  /\ TickerHasRoom(snap, TickerOf(s))
  /\ GroupsHaveRoom(snap, TickerOf(s))
  /\ Confident(s)

\* RiskManager.evaluate: a gate rejects, or the sizer finds nothing to trade.
\* The gates of SignalApproval are left out.
Reject ==
  /\ cur # NoSignal /\ phase[Bot] = "idle" /\ view[Bot].ok
  /\ Killed \/ ~Breach(view[Bot].snap)
  /\ LET snap == view[Bot].snap
     IN  ~Passes(cur, snap) \/ \E reduced \in Reductions : SizeOf(cur, snap, reduced) = 0
  /\ latest' = [latest EXCEPT ![cur] = Decision(FALSE, 0, 0)]
  /\ Decided
  /\ UNCHANGED <<status, used, dayVars>>

\* Every gate passes and the sizer has an amount.
Approve ==
  /\ cur # NoSignal /\ phase[Bot] = "idle" /\ view[Bot].ok
  /\ LET snap == view[Bot].snap
     IN  /\ Passes(cur, snap)
         /\ \E reduced \in Reductions, modifier \in Modifiers :
              LET sized == SizeOf(cur, snap, reduced)
              IN  /\ sized > 0
                  /\ latest' = [latest EXCEPT ![cur] =
                                  Decision(TRUE, sized, (sized * modifier) \div 100)]
  /\ Act(cur)
  /\ Decided
  /\ UNCHANGED dayVars

\* A click on a card whose decision is recent enough.
Consume(s) ==
  /\ cur = NoSignal
  /\ status[s] = "pending" /\ latest[s].ok /\ now <= latest[s].at + StaleAfter
  /\ status' = [status EXCEPT ![s] = "consumed"]
  /\ used' = [used EXCEPT ![s] = latest[s]]
  /\ UNCHANGED <<now, account, portfolioVars, proposal, latest, botVars, dayVars, moves>>

-----------------------------------------------------------------------------
(* The rest of the world *)

\* The executor's entry fills; the exchange refuses one it has no cash for.
Fill(s) ==
  /\ status[s] = "consumed" /\ used[s].amount <= account.free
  /\ status' = [status EXCEPT ![s] = "filled"]
  /\ account' = [account EXCEPT !.free = @ - used[s].amount,
                                !.held[TickerOf(s)] = @ + used[s].amount]
  /\ UNCHANGED <<now, portfolioVars, proposal, latest, used, botVars, dayVars, moves>>

\* The market moves the open positions.
Mark ==
  /\ moves < MaxMoves /\ moves' = moves + 1
  /\ \E t \in Tickers : account.held[t] > 0
  /\ \E p \in Levels \ {account.pnl} : account' = [account EXCEPT !.pnl = p]
  /\ UNCHANGED <<now, portfolioVars, signalVars, botVars, dayVars>>

\* A position is closed; its result is realised.
ClosePosition(t) ==
  /\ moves < MaxMoves /\ moves' = moves + 1
  /\ account.held[t] > 0
  /\ account.total + account.pnl >= 0 /\ account.free + account.held[t] + account.pnl >= 0
  /\ account' = [free |-> account.free + account.held[t] + account.pnl,
                 total |-> account.total + account.pnl,
                 held |-> [account.held EXCEPT ![t] = 0], pnl |-> 0]
  /\ dayPnl' = dayPnl + account.pnl
  /\ UNCHANGED <<now, portfolioVars, signalVars, botVars, killedUntil, breached>>

\* Time passes; the day's result and what was seen of it end at midnight.
Tick ==
  /\ now < Horizon
  /\ now' = now + 1
  /\ IF now' % Day = 0
     THEN dayPnl' = 0 /\ breached' = FALSE
     ELSE UNCHANGED <<dayPnl, breached>>
  /\ UNCHANGED <<account, portfolioVars, signalVars, botVars, killedUntil, moves>>

\* The job's next run, or another caller: /portfolio, the reports.
OtherAsks(c) ==
  /\ c # Bot
  /\ moves < MaxMoves /\ moves' = moves + 1
  /\ Ask(c)
  /\ UNCHANGED <<signalVars, botVars, dayVars>>

\* The steps of PortfolioState, for whoever holds its lock.
Answered(c) ==
  /\ \/ FetchStep(c) /\ UNCHANGED moves
     \/ /\ LosePositions(c) \/ FetchFails(c)
        /\ moves < MaxMoves /\ moves' = moves + 1
  /\ UNCHANGED <<signalVars, botVars, dayVars>>

BotStep == BreachTheDay \/ Reject \/ Approve \/ GiveUp

Next ==
  \/ \E s \in Signals : Begin(s) \/ Consume(s) \/ Fill(s)
  \/ BotStep
  \/ \E c \in Callers : OtherAsks(c) \/ Answered(c)
  \/ Mark \/ \E t \in Tickers : ClosePosition(t)
  \/ Tick

Spec == Init /\ [][Next]_vars

-----------------------------------------------------------------------------
(* Properties *)

Approved == {s \in Signals : latest[s].made /\ latest[s].ok}

\* What the sizer says respects every cap of the snapshot it was computed from,
\* is worth trading after the reduction of the first days of LIVE, and loses no
\* more than the risk budget when the stop is hit (sizing.py).  What is put on
\* record may be half as much again, but no more.
SizeWithinLimits ==
  /\ TypeOK
  /\ \A s \in Approved :
       LET d == latest[s]
       IN  /\ d.sized >= MinNotional /\ d.sized > 0
           /\ d.sized <= d.free
           /\ 100 * d.sized <= PositionPct * d.equity
           /\ 100 * d.sized <= TickerPct * d.equity
           /\ 100 * d.sized * proposal[s].distance <= RiskPct * d.equity * proposal[s].entry
           /\ 100 * d.amount <= MaxModifier * d.sized

\* Consumed signals a decision saw, without those evaluated again since: such a
\* decision replaces the size that was executed.
Counted(s) == {t \in used[s].saw : latest[t] = used[t]}

SumUsed(S) == SumFunctionOnSet([t \in Signals |-> used[t].amount], S)

\* When a signal was let through, what had been executed before of its ticker,
\* and of each of its correlation groups, was below the cap, however stale or
\* torn the snapshot was, or without its positions: consumed signals count
\* whether or not the snapshot shows what they bought (exposure_ticker.py:95-118, correlation_group.py).
EveryApprovalSawHeadroom ==
  \A s \in Consumed :
    LET before(members) == SumUsed({t \in Counted(s) : TickerOf(t) \in members})
        equity == used[s].equity
    IN  /\ 100 * before({TickerOf(s)}) < TickerPct * equity
        /\ \A g \in Groups :
             TickerOf(s) \in g.members => 100 * before(g.members) < g.pct * equity

\* Once an evaluation has seen the daily loss limit broken nothing is approved
\* before midnight, whatever the account does afterwards (daily_drawdown.py).
BreachEndsTheDay ==
  [][\A s \in Signals :
       breached /\ latest'[s].ok => latest'[s] = latest[s]]_latest

=============================================================================
