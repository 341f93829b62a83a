--------------------------- MODULE SignalApproval ---------------------------
(***************************************************************************)
(* The life of a signal up to its execution: the scan that stores it, has  *)
(* it validated by the AI and evaluated by the risk manager and sends its  *)
(* card (trading/notify.py), the buttons of the card                       *)
(* (telegram/handlers/signals.py), the expiry job (trading/expiration.py), *)
(* the tables of signals and of risk decisions (trading/signal_repo.py,    *)
(* trading/risk/repo.py), and the kill switch (telegram/handlers/          *)
(* emergency.py) that the gates read.                                      *)
(*                                                                         *)
(* The bot is built without concurrent_updates, so it handles one Telegram *)
(* update after another: a scan, a click and a command never interleave.   *)
(* Between two awaits of the update being handled, the scheduler's expiry  *)
(* job may run, time passes and the process may stop.                      *)
(* What the gates read of trading_state and of consumed signals is only    *)
(* written by updates, so one evaluation is one step.                      *)
(***************************************************************************)
EXTENDS Naturals, FiniteSets

CONSTANTS
  Signals,      \* signals the strategy engine may produce
  NoSignal,     \* the bot handles no signal
  Cap,          \* settings.max_concurrent_trades
  RateCap,      \* settings.max_signals_per_hour
  StaleAfter,   \* _DECISION_STALE_AFTER, in ticks of the clock
  Hour,         \* window of the signals_per_hour gate, in ticks
  Ttl,          \* DEFAULT_TTL_BARS times the timeframe, in ticks
  Executive,    \* settings: trading_enabled, and trading_mode executes
  KillWindows,  \* values of killed_until an earlier panic may have left
  Horizon,      \* bound: last tick of the clock
  MaxFaults,    \* bound: database errors injected in a behaviour
  MaxCrashes    \* bound: process crashes in a behaviour

ASSUME ApprovalAssumption ==
  /\ IsFiniteSet(Signals) /\ NoSignal \notin Signals
  /\ Cap \in Nat \ {0} /\ RateCap \in Nat \ {0}
  /\ StaleAfter \in Nat /\ Hour \in Nat /\ Ttl \in Nat \ {0}
  /\ Executive \in BOOLEAN
  /\ KillWindows \subseteq Nat /\ Horizon \in Nat
  /\ MaxFaults \in Nat /\ MaxCrashes \in Nat

Statuses == {"none", "pending", "consumed", "cancelled", "expired", "ai_rejected"}
Verdicts == {"none", "approve", "reject", "crash"}

ScanSteps == {"add", "validate", "ai_reject", "evaluate", "append", "notify"}
OkSteps   == {"latest", "ok_evaluate", "ok_append", "judge", "spawn"}
BotSteps  == {"idle", "cancel"} \union ScanSteps \union OkSteps

\* A risk decision.  Rows are numbered and never rewritten; readers only look
\* at the latest one, so the model keeps that one.
Decisions  == [made : BOOLEAN, ok : BOOLEAN, at : Nat]
NoDecision == [made |-> FALSE, ok |-> FALSE, at |-> 0]

VARIABLES
  now,          \* the clock
  enabled,      \* trading_state.enabled
  stoppedAt,    \* when trading was disabled (history; 0 while enabled)
  killedUntil,  \* trading_state.killed_until
  bot,          \* step of the update being handled
  cur,          \* the signal it is about
  began,        \* when its handling began
  todo,         \* signals the running scan has still to store
  draft,        \* the decision it holds in memory
  status,       \* signals.status, "none" when there is no row
  expiresAt,    \* signals.expires_at
  verdict,      \* what the AI validator answered
  latest,       \* latest risk decision of the signal
  offered,      \* signals whose card was sent with buttons
  used,         \* the consumption of the signal: decision and times
  started,      \* executor tasks created for the signal
  cand,         \* rows the expiry job has read and not yet handled
  faults,       \* database errors so far
  crashes       \* crashes so far

stateVars == <<enabled, stoppedAt, killedUntil>>
botVars   == <<bot, cur, began, todo, draft>>
rowVars   == <<status, expiresAt, latest, used>>
restVars  == <<verdict, started>>
vars == <<now, stateVars, botVars, rowVars, restVars, offered, cand, faults, crashes>>

TypeOK ==
  /\ now \in Nat
  /\ enabled \in BOOLEAN /\ stoppedAt \in Nat
  /\ killedUntil \in Nat
  /\ bot \in BotSteps
  /\ cur \in Signals \union {NoSignal}
  /\ bot # "idle" => cur # NoSignal
  /\ began \in Nat
  /\ todo \subseteq Signals
  /\ draft \in Decisions
  /\ status \in [Signals -> Statuses]
  /\ expiresAt \in [Signals -> Nat]
  /\ verdict \in [Signals -> Verdicts]
  /\ latest \in [Signals -> Decisions]
  /\ offered \subseteq Signals
  /\ used \in [Signals -> [decided : Nat, began : Nat, at : Nat]]
  /\ started \in [Signals -> Nat]
  /\ cand \subseteq Signals
  /\ faults \in 0 .. MaxFaults
  /\ crashes \in 0 .. MaxCrashes

Init ==
  /\ now = 0
  /\ enabled \in BOOLEAN /\ stoppedAt = 0
  /\ killedUntil \in KillWindows
  /\ bot = "idle" /\ cur = NoSignal /\ began = 0 /\ todo = {}
  /\ draft = NoDecision
  /\ status    = [s \in Signals |-> "none"]
  /\ expiresAt = [s \in Signals |-> 0]
  /\ verdict   = [s \in Signals |-> "none"]
  /\ latest    = [s \in Signals |-> NoDecision]
  /\ used      = [s \in Signals |-> [decided |-> 0, began |-> 0, at |-> 0]]
  /\ started   = [s \in Signals |-> 0]
  /\ offered = {} /\ cand = {}
  /\ faults = 0 /\ crashes = 0

-----------------------------------------------------------------------------
(* Tables and gates *)

\* SignalRepository.transition with expected_from_status = "pending".
Transition(s, to) ==
  status' = [status EXCEPT ![s] = IF @ = "pending" THEN to ELSE @]

Consumed == {s \in Signals : status[s] = "consumed"}

\* KillSwitchGate.check.
KillSwitchOpen == enabled /\ now >= killedUntil

\* Mutant of BelowCap: one too many.
BelowCapOffByOne == Cardinality(Consumed) <= Cap

\* MaxConcurrentTradesGate.check: realized positions only add to the count.
BelowCap == Cardinality(Consumed) < Cap

\* SignalsPerHourRateLimitGate.check: "approved" events of the last hour.
BelowRate == Cardinality({s \in Consumed : used[s].at + Hour >= now}) < RateCap

\* RiskManager.evaluate: the gates of this module in order, then the verdict of
\* what it does not model (drawdown, exposure, correlation, positions, sizer).
Evaluation ==
  {[made |-> TRUE, ok |-> ok, at |-> now] :
     ok \in {o \in BOOLEAN : o => KillSwitchOpen /\ BelowCap /\ BelowRate}}

\* _decision_is_stale.
Stale(d) == now > d.at + StaleAfter

\* SignalRepository.list_expired_pending.
ExpiredPending == {s \in Signals : status[s] = "pending" /\ expiresAt[s] < now}

-----------------------------------------------------------------------------
(* The update being handled *)

Goto(step) == bot' = step /\ UNCHANGED <<cur, began, todo, draft>>

\* The handler returns, or dies of an exception it does not catch.
Finish ==
  /\ bot' = "idle" /\ cur' = NoSignal
  /\ began' = 0 /\ draft' = NoDecision
  /\ UNCHANGED todo

\* scanner_to_signals_job goes on with its next signal, if any.
NextOfScan ==
  /\ draft' = NoDecision
  /\ IF todo = {}
     THEN bot' = "idle" /\ cur' = NoSignal /\ began' = 0 /\ UNCHANGED todo
     ELSE /\ bot' = "add" /\ UNCHANGED began
          /\ cur' \in todo
          /\ todo' = todo \ {cur'}

Fault == faults < MaxFaults /\ faults' = faults + 1

-----------------------------------------------------------------------------
(* A scan: /signals run *)

\* The engine has produced signals, generated now.  Bound: they expire before
\* the Horizon.
Scan ==
  /\ bot = "idle"
  /\ now + Ttl < Horizon
  /\ \E batch \in SUBSET {s \in Signals : status[s] = "none"} :
       \E s \in batch : cur' = s /\ todo' = batch \ {s}
  /\ bot' = "add" /\ began' = now
  /\ UNCHANGED <<now, stateVars, draft, rowVars, restVars, offered, cand,
                 faults, crashes>>

Add ==
  /\ bot = "add"
  /\ status' = [status EXCEPT ![cur] = "pending"]
  /\ expiresAt' = [expiresAt EXCEPT ![cur] = began + Ttl]
  /\ Goto("validate")
  /\ UNCHANGED <<now, stateVars, latest, used, restVars, offered, cand, faults,
                 crashes>>

\* The insert fails, or the refresh after its commit does: in both cases the
\* scan skips the signal.
AddFault ==
  /\ bot = "add"
  /\ Fault
  /\ \/ UNCHANGED rowVars
     \/ /\ status' = [status EXCEPT ![cur] = "pending"]
        /\ expiresAt' = [expiresAt EXCEPT ![cur] = began + Ttl]
        /\ UNCHANGED <<latest, used>>
  /\ NextOfScan
  /\ UNCHANGED <<now, stateVars, restVars, offered, cand, crashes>>

\* Mutant of Validate: a rejected signal is not taken out of the flow.
ValidateGoesOn ==
  /\ bot = "validate"
  /\ \E v \in {"approve", "reject", "crash"} : verdict' = [verdict EXCEPT ![cur] = v]
  /\ Goto("evaluate")
  /\ UNCHANGED <<now, stateVars, rowVars, started, offered, cand, faults, crashes>>

\* _run_validator.  A failure of the AI providers is a rejection; an exception
\* on the way (the usage log) leaves validation None, which is not one.
Validate ==
  /\ bot = "validate"
  /\ \E v \in {"approve", "reject", "crash"} :
        /\ verdict' = [verdict EXCEPT ![cur] = v]
        /\ Goto(IF v = "reject" THEN "ai_reject" ELSE "evaluate")
  /\ UNCHANGED <<now, stateVars, rowVars, started, offered, cand, faults, crashes>>

\* _mark_signal_ai_rejected: no evaluation, no card.
AiReject ==
  /\ bot = "ai_reject"
  /\ Transition(cur, "ai_rejected")
  /\ NextOfScan
  /\ UNCHANGED <<now, stateVars, expiresAt, latest, used, restVars, offered, cand,
                 faults, crashes>>

\* Its failure is swallowed: the signal stays pending.
AiRejectFault ==
  /\ bot = "ai_reject"
  /\ Fault
  /\ NextOfScan
  /\ UNCHANGED <<now, stateVars, rowVars, restVars, offered, cand, crashes>>

Evaluate ==
  /\ bot = "evaluate"
  /\ draft' \in Evaluation
  /\ bot' = "append"
  /\ UNCHANGED <<now, stateVars, cur, began, todo, rowVars, restVars, offered, cand,
                 faults, crashes>>

Append ==
  /\ bot = "append"
  /\ latest' = [latest EXCEPT ![cur] = draft]
  /\ Goto("notify")
  /\ UNCHANGED <<now, stateVars, status, expiresAt, used, restVars, offered, cand,
                 faults, crashes>>

\* A failed evaluation or append: the card is sent without a decision.
EvaluateFault ==
  /\ bot \in {"evaluate", "append"}
  /\ Fault
  /\ draft' = NoDecision
  /\ bot' = "notify"
  /\ UNCHANGED <<now, stateVars, cur, began, todo, rowVars, restVars, offered, cand,
                 crashes>>

\* The card carries buttons when the decision approves; sending it may fail.
Notify ==
  /\ bot = "notify"
  /\ offered' \in {offered, IF draft.ok THEN offered \union {cur} ELSE offered}
  /\ NextOfScan
  /\ UNCHANGED <<now, stateVars, rowVars, restVars, cand, faults, crashes>>

-----------------------------------------------------------------------------
(* The buttons: on_signal_callback *)

\* A button of a card is pressed.  The answer takes the buttons off the card,
\* but a second press may wait behind the first (or come back after a crash,
\* or find a card whose edit failed), so an offered card is pressed any time.
Click ==
  /\ bot = "idle"
  /\ cur' \in offered
  /\ \/ bot' = "latest" /\ began' = now
     \/ bot' = "cancel" /\ UNCHANGED began
  /\ UNCHANGED <<now, stateVars, todo, draft, rowVars, restVars, offered, cand, faults,
                 crashes>>

\* Mutant of ReadLatest: the age of the decision is not looked at.
ReadLatestAnyAge ==
  /\ bot = "latest"
  /\ IF ~latest[cur].made
     THEN bot' = "ok_evaluate" /\ UNCHANGED draft
     ELSE bot' = "judge" /\ draft' = latest[cur]
  /\ UNCHANGED <<now, stateVars, cur, began, todo, rowVars, restVars, offered, cand,
                 faults, crashes>>

\* _consume_signal, step 1: a decision that is missing or older than five
\* minutes is evaluated again; the status of the signal is not looked at.
ReadLatest ==
  /\ bot = "latest"
  /\ IF ~latest[cur].made \/ Stale(latest[cur])
     THEN bot' = "ok_evaluate" /\ UNCHANGED draft
     ELSE bot' = "judge" /\ draft' = latest[cur]
  /\ UNCHANGED <<now, stateVars, cur, began, todo, rowVars, restVars, offered, cand,
                 faults, crashes>>

Reevaluate ==
  /\ bot = "ok_evaluate"
  /\ draft' \in Evaluation
  /\ bot' = "ok_append"
  /\ UNCHANGED <<now, stateVars, cur, began, todo, rowVars, restVars, offered, cand,
                 faults, crashes>>

AppendAgain ==
  /\ bot = "ok_append"
  /\ latest' = [latest EXCEPT ![cur] = draft]
  /\ Goto("judge")
  /\ UNCHANGED <<now, stateVars, status, expiresAt, used, restVars, offered, cand,
                 faults, crashes>>

\* A failed re-evaluation is answered on the card.
ReevaluateFault ==
  /\ bot \in {"ok_evaluate", "ok_append"}
  /\ Fault
  /\ Finish
  /\ UNCHANGED <<now, stateVars, rowVars, restVars, offered, cand, crashes>>

\* Step 2: a rejected decision refuses the click; the signal stays pending.
Refuse ==
  /\ bot = "judge" /\ ~draft.ok
  /\ Finish
  /\ UNCHANGED <<now, stateVars, rowVars, restVars, offered, cand, faults, crashes>>

\* The row, the approved event and its metadata, of step 3.
MarkConsumed ==
  /\ status' = [status EXCEPT ![cur] = "consumed"]
  /\ used' = [used EXCEPT ![cur] = [decided |-> draft.at, began |-> began, at |-> now]]

\* Mutant of Consume: no expected_from_status.
ConsumeUnchecked ==
  /\ bot = "judge" /\ draft.ok
  /\ MarkConsumed
  /\ Goto("spawn")
  /\ UNCHANGED <<now, stateVars, expiresAt, latest, restVars, offered, cand, faults,
                 crashes>>

\* Step 3: only a pending signal is consumed.
Consume ==
  /\ bot = "judge" /\ draft.ok
  /\ status[cur] = "pending"
  /\ MarkConsumed
  /\ Goto("spawn")
  /\ UNCHANGED <<now, stateVars, expiresAt, latest, restVars, offered, cand, faults,
                 crashes>>

\* StaleSignalStateError: the click comes too late.
ConsumeLate ==
  /\ bot = "judge" /\ draft.ok
  /\ status[cur] # "pending"
  /\ Finish
  /\ UNCHANGED <<now, stateVars, rowVars, restVars, offered, cand, faults, crashes>>

\* Mutant of Spawn: trading disabled meanwhile drops the execution.
SpawnIfEnabled ==
  /\ bot = "spawn"
  /\ started' = IF Executive /\ enabled THEN [started EXCEPT ![cur] = @ + 1] ELSE started
  /\ Finish
  /\ UNCHANGED <<now, stateVars, rowVars, verdict, offered, cand, faults, crashes>>

\* The executor task is created before the card is edited.
Spawn ==
  /\ bot = "spawn"
  /\ started' = IF Executive THEN [started EXCEPT ![cur] = @ + 1] ELSE started
  /\ Finish
  /\ UNCHANGED <<now, stateVars, rowVars, verdict, offered, cand, faults, crashes>>

\* _cancel_signal.
Cancel ==
  /\ bot = "cancel"
  /\ Transition(cur, "cancelled")
  /\ Finish
  /\ UNCHANGED <<now, stateVars, expiresAt, latest, used, restVars, offered, cand, faults,
                 crashes>>

\* Errors no handler catches: a read, a transition, or the refresh after the
\* transition has committed.
ClickFault ==
  /\ bot \in {"latest", "judge", "spawn", "cancel"}
  /\ bot = "judge" => draft.ok
  /\ Fault
  /\ \/ UNCHANGED rowVars
     \/ /\ bot = "cancel"
        /\ Transition(cur, "cancelled")
        /\ UNCHANGED <<expiresAt, latest, used>>
  /\ Finish
  /\ UNCHANGED <<now, stateVars, restVars, offered, cand, crashes>>

-----------------------------------------------------------------------------
(* Commands, the job, time and the process *)

\* /stop and /freeze.
Stop ==
  /\ bot = "idle" /\ enabled
  /\ enabled' = FALSE
  /\ stoppedAt' = now
  /\ UNCHANGED <<now, killedUntil, botVars, rowVars, restVars, offered,
                 cand, faults, crashes>>

\* /go_live_confirm, of which only the flag matters here.
GoLive ==
  /\ bot = "idle" /\ ~enabled
  /\ enabled' = TRUE
  /\ stoppedAt' = 0
  /\ UNCHANGED <<now, killedUntil, botVars, rowVars,
                 restVars, offered, cand, faults, crashes>>

\* Mutant of ListExpired: rows whose time has not come are candidates too.
ListExpiredEarly ==
  /\ cand = {}
  /\ cand' = {s \in Signals : status[s] = "pending" /\ expiresAt[s] > now}
  /\ cand' # {}
  /\ UNCHANGED <<now, stateVars, botVars, rowVars, restVars, offered, faults, crashes>>

\* expire_stale_signals_job: it reads its candidates, then handles each.
ListExpired ==
  /\ cand = {}
  /\ cand' = ExpiredPending
  /\ cand' # {}
  /\ UNCHANGED <<now, stateVars, botVars, rowVars, restVars, offered, faults, crashes>>

Expire ==
  \E s \in cand :
    /\ cand' = cand \ {s}
    /\ Transition(s, "expired")
    /\ UNCHANGED <<now, stateVars, botVars, expiresAt, latest, used, restVars,
                   offered, faults, crashes>>

\* One row fails: it is skipped, and is a candidate of the next run.
ExpireFault ==
  \E s \in cand :
    /\ Fault
    /\ cand' = cand \ {s}
    /\ UNCHANGED <<now, stateVars, botVars, rowVars, restVars, offered, crashes>>

Tick ==
  /\ now < Horizon
  /\ now' = now + 1
  /\ UNCHANGED <<stateVars, botVars, rowVars, restVars, offered, cand, faults, crashes>>

\* The update being handled and the job are lost.
Crash ==
  /\ crashes < MaxCrashes
  /\ crashes' = crashes + 1
  /\ bot' = "idle" /\ cur' = NoSignal
  /\ began' = 0 /\ todo' = {} /\ draft' = NoDecision
  /\ cand' = {}
  /\ UNCHANGED <<now, stateVars, rowVars, restVars, offered, faults>>

-----------------------------------------------------------------------------
(* Specification *)

ScanStep  == Add \/ Validate \/ AiReject \/ Evaluate \/ Append \/ Notify
ClickStep ==
  \/ ReadLatest \/ Reevaluate \/ AppendAgain
  \/ Refuse \/ Consume \/ ConsumeLate \/ Spawn \/ Cancel
FaultStep ==
  \/ AddFault \/ AiRejectFault \/ EvaluateFault \/ ReevaluateFault \/ ClickFault
  \/ ExpireFault

Next ==
  \/ ScanStep \/ ClickStep \/ FaultStep
  \/ Scan \/ Click
  \/ Stop \/ GoLive
  \/ ListExpired \/ Expire
  \/ Tick \/ Crash

Spec == Init /\ [][Next]_vars

\* The event loop goes on with the update being handled, the scheduler runs the
\* expiry job, and time passes.  Operators and failures are not fair.
FairSpec ==
  /\ Spec
  /\ WF_vars(ScanStep \/ ClickStep)
  /\ WF_vars(ListExpired) /\ WF_vars(Expire)
  /\ WF_vars(Tick)

-----------------------------------------------------------------------------
(* Properties *)

\* A card is sent with buttons, and later a signal consumed, only while the
\* latest decision on record approves it, and never for one the AI rejected,
\* even if the write of ai_rejected failed and the signal stayed pending.  A
\* validator that crashed counts as one that approved (notify.py:133-138).
OfferedIsVetted ==
  [][\A s \in Signals :
       \/ s \in offered' \ offered
       \/ status[s] # "consumed" /\ status'[s] = "consumed"
       => latest[s].ok /\ verdict[s] \in {"approve", "crash"}]_vars

\* Signals consumed before time d, and those of them within the hour before it.
ConsumedBefore(d) == {t \in Consumed : used[t].at < d}
RecentBefore(d)   == {t \in ConsumedBefore(d) : used[t].at + Hour >= d}
WithinCaps(d) ==
  Cardinality(ConsumedBefore(d)) < Cap /\ Cardinality(RecentBefore(d)) < RateCap

\* A decision that let a signal through counted fewer consumed signals than
\* the cap and fewer approvals in the hour before it than the rate, whatever
\* happened between the decision and the click (max_concurrent.py,
\* signals_rate_limit.py).  The caps hold at the decision, not at the click.
CapsHeldAtDecision == \A s \in Consumed : WithinCaps(used[s].decided)

\* How long a kill switch may be outrun: once trading is disabled, no signal
\* is consumed by a click whose handling began more than the staleness limit
\* after the /stop (signals.py's re-evaluation and the kill_switch gate).
LateApprovalRefused ==
  ~enabled => \A s \in Consumed : used[s].began <= stoppedAt + StaleAfter

OutcomeOf(st) ==
  CASE st = "none" -> "none"
    [] st = "pending" -> "offered"
    [] st = "consumed" -> "taken"
    [] OTHER -> "dropped"

Outcome == INSTANCE SignalOutcome WITH
  outcome    <- [s \in Signals |-> OutcomeOf(status[s])],
  executions <- started

\* Repeated clicks, the race with the expiry job, failures and a crash leave a
\* signal with one outcome and at most one executor task: the flow implements
\* SignalOutcome (signals.py, signal_repo.py).
RefinesOutcome == Outcome!OutcomeSpec

\* No signal stays pending for ever: approved, cancelled, rejected or not, and
\* even when its scan was cut short, the expiry job ends it (expiration.py).
PendingEnds == \A s \in Signals : (status[s] = "pending") ~> (status[s] # "pending")

\* An approved signal reaches its executor when the mode executes, unless the
\* database failed or the process crashed at the wrong moment (signals.py).
ApprovedIsExecuted ==
  \A s \in Signals :
    (status[s] = "consumed" /\ Executive)
      ~> (started[s] = 1 \/ faults > 0 \/ crashes > 0)

=============================================================================
