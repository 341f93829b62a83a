--------------------------- MODULE OrderExecution ---------------------------
(***************************************************************************)
(* Execution of approved signals: the executor (trading/executor.py), the  *)
(* exchange adapter (sources/ccxt_trader.py), the fill detector, the       *)
(* native-stop placer, the orders and trades tables, the reconciler, and   *)
(* the exchange they all talk to.                                          *)
(*                                                                         *)
(* One asyncio task executes each approved signal.  Every await is a point *)
(* where another task may run, so every await is an action; each database  *)
(* transaction is atomic (BEGIN IMMEDIATE) and each exchange call is one   *)
(* step.  Order rows are named by their signal and their kind, because     *)
(* derive_client_order_id gives one client id to each of them: the attempt *)
(* number of the stop placer is not hashed.                                *)
(***************************************************************************)
EXTENDS Naturals

CONSTANTS
  Signals,       \* approved signals
  Polled,        \* signals whose ticker is among the reconciler's symbols
  Passes,        \* concurrent reconcile passes (the job, /reconcile)
  Lot,           \* base amount of an entry order
  StopAttempts,  \* NativeStopPlacer attempts (3 in the code)
  MaxPolls,      \* polls before the fill detector must time out (30s / 2s)
  MaxFaults,     \* bound: database errors injected in a behaviour
  MaxCrashes     \* bound: process crashes in a behaviour

ASSUME ExecutionAssumption ==
  /\ Polled \subseteq Signals
  /\ Lot \in Nat \ {0} /\ StopAttempts \in Nat \ {0} /\ MaxPolls \in Nat \ {0}
  /\ MaxFaults \in Nat /\ MaxCrashes \in Nat

StopKinds == {"stop_market", "stop_limit"}
Kinds     == {"entry"} \union StopKinds
Orders    == Signals \X Kinds

Terminal    == {"filled", "cancelled", "rejected", "failed"}
OrderStatus == {"absent", "created", "submitted"} \union Terminal
TradeStatus == {"none", "pending", "open", "failed"}
Gates       == {"blocked", "no_credentials", "open"}
ExStates    == {"none", "open", "closed", "canceled", "rejected"}

\* What an exchange.create_order call comes back with.  "server_error" is a
\* 5xx, "new_order_rejected" an error whose text carries Binance's code -2010
\* for another reason than the order type (a duplicate id, no balance).
Replies == {"none", "blocked", "ack", "timeout", "server_error", "invalid",
            "unsupported_type", "new_order_rejected"}

Steps == {"idle", "add_trade", "create", "submit", "record", "wait", "poll",
          "poll_write", "refresh", "stop_get", "stop_failed", "link", "open",
          "notify", "fail", "fail_alert", "done", "lost"}

VARIABLES
  gate,        \* the triple seatbelt: fixed for a process by the settings it
               \*   reads at its start, and free to differ after a restart
  pc,          \* step of each signal's executor task
  call,        \* kind of the order the task is creating, then of its stop
  attempt,     \* current attempt of the stop placer
  polls,       \* polls the fill detector has made
  reply,       \* answer of the exchange not yet written to the order row
  observed,    \* terminal status the fill detector has read, not yet written
  filledAmt,   \* amount filled according to that read
  trade,       \* trades.status
  ord,         \* orders.status, "absent" when there is no row
  linked,      \* orders.trade_id is set
  exState,     \* state of the order at the exchange
  exSize,      \* its amount
  exFilled,    \* the part of it that has filled
  sends,       \* exchange.create_order calls made for the order
  alerted,     \* a failure alert was handed to the alerter
  incident,    \* NATIVE_STOP_MISSING_AFTER_FILL was emitted
  opened,      \* the operator was told the trade is open
  rpc,         \* step of each reconcile pass
  rFeed,       \* open orders the pass read from the exchange
  rOrphanDb,   \* orphan_db rows the pass has still to patch
  rOrphanEx,   \* orphan_exchange orders the pass reports
  faults,      \* database errors so far
  crashes      \* crashes so far

execVars   == <<pc, call, attempt, polls, reply, observed, filledAmt>>
dbVars     == <<trade, ord, linked>>
exVars     == <<exState, exSize, exFilled, sends>>
noticeVars == <<alerted, incident, opened>>
recVars    == <<rpc, rFeed, rOrphanDb, rOrphanEx>>
boundVars  == <<faults, crashes>>
vars == <<gate, execVars, dbVars, exVars, noticeVars, recVars, boundVars>>

TypeOK ==
  /\ gate \in Gates
  /\ pc \in [Signals -> Steps]
  /\ call \in [Signals -> Kinds]
  /\ attempt \in [Signals -> 0 .. StopAttempts]
  /\ polls \in [Signals -> 0 .. MaxPolls]
  /\ reply \in [Signals -> Replies]
  /\ observed \in [Signals -> {"none"} \union Terminal]
  /\ filledAmt \in [Signals -> 0 .. Lot]
  /\ trade \in [Signals -> TradeStatus]
  /\ ord \in [Orders -> OrderStatus]
  /\ linked \in [Orders -> BOOLEAN]
  /\ exState \in [Orders -> ExStates]
  /\ exSize \in [Orders -> 0 .. Lot]
  /\ exFilled \in [Orders -> 0 .. Lot]
  /\ sends \in [Orders -> Nat]
  /\ alerted \in [Signals -> BOOLEAN]
  /\ incident \in [Signals -> BOOLEAN]
  /\ opened \in [Signals -> BOOLEAN]
  /\ rpc \in [Passes -> {"idle", "fetched", "patching"}]
  /\ rFeed \in [Passes -> SUBSET Orders]
  /\ rOrphanDb \in [Passes -> SUBSET Orders]
  /\ rOrphanEx \in [Passes -> SUBSET Orders]
  /\ faults \in 0 .. MaxFaults
  /\ crashes \in 0 .. MaxCrashes

Init ==
  /\ gate \in Gates
  /\ pc        = [s \in Signals |-> "idle"]
  /\ call      = [s \in Signals |-> "entry"]
  /\ attempt   = [s \in Signals |-> 0]
  /\ polls     = [s \in Signals |-> 0]
  /\ reply     = [s \in Signals |-> "none"]
  /\ observed  = [s \in Signals |-> "none"]
  /\ filledAmt = [s \in Signals |-> 0]
  /\ trade     = [s \in Signals |-> "none"]
  /\ ord       = [o \in Orders |-> "absent"]
  /\ linked    = [o \in Orders |-> FALSE]
  /\ exState   = [o \in Orders |-> "none"]
  /\ exSize    = [o \in Orders |-> 0]
  /\ exFilled  = [o \in Orders |-> 0]
  /\ sends     = [o \in Orders |-> 0]
  /\ alerted   = [s \in Signals |-> FALSE]
  /\ incident  = [s \in Signals |-> FALSE]
  /\ opened    = [s \in Signals |-> FALSE]
  /\ rpc       = [p \in Passes |-> "idle"]
  /\ rFeed     = [p \in Passes |-> {}]
  /\ rOrphanDb = [p \in Passes |-> {}]
  /\ rOrphanEx = [p \in Passes |-> {}]
  /\ faults    = 0
  /\ crashes   = 0

-----------------------------------------------------------------------------
(* Helpers *)

Entry(s)   == <<s, "entry">>
Current(s) == <<s, call[s]>>
Goto(s, step) == pc' = [pc EXCEPT ![s] = step]

\* Mutant of StatusOf: an order whose answer timed out is taken as submitted.
StatusOfTimeoutSubmitted(r) ==
  CASE r \in {"ack", "timeout"} -> "submitted"
    [] r = "blocked" -> "cancelled"
    [] OTHER         -> "rejected"

\* _classify_failure and the success and gate branches of create_order: the
\* status an answer is recorded as.  Only an exception named after a timeout,
\* the network or a connection is "failed"; a 5xx is "rejected".
StatusOf(r) ==
  CASE r = "ack"     -> "submitted"
    [] r = "blocked" -> "cancelled"
    [] r = "timeout" -> "failed"
    [] OTHER         -> "rejected"

\* Mutant of TypeRefused: every rejection starts the fallback.
TypeRefusedAlways(r) == StatusOf(r) = "rejected"

\* _is_type_not_supported_rejection: the text matches one of the needles.
TypeRefused(r) == r \in {"unsupported_type", "new_order_rejected"}

\* _ccxt_to_local_status: "open" maps to no status at all.
LocalStatus(x) ==
  CASE x = "closed"   -> "filled"
    [] x = "canceled" -> "cancelled"
    [] x = "rejected" -> "rejected"
    [] OTHER          -> "none"

\* Mutant of NextAttempt: running out of attempts falls through to success.
NextAttemptFallsThrough(s) ==
  IF attempt[s] < StopAttempts
  THEN /\ attempt' = [attempt EXCEPT ![s] = @ + 1]
       /\ call' = [call EXCEPT ![s] = "stop_market"]
       /\ Goto(s, "create")
  ELSE /\ Goto(s, "link")
       /\ UNCHANGED <<attempt, call>>

\* _maybe_backoff, and the loop it guards.
NextAttempt(s) ==
  IF attempt[s] < StopAttempts
  THEN /\ attempt' = [attempt EXCEPT ![s] = @ + 1]
       /\ call' = [call EXCEPT ![s] = "stop_market"]
       /\ Goto(s, "create")
  ELSE /\ Goto(s, "stop_failed")
       /\ UNCHANGED <<attempt, call>>

\* create_order raised: the executor fails the trade, the stop placer retries.
Raised(s) ==
  IF call[s] = "entry"
  THEN Goto(s, "fail") /\ UNCHANGED <<attempt, call>>
  ELSE NextAttempt(s)

\* create_order returned an OrderResult with this status; "refused" when its
\* reason says the order type is not supported.
EntryReturned(s, status) ==
  /\ Goto(s, IF status = "submitted" THEN "wait" ELSE "fail")
  /\ UNCHANGED <<attempt, call>>

StopReturned(s, status, refused) ==
  LET fallback == refused /\ call[s] = "stop_market" IN
  \/ /\ status = "submitted"
     /\ Goto(s, "link")
     /\ UNCHANGED <<attempt, call>>
  \/ /\ status = "rejected" /\ fallback
     /\ call' = [call EXCEPT ![s] = "stop_limit"]
     /\ Goto(s, "create")
     /\ UNCHANGED attempt
  \/ /\ status \in {"rejected", "cancelled"} /\ ~fallback
     /\ Goto(s, "stop_failed")
     /\ UNCHANGED <<attempt, call>>
  \/ /\ status = "failed"
     /\ NextAttempt(s)

Returned(s, status, refused) ==
  IF call[s] = "entry" THEN EntryReturned(s, status)
                       ELSE StopReturned(s, status, refused)

-----------------------------------------------------------------------------
(* The executor task of signal s *)

\* The operator approves: the handler spawns the executor in the background.
Approve(s) ==
  /\ pc[s] = "idle"
  /\ Goto(s, "add_trade")
  /\ UNCHANGED <<gate, call, attempt, polls, reply, observed, filledAmt, dbVars,
                 exVars, noticeVars, recVars, boundVars>>

\* A sized amount that is missing, not positive or quantised to zero.
Skip(s) ==
  /\ pc[s] = "add_trade"
  /\ Goto(s, "done")
  /\ UNCHANGED <<gate, call, attempt, polls, reply, observed, filledAmt, dbVars,
                 exVars, noticeVars, recVars, boundVars>>

\* trades.add: the pending trade, UNIQUE per signal.
AddTrade(s) ==
  /\ pc[s] = "add_trade"
  /\ trade[s] = "none"
  /\ trade' = [trade EXCEPT ![s] = "pending"]
  /\ Goto(s, "create")
  /\ UNCHANGED <<gate, call, attempt, polls, reply, observed, filledAmt, ord,
                 linked, exVars, noticeVars, recVars, boundVars>>

\* Mutant of AddOrGet: a failed row is taken for a new one.
AddOrGetReusesFailed(s) ==
  LET o == Current(s) IN
  /\ pc[s] = "create"
  /\ \/ /\ ord[o] \in {"absent", "created", "failed"}
        /\ ord' = [ord EXCEPT ![o] = "created"]
        /\ Goto(s, "submit")
        /\ UNCHANGED <<attempt, call>>
     \/ /\ ord[o] \notin {"absent", "created", "failed"}
        /\ Returned(s, ord[o], FALSE)
        /\ UNCHANGED ord
  /\ UNCHANGED <<gate, polls, reply, observed, filledAmt, trade, linked, exVars,
                 noticeVars, recVars, boundVars>>

\* create_order, first step: add_or_get.  A row past "created" is returned as
\* it is, without the reason it was given (_row_to_result drops it).
AddOrGet(s) ==
  LET o == Current(s) IN
  /\ pc[s] = "create"
  /\ \/ /\ ord[o] \in {"absent", "created"}
        /\ ord' = [ord EXCEPT ![o] = "created"]
        /\ Goto(s, "submit")
        /\ UNCHANGED <<attempt, call>>
     \/ /\ ord[o] \notin {"absent", "created"}
        /\ Returned(s, ord[o], FALSE)
        /\ UNCHANGED ord
  /\ UNCHANGED <<gate, polls, reply, observed, filledAmt, trade, linked, exVars,
                 noticeVars, recVars, boundVars>>

\* The seatbelt blocks the write, or the adapter cannot connect.
SubmitGated(s) ==
  /\ pc[s] = "submit"
  /\ \/ /\ gate = "blocked"
        /\ reply' = [reply EXCEPT ![s] = "blocked"]
        /\ Goto(s, "record")
        /\ UNCHANGED <<attempt, call>>
     \/ /\ gate = "no_credentials"
        /\ Raised(s)
        /\ UNCHANGED reply
  /\ UNCHANGED <<gate, polls, observed, filledAmt, dbVars, exVars, noticeVars,
                 recVars, boundVars>>

\* Why the exchange may answer an order with an error it did not accept it with.
Errors(o) ==
  {"timeout", "server_error", "new_order_rejected"}
    \union (IF exState[o] = "none" THEN {"invalid", "unsupported_type"} ELSE {})

\* exchange.create_order.  The exchange may accept the order and its answer be
\* lost (timeout, 5xx); it refuses a client id it has already seen.
Submit(s) ==
  LET o == Current(s) IN
  /\ pc[s] = "submit"
  /\ gate = "open"
  /\ sends' = [sends EXCEPT ![o] = @ + 1]
  /\ \/ /\ exState[o] = "none"
        /\ exState' = [exState EXCEPT ![o] = "open"]
        /\ exSize' = [exSize EXCEPT ![o] = IF call[s] = "entry" THEN Lot
                                                                ELSE filledAmt[s]]
        /\ \E r \in {"ack", "timeout", "server_error"} :
              reply' = [reply EXCEPT ![s] = r]
     \/ /\ \E r \in Errors(o) : reply' = [reply EXCEPT ![s] = r]
        /\ UNCHANGED <<exState, exSize>>
  /\ Goto(s, "record")
  /\ UNCHANGED <<gate, call, attempt, polls, observed, filledAmt, dbVars, exFilled,
                 noticeVars, recVars, boundVars>>

\* The outcome is written, expected_from_status = "created", and returned.
Record(s) ==
  LET o == Current(s) IN
  /\ pc[s] = "record"
  /\ ord[o] = "created"
  /\ ord' = [ord EXCEPT ![o] = StatusOf(reply[s])]
  /\ Returned(s, StatusOf(reply[s]), TypeRefused(reply[s]))
  /\ reply' = [reply EXCEPT ![s] = "none"]
  /\ UNCHANGED <<gate, polls, observed, filledAmt, trade, linked, exVars,
                 noticeVars, recVars, boundVars>>

\* wait_for_fill, first step: the row may already be terminal.
BeginWait(s) ==
  /\ pc[s] = "wait"
  /\ Goto(s, IF ord[Entry(s)] = "submitted" THEN "poll" ELSE "fail")
  /\ UNCHANGED <<gate, call, attempt, polls, reply, observed, filledAmt, dbVars,
                 exVars, noticeVars, recVars, boundVars>>

\* Mutant of Poll: a partial fill is taken for a fill.
PollPartialIsFill(s) ==
  LET seen == IF exFilled[Entry(s)] > 0 THEN "filled"
                                        ELSE LocalStatus(exState[Entry(s)]) IN
  /\ pc[s] = "poll"
  /\ polls[s] < MaxPolls
  /\ polls' = [polls EXCEPT ![s] = @ + 1]
  /\ \/ UNCHANGED <<pc, observed, filledAmt>>
     \/ /\ seen # "none"
        /\ observed' = [observed EXCEPT ![s] = seen]
        /\ filledAmt' = [filledAmt EXCEPT ![s] = exFilled[Entry(s)]]
        /\ Goto(s, "poll_write")
  /\ UNCHANGED <<gate, call, attempt, reply, dbVars, exVars, noticeVars, recVars,
                 boundVars>>

\* Mutant of Poll: the deadline is recomputed at each poll and never comes.
PollForever(s) ==
  LET seen == LocalStatus(exState[Entry(s)]) IN
  /\ pc[s] = "poll"
  /\ \/ UNCHANGED <<pc, observed, filledAmt>>
     \/ /\ seen # "none"
        /\ observed' = [observed EXCEPT ![s] = seen]
        /\ filledAmt' = [filledAmt EXCEPT ![s] = exFilled[Entry(s)]]
        /\ Goto(s, "poll_write")
  /\ UNCHANGED <<gate, call, attempt, polls, reply, dbVars, exVars, noticeVars,
                 recVars, boundVars>>

\* One poll: the call fails, the order is still open, or it has ended.
Poll(s) ==
  LET seen == LocalStatus(exState[Entry(s)]) IN
  /\ pc[s] = "poll"
  /\ polls[s] < MaxPolls
  /\ polls' = [polls EXCEPT ![s] = @ + 1]
  /\ \/ UNCHANGED <<pc, observed, filledAmt>>
     \/ /\ seen # "none"
        /\ observed' = [observed EXCEPT ![s] = seen]
        /\ filledAmt' = [filledAmt EXCEPT ![s] = exFilled[Entry(s)]]
        /\ Goto(s, "poll_write")
  /\ UNCHANGED <<gate, call, attempt, reply, dbVars, exVars, noticeVars, recVars,
                 boundVars>>

\* The detector's transition has no expected_from_status.
PollWrite(s) ==
  /\ pc[s] = "poll_write"
  /\ ord' = [ord EXCEPT ![Entry(s)] = observed[s]]
  /\ observed' = [observed EXCEPT ![s] = "none"]
  /\ Goto(s, "refresh")
  /\ UNCHANGED <<gate, call, attempt, polls, reply, filledAmt, trade, linked,
                 exVars, noticeVars, recVars, boundVars>>

\* The row is read back and the result built from what it says.
Refresh(s) ==
  /\ pc[s] = "refresh"
  /\ Goto(s, IF ord[Entry(s)] = "filled" THEN "stop_get" ELSE "fail")
  /\ UNCHANGED <<gate, call, attempt, polls, reply, observed, filledAmt, dbVars,
                 exVars, noticeVars, recVars, boundVars>>

\* Mutant of PollTimeout: the executor returns without failing the trade.
PollTimeoutReturns(s) ==
  /\ pc[s] = "poll"
  /\ polls[s] > 0
  /\ Goto(s, "done")
  /\ UNCHANGED <<gate, call, attempt, polls, reply, observed, filledAmt, dbVars,
                 exVars, noticeVars, recVars, boundVars>>

\* The polling clock runs out; slow calls make that possible after any poll.
PollTimeout(s) ==
  /\ pc[s] = "poll"
  /\ polls[s] > 0
  /\ Goto(s, "fail")
  /\ UNCHANGED <<gate, call, attempt, polls, reply, observed, filledAmt, dbVars,
                 exVars, noticeVars, recVars, boundVars>>

\* place_stop_after_fill: the entry row must say it has filled.
BeginStop(s) ==
  /\ pc[s] = "stop_get"
  /\ ord[Entry(s)] = "filled"
  /\ attempt' = [attempt EXCEPT ![s] = 1]
  /\ call' = [call EXCEPT ![s] = "stop_market"]
  /\ Goto(s, "create")
  /\ UNCHANGED <<gate, polls, reply, observed, filledAmt, dbVars, exVars,
                 noticeVars, recVars, boundVars>>

\* No stop was placed: alert and incident, then the executor fails the trade.
StopFailed(s) ==
  /\ pc[s] = "stop_failed"
  /\ alerted' = [alerted EXCEPT ![s] = TRUE]
  /\ incident' = [incident EXCEPT ![s] = TRUE]
  /\ Goto(s, "fail")
  /\ UNCHANGED <<gate, call, attempt, polls, reply, observed, filledAmt, dbVars,
                 exVars, opened, recVars, boundVars>>

\* link_orders_to_trade: the entry and its stop in one transaction.
Link(s) ==
  /\ pc[s] = "link"
  /\ linked' = [linked EXCEPT ![Entry(s)] = TRUE, ![Current(s)] = TRUE]
  /\ Goto(s, "open")
  /\ UNCHANGED <<gate, call, attempt, polls, reply, observed, filledAmt, trade,
                 ord, exVars, noticeVars, recVars, boundVars>>

\* pending -> open, expected_from_status = "pending".
OpenTrade(s) ==
  /\ pc[s] = "open"
  /\ trade[s] = "pending"
  /\ trade' = [trade EXCEPT ![s] = "open"]
  /\ Goto(s, "notify")
  /\ UNCHANGED <<gate, call, attempt, polls, reply, observed, filledAmt, ord,
                 linked, exVars, noticeVars, recVars, boundVars>>

NotifyOpen(s) ==
  /\ pc[s] = "notify"
  /\ opened' = [opened EXCEPT ![s] = TRUE]
  /\ Goto(s, "done")
  /\ UNCHANGED <<gate, call, attempt, polls, reply, observed, filledAmt, dbVars,
                 exVars, alerted, incident, recVars, boundVars>>

\* _fail: the trade becomes failed, from whatever status it has...
Fail(s) ==
  /\ pc[s] = "fail"
  /\ trade' = [trade EXCEPT ![s] = "failed"]
  /\ Goto(s, "fail_alert")
  /\ UNCHANGED <<gate, call, attempt, polls, reply, observed, filledAmt, ord,
                 linked, exVars, noticeVars, recVars, boundVars>>

\* ... and the operator is alerted.
FailAlert(s) ==
  /\ pc[s] = "fail_alert"
  /\ alerted' = [alerted EXCEPT ![s] = TRUE]
  /\ Goto(s, "done")
  /\ UNCHANGED <<gate, call, attempt, polls, reply, observed, filledAmt, dbVars,
                 exVars, incident, opened, recVars, boundVars>>

-----------------------------------------------------------------------------
(* Database errors.  Each step that touches the database may raise instead   *)
(* of returning, before its transaction committed or after it.               *)

\* trades.add raises: execute returns "failed" and no more is done.
AddTradeFault(s) ==
  /\ pc[s] = "add_trade"
  /\ \/ UNCHANGED trade
     \/ trade' = [trade EXCEPT ![s] = "pending"]
  /\ Goto(s, "done")
  /\ UNCHANGED <<call, attempt, reply, observed, ord>>

\* create_order raises from add_or_get or from writing the outcome.
CreateFault(s) ==
  LET o == Current(s) IN
  /\ \/ /\ pc[s] = "create"
        /\ \/ UNCHANGED ord
           \/ ord[o] = "absent" /\ ord' = [ord EXCEPT ![o] = "created"]
     \/ /\ pc[s] = "record"
        /\ \/ UNCHANGED ord
           \/ ord' = [ord EXCEPT ![o] = StatusOf(reply[s])]
  /\ Raised(s)
  /\ reply' = [reply EXCEPT ![s] = "none"]
  /\ UNCHANGED <<observed, trade>>

\* Nothing in the fill detector or at the head of the stop placer catches it:
\* the exception reaches execute(), which only logs it.
UncaughtFault(s) ==
  /\ pc[s] \in {"wait", "poll_write", "refresh", "stop_get"}
  /\ \/ UNCHANGED ord
     \/ pc[s] = "poll_write" /\ ord' = [ord EXCEPT ![Entry(s)] = observed[s]]
  /\ observed' = [observed EXCEPT ![s] = "none"]
  /\ Goto(s, "done")
  /\ UNCHANGED <<call, attempt, reply, trade>>

\* Linking and the two transitions of the trade are caught and logged.
SwallowedFault(s) ==
  /\ \/ pc[s] = "link" /\ Goto(s, "open")
     \/ pc[s] = "open" /\ Goto(s, "notify")
     \/ pc[s] = "fail" /\ Goto(s, "fail_alert")
  /\ UNCHANGED <<call, attempt, reply, observed, trade, ord>>

StorageFault(s) ==
  /\ faults < MaxFaults
  /\ faults' = faults + 1
  /\ AddTradeFault(s) \/ CreateFault(s) \/ UncaughtFault(s) \/ SwallowedFault(s)
  /\ UNCHANGED <<gate, polls, filledAmt, linked, exVars, noticeVars, recVars, crashes>>

-----------------------------------------------------------------------------
(* The reconciler *)

\* _fetch_exchange_open_orders: a symbol whose call fails is skipped.  Behind
\* the seatbelt the feed is empty (dry run) or of an account that never had
\* these orders (production url); without credentials the pass fails already
\* at its snapshot.
FetchExchange(p) ==
  /\ rpc[p] = "idle" /\ gate # "no_credentials"
  /\ \E failing \in SUBSET Polled :
        rFeed' = [rFeed EXCEPT ![p] =
                    {o \in Orders : /\ gate = "open" /\ exState[o] = "open"
                                    /\ o[1] \in Polled \ failing}]
  /\ rpc' = [rpc EXCEPT ![p] = "fetched"]
  /\ UNCHANGED <<gate, execVars, dbVars, exVars, noticeVars, rOrphanDb, rOrphanEx,
                 boundVars>>

\* Any failure up to the diff (the snapshot, the connection, reading the table)
\* ends the pass with an error run and nothing patched.
PassFails(p) ==
  /\ rpc[p] \in {"idle", "fetched"}
  /\ rpc' = [rpc EXCEPT ![p] = "idle"]
  /\ rFeed' = [rFeed EXCEPT ![p] = {}]
  /\ UNCHANGED <<gate, execVars, dbVars, exVars, noticeVars, rOrphanDb, rOrphanEx,
                 boundVars>>

\* Mutant of DiffOrders: the difference is taken the wrong way round.
DiffOrdersSwapped(p) ==
  LET dbOpen == {o \in Orders : ord[o] = "submitted"} IN
  /\ rpc[p] = "fetched"
  /\ rOrphanEx' = [rOrphanEx EXCEPT ![p] = dbOpen \ rFeed[p]]
  /\ rOrphanDb' = [rOrphanDb EXCEPT ![p] = rFeed[p] \ dbOpen]
  /\ rFeed' = [rFeed EXCEPT ![p] = {}]
  /\ rpc' = [rpc EXCEPT ![p] = "patching"]
  /\ UNCHANGED <<gate, execVars, dbVars, exVars, noticeVars, boundVars>>

\* _fetch_db_open_orders and _diff_orders.
DiffOrders(p) ==
  LET dbOpen == {o \in Orders : ord[o] = "submitted"} IN
  /\ rpc[p] = "fetched"
  /\ rOrphanEx' = [rOrphanEx EXCEPT ![p] = rFeed[p] \ dbOpen]
  /\ rOrphanDb' = [rOrphanDb EXCEPT ![p] = dbOpen \ rFeed[p]]
  /\ rFeed' = [rFeed EXCEPT ![p] = {}]
  /\ rpc' = [rpc EXCEPT ![p] = "patching"]
  /\ UNCHANGED <<gate, execVars, dbVars, exVars, noticeVars, boundVars>>

\* Mutant of PatchOrphan: no expected_from_status.
PatchOrphanUnchecked(p) ==
  /\ rpc[p] = "patching"
  /\ \E o \in rOrphanDb[p] :
        /\ rOrphanDb' = [rOrphanDb EXCEPT ![p] = @ \ {o}]
        /\ ord' = [ord EXCEPT ![o] = "cancelled"]
  /\ UNCHANGED <<gate, execVars, trade, linked, exVars, noticeVars, rpc, rFeed,
                 rOrphanEx, boundVars>>

\* _patch_orphan_db, one row: expected_from_status is the status it was read
\* with, a stale row is left alone.  The feed holds open orders only, so the
\* status written is always _ccxt_to_local_terminal(None).
PatchOrphan(p) ==
  /\ rpc[p] = "patching"
  /\ \E o \in rOrphanDb[p] :
        /\ rOrphanDb' = [rOrphanDb EXCEPT ![p] = @ \ {o}]
        /\ ord' = [ord EXCEPT ![o] = IF @ = "submitted" THEN "cancelled" ELSE @]
  /\ UNCHANGED <<gate, execVars, trade, linked, exVars, noticeVars, rpc, rFeed,
                 rOrphanEx, boundVars>>

\* A patch that raises is logged; the pass goes on with the next row.
PatchFault(p) ==
  /\ rpc[p] = "patching"
  /\ faults < MaxFaults
  /\ faults' = faults + 1
  /\ \E o \in rOrphanDb[p] : rOrphanDb' = [rOrphanDb EXCEPT ![p] = @ \ {o}]
  /\ UNCHANGED <<gate, execVars, dbVars, exVars, noticeVars, rpc, rFeed, rOrphanEx,
                 crashes>>

\* The run is persisted; the next pass starts from nothing.
FinishPass(p) ==
  /\ rpc[p] = "patching"
  /\ rOrphanDb[p] = {}
  /\ rOrphanEx' = [rOrphanEx EXCEPT ![p] = {}]
  /\ rpc' = [rpc EXCEPT ![p] = "idle"]
  /\ UNCHANGED <<gate, execVars, dbVars, exVars, noticeVars, rFeed, rOrphanDb,
                 boundVars>>

-----------------------------------------------------------------------------
(* The exchange and the process *)

\* One unit of an open order fills; a full order is closed.
ExchangeFill(o) ==
  /\ exState[o] = "open"
  /\ exFilled' = [exFilled EXCEPT ![o] = @ + 1]
  /\ exState' = [exState EXCEPT ![o] = IF exFilled[o] + 1 = exSize[o] THEN "closed" ELSE @]
  /\ UNCHANGED <<gate, execVars, dbVars, exSize, sends, noticeVars, recVars, boundVars>>

\* The order is cancelled at the exchange (by hand, by expiry) or rejected.
ExchangeEnd(o) ==
  /\ exState[o] = "open"
  /\ \E end \in {"canceled", "rejected"} : exState' = [exState EXCEPT ![o] = end]
  /\ UNCHANGED <<gate, execVars, dbVars, exSize, exFilled, sends, noticeVars, recVars,
                 boundVars>>

\* A crash loses every task and pass in memory; the restart resumes none, and
\* reads the settings anew: the seatbelt may be another one, with orders of the
\* previous process still resting at the exchange.
Crash ==
  /\ crashes < MaxCrashes
  /\ crashes' = crashes + 1
  /\ pc' = [s \in Signals |-> IF pc[s] \in {"idle", "done"} THEN pc[s] ELSE "lost"]
  /\ rpc' = [p \in Passes |-> "idle"]
  /\ rFeed' = [p \in Passes |-> {}]
  /\ rOrphanDb' = [p \in Passes |-> {}]
  /\ rOrphanEx' = [p \in Passes |-> {}]
  /\ gate' \in Gates
  /\ UNCHANGED <<call, attempt, polls, reply, observed, filledAmt, dbVars, exVars,
                 noticeVars, faults>>

-----------------------------------------------------------------------------
(* Specification *)

ExecutorStep(s) ==
  \/ Skip(s) \/ AddTrade(s) \/ AddOrGet(s) \/ SubmitGated(s) \/ Submit(s)
  \/ Record(s) \/ BeginWait(s) \/ Poll(s) \/ PollWrite(s) \/ Refresh(s)
  \/ PollTimeout(s) \/ BeginStop(s) \/ StopFailed(s) \/ Link(s) \/ OpenTrade(s)
  \/ NotifyOpen(s) \/ Fail(s) \/ FailAlert(s)

ReconcileStep(p) ==
  FetchExchange(p) \/ DiffOrders(p) \/ PatchOrphan(p) \/ FinishPass(p)

Next ==
  \/ \E s \in Signals : Approve(s) \/ ExecutorStep(s) \/ StorageFault(s)
  \/ \E p \in Passes : ReconcileStep(p) \/ PassFails(p) \/ PatchFault(p)
  \/ \E o \in Orders : ExchangeFill(o) \/ ExchangeEnd(o)
  \/ Crash

Spec == Init /\ [][Next]_vars

\* The event loop runs every task that is ready, and the scheduler starts a
\* pass every five minutes.  Passes may fail, but not for ever: one that is
\* tried again and again gets to its diff.  Operators, the exchange and failures
\* are not fair.
FairSpec ==
  /\ Spec
  /\ \A s \in Signals : WF_vars(ExecutorStep(s))
  /\ \A p \in Passes : WF_vars(ReconcileStep(p)) /\ SF_vars(DiffOrders(p))

-----------------------------------------------------------------------------
(* Safety *)

\* Some stop order of s reached the exchange, for the amount the entry filled.
Protected(s) ==
  \E k \in StopKinds : /\ exState[<<s, k>>] # "none"
                       /\ exSize[<<s, k>>] = exFilled[Entry(s)]

\* A trade is only marked open, and the operator only told so, when its entry
\* is completely filled at the exchange and a stop for exactly that amount was
\* accepted there: through lost answers, retries, the stop_limit fallback,
\* database errors, concurrent reconcile passes and crashes (executor.py).
OpenTradeIsProtected ==
  \A s \in Signals :
    trade[s] = "open" \/ opened[s] => exState[Entry(s)] = "closed" /\ Protected(s)

\* Order rows never claim more than the exchange did: no order exists there
\* without a row written before it was sent, a submitted row was accepted, a
\* filled row is closed and full (create_order, fill detector, reconciler).
LedgerAgrees ==
  \A o \in Orders :
    /\ exState[o] # "none" => ord[o] # "absent"
    /\ ord[o] = "submitted" => exState[o] # "none"
    /\ ord[o] = "filled" => exState[o] = "closed" /\ exFilled[o] = exSize[o]

\* A stop reaches the exchange only for an entry that is completely filled
\* there and recorded as filled, whatever reconcile passes do to the entry's
\* row while it is polled (fill_detector.py, stop_placer.py).
StopOnlyAfterFill ==
  \A s \in Signals, k \in StopKinds :
    exState[<<s, k>>] # "none"
      => exState[Entry(s)] = "closed" /\ ord[Entry(s)] = "filled"

\* Unless the database failed, at most one stop rests at the exchange for a
\* trade: neither the retries nor the fallback to stop_limit ever double it.
AtMostOneLiveStop ==
  \A s \in Signals :
    faults = 0 => \E k \in StopKinds : exState[<<s, k>>] # "open"

\* A client id is sent to the exchange once, plus at most once for every
\* database error that hid the outcome of a send (add_or_get's idempotency).
ResentOnlyAfterFault ==
  \A o \in Orders : sends[o] <= 1 + faults

\* Unless the database failed, an executor that ran to its end and leaves a
\* filled amount with no stop at the exchange has marked the trade failed and
\* alerted the operator, and has emitted the incident if it knew of the fill.
UncoveredFillIsReported ==
  \A s \in Signals :
    /\ pc[s] = "done" /\ faults = 0
    /\ exFilled[Entry(s)] > 0
    /\ \A k \in StopKinds : exState[<<s, k>>] = "none"
    => /\ trade[s] = "failed" /\ alerted[s]
       /\ ord[Entry(s)] = "filled" => incident[s]

\* The detector writes without expected_from_status, so it can rewrite a row
\* that a reconcile pass has closed; when it does, the row was "cancelled" and
\* becomes what the exchange really says of the order.
RewritesOnlyCorrect ==
  [][\A o \in Orders :
       ord[o] \in Terminal /\ ord'[o] # ord[o]
         => ord[o] = "cancelled" /\ ord'[o] = LocalStatus(exState[o])]_vars

-----------------------------------------------------------------------------
(* Liveness *)

\* Every executor that starts brings its trade out of pending, unless the
\* process crashed or the database failed under it.
PendingResolves ==
  \A s \in Signals :
    trade[s] = "pending" ~> (trade[s] \in {"open", "failed"} \/ pc[s] = "lost" \/ faults > 0)

\* Submitted rows of orders that have ended at the exchange do not stay open
\* for ever, even when the process crashed while it was following them; only a
\* process restarted without credentials can no longer ask for them.
SubmittedRowsConverge ==
  \A o \in Orders :
    (ord[o] = "submitted" /\ exState[o] # "open")
      ~> (ord[o] # "submitted" \/ gate = "no_credentials")

-----------------------------------------------------------------------------
(* Refinement *)

Contract == INSTANCE TradeContract WITH
  phase    <- trade,
  position <- [s \in Signals |-> exFilled[Entry(s)]],
  covered  <- [s \in Signals |-> \E k \in StopKinds : exState[<<s, k>>] # "none"]

\* The execution layer implements the contract of TradeContract: each of its
\* steps is a step of the contract or changes nothing the contract speaks of.
RefinesContract == Contract!ContractSpec

=============================================================================
