--------------------------- MODULE PanicExecution ---------------------------
(***************************************************************************)
(* The operator's /panic (trading/panic.py, telegram/handlers/panic.py)    *)
(* composed with the execution layer: executor tasks, reconcile passes and *)
(* the exchange go on between any two steps of it.                         *)
(*                                                                         *)
(* The panic lists the open rows, calls the adapter for each, and only     *)
(* then turns trading off.  The adapter answers a cancel or a close with a *)
(* fake confirmation while the seatbelt is on, and raises                  *)
(* NotImplementedError when it is off: no call reaches the exchange.       *)
(***************************************************************************)
EXTENDS OrderExecution

CONSTANT MaxPanics     \* bound: panics in a behaviour

ASSUME PanicAssumption == MaxPanics \in Nat

VARIABLES
  panicStep,   \* "calm", or the part of execute_panic that is running
  toCancel,    \* listed orders the panic has still to cancel
  toClose,     \* signals of listed trades it has still to close
  cancelled,   \* report.cancelled_orders
  closed,      \* report.closed_trades, by their signal
  uncancelled, \* report.errors: the orders whose cancel raised,
  unclosed,    \*   the signals whose close raised,
  failed,      \*   the queries and the write that failed
  enabled,     \* trading_state.enabled
  panics       \* panics so far

panicVars == <<panicStep, toCancel, toClose, cancelled, closed, uncancelled, unclosed,
               failed, enabled, panics>>
allVars   == <<vars, panicVars>>

PanicTypeOK ==
  /\ panicStep \in {"calm", "cancel", "close", "kill"}
  /\ toCancel \subseteq Orders /\ cancelled \subseteq Orders
  /\ toClose \subseteq Signals /\ closed \subseteq Signals
  /\ uncancelled \subseteq Orders /\ unclosed \subseteq Signals
  /\ failed \subseteq {"orders", "trades", "state"}
  /\ enabled \in BOOLEAN
  /\ panics \in 0 .. MaxPanics

PanicInit ==
  /\ Init
  /\ panicStep = "calm"
  /\ toCancel = {} /\ toClose = {}
  /\ cancelled = {} /\ closed = {} /\ uncancelled = {} /\ unclosed = {} /\ failed = {}
  /\ enabled = TRUE
  /\ panics = 0

-----------------------------------------------------------------------------
(* The adapter *)

\* Mutant of AdapterConfirms: any call that reaches the adapter is confirmed.
AdapterConfirmsAlways == TRUE

\* cancel_order and close_position return a fake confirmation behind the
\* seatbelt; past it they raise.
AdapterConfirms == gate = "blocked"

-----------------------------------------------------------------------------
(* The panic *)

\* list_open_by_status: the submitted orders.  Rows still "created" are left
\* out.  A query that fails is recorded and its list is empty.
ListOrders ==
  /\ panicStep = "calm" /\ panics < MaxPanics
  /\ panics' = panics + 1
  /\ panicStep' = "cancel"
  /\ toClose' = {}
  /\ cancelled' = {} /\ closed' = {} /\ uncancelled' = {} /\ unclosed' = {}
  /\ \/ /\ toCancel' = {o \in Orders : ord[o] = "submitted"}
        /\ failed' = {}
        /\ UNCHANGED faults
     \/ /\ faults < MaxFaults
        /\ faults' = faults + 1
        /\ toCancel' = {}
        /\ failed' = {"orders"}
  /\ UNCHANGED <<gate, execVars, dbVars, exVars, noticeVars, recVars, crashes, enabled>>

\* One order: a call that raises is recorded and the next order is tried.
CancelListed ==
  /\ panicStep = "cancel"
  /\ \E o \in toCancel :
        /\ toCancel' = toCancel \ {o}
        /\ cancelled' = IF AdapterConfirms THEN cancelled \union {o} ELSE cancelled
        /\ uncancelled' = IF AdapterConfirms THEN uncancelled ELSE uncancelled \union {o}
  /\ UNCHANGED <<vars, panicStep, toClose, closed, unclosed, failed, enabled, panics>>

\* trades.list_open: pending and open trades, filled or not.
ListTrades ==
  /\ panicStep = "cancel" /\ toCancel = {}
  /\ panicStep' = "close"
  /\ \/ /\ toClose' = {s \in Signals : trade[s] \in {"pending", "open"}}
        /\ UNCHANGED <<failed, faults>>
     \/ /\ faults < MaxFaults
        /\ faults' = faults + 1
        /\ toClose' = {}
        /\ failed' = failed \union {"trades"}
  /\ UNCHANGED <<gate, execVars, dbVars, exVars, noticeVars, recVars, crashes, toCancel,
                 cancelled, closed, uncancelled, unclosed, enabled, panics>>

CloseListed ==
  /\ panicStep = "close"
  /\ \E s \in toClose :
        /\ toClose' = toClose \ {s}
        /\ closed' = IF AdapterConfirms THEN closed \union {s} ELSE closed
        /\ unclosed' = IF AdapterConfirms THEN unclosed ELSE unclosed \union {s}
  /\ UNCHANGED <<vars, panicStep, toCancel, cancelled, uncancelled, failed, enabled,
                 panics>>

\* state_service.update(enabled=False, killed_until=...), last of all and
\* whatever failed before it.
FlipKillSwitch ==
  /\ panicStep = "close" /\ toClose = {}
  /\ panicStep' = "calm"
  /\ \/ /\ enabled' = FALSE
        /\ UNCHANGED <<failed, faults>>
     \/ /\ faults < MaxFaults
        /\ faults' = faults + 1
        /\ failed' = failed \union {"state"}
        /\ UNCHANGED enabled
  /\ UNCHANGED <<gate, execVars, dbVars, exVars, noticeVars, recVars, crashes, toCancel,
                 toClose, cancelled, closed, uncancelled, unclosed, panics>>

\* A crash takes the panic and its report with it.
CrashInPanic ==
  /\ Crash
  /\ panicStep' = "calm"
  /\ toCancel' = {} /\ toClose' = {}
  /\ cancelled' = {} /\ closed' = {} /\ uncancelled' = {} /\ unclosed' = {}
  /\ failed' = {}
  /\ UNCHANGED <<enabled, panics>>

-----------------------------------------------------------------------------
(* Specification *)

PanicStep ==
  ListOrders \/ CancelListed \/ ListTrades \/ CloseListed \/ FlipKillSwitch

ExecutionStep ==
  /\ \/ \E s \in Signals : Approve(s) \/ ExecutorStep(s) \/ StorageFault(s)
     \/ \E p \in Passes : ReconcileStep(p) \/ PassFails(p) \/ PatchFault(p)
     \/ \E o \in Orders : ExchangeFill(o) \/ ExchangeEnd(o)
  /\ UNCHANGED panicVars

PanicNext == PanicStep \/ ExecutionStep \/ CrashInPanic

PanicSpec == PanicInit /\ [][PanicNext]_allVars

-----------------------------------------------------------------------------
(* Safety *)

\* What can be relied on after a panic (panic.py:18-20, 95-107).  Nothing is
\* reported cancelled or closed while the seatbelt lets writes through; and a
\* report that is false, of an order that still rests at the exchange or of a
\* trade that has a position there, takes a restart with the seatbelt on since
\* they were sent: within the life of one process it is true, whatever executors
\* and the exchange did meanwhile.  A panic that ran to its end has turned
\* trading off unless it reports that this write failed, however many cancels
\* and closes failed before it; a crash in the middle is the only other way out.
PanicIsHonest ==
  /\ PanicTypeOK
  /\ cancelled # {} \/ closed # {} => gate = "blocked"
  /\ (\E o \in cancelled : exState[o] = "open")
       \/ (\E s \in closed : exFilled[Entry(s)] > 0) => crashes > 0
  /\ panics > 0 /\ panicStep = "calm" /\ crashes = 0 /\ "state" \notin failed
       => ~enabled

=============================================================================
