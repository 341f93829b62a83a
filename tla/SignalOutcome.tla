---------------------------- MODULE SignalOutcome ----------------------------
(***************************************************************************)
(* What the approval flow promises about a signal, without cards, clicks,  *)
(* decisions, jobs or restarts (trading/signals.py, trading/signal_repo.py *)
(* and the "ok" callback of telegram/handlers/signals.py):                 *)
(*                                                                         *)
(*   - a signal is offered once and gets one outcome, which stays;         *)
(*   - its execution starts at most once, and only if it was taken.        *)
(***************************************************************************)
EXTENDS Naturals

CONSTANT Signals

VARIABLES
  outcome,    \* "none", "offered", then "taken" or "dropped"
  executions  \* executor tasks started for the signal

outcomeVars == <<outcome, executions>>

OutcomeInit ==
  /\ outcome    = [s \in Signals |-> "none"]
  /\ executions = [s \in Signals |-> 0]

Offer(s) ==
  /\ outcome[s] = "none"
  /\ outcome' = [outcome EXCEPT ![s] = "offered"]
  /\ UNCHANGED executions

Settle(s) ==
  /\ outcome[s] = "offered"
  /\ \E o \in {"taken", "dropped"} : outcome' = [outcome EXCEPT ![s] = o]
  /\ UNCHANGED executions

Start(s) ==
  /\ outcome[s] = "taken"
  /\ executions[s] = 0
  /\ executions' = [executions EXCEPT ![s] = 1]
  /\ UNCHANGED outcome

OutcomeNext == \E s \in Signals : Offer(s) \/ Settle(s) \/ Start(s)

OutcomeSpec == OutcomeInit /\ [][OutcomeNext]_outcomeVars

=============================================================================
