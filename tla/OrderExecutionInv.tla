-------------------------- MODULE OrderExecutionInv --------------------------
(***************************************************************************)
(* The inductive invariant behind the safety theorems of OrderExecution.   *)
(* TLC checks it as an invariant; OrderExecutionProofs proves that it is   *)
(* inductive and that it implies the properties.                           *)
(***************************************************************************)
EXTENDS OrderExecution

\* Steps before the trade row exists, and steps at which the task holds it.
BeforeTrade == {"idle", "add_trade"}
Waiting     == {"wait", "poll", "poll_write", "refresh", "stop_get"}
Opening     == {"link", "open", "notify"}
Holding     == Waiting \union {"create", "submit", "record", "stop_failed",
                               "link", "open", "fail"}

\* An order: the exchange only has orders for a whole lot, nothing fills beyond
\* it and closed means full; the row never claims more than the exchange did.
OrderSound(o) ==
  /\ exState[o] = "none" => exFilled[o] = 0
  /\ exState[o] = "open" => exFilled[o] < Lot
  /\ exState[o] = "closed" => exFilled[o] = Lot
  /\ exState[o] # "none" => exSize[o] = Lot /\ ord[o] # "absent"
  /\ ord[o] = "submitted" => exState[o] # "none"
  /\ ord[o] = "filled" => exState[o] = "closed"

\* Before the fill is known there is no stop; from then on the entry row says
\* filled, and the amount to cover is the whole lot.
FillSound(s) ==
  /\ call[s] = "entry" =>
       \A k \in StopKinds : exState[<<s, k>>] = "none" /\ ord[<<s, k>>] = "absent"
  /\ call[s] # "entry" => ord[Entry(s)] = "filled" /\ filledAmt[s] = Lot

\* What holds at each step of the task.
StepSound(s) ==
  /\ pc[s] \in BeforeTrade =>
       /\ trade[s] = "none" /\ call[s] = "entry"
       /\ ord[Entry(s)] = "absent" /\ exState[Entry(s)] = "none"
  /\ pc[s] \in Holding => trade[s] = "pending"
  /\ pc[s] = "create" /\ call[s] = "entry" => ord[Entry(s)] = "absent"
  /\ pc[s] \in {"submit", "record"} => ord[Current(s)] = "created"
  /\ pc[s] = "record" /\ reply[s] = "ack" => exState[Current(s)] # "none"
  /\ pc[s] \in Waiting => call[s] = "entry"
  /\ pc[s] \in {"wait", "poll", "poll_write"} =>
       ord[Entry(s)] \in {"submitted", "cancelled"}
  /\ pc[s] = "poll_write" =>
       observed[s] # "none" /\ observed[s] = LocalStatus(exState[Entry(s)])
  /\ pc[s] = "poll_write" /\ observed[s] = "filled" => filledAmt[s] = Lot
  /\ pc[s] \in {"refresh", "stop_get"} /\ ord[Entry(s)] = "filled" => filledAmt[s] = Lot
  /\ pc[s] = "stop_get" => ord[Entry(s)] = "filled"
  /\ pc[s] \in Opening \union {"stop_failed"} => call[s] # "entry"

\* A trade that is open, is about to be, or was reported open has its stop.
CoverSound(s) ==
  /\ trade[s] = "none" => exState[Entry(s)] = "none" /\ call[s] = "entry"
  /\ opened[s] => pc[s] \in {"done", "lost"}
  /\ pc[s] \in Opening \/ trade[s] = "open" \/ opened[s] =>
       call[s] # "entry" /\ exState[Current(s)] # "none"

TaskSound(s) == FillSound(s) /\ StepSound(s) /\ CoverSound(s)

IInv ==
  /\ TypeOK
  /\ \A o \in Orders : OrderSound(o)
  /\ \A s \in Signals : TaskSound(s)

-----------------------------------------------------------------------------
(* What the counts of sends and of faults say: a second inductive invariant, *)
(* relative to the first.                                                    *)

\* The order was handed to the exchange, or withheld by the seatbelt, and the
\* outcome is still to be written.
Recording(o) == pc[o[1]] = "record" /\ Current(o[1]) = o

\* An order is sent from a created row only, and each send that leaves the row
\* created is hidden by a fault; a task lost in a crash sends no more.
SendSound(o) ==
  /\ sends[o] <= 1 + faults
  /\ ord[o] = "absent" => sends[o] = 0
  /\ ord[o] = "created" /\ pc[o[1]] # "lost" /\ ~Recording(o) => sends[o] <= faults
  /\ exState[o] # "none" => sends[o] > 0

\* Without faults, the fallback to stop_limit begins only when the exchange
\* has refused the stop_market order, and never took it.
FallbackSound(s) ==
  LET market == <<s, "stop_market">>
      limit  == <<s, "stop_limit">>
  IN faults = 0 =>
       /\ pc[s] = "record" /\ call[s] = "stop_market" /\ TypeRefused(reply[s])
            => exState[market] = "none"
       /\ call[s] = "stop_limit" \/ ord[limit] # "absent"
            => ord[market] = "rejected" /\ exState[market] = "none"

\* Without faults, a task that gives up has emitted the incident if the entry
\* is filled, and one that has ended never sent, has its stop, or has told.
ReportSound(s) ==
  LET incidentIfFilled == ord[Entry(s)] = "filled" => incident[s]
  IN faults = 0 =>
       /\ pc[s] \in {"fail", "fail_alert"} => incidentIfFilled
       /\ pc[s] = "fail_alert" => trade[s] = "failed"
       /\ pc[s] = "done" =>
            \/ exState[Entry(s)] = "none"
            \/ call[s] # "entry" /\ exState[Current(s)] # "none"
            \/ trade[s] = "failed" /\ alerted[s] /\ incidentIfFilled

CountInv ==
  /\ \A o \in Orders : SendSound(o)
  /\ \A s \in Signals : FallbackSound(s) /\ ReportSound(s)

=============================================================================
