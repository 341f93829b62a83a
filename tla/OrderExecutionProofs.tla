------------------------- MODULE OrderExecutionProofs -------------------------
(***************************************************************************)
(* Proofs about OrderExecution, for every set of signals, lot, number of   *)
(* attempts, polls and concurrent reconcile passes, and for any number of  *)
(* database errors and crashes.                                            *)
(*                                                                         *)
(* IInv (OrderExecutionInv) is inductive: one lemma per action or group of *)
(* actions, each reduced by OneTask or OneOrder to the task and the order  *)
(* the action touches; the safety theorems that follow from it come next.  *)
(* The second part is about the properties that count sends and faults,    *)
(* the third about what a step may do to a final row and the refinement,   *)
(* the last about the composition with a panic: it shares the database's   *)
(* faults with the execution layer and nothing else, so the invariants     *)
(* survive; what its report confirms is true because the adapter confirms  *)
(* only behind the seatbelt, where no order ever reaches the exchange.     *)
(***************************************************************************)
EXTENDS OrderExecutionInv, PanicExecution, TLAPS

-----------------------------------------------------------------------------
(* Frames *)

\* Nothing that the invariant says of the task of s, or of order o, changes.
SameTask(s) ==
  /\ pc'[s] = pc[s] /\ call'[s] = call[s] /\ reply'[s] = reply[s]
  /\ observed'[s] = observed[s] /\ filledAmt'[s] = filledAmt[s]
  /\ trade'[s] = trade[s] /\ opened'[s] = opened[s]

SameOrder(o) ==
  /\ ord'[o] = ord[o] /\ exState'[o] = exState[o]
  /\ exSize'[o] = exSize[o] /\ exFilled'[o] = exFilled[o]

\* An order that a step leaves alone stays sound.
LEMMA SameOrderSound ==
  ASSUME NEW o, OrderSound(o), SameOrder(o)
  PROVE  OrderSound(o)'
BY DEF OrderSound, SameOrder

\* A task stays sound when a step touches neither it nor its orders.
LEMMA SameTaskSound ==
  ASSUME NEW s, TaskSound(s), SameTask(s), call[s] \in Kinds,
         \A k \in Kinds : SameOrder(<<s, k>>)
  PROVE  TaskSound(s)'
<1>1. SameOrder(Entry(s)) /\ SameOrder(Current(s))
  BY DEF Entry, Current, Kinds
<1>2. FillSound(s)'
  BY <1>1 DEF TaskSound, FillSound, SameTask, SameOrder, Entry, StopKinds, Kinds
<1>3. StepSound(s)'
  BY <1>1 DEF TaskSound, StepSound, SameTask, SameOrder, Entry, Current
<1>4. CoverSound(s)'
  BY <1>1 DEF TaskSound, CoverSound, SameTask, SameOrder, Entry, Current
<1> QED BY <1>2, <1>3, <1>4 DEF TaskSound

\* A step of one task that touches one of its orders at most: it is enough to
\* look at that task and that order.
LEMMA OneOrder ==
  ASSUME IInv, TypeOK', NEW s \in Signals, NEW k \in Kinds,
         \A o \in Orders : o # <<s, k>> => SameOrder(o),
         \A t \in Signals : t # s => SameTask(t),
         OrderSound(<<s, k>>)', TaskSound(s)'
  PROVE  IInv'
<1>1. ASSUME NEW o \in Orders PROVE OrderSound(o)'
  BY SameOrderSound DEF IInv
<1>2. ASSUME NEW t \in Signals PROVE TaskSound(t)'
  <2>1. CASE t # s
    <3>1. \A j \in Kinds : SameOrder(<<t, j>>)
      BY <2>1 DEF Orders
    <3> QED BY <2>1, <3>1, SameTaskSound DEF IInv, TypeOK
  <2> QED BY <2>1
<1> QED BY <1>1, <1>2 DEF IInv

\* A step of one task that touches no order.
LEMMA OneTask ==
  ASSUME IInv, TypeOK', NEW s \in Signals,
         UNCHANGED <<ord, exState, exSize, exFilled>>,
         \A t \in Signals : t # s => SameTask(t),
         TaskSound(s)'
  PROVE  IInv'
<1>1. \A o \in Orders : SameOrder(o)
  BY DEF SameOrder
<1>2. OrderSound(Entry(s))'
  BY <1>1, SameOrderSound DEF IInv, Entry, Orders, Kinds
<1> QED BY <1>1, <1>2, OneOrder DEF Entry, Kinds

\* A step that leaves every task and every order alone.
LEMMA NoTask ==
  ASSUME IInv, TypeOK',
         UNCHANGED <<ord, exState, exSize, exFilled>>,
         \A t \in Signals : SameTask(t)
  PROVE  IInv'
<1>1. \A o \in Orders : SameOrder(o)
  BY DEF SameOrder
<1>2. \A o \in Orders : OrderSound(o)'
  BY <1>1, SameOrderSound DEF IInv
<1>3. ASSUME NEW t \in Signals PROVE TaskSound(t)'
  BY <1>1, SameTaskSound DEF IInv, TypeOK, Orders
<1> QED BY <1>2, <1>3 DEF IInv

-----------------------------------------------------------------------------
(* create_order's callers *)

\* What it does next when a stop order failed.
LEMMA NextAttemptOutcome ==
  ASSUME TypeOK, NEW s \in Signals, call[s] # "entry", NextAttempt(s)
  PROVE  /\ pc' \in [Signals -> Steps] /\ call' \in [Signals -> Kinds]
         /\ attempt' \in [Signals -> 0 .. StopAttempts]
         /\ \A t \in Signals : t # s => pc'[t] = pc[t] /\ call'[t] = call[t]
         /\ call'[s] # "entry" /\ pc'[s] \in {"create", "stop_failed"}
<1>1. CASE attempt[s] < StopAttempts
  BY <1>1, ExecutionAssumption DEF TypeOK, NextAttempt, Goto, Steps, Kinds, StopKinds
<1>2. CASE ~(attempt[s] < StopAttempts)
  BY <1>2 DEF TypeOK, NextAttempt, Goto, Steps
<1> QED BY <1>1, <1>2

\* What the task does next when create_order raises.
LEMMA RaisedOutcome ==
  ASSUME TypeOK, NEW s \in Signals, Raised(s)
  PROVE  /\ pc' \in [Signals -> Steps] /\ call' \in [Signals -> Kinds]
         /\ attempt' \in [Signals -> 0 .. StopAttempts]
         /\ \A t \in Signals : t # s => pc'[t] = pc[t] /\ call'[t] = call[t]
         /\ call[s] = "entry" => call'[s] = "entry" /\ pc'[s] = "fail"
         /\ call[s] # "entry" => call'[s] # "entry" /\ pc'[s] \in {"create", "stop_failed"}
<1>1. CASE call[s] = "entry"
  BY <1>1 DEF TypeOK, Raised, Goto, Steps
<1>2. CASE call[s] # "entry"
  BY <1>2, NextAttemptOutcome DEF Raised
<1> QED BY <1>1, <1>2

\* What it does next when create_order returns.
LEMMA ReturnedOutcome ==
  ASSUME TypeOK, NEW s \in Signals, NEW status, NEW refused, Returned(s, status, refused)
  PROVE  /\ pc' \in [Signals -> Steps] /\ call' \in [Signals -> Kinds]
         /\ attempt' \in [Signals -> 0 .. StopAttempts]
         /\ \A t \in Signals : t # s => pc'[t] = pc[t] /\ call'[t] = call[t]
         /\ call[s] = "entry" =>
              /\ call'[s] = "entry"
              /\ pc'[s] = IF status = "submitted" THEN "wait" ELSE "fail"
         /\ call[s] # "entry" =>
              /\ call'[s] # "entry"
              /\ \/ pc'[s] \in {"create", "stop_failed"}
                 \/ status = "submitted" /\ pc'[s] = "link" /\ call'[s] = call[s]
<1>1. CASE call[s] = "entry"
  BY <1>1 DEF TypeOK, Returned, EntryReturned, Goto, Steps
<1>2. CASE call[s] # "entry"
  <2>1. CASE NextAttempt(s)
    BY <1>2, <2>1, NextAttemptOutcome
  <2>2. CASE ~NextAttempt(s)
    BY <1>2, <2>2 DEF TypeOK, Returned, StopReturned, Goto, Steps, Kinds, StopKinds
  <2> QED BY <2>1, <2>2
<1> QED BY <1>1, <1>2

-----------------------------------------------------------------------------
(* The executor *)

\* Moves of a task that change nothing else the invariant speaks of.
Move(s, from, to) ==
  \/ from = "idle" /\ to = "add_trade"
  \/ from = "wait" /\ to = "poll" /\ ord[Entry(s)] = "submitted"
  \/ from = "refresh" /\ to = "stop_get" /\ ord[Entry(s)] = "filled"
  \/ from = "link" /\ to = "open"
  \/ from = "open" /\ to = "notify"
  \/ from \in Holding /\ to \in {"fail", "fail_alert"}
  \/ to = "done"

\* They preserve it.
LEMMA MoveInv ==
  ASSUME IInv, TypeOK', NEW s \in Signals, NEW to, Move(s, pc[s], to),
         pc' = [pc EXCEPT ![s] = to],
         UNCHANGED <<call, reply, observed, filledAmt, trade, opened,
                     ord, exState, exSize, exFilled>>
  PROVE  IInv'
<1>1. TypeOK /\ TaskSound(s)
  BY DEF IInv
<1>2. pc'[s] = to /\ \A t \in Signals : t # s => pc'[t] = pc[t]
  BY <1>1 DEF TypeOK
<1>3. \A t \in Signals : t # s => SameTask(t)
  BY <1>2 DEF SameTask
<1>4. FillSound(s)'
  BY <1>1 DEF TaskSound, FillSound, Entry
<1>5. StepSound(s)'
  BY <1>1, <1>2 DEF TaskSound, StepSound, Move, BeforeTrade, Waiting, Opening, Holding,
       Entry, Current
<1>6. CoverSound(s)'
  BY <1>1, <1>2 DEF TaskSound, CoverSound, Move, Opening, Waiting, Holding, Entry, Current
<1> QED BY <1>3, <1>4, <1>5, <1>6, OneTask DEF TaskSound

\* The task starts.
LEMMA ApproveInv ==
  ASSUME IInv, NEW s \in Signals, Approve(s)
  PROVE  IInv'
<1> USE DEF Approve, Goto, dbVars, exVars, noticeVars, recVars, boundVars
<1>1. TypeOK'
  BY DEF IInv, TypeOK, Steps
<1> QED BY <1>1, MoveInv DEF Move

\* Nothing to execute.
LEMMA SkipInv ==
  ASSUME IInv, NEW s \in Signals, Skip(s)
  PROVE  IInv'
<1> USE DEF Skip, Goto, dbVars, exVars, noticeVars, recVars, boundVars
<1>1. TypeOK'
  BY DEF IInv, TypeOK, Steps
<1> QED BY <1>1, MoveInv DEF Move

\* The row may have been cancelled by a reconcile pass.
LEMMA BeginWaitInv ==
  ASSUME IInv, NEW s \in Signals, BeginWait(s)
  PROVE  IInv'
<1> USE DEF BeginWait, Goto, dbVars, exVars, noticeVars, recVars, boundVars
<1>1. TypeOK'
  BY DEF IInv, TypeOK, Steps
<1> QED BY <1>1, MoveInv DEF Move, Holding, Waiting

\* The detector builds its result.
LEMMA RefreshInv ==
  ASSUME IInv, NEW s \in Signals, Refresh(s)
  PROVE  IInv'
<1> USE DEF Refresh, Goto, dbVars, exVars, noticeVars, recVars, boundVars
<1>1. TypeOK'
  BY DEF IInv, TypeOK, Steps
<1> QED BY <1>1, MoveInv DEF Move, Holding, Waiting

\* The detector gives up.
LEMMA PollTimeoutInv ==
  ASSUME IInv, NEW s \in Signals, PollTimeout(s)
  PROVE  IInv'
<1> USE DEF PollTimeout, Goto, dbVars, exVars, noticeVars, recVars, boundVars
<1>1. TypeOK'
  BY DEF IInv, TypeOK, Steps
<1> QED BY <1>1, MoveInv DEF Move, Holding, Waiting

\* No stop was placed.
LEMMA StopFailedInv ==
  ASSUME IInv, NEW s \in Signals, StopFailed(s)
  PROVE  IInv'
<1> USE DEF StopFailed, Goto, dbVars, exVars, noticeVars, recVars, boundVars
<1>1. TypeOK'
  BY DEF IInv, TypeOK, Steps
<1> QED BY <1>1, MoveInv DEF Move, Holding

\* Entry and stop are linked to the trade.
LEMMA LinkInv ==
  ASSUME IInv, NEW s \in Signals, Link(s)
  PROVE  IInv'
<1> USE DEF Link, Goto, dbVars, exVars, noticeVars, recVars, boundVars
<1>1. TypeOK'
  BY DEF IInv, TypeOK, Steps
<1> QED BY <1>1, MoveInv DEF Move

\* The operator is alerted.
LEMMA FailAlertInv ==
  ASSUME IInv, NEW s \in Signals, FailAlert(s)
  PROVE  IInv'
<1> USE DEF FailAlert, Goto, dbVars, exVars, noticeVars, recVars, boundVars
<1>1. TypeOK'
  BY DEF IInv, TypeOK, Steps
<1> QED BY <1>1, MoveInv DEF Move

\* The trade row appears.
LEMMA AddTradeInv ==
  ASSUME IInv, NEW s \in Signals, AddTrade(s)
  PROVE  IInv'
<1>1. TypeOK /\ TaskSound(s)
  BY DEF IInv
<1>2. TypeOK'
  BY <1>1 DEF AddTrade, Goto, TypeOK, Steps, TradeStatus, dbVars, exVars, noticeVars, recVars,
       boundVars
<1>3. \A t \in Signals : t # s => SameTask(t)
  BY <1>1 DEF AddTrade, Goto, SameTask, TypeOK, dbVars, noticeVars
<1>4. /\ pc[s] = "add_trade" /\ pc'[s] = "create" /\ trade'[s] = "pending"
      /\ UNCHANGED <<call, reply, observed, filledAmt, ord, exState, exSize, exFilled, opened>>
  BY <1>1 DEF AddTrade, Goto, TypeOK, dbVars, exVars, noticeVars
<1>5. FillSound(s)'
  BY <1>1, <1>4 DEF TaskSound, FillSound, Entry
<1>6. StepSound(s)'
  BY <1>1, <1>4 DEF TaskSound, StepSound, BeforeTrade, Waiting, Opening, Holding, Entry,
       Current
<1>7. CoverSound(s)'
  BY <1>1, <1>4 DEF TaskSound, StepSound, CoverSound, BeforeTrade, Opening, Holding, Entry,
       Current
<1> QED BY <1>2, <1>3, <1>4, <1>5, <1>6, <1>7, OneTask DEF TaskSound

\* The trade opens.
LEMMA OpenTradeInv ==
  ASSUME IInv, NEW s \in Signals, OpenTrade(s)
  PROVE  IInv'
<1>1. TypeOK /\ TaskSound(s)
  BY DEF IInv
<1>2. TypeOK'
  BY <1>1 DEF OpenTrade, Goto, TypeOK, Steps, TradeStatus, dbVars, exVars, noticeVars, recVars,
       boundVars
<1>3. \A t \in Signals : t # s => SameTask(t)
  BY <1>1 DEF OpenTrade, Goto, SameTask, TypeOK, dbVars, noticeVars
<1>4. /\ pc[s] = "open" /\ pc'[s] = "notify" /\ trade'[s] = "open"
      /\ UNCHANGED <<call, reply, observed, filledAmt, ord, exState, exSize, exFilled, opened>>
  BY <1>1 DEF OpenTrade, Goto, TypeOK, dbVars, exVars, noticeVars
<1>5. FillSound(s)'
  BY <1>1, <1>4 DEF TaskSound, FillSound, Entry
<1>6. StepSound(s)'
  BY <1>1, <1>4 DEF TaskSound, StepSound, BeforeTrade, Waiting, Opening, Holding, Entry,
       Current
<1>7. CoverSound(s)'
  BY <1>1, <1>4 DEF TaskSound, StepSound, CoverSound, BeforeTrade, Opening, Holding, Entry,
       Current
<1> QED BY <1>2, <1>3, <1>4, <1>5, <1>6, <1>7, OneTask DEF TaskSound

\* The operator is told.
LEMMA NotifyOpenInv ==
  ASSUME IInv, NEW s \in Signals, NotifyOpen(s)
  PROVE  IInv'
<1>1. TypeOK /\ TaskSound(s)
  BY DEF IInv
<1>2. TypeOK'
  BY <1>1 DEF NotifyOpen, Goto, TypeOK, Steps, TradeStatus, dbVars, exVars, noticeVars, recVars,
       boundVars
<1>3. \A t \in Signals : t # s => SameTask(t)
  BY <1>1 DEF NotifyOpen, Goto, SameTask, TypeOK, dbVars, noticeVars
<1>4. /\ pc[s] = "notify" /\ pc'[s] = "done" /\ opened'[s]
      /\ UNCHANGED <<call, reply, observed, filledAmt, ord, exState, exSize, exFilled, trade>>
  BY <1>1 DEF NotifyOpen, Goto, TypeOK, dbVars, exVars, noticeVars
<1>5. FillSound(s)'
  BY <1>1, <1>4 DEF TaskSound, FillSound, Entry
<1>6. StepSound(s)'
  BY <1>1, <1>4 DEF TaskSound, StepSound, BeforeTrade, Waiting, Opening, Holding, Entry,
       Current
<1>7. CoverSound(s)'
  BY <1>1, <1>4 DEF TaskSound, StepSound, CoverSound, BeforeTrade, Opening, Holding, Entry,
       Current
<1> QED BY <1>2, <1>3, <1>4, <1>5, <1>6, <1>7, OneTask DEF TaskSound

\* The trade fails.
LEMMA FailInv ==
  ASSUME IInv, NEW s \in Signals, Fail(s)
  PROVE  IInv'
<1>1. TypeOK /\ TaskSound(s)
  BY DEF IInv
<1>2. TypeOK'
  BY <1>1 DEF Fail, Goto, TypeOK, Steps, TradeStatus, dbVars, exVars, noticeVars, recVars,
       boundVars
<1>3. \A t \in Signals : t # s => SameTask(t)
  BY <1>1 DEF Fail, Goto, SameTask, TypeOK, dbVars, noticeVars
<1>4. /\ pc[s] = "fail" /\ pc'[s] = "fail_alert" /\ trade'[s] = "failed"
      /\ UNCHANGED <<call, reply, observed, filledAmt, ord, exState, exSize, exFilled, opened>>
  BY <1>1 DEF Fail, Goto, TypeOK, dbVars, exVars, noticeVars
<1>5. FillSound(s)'
  BY <1>1, <1>4 DEF TaskSound, FillSound, Entry
<1>6. StepSound(s)'
  BY <1>1, <1>4 DEF TaskSound, StepSound, BeforeTrade, Waiting, Opening, Holding, Entry,
       Current
<1>7. CoverSound(s)'
  BY <1>1, <1>4 DEF TaskSound, StepSound, CoverSound, BeforeTrade, Opening, Holding, Entry,
       Current
<1> QED BY <1>2, <1>3, <1>4, <1>5, <1>6, <1>7, OneTask DEF TaskSound

\* What the exchange says of the entry is read: a filled one for its whole lot.
LEMMA PollInv ==
  ASSUME IInv, NEW s \in Signals, Poll(s)
  PROVE  IInv'
<1>1. TypeOK /\ TaskSound(s) /\ Entry(s) \in Orders /\ OrderSound(Entry(s))
  BY DEF IInv, Entry, Orders, Kinds
<1>2. LocalStatus(exState[Entry(s)]) = "filled" => exFilled[Entry(s)] = Lot
  BY <1>1 DEF LocalStatus, OrderSound
<1>3. LocalStatus(exState[Entry(s)]) \in {"none"} \union Terminal
  BY DEF LocalStatus, Terminal
<1>4. TypeOK'
  <2>1. polls' \in [Signals -> 0 .. MaxPolls]
    BY <1>1, ExecutionAssumption DEF Poll, TypeOK
  <2>2. pc' \in [Signals -> Steps] /\ observed' \in [Signals -> {"none"} \union Terminal]
    BY <1>1, <1>3 DEF Poll, Goto, TypeOK, Steps
  <2>3. exFilled[Entry(s)] \in 0 .. Lot
    BY <1>1 DEF TypeOK
  <2>4. filledAmt' \in [Signals -> 0 .. Lot]
    BY <1>1, <2>3 DEF Poll, TypeOK
  <2> QED
    BY <1>1, <2>1, <2>2, <2>4
    DEF Poll, TypeOK, dbVars, exVars, noticeVars, recVars, boundVars
<1>5. \A t \in Signals : t # s => SameTask(t)
  BY <1>1 DEF Poll, Goto, SameTask, TypeOK, dbVars, noticeVars
<1>6. /\ pc[s] = "poll"
      /\ UNCHANGED <<call, reply, trade, ord, exState, exSize, exFilled, opened>>
      /\ \/ UNCHANGED <<pc, observed, filledAmt>>
         \/ /\ pc'[s] = "poll_write" /\ observed'[s] = LocalStatus(exState[Entry(s)])
            /\ observed'[s] # "none" /\ filledAmt'[s] = exFilled[Entry(s)]
  BY <1>1 DEF Poll, Goto, TypeOK, dbVars, exVars, noticeVars
<1>7. FillSound(s)'
  BY <1>1, <1>6 DEF TaskSound, FillSound, StepSound, Waiting, Entry
<1>8. StepSound(s)'
  BY <1>1, <1>2, <1>6 DEF TaskSound, StepSound, BeforeTrade, Waiting, Opening, Holding,
       Entry, Current
<1>9. CoverSound(s)'
  BY <1>1, <1>6 DEF TaskSound, CoverSound, Opening, Entry, Current
<1> QED BY <1>4, <1>5, <1>6, <1>7, <1>8, <1>9, OneTask DEF TaskSound

\* What was read is written: the entry row says what the exchange says.
LEMMA PollWriteInv ==
  ASSUME IInv, NEW s \in Signals, PollWrite(s)
  PROVE  IInv'
<1> DEFINE e == <<s, "entry">>
<1>1. TypeOK /\ TaskSound(s) /\ e \in Orders /\ OrderSound(e) /\ pc[s] = "poll_write"
  BY DEF IInv, PollWrite, Orders, Kinds
<1>2. /\ call[s] = "entry" /\ trade[s] = "pending" /\ ord[e] \in {"submitted", "cancelled"}
      /\ observed[s] # "none" /\ observed[s] = LocalStatus(exState[e])
      /\ observed[s] = "filled" => filledAmt[s] = Lot
  BY <1>1 DEF TaskSound, StepSound, Waiting, Holding, Entry
<1>3. /\ observed[s] \in Terminal
      /\ observed[s] = "filled" => exState[e] = "closed"
      /\ exState[e] # "none"
  BY <1>2 DEF LocalStatus, Terminal
<1>4. TypeOK'
  BY <1>1, <1>3 DEF PollWrite, Goto, TypeOK, OrderStatus, Steps, Entry,
       exVars, noticeVars, recVars, boundVars
<1>5. \A o \in Orders : o # e => SameOrder(o)
  BY <1>1 DEF PollWrite, TypeOK, SameOrder, Entry, exVars
<1>6. \A t \in Signals : t # s => SameTask(t)
  BY <1>1 DEF PollWrite, Goto, TypeOK, SameTask, noticeVars
<1>7. /\ pc'[s] = "refresh" /\ ord'[e] = observed[s]
      /\ UNCHANGED <<call, reply, filledAmt, trade, exState, exSize, exFilled, opened>>
  BY <1>1 DEF PollWrite, Goto, TypeOK, Entry, exVars, noticeVars
<1>8. OrderSound(e)'
  BY <1>1, <1>3, <1>7 DEF OrderSound, Terminal
<1>9. FillSound(s)'
  <2>1. \A k \in StopKinds : SameOrder(<<s, k>>)
    BY <1>5 DEF Orders, Kinds, StopKinds
  <2> QED BY <1>1, <1>2, <1>7, <2>1 DEF TaskSound, FillSound, SameOrder
<1>10. StepSound(s)'
  BY <1>2, <1>7 DEF StepSound, BeforeTrade, Waiting, Opening, Holding, Entry
<1>11. CoverSound(s)'
  BY <1>1, <1>2, <1>7 DEF TaskSound, CoverSound, Opening, Entry
<1> QED
  BY <1>4, <1>5, <1>6, <1>8, <1>9, <1>10, <1>11, OneOrder DEF TaskSound, Kinds

\* The entry is filled, its stop is next.
LEMMA BeginStopInv ==
  ASSUME IInv, NEW s \in Signals, BeginStop(s)
  PROVE  IInv'
<1>1. TypeOK /\ TaskSound(s)
  BY DEF IInv
<1>2. /\ call[s] = "entry" /\ trade[s] = "pending" /\ ~opened[s]
      /\ ord[Entry(s)] = "filled" /\ filledAmt[s] = Lot
  BY <1>1 DEF BeginStop, TaskSound, StepSound, CoverSound, Waiting, Holding
<1>3. /\ pc'[s] = "create" /\ call'[s] = "stop_market"
      /\ UNCHANGED <<reply, observed, filledAmt, trade, ord, exState, exSize, exFilled, opened>>
  BY <1>1 DEF BeginStop, Goto, TypeOK, dbVars, exVars, noticeVars
<1>4. TypeOK'
  BY <1>1, ExecutionAssumption DEF BeginStop, Goto, TypeOK, Steps, Kinds, StopKinds,
       dbVars, exVars, noticeVars, recVars, boundVars
<1>5. \A t \in Signals : t # s => SameTask(t)
  BY <1>1 DEF BeginStop, Goto, SameTask, TypeOK, dbVars, noticeVars
<1>6. FillSound(s)'
  BY <1>2, <1>3 DEF FillSound, Entry
<1>7. StepSound(s)' /\ CoverSound(s)'
  BY <1>2, <1>3 DEF StepSound, CoverSound, BeforeTrade, Waiting, Opening, Holding, Entry
<1> QED BY <1>3, <1>4, <1>5, <1>6, <1>7, OneTask DEF TaskSound

\* The row of the order is found or created.
LEMMA AddOrGetInv ==
  ASSUME IInv, NEW s \in Signals, AddOrGet(s)
  PROVE  IInv'
<1> USE DEF exVars, noticeVars, recVars, boundVars
<1>0. PICK k \in Kinds : k = call[s]
  BY DEF IInv, TypeOK
<1> DEFINE o == <<s, k>>
<1>1. TypeOK /\ pc[s] = "create" /\ o = Current(s) /\ o \in Orders
  BY <1>0 DEF AddOrGet, IInv, Current, Orders
<1>2. OrderSound(o) /\ TaskSound(s)
  BY <1>1 DEF IInv
<1>3. /\ trade[s] = "pending" /\ ~opened[s]
      /\ call[s] = "entry" => ord[o] = "absent"
  BY <1>1, <1>2 DEF TypeOK, TaskSound, StepSound, CoverSound, Holding, Current, Entry
<1>4. CASE ord[o] \in {"absent", "created"}
  <2>1. /\ ord' = [ord EXCEPT ![o] = "created"] /\ pc' = [pc EXCEPT ![s] = "submit"]
        /\ UNCHANGED <<attempt, call>>
    BY <1>1, <1>4 DEF AddOrGet, Goto
  <2>2. /\ \A q \in Orders : q # o => SameOrder(q)
        /\ ord'[o] = "created" /\ pc'[s] = "submit" /\ call'[s] = call[s]
    BY <1>1, <2>1 DEF SameOrder, TypeOK, AddOrGet
  <2>3. TypeOK'
    BY <1>1, <2>1 DEF AddOrGet, TypeOK, OrderStatus, Steps
  <2>4. \A t \in Signals : t # s => SameTask(t)
    BY <1>1, <2>1 DEF AddOrGet, TypeOK, SameTask
  <2>5. OrderSound(o)'
    BY <1>2, <1>4, <2>2 DEF AddOrGet, OrderSound
  <2>6. TaskSound(s)'
    <3>1. \A j \in Kinds : j # call[s] => SameOrder(<<s, j>>)
      BY <1>1, <2>2 DEF Current, Orders
    <3>2. FillSound(s)'
      BY <1>1, <1>2, <2>2, <3>1
      DEF AddOrGet, TaskSound, FillSound, Entry, Current, Kinds, StopKinds, SameOrder
    <3>3. StepSound(s)' /\ CoverSound(s)'
      BY <1>0, <1>1, <1>2, <1>3, <2>2 DEF AddOrGet, TaskSound, StepSound, CoverSound, BeforeTrade,
           Waiting, Opening, Holding, Entry, Current
    <3> QED BY <3>2, <3>3 DEF TaskSound
  <2> QED
    BY <1>1, <2>2, <2>3, <2>4, <2>5, <2>6, OneOrder DEF Current
<1>5. CASE ord[o] \notin {"absent", "created"}
  <2>1. Returned(s, ord[o], FALSE) /\ UNCHANGED ord /\ call[s] # "entry"
    BY <1>0, <1>1, <1>3, <1>5 DEF AddOrGet
  <2>2. /\ pc' \in [Signals -> Steps] /\ call' \in [Signals -> Kinds]
        /\ attempt' \in [Signals -> 0 .. StopAttempts]
        /\ \A t \in Signals : t # s => pc'[t] = pc[t] /\ call'[t] = call[t]
        /\ call'[s] # "entry"
        /\ \/ pc'[s] \in {"create", "stop_failed"}
           \/ pc'[s] = "link" /\ call'[s] = call[s] /\ exState[o] # "none"
    BY <1>1, <1>2, <2>1, ReturnedOutcome DEF OrderSound
  <2>3. TypeOK'
    BY <1>1, <2>1, <2>2 DEF AddOrGet, TypeOK
  <2>4. \A t \in Signals : t # s => SameTask(t)
    BY <2>2 DEF AddOrGet, SameTask
  <2>5. TaskSound(s)'
    BY <1>1, <1>2, <1>3, <2>1, <2>2 DEF AddOrGet, TaskSound, FillSound, StepSound,
         CoverSound, BeforeTrade, Waiting, Opening, Holding, Entry, Current
  <2> QED BY <2>1, <2>3, <2>4, <2>5, OneTask DEF AddOrGet
<1> QED BY <1>4, <1>5

\* The seatbelt stops the write before anything is sent.
LEMMA SubmitGatedInv ==
  ASSUME IInv, NEW s \in Signals, SubmitGated(s)
  PROVE  IInv'
<1> USE DEF dbVars, exVars, noticeVars, recVars, boundVars
<1>1. TypeOK /\ pc[s] = "submit" /\ TaskSound(s)
  BY DEF SubmitGated, IInv
<1>2. trade[s] = "pending" /\ ~opened[s] /\ ord[Current(s)] = "created"
  BY <1>1 DEF TypeOK, TaskSound, StepSound, CoverSound, Holding
<1>3. CASE gate = "blocked"
  <2>1. /\ reply' = [reply EXCEPT ![s] = "blocked"] /\ pc' = [pc EXCEPT ![s] = "record"]
        /\ UNCHANGED <<attempt, call>>
    BY <1>3 DEF SubmitGated, Goto
  <2>2. TypeOK'
    BY <1>1, <2>1 DEF SubmitGated, TypeOK, Steps, Replies
  <2>3. \A t \in Signals : t # s => SameTask(t)
    BY <1>1, <2>1 DEF SubmitGated, SameTask, TypeOK
  <2>4. TaskSound(s)'
    BY <1>1, <1>2, <2>1 DEF SubmitGated, TypeOK, TaskSound, FillSound, StepSound,
         CoverSound, BeforeTrade, Waiting, Opening, Holding, Entry, Current
  <2> QED BY <2>2, <2>3, <2>4, OneTask DEF SubmitGated
<1>4. CASE gate = "no_credentials"
  <2>1. Raised(s) /\ UNCHANGED reply
    BY <1>4 DEF SubmitGated
  <2>2. TypeOK'
    BY <1>1, <2>1, RaisedOutcome DEF SubmitGated, TypeOK
  <2>3. \A t \in Signals : t # s => SameTask(t)
    BY <1>1, <2>1, RaisedOutcome DEF SubmitGated, SameTask
  <2>4. TaskSound(s)'
    BY <1>1, <1>2, <2>1, RaisedOutcome DEF SubmitGated, TaskSound, FillSound, StepSound,
         CoverSound, BeforeTrade, Waiting, Opening, Holding, Entry, Current
  <2> QED BY <2>2, <2>3, <2>4, OneTask DEF SubmitGated
<1> QED BY <1>3, <1>4 DEF SubmitGated

\* The order reaches the exchange, or does not: a stop is for the whole lot.
LEMMA SubmitInv ==
  ASSUME IInv, NEW s \in Signals, Submit(s)
  PROVE  IInv'
<1> USE DEF dbVars, noticeVars, recVars, boundVars
<1>0. PICK k \in Kinds : k = call[s]
  BY DEF IInv, TypeOK
<1> DEFINE o == <<s, k>>
<1>1. TypeOK /\ pc[s] = "submit" /\ o = Current(s) /\ o \in Orders
  BY <1>0 DEF Submit, IInv, Current, Orders
<1>2. OrderSound(o) /\ TaskSound(s)
  BY <1>1 DEF IInv
<1>3. /\ trade[s] = "pending" /\ ~opened[s] /\ ord[o] = "created"
      /\ call[s] # "entry" => filledAmt[s] = Lot
  BY <1>1, <1>2 DEF TypeOK, TaskSound, StepSound, FillSound, CoverSound, Holding
<1>4. /\ pc' = [pc EXCEPT ![s] = "record"] /\ sends' \in [Orders -> Nat]
      /\ UNCHANGED <<gate, call, attempt, polls, observed, filledAmt, trade, ord, linked,
                     exFilled, alerted, incident, opened, rpc, rFeed, rOrphanDb, rOrphanEx,
                     faults, crashes>>
  BY <1>1 DEF Submit, Goto, TypeOK
<1>5. PICK r \in Replies :
        /\ reply' = [reply EXCEPT ![s] = r]
        /\ \/ /\ exState[o] = "none" /\ exState' = [exState EXCEPT ![o] = "open"]
              /\ exSize' = [exSize EXCEPT ![o] = Lot]
           \/ r # "ack" /\ UNCHANGED <<exState, exSize>>
  BY <1>0, <1>1, <1>3 DEF Submit, Replies, Errors
<1>6. /\ \A q \in Orders : q # o => SameOrder(q)
      /\ ord'[o] = "created" /\ (exState[o] # "none" => exState'[o] = exState[o])
      /\ pc'[s] = "record" /\ call'[s] = call[s]
      /\ reply'[s] = "ack" => exState'[o] = "open"
  BY <1>1, <1>3, <1>4, <1>5 DEF SameOrder, TypeOK
<1>7. TypeOK'
  <2>1. exState' \in [Orders -> ExStates] /\ exSize' \in [Orders -> 0 .. Lot]
    <3>1. Lot \in 0 .. Lot /\ "open" \in ExStates
      BY ExecutionAssumption DEF ExStates
    <3>2. exState \in [Orders -> ExStates] /\ exSize \in [Orders -> 0 .. Lot]
      BY <1>1 DEF TypeOK
    <3>3. exState' \in [Orders -> ExStates]
      BY <1>5, <3>1, <3>2
    <3>4. exSize' \in [Orders -> 0 .. Lot]
      BY <1>5, <3>1, <3>2
    <3> QED BY <3>3, <3>4
  <2>2. pc' \in [Signals -> Steps] /\ reply' \in [Signals -> Replies]
    BY <1>1, <1>4, <1>5 DEF TypeOK, Steps
  <2> QED BY <1>1, <1>4, <2>1, <2>2 DEF TypeOK
<1>8. \A t \in Signals : t # s => SameTask(t)
  BY <1>1, <1>4, <1>5 DEF TypeOK, SameTask
<1>9. OrderSound(o)'
  BY <1>1, <1>2, <1>3, <1>4, <1>5, ExecutionAssumption DEF OrderSound, TypeOK
<1>10. TaskSound(s)'
  <2>1. \A j \in Kinds : j # call[s] => SameOrder(<<s, j>>)
    BY <1>1, <1>6 DEF Current, Orders
  <2>2. FillSound(s)'
    BY <1>1, <1>2, <1>4, <1>6, <2>1
    DEF TaskSound, FillSound, Entry, Current, Kinds, StopKinds, SameOrder
  <2>3. StepSound(s)' /\ CoverSound(s)'
    BY <1>0, <1>1, <1>2, <1>3, <1>4, <1>6 DEF TaskSound, StepSound, CoverSound,
         BeforeTrade, Waiting, Opening, Holding, Entry, Current
  <2> QED BY <2>2, <2>3 DEF TaskSound
<1> QED
  BY <1>1, <1>6, <1>7, <1>8, <1>9, <1>10, OneOrder DEF Current

\* The outcome of a send is written and returned.
LEMMA RecordInv ==
  ASSUME IInv, NEW s \in Signals, Record(s)
  PROVE  IInv'
<1> USE DEF exVars, noticeVars, recVars, boundVars
<1>0. PICK k \in Kinds : k = call[s]
  BY DEF IInv, TypeOK
<1> DEFINE o == <<s, k>>
           status == StatusOf(reply[s])
<1>1. TypeOK /\ pc[s] = "record" /\ o = Current(s) /\ o \in Orders
  BY <1>0 DEF Record, IInv, Current, Orders
<1>2. OrderSound(o) /\ TaskSound(s)
  BY <1>1 DEF IInv
<1>3. /\ trade[s] = "pending" /\ ~opened[s] /\ ord[o] = "created"
      /\ reply[s] = "ack" => exState[o] # "none"
  BY <1>1, <1>2 DEF TypeOK, TaskSound, StepSound, CoverSound, Holding
<1>4. /\ status \in {"submitted", "cancelled", "rejected", "failed"}
      /\ status = "submitted" => exState[o] # "none"
  BY <1>3 DEF StatusOf
<1>5. /\ Returned(s, status, TypeRefused(reply[s]))
      /\ ord' = [ord EXCEPT ![o] = status] /\ reply' = [reply EXCEPT ![s] = "none"]
      /\ UNCHANGED <<gate, polls, observed, filledAmt, trade, linked, exState, exSize, exFilled,
                     sends, alerted, incident, opened, rpc, rFeed, rOrphanDb, rOrphanEx,
                     faults, crashes>>
  BY <1>1 DEF Record
<1>6. /\ pc' \in [Signals -> Steps] /\ call' \in [Signals -> Kinds]
      /\ attempt' \in [Signals -> 0 .. StopAttempts]
      /\ \A t \in Signals : t # s => pc'[t] = pc[t] /\ call'[t] = call[t]
      /\ k = "entry" =>
           /\ call'[s] = "entry"
           /\ pc'[s] = IF status = "submitted" THEN "wait" ELSE "fail"
      /\ k # "entry" =>
           /\ call'[s] # "entry"
           /\ \/ pc'[s] \in {"create", "stop_failed"}
              \/ pc'[s] = "link" /\ call'[s] = k /\ exState[o] # "none"
  BY <1>0, <1>1, <1>4, <1>5, ReturnedOutcome
<1>7. /\ \A q \in Orders : q # o => SameOrder(q)
      /\ ord'[o] = status
  BY <1>1, <1>5 DEF SameOrder, TypeOK
<1>8. TypeOK'
  BY <1>1, <1>4, <1>5, <1>6 DEF TypeOK, OrderStatus, Terminal, Replies
<1>9. \A t \in Signals : t # s => SameTask(t)
  BY <1>1, <1>5, <1>6 DEF TypeOK, SameTask
<1>10. OrderSound(o)'
  BY <1>2, <1>4, <1>5, <1>7 DEF OrderSound
<1>11. FillSound(s)'
  <2>1. \A j \in Kinds : j # k => SameOrder(<<s, j>>)
    BY <1>7 DEF Orders
  <2> QED
    BY <1>0, <1>2, <1>5, <1>6, <2>1
    DEF TaskSound, FillSound, Entry, Kinds, StopKinds, SameOrder
<1>12. StepSound(s)' /\ CoverSound(s)'
  BY <1>0, <1>2, <1>3, <1>4, <1>5, <1>6, <1>7 DEF TaskSound, StepSound, CoverSound,
       BeforeTrade, Waiting, Opening, Holding, Entry, Current
<1> QED
  BY <1>7, <1>8, <1>9, <1>10, <1>11, <1>12, OneOrder DEF TaskSound

-----------------------------------------------------------------------------
(* Database errors *)

\* trades.add raises.
LEMMA AddTradeFaultInv ==
  ASSUME IInv, TypeOK', NEW s \in Signals, AddTradeFault(s),
         UNCHANGED <<filledAmt, opened, exState, exSize, exFilled>>
  PROVE  IInv'
<1>1. TypeOK /\ TaskSound(s)
  BY DEF IInv
<1>2. \A t \in Signals : t # s => SameTask(t)
  BY <1>1 DEF AddTradeFault, Goto, SameTask, TypeOK
<1>3. /\ pc[s] = "add_trade" /\ pc'[s] = "done" /\ trade'[s] \in {trade[s], "pending"}
      /\ UNCHANGED <<call, reply, observed, ord>>
  BY <1>1 DEF AddTradeFault, Goto, TypeOK
<1>4. FillSound(s)'
  BY <1>1, <1>3 DEF TaskSound, FillSound, Entry
<1>5. StepSound(s)' /\ CoverSound(s)'
  BY <1>1, <1>3 DEF TaskSound, StepSound, CoverSound, BeforeTrade, Waiting, Opening, Holding,
       Entry, Current
<1> QED BY <1>2, <1>3, <1>4, <1>5, OneTask DEF TaskSound

\* The detector, or the head of the stop placer, raises.
LEMMA UncaughtFaultInv ==
  ASSUME IInv, TypeOK', NEW s \in Signals, UncaughtFault(s),
         UNCHANGED <<filledAmt, opened, exState, exSize, exFilled>>
  PROVE  IInv'
<1> DEFINE e == <<s, "entry">>
<1>1. TypeOK /\ TaskSound(s) /\ e \in Orders /\ OrderSound(e)
  BY DEF IInv, Orders, Kinds
<1>2. /\ pc[s] \in Waiting /\ pc'[s] = "done" /\ UNCHANGED <<call, trade>>
      /\ \A t \in Signals : t # s => SameTask(t)
  BY <1>1 DEF UncaughtFault, Goto, TypeOK, Waiting, SameTask
<1>3. call[s] = "entry" /\ trade[s] = "pending" /\ ~opened[s]
  BY <1>1, <1>2 DEF TaskSound, StepSound, CoverSound, Waiting, Holding
<1>4. \A o \in Orders : o # e => SameOrder(o)
  BY <1>1 DEF UncaughtFault, TypeOK, SameOrder, Entry
<1>5. OrderSound(e)'
  <2>1. CASE UNCHANGED ord
    BY <1>1, <2>1 DEF OrderSound
  <2>2. CASE pc[s] = "poll_write" /\ ord' = [ord EXCEPT ![e] = observed[s]]
    <3>1. observed[s] # "none" /\ observed[s] = LocalStatus(exState[e])
      BY <1>1, <2>2 DEF TaskSound, StepSound, Entry
    <3>2. /\ observed[s] \in Terminal /\ exState[e] # "none"
          /\ observed[s] = "filled" => exState[e] = "closed"
      BY <3>1 DEF LocalStatus, Terminal
    <3>3. ord'[e] = observed[s]
      BY <1>1, <2>2 DEF TypeOK
    <3> QED BY <1>1, <3>2, <3>3 DEF OrderSound, Terminal
  <2> QED BY <2>1, <2>2 DEF UncaughtFault, Entry
<1>6. FillSound(s)'
  <2>1. \A k \in StopKinds : SameOrder(<<s, k>>)
    BY <1>4 DEF Orders, Kinds, StopKinds
  <2> QED BY <1>1, <1>2, <1>3, <2>1 DEF TaskSound, FillSound, SameOrder
<1>7. StepSound(s)' /\ CoverSound(s)'
  BY <1>1, <1>2, <1>3 DEF TaskSound, StepSound, CoverSound, BeforeTrade, Waiting, Opening,
       Holding, Entry, Current
<1> QED BY <1>2, <1>4, <1>5, <1>6, <1>7, OneOrder DEF TaskSound, Kinds

\* Linking or a transition of the trade raises and is logged.
LEMMA SwallowedFaultInv ==
  ASSUME IInv, TypeOK', NEW s \in Signals, SwallowedFault(s),
         UNCHANGED <<filledAmt, opened, exState, exSize, exFilled>>
  PROVE  IInv'
BY MoveInv DEF SwallowedFault, Goto, Move, Holding

\* create_order raises before its row exists, after it, or while writing the
\* outcome of the send.
LEMMA CreateFaultInv ==
  ASSUME IInv, TypeOK', NEW s \in Signals, CreateFault(s),
         UNCHANGED <<filledAmt, opened, exState, exSize, exFilled>>
  PROVE  IInv'
<1>0. PICK k \in Kinds : k = call[s]
  BY DEF IInv, TypeOK
<1> DEFINE o == <<s, k>>
<1>1. TypeOK /\ o = Current(s) /\ o \in Orders /\ pc[s] \in {"create", "record"}
  BY <1>0 DEF CreateFault, IInv, Current, Orders
<1>2. OrderSound(o) /\ TaskSound(s)
  BY <1>1 DEF IInv
<1>3. /\ trade[s] = "pending" /\ ~opened[s]
      /\ pc[s] = "record" => ord[o] = "created" /\ (reply[s] = "ack" => exState[o] # "none")
  BY <1>1, <1>2 DEF TypeOK, TaskSound, StepSound, CoverSound, Holding
<1>4. /\ Raised(s) /\ reply' = [reply EXCEPT ![s] = "none"] /\ UNCHANGED <<observed, trade>>
      /\ \/ UNCHANGED ord
         \/ ord[o] = "absent" /\ ord' = [ord EXCEPT ![o] = "created"]
         \/ pc[s] = "record" /\ ord' = [ord EXCEPT ![o] = StatusOf(reply[s])]
  BY <1>1 DEF CreateFault
<1>5. /\ \A t \in Signals : t # s => pc'[t] = pc[t] /\ call'[t] = call[t]
      /\ k = "entry" => call'[s] = "entry" /\ pc'[s] = "fail"
      /\ k # "entry" => call'[s] # "entry" /\ pc'[s] \in {"create", "stop_failed"}
  BY <1>0, <1>1, <1>4, RaisedOutcome
<1>6. \A q \in Orders : q # o => SameOrder(q)
  BY <1>1, <1>4 DEF SameOrder, TypeOK
<1>7. \A t \in Signals : t # s => SameTask(t)
  BY <1>1, <1>4, <1>5 DEF TypeOK, SameTask
<1>8. OrderSound(o)'
  <2>1. /\ StatusOf(reply[s]) \notin {"absent", "filled"}
        /\ StatusOf(reply[s]) = "submitted" => reply[s] = "ack"
    BY DEF StatusOf
  <2>2. \/ ord'[o] = ord[o]
        \/ ord'[o] = "created"
        \/ pc[s] = "record" /\ ord'[o] = StatusOf(reply[s])
    BY <1>1, <1>4 DEF TypeOK
  <2> QED BY <1>2, <1>3, <2>1, <2>2 DEF OrderSound
<1>9. FillSound(s)'
  <2>1. \A j \in Kinds : j # k => SameOrder(<<s, j>>)
    BY <1>6 DEF Orders
  <2> QED
    BY <1>0, <1>2, <1>5, <2>1 DEF TaskSound, FillSound, Entry, Kinds, StopKinds, SameOrder
<1>10. StepSound(s)' /\ CoverSound(s)'
  BY <1>0, <1>2, <1>3, <1>4, <1>5 DEF TaskSound, StepSound, CoverSound, BeforeTrade, Waiting,
       Opening, Holding, Entry, Current
<1> QED BY <1>6, <1>7, <1>8, <1>9, <1>10, OneOrder DEF TaskSound

\* Any of them.
LEMMA StorageFaultInv ==
  ASSUME IInv, NEW s \in Signals, StorageFault(s)
  PROVE  IInv'
<1>1. TypeOK /\ TaskSound(s) /\ call[s] \in Kinds /\ Current(s) \in Orders /\ Entry(s) \in Orders
  BY DEF IInv, TypeOK, Current, Entry, Orders, Kinds
<1>2. /\ UNCHANGED <<gate, polls, filledAmt, linked, exState, exSize, exFilled, sends, alerted,
                     incident, opened, rpc, rFeed, rOrphanDb, rOrphanEx, crashes>>
      /\ faults' \in 0 .. MaxFaults
  BY <1>1, ExecutionAssumption DEF StorageFault, exVars, noticeVars, recVars, TypeOK
<1>3. CASE AddTradeFault(s)
  <2>1. TypeOK'
    BY <1>1, <1>2, <1>3 DEF AddTradeFault, Goto, TypeOK, Steps, TradeStatus
  <2> QED BY <1>2, <1>3, <2>1, AddTradeFaultInv
<1>4. CASE CreateFault(s)
  <2>1. /\ pc' \in [Signals -> Steps] /\ call' \in [Signals -> Kinds]
        /\ attempt' \in [Signals -> 0 .. StopAttempts]
    BY <1>1, <1>4, RaisedOutcome DEF CreateFault
  <2>2. StatusOf(reply[s]) \in OrderStatus
    BY DEF StatusOf, OrderStatus, Terminal
  <2>3. /\ ord' \in [Orders -> OrderStatus] /\ reply' \in [Signals -> Replies]
        /\ UNCHANGED <<observed, trade>>
    BY <1>1, <1>4, <2>2 DEF CreateFault, TypeOK, OrderStatus, Replies
  <2>4. TypeOK'
    BY <1>1, <1>2, <2>1, <2>3 DEF TypeOK
  <2> QED BY <1>2, <1>4, <2>4, CreateFaultInv
<1>5. CASE UncaughtFault(s)
  <2>1. pc[s] = "poll_write" => observed[s] \in OrderStatus
    BY <1>1 DEF TypeOK, TaskSound, StepSound, OrderStatus
  <2>2. TypeOK'
    BY <1>1, <1>2, <1>5, <2>1 DEF UncaughtFault, Goto, TypeOK, Steps
  <2> QED BY <1>2, <1>5, <2>2, UncaughtFaultInv
<1>6. CASE SwallowedFault(s)
  <2>1. TypeOK'
    BY <1>1, <1>2, <1>6 DEF SwallowedFault, Goto, TypeOK, Steps
  <2> QED BY <1>2, <1>6, <2>1, SwallowedFaultInv
<1> QED BY <1>3, <1>4, <1>5, <1>6 DEF StorageFault

-----------------------------------------------------------------------------
(* The reconciler, the exchange, crashes *)

\* The steps of a pass that only read.
LEMMA PassInv ==
  ASSUME IInv, NEW p \in Passes,
         FetchExchange(p) \/ PassFails(p) \/ DiffOrders(p) \/ PatchFault(p) \/ FinishPass(p)
  PROVE  IInv'
<1> USE DEF execVars, dbVars, exVars, noticeVars, boundVars
<1>1. UNCHANGED <<gate, execVars, dbVars, exVars, noticeVars, crashes>>
  BY DEF FetchExchange, PassFails, DiffOrders, PatchFault, FinishPass
<1>2. \A s \in Signals : SameTask(s)
  BY <1>1 DEF SameTask
<1>3. TypeOK'
  <2>1. TypeOK
    BY DEF IInv
  <2>2. CASE FetchExchange(p)
    BY <1>1, <2>1, <2>2 DEF FetchExchange, TypeOK
  <2>3. CASE DiffOrders(p)
    BY <1>1, <2>1, <2>3 DEF DiffOrders, TypeOK
  <2>4. CASE PatchFault(p)
    <3>1. faults' \in 0 .. MaxFaults
      BY <2>1, <2>4, ExecutionAssumption DEF PatchFault, TypeOK
    <3> QED BY <1>1, <2>1, <2>4, <3>1 DEF PatchFault, TypeOK
  <2>5. CASE FinishPass(p)
    BY <1>1, <2>1, <2>5 DEF FinishPass, TypeOK
  <2>6. CASE PassFails(p)
    BY <1>1, <2>1, <2>6 DEF PassFails, TypeOK
  <2> QED BY <2>2, <2>3, <2>4, <2>5, <2>6
<1> QED BY <1>1, <1>2, <1>3, NoTask

\* A submitted row is cancelled under the task that follows it.
LEMMA PatchOrphanInv ==
  ASSUME IInv, NEW p \in Passes, PatchOrphan(p)
  PROVE  IInv'
<1>1. TypeOK
  BY DEF IInv
<1>2. PICK o \in rOrphanDb[p] :
        /\ rOrphanDb' = [rOrphanDb EXCEPT ![p] = @ \ {o}]
        /\ ord' = [ord EXCEPT ![o] = IF @ = "submitted" THEN "cancelled" ELSE @]
  BY DEF PatchOrphan
<1>3. /\ UNCHANGED <<gate, pc, call, attempt, polls, reply, observed, filledAmt, trade, linked,
                     exState, exSize, exFilled, sends, alerted, incident, opened, rpc, rFeed,
                     rOrphanEx, faults, crashes>>
      /\ o \in Orders
  BY <1>1 DEF PatchOrphan, TypeOK, execVars, exVars, noticeVars, boundVars
<1>4. TypeOK'
  <2>1. ord' \in [Orders -> OrderStatus]
    BY <1>1, <1>2, <1>3 DEF TypeOK, OrderStatus, Terminal
  <2>2. rOrphanDb' \in [Passes -> SUBSET Orders]
    BY <1>1, <1>2 DEF TypeOK
  <2> QED BY <1>1, <1>3, <2>1, <2>2 DEF TypeOK
<1>5. CASE ord[o] # "submitted"
  <2>1. ord' = ord
    BY <1>1, <1>2, <1>3, <1>5 DEF TypeOK
  <2>2. \A s \in Signals : SameTask(s)
    BY <1>3 DEF SameTask
  <2> QED BY <1>3, <1>4, <2>1, <2>2, NoTask
<1>6. CASE ord[o] = "submitted"
  <2>1. PICK s \in Signals, k \in Kinds : o = <<s, k>>
    BY <1>3 DEF Orders
  <2>2. ord'[o] = "cancelled" /\ \A q \in Orders : q # o => SameOrder(q)
    BY <1>1, <1>2, <1>3, <1>6 DEF SameOrder, TypeOK
  <2>3. OrderSound(o)'
    BY <1>3, <1>6, <2>2 DEF OrderSound, IInv
  <2>4. \A t \in Signals : t # s => SameTask(t)
    BY <1>3 DEF SameTask
  <2>5. TaskSound(s) /\ call[s] \in Kinds
    BY <1>1 DEF IInv, TypeOK
  <2>6. \A j \in Kinds : /\ j # k => ord'[<<s, j>>] = ord[<<s, j>>]
                         /\ j = k => ord[<<s, j>>] = "submitted" /\ ord'[<<s, j>>] = "cancelled"
    BY <1>6, <2>1, <2>2 DEF SameOrder, Orders
  <2>7. FillSound(s)'
    BY <1>3, <2>5, <2>6 DEF TaskSound, FillSound, Entry, Kinds, StopKinds
  <2>8. StepSound(s)'
    <3>1. /\ ord[Entry(s)] \notin {"submitted", "cancelled"} => ord'[Entry(s)] = ord[Entry(s)]
          /\ ord[Entry(s)] \in {"submitted", "cancelled"} =>
               ord'[Entry(s)] \in {"submitted", "cancelled"}
          /\ ord[Current(s)] = "created" => ord'[Current(s)] = "created"
      BY <2>5, <2>6 DEF Entry, Current, Kinds
    <3> QED BY <1>3, <2>5, <3>1 DEF TaskSound, StepSound, Waiting, BeforeTrade, Entry, Current
  <2>9. CoverSound(s)'
    BY <1>3, <2>5 DEF TaskSound, CoverSound, Entry, Current
  <2> QED
    BY <1>4, <2>1, <2>2, <2>3, <2>4, <2>7, <2>8, <2>9, OneOrder DEF TaskSound
<1> QED BY <1>5, <1>6

\* An order changes at the exchange: it was open there, so nothing that the
\* invariant says of a closed order or of an absent one is affected.
LEMMA ExchangeInv ==
  ASSUME IInv, NEW o \in Orders, ExchangeFill(o) \/ ExchangeEnd(o)
  PROVE  IInv'
<1>1. TypeOK /\ OrderSound(o) /\ exState[o] = "open"
  BY DEF IInv, ExchangeFill, ExchangeEnd
<1>2. /\ UNCHANGED <<gate, pc, call, attempt, polls, reply, observed, filledAmt, trade, ord,
                     linked, exSize, sends, alerted, incident, opened, rpc, rFeed, rOrphanDb,
                     rOrphanEx, faults, crashes>>
  BY DEF ExchangeFill, ExchangeEnd, execVars, dbVars, noticeVars, recVars, boundVars
<1>3. /\ exState' \in [Orders -> ExStates] /\ exFilled' \in [Orders -> 0 .. Lot]
      /\ exState'[o] # "none" /\ \A q \in Orders : q # o => SameOrder(q)
      /\ OrderSound(o)'
  <2>1. exFilled[o] \in 0 .. Lot /\ exFilled[o] < Lot /\ exSize[o] = Lot
    BY <1>1 DEF TypeOK, OrderSound
  <2>2. CASE ExchangeFill(o)
    <3>1. /\ exFilled' = [exFilled EXCEPT ![o] = exFilled[o] + 1]
          /\ exFilled[o] + 1 \in 0 .. Lot /\ Lot \in Nat
          /\ exState' = [exState EXCEPT ![o] = IF exFilled[o] + 1 = Lot THEN "closed" ELSE "open"]
      BY <1>1, <2>1, <2>2, ExecutionAssumption DEF ExchangeFill
    <3>2. exFilled'[o] = exFilled[o] + 1 /\ exState'[o] \in {"open", "closed"}
          /\ (exState'[o] = "closed" <=> exFilled[o] + 1 = Lot)
      BY <1>1, <3>1 DEF TypeOK
    <3>3. exState' \in [Orders -> ExStates] /\ exFilled' \in [Orders -> 0 .. Lot]
      BY <1>1, <3>1 DEF TypeOK, ExStates
    <3>4. \A q \in Orders : q # o => SameOrder(q)
      BY <1>1, <1>2, <3>1 DEF TypeOK, SameOrder
    <3>5. OrderSound(o)'
      BY <1>1, <1>2, <2>1, <3>1, <3>2 DEF OrderSound
    <3> QED BY <3>2, <3>3, <3>4, <3>5
  <2>3. CASE ExchangeEnd(o)
    <3>1. PICK end \in {"canceled", "rejected"} : exState' = [exState EXCEPT ![o] = end]
      BY <2>3 DEF ExchangeEnd
    <3>2. UNCHANGED exFilled
      BY <2>3 DEF ExchangeEnd
    <3>3. exState'[o] \in {"canceled", "rejected"} /\ exState' \in [Orders -> ExStates]
      BY <1>1, <3>1 DEF TypeOK, ExStates
    <3>4. \A q \in Orders : q # o => SameOrder(q)
      BY <1>1, <1>2, <3>1, <3>2 DEF TypeOK, SameOrder
    <3>5. OrderSound(o)'
      BY <1>1, <1>2, <3>2, <3>3 DEF OrderSound
    <3> QED BY <1>1, <3>2, <3>3, <3>4, <3>5 DEF TypeOK
  <2> QED BY <2>2, <2>3
<1>4. TypeOK'
  BY <1>1, <1>2, <1>3 DEF TypeOK
<1>5. PICK s \in Signals, k \in Kinds : o = <<s, k>>
  BY DEF Orders
<1>6. \A t \in Signals : SameTask(t)
  BY <1>2 DEF SameTask
<1>7. TaskSound(s)'
  <2>1. TaskSound(s) /\ call[s] \in Kinds
    BY <1>1 DEF IInv, TypeOK
  <2>2. \A j \in Kinds : /\ exState[<<s, j>>] = "none" <=> exState'[<<s, j>>] = "none"
                         /\ exState[<<s, j>>] # "open" => exState'[<<s, j>>] = exState[<<s, j>>]
    BY <1>1, <1>3, <1>5 DEF SameOrder, Orders
  <2>3. FillSound(s)'
    BY <1>2, <2>1, <2>2 DEF TaskSound, FillSound, Entry, Kinds, StopKinds
  <2>4. StepSound(s)'
    <3>1. LocalStatus(exState[Entry(s)]) # "none" => exState'[Entry(s)] = exState[Entry(s)]
      BY <2>2 DEF LocalStatus, Entry, Kinds
    <3>2. /\ exState[Entry(s)] = "none" <=> exState'[Entry(s)] = "none"
          /\ exState[Current(s)] = "none" <=> exState'[Current(s)] = "none"
      BY <2>1, <2>2 DEF Entry, Current, Kinds
    <3> QED BY <1>2, <2>1, <3>1, <3>2 DEF TaskSound, StepSound, Entry, Current
  <2>5. CoverSound(s)'
    BY <1>2, <2>1, <2>2 DEF TaskSound, CoverSound, Entry, Current, Kinds
  <2> QED BY <2>3, <2>4, <2>5 DEF TaskSound
<1> QED BY <1>3, <1>4, <1>5, <1>6, <1>7, OneOrder

\* A crash loses the tasks; the rows and the exchange stay as they are.
LEMMA CrashInv ==
  ASSUME IInv, Crash
  PROVE  IInv'
<1>1. TypeOK
  BY DEF IInv
<1>2. /\ UNCHANGED <<call, attempt, polls, reply, observed, filledAmt, trade, ord, linked,
                     exState, exSize, exFilled, sends, alerted, incident, opened, faults>>
      /\ gate' \in Gates
      /\ pc' = [s \in Signals |-> IF pc[s] \in {"idle", "done"} THEN pc[s] ELSE "lost"]
  BY DEF Crash, dbVars, exVars, noticeVars
<1>3. TypeOK'
  <2>1. pc' \in [Signals -> Steps]
    BY <1>1, <1>2 DEF TypeOK, Steps
  <2>2. /\ rpc' \in [Passes -> {"idle", "fetched", "patching"}]
        /\ rFeed' \in [Passes -> SUBSET Orders]
        /\ rOrphanDb' \in [Passes -> SUBSET Orders]
        /\ rOrphanEx' \in [Passes -> SUBSET Orders]
    BY DEF Crash
  <2>3. crashes' \in 0 .. MaxCrashes
    BY <1>1, ExecutionAssumption DEF Crash, TypeOK
  <2> QED BY <1>1, <1>2, <2>1, <2>2, <2>3 DEF TypeOK
<1>4. ASSUME NEW o \in Orders PROVE OrderSound(o)'
  BY <1>2, SameOrderSound DEF IInv, SameOrder
<1>5. ASSUME NEW s \in Signals PROVE TaskSound(s)'
  <2>1. TaskSound(s) /\ (pc'[s] = "lost" \/ pc'[s] = pc[s])
    BY <1>2 DEF IInv
  <2>2. FillSound(s)'
    BY <1>2, <2>1 DEF TaskSound, FillSound, Entry
  <2>3. StepSound(s)' /\ CoverSound(s)'
    BY <1>2, <2>1 DEF TaskSound, StepSound, CoverSound, BeforeTrade, Waiting, Opening, Holding,
         Entry, Current
  <2> QED BY <2>2, <2>3 DEF TaskSound
<1> QED BY <1>3, <1>4, <1>5 DEF IInv

-----------------------------------------------------------------------------
(* The invariant *)

\* It holds at first.
LEMMA InitInv ==
  Init => IInv
<1> SUFFICES ASSUME Init PROVE IInv
  OBVIOUS
<1>1. TypeOK
  BY ExecutionAssumption DEF Init, TypeOK, Steps, Kinds, StopKinds, Replies, TradeStatus,
     OrderStatus, ExStates
<1>2. ASSUME NEW o \in Orders PROVE OrderSound(o)
  BY DEF Init, OrderSound
<1>3. ASSUME NEW s \in Signals PROVE TaskSound(s)
  BY DEF Init, TaskSound, FillSound, StepSound, CoverSound, BeforeTrade, Waiting, Opening,
     Holding, Entry, Current, Orders, Kinds, StopKinds
<1> QED BY <1>1, <1>2, <1>3 DEF IInv

\* Every step preserves it.
LEMMA NextInv ==
  IInv /\ [Next]_vars => IInv'
<1> SUFFICES ASSUME IInv, [Next]_vars PROVE IInv'
  OBVIOUS
<1>1. ASSUME NEW s \in Signals, Approve(s) \/ ExecutorStep(s) \/ StorageFault(s)
      PROVE  IInv'
  BY <1>1, ApproveInv, SkipInv, AddTradeInv, AddOrGetInv, SubmitGatedInv, SubmitInv, RecordInv,
     BeginWaitInv, PollInv, PollWriteInv, RefreshInv, PollTimeoutInv, BeginStopInv,
     StopFailedInv, LinkInv, OpenTradeInv, NotifyOpenInv, FailInv, FailAlertInv,
     StorageFaultInv
  DEF ExecutorStep
<1>2. ASSUME NEW p \in Passes, ReconcileStep(p) \/ PassFails(p) \/ PatchFault(p)
      PROVE  IInv'
  BY <1>2, PassInv, PatchOrphanInv DEF ReconcileStep
<1>3. ASSUME NEW o \in Orders, ExchangeFill(o) \/ ExchangeEnd(o)
      PROVE  IInv'
  BY <1>3, ExchangeInv
<1>4. CASE UNCHANGED vars
  <2>1. \A s \in Signals : SameTask(s)
    BY <1>4 DEF vars, SameTask, execVars, dbVars, noticeVars
  <2>2. TypeOK'
    BY <1>4 DEF vars, IInv, TypeOK, execVars, dbVars, exVars, noticeVars, recVars, boundVars
  <2> QED BY <1>4, <2>1, <2>2, NoTask DEF vars, dbVars, exVars
<1> QED BY <1>1, <1>2, <1>3, <1>4, CrashInv DEF Next

\* In every behaviour of the execution layer the inductive invariant holds.
THEOREM Inductive == Spec => []IInv
BY InitInv, NextInv, PTL DEF Spec

-----------------------------------------------------------------------------
(* Safety *)

\* Every variable keeps its type: attempts, polls and the faults and crashes
\* counted stay within their limits, amounts within the lot.
THEOREM TypeCorrect == Spec => []TypeOK
<1>1. IInv => TypeOK
  BY DEF IInv
<1> QED BY <1>1, Inductive, PTL

\* A trade that is open, or was reported so, is filled and has a stop at the
\* exchange for all of it, whatever fails, is lost or runs concurrently.
THEOREM OpenTradesAreProtected == Spec => []OpenTradeIsProtected
<1>1. IInv => OpenTradeIsProtected
  <2> SUFFICES ASSUME IInv, NEW s \in Signals, trade[s] = "open" \/ opened[s]
               PROVE  exState[Entry(s)] = "closed" /\ Protected(s)
    BY DEF OpenTradeIsProtected
  <2>1. TypeOK /\ TaskSound(s) /\ call[s] \in Kinds
    BY DEF IInv, TypeOK
  <2>2. call[s] \in StopKinds /\ exState[<<s, call[s]>>] # "none" /\ ord[Entry(s)] = "filled"
    BY <2>1 DEF TaskSound, CoverSound, FillSound, Current, Kinds
  <2>3. <<s, call[s]>> \in Orders /\ Entry(s) \in Orders
    BY <2>1 DEF Orders, Entry, Kinds
  <2>4. exState[Entry(s)] = "closed" /\ exFilled[Entry(s)] = Lot
    BY <2>2, <2>3 DEF IInv, OrderSound
  <2>5. exSize[<<s, call[s]>>] = Lot
    BY <2>2, <2>3 DEF IInv, OrderSound
  <2> QED BY <2>2, <2>4, <2>5 DEF Protected
<1> QED BY <1>1, Inductive, PTL

\* Order rows never claim more than the exchange did.
THEOREM LedgerAlwaysAgrees == Spec => []LedgerAgrees
<1>1. IInv => LedgerAgrees
  <2> SUFFICES ASSUME IInv, NEW o \in Orders
               PROVE  /\ exState[o] # "none" => ord[o] # "absent"
                      /\ ord[o] = "submitted" => exState[o] # "none"
                      /\ ord[o] = "filled" => exState[o] = "closed" /\ exFilled[o] = exSize[o]
    BY DEF LedgerAgrees
  <2> QED BY DEF IInv, OrderSound
<1> QED BY <1>1, Inductive, PTL

\* A stop reaches the exchange only for an entry completely filled there and
\* recorded as filled.
THEOREM StopsFollowFills == Spec => []StopOnlyAfterFill
<1>1. IInv => StopOnlyAfterFill
  <2> SUFFICES ASSUME IInv, NEW s \in Signals, NEW k \in StopKinds, exState[<<s, k>>] # "none"
               PROVE  exState[Entry(s)] = "closed" /\ ord[Entry(s)] = "filled"
    BY DEF StopOnlyAfterFill
  <2>1. ord[Entry(s)] = "filled"
    BY DEF IInv, TaskSound, FillSound
  <2>2. Entry(s) \in Orders
    BY DEF Orders, Entry, Kinds
  <2> QED BY <2>1, <2>2 DEF IInv, OrderSound
<1> QED BY <1>1, Inductive, PTL

-----------------------------------------------------------------------------
(***************************************************************************)
(* Proofs of the properties of OrderExecution that count sends and faults: *)
(* CountInv (OrderExecutionInv) is inductive relative to IInv.  One lemma  *)
(* per action or group of actions; Forward is what every step but a send   *)
(* does to an order, Alike and SameReport what a step does to the orders   *)
(* and tasks it is not about.                                              *)
(***************************************************************************)

-----------------------------------------------------------------------------
(* Frames *)

\* Order o is not sent, its row does not go back, and an outcome about to be
\* written is written, unless a fault or a crash comes between.
Forward(o) ==
  /\ sends'[o] = sends[o]
  /\ exState'[o] # "none" => exState[o] # "none"
  /\ ord'[o] = "absent" => ord[o] = "absent"
  /\ ord'[o] = "created" => ord[o] \in {"absent", "created"}
  /\ pc[o[1]] = "lost" => pc'[o[1]] = "lost"
  /\ Recording(o) => \/ Recording(o)' \/ pc'[o[1]] = "lost" \/ ord'[o] # "created"
                     \/ faults' = faults + 1
  /\ faults' \in {faults, faults + 1}

\* Such an order stays within the sends its faults account for.
LEMMA ForwardSound ==
  ASSUME TypeOK, NEW o \in Orders, SendSound(o), Forward(o)
  PROVE  SendSound(o)'
<1>1. sends[o] \in Nat /\ faults \in Nat
  BY ExecutionAssumption DEF TypeOK
<1>2. sends'[o] <= 1 + faults' /\ (exState'[o] # "none" => sends'[o] > 0)
  BY <1>1 DEF SendSound, Forward
<1>3. ord'[o] = "absent" => sends'[o] = 0
  BY DEF SendSound, Forward
<1>4. ASSUME ord'[o] = "created", pc'[o[1]] # "lost", ~Recording(o)'
      PROVE  sends'[o] <= faults'
  <2>1. CASE ord[o] = "absent"
    BY <1>1, <2>1 DEF SendSound, Forward
  <2>2. CASE ord[o] = "created"
    BY <1>1, <1>4, <2>2 DEF SendSound, Forward
  <2> QED BY <1>4, <2>1, <2>2 DEF Forward
<1> QED BY <1>2, <1>3, <1>4 DEF SendSound

\* Nothing changes that the invariant says of the task of s...
SameReport(s) ==
  /\ pc'[s] = pc[s] /\ call'[s] = call[s] /\ reply'[s] = reply[s]
  /\ trade'[s] = trade[s] /\ alerted'[s] = alerted[s] /\ incident'[s] = incident[s]

\* ... nor of order o.
Alike(o) ==
  /\ exState'[o] = "none" <=> exState[o] = "none"
  /\ ord'[o] = ord[o] \/ (ord[o] = "submitted" /\ ord'[o] = "cancelled")

\* A task stays sound when neither it nor its orders change.
LEMMA SameReportSound ==
  ASSUME TypeOK, NEW s \in Signals, FallbackSound(s), ReportSound(s), SameReport(s),
         faults' = faults, \A k \in Kinds : Alike(<<s, k>>)
  PROVE  FallbackSound(s)' /\ ReportSound(s)'
<1>1. /\ Alike(<<s, "stop_market">>) /\ Alike(<<s, "stop_limit">>)
      /\ Alike(Entry(s)) /\ Alike(Current(s))
  BY DEF TypeOK, Kinds, StopKinds, Entry, Current
<1>2. FallbackSound(s)'
  BY <1>1 DEF FallbackSound, SameReport, Alike
<1>3. ReportSound(s)'
  BY <1>1 DEF ReportSound, SameReport, Alike, Entry, Current
<1> QED BY <1>2, <1>3

\* A step of one task that sends nothing.
LEMMA OneReport ==
  ASSUME IInv, CountInv, NEW s \in Signals, faults' = faults,
         \A o \in Orders : Forward(o),
         \A t \in Signals : t # s => SameReport(t) /\ \A k \in Kinds : Alike(<<t, k>>),
         FallbackSound(s)', ReportSound(s)'
  PROVE  CountInv'
<1>1. ASSUME NEW o \in Orders PROVE SendSound(o)'
  BY ForwardSound DEF IInv, CountInv
<1>2. ASSUME NEW t \in Signals, t # s PROVE FallbackSound(t)' /\ ReportSound(t)'
  BY <1>2, SameReportSound DEF IInv, CountInv
<1> QED BY <1>1, <1>2 DEF CountInv

\* A step that leaves every task alone.
LEMMA NoReport ==
  ASSUME IInv, CountInv, faults' = faults,
         \A o \in Orders : Forward(o) /\ Alike(o),
         \A t \in Signals : SameReport(t)
  PROVE  CountInv'
<1>1. ASSUME NEW o \in Orders PROVE SendSound(o)'
  BY ForwardSound DEF IInv, CountInv
<1>2. ASSUME NEW t \in Signals PROVE FallbackSound(t)' /\ ReportSound(t)'
  <2>1. \A k \in Kinds : Alike(<<t, k>>)
    BY DEF Orders
  <2> QED BY <2>1, SameReportSound DEF IInv, CountInv
<1> QED BY <1>1, <1>2 DEF CountInv

\* A fault: whatever its step does, the properties excuse.
LEMMA FaultCount ==
  ASSUME IInv, CountInv, faults' = faults + 1, \A o \in Orders : Forward(o)
  PROVE  CountInv'
<1>1. faults' # 0
  BY ExecutionAssumption DEF IInv, TypeOK
<1>2. ASSUME NEW o \in Orders PROVE SendSound(o)'
  BY ForwardSound DEF IInv, CountInv
<1>3. ASSUME NEW t \in Signals PROVE FallbackSound(t)' /\ ReportSound(t)'
  BY <1>1 DEF FallbackSound, ReportSound
<1> QED BY <1>2, <1>3 DEF CountInv

\* A step of one task from a step other than "record" that sends nothing and
\* moves no row.
LEMMA QuietReport ==
  ASSUME IInv, CountInv, NEW s \in Signals, pc[s] \notin {"record", "lost"},
         UNCHANGED <<ord, exState, sends, faults>>,
         \A t \in Signals : t # s => SameReport(t),
         FallbackSound(s)', ReportSound(s)'
  PROVE  CountInv'
<1>1. ASSUME NEW o \in Orders PROVE Forward(o) /\ Alike(o)
  <2>1. o[1] \in Signals
    BY DEF Orders
  <2>2. CASE o[1] = s
    BY <2>2 DEF Forward, Alike, Recording, Current
  <2>3. CASE o[1] # s
    BY <2>1, <2>3 DEF Forward, Alike, Recording, SameReport, Current
  <2> QED BY <2>2, <2>3
<1>2. \A t \in Signals : \A k \in Kinds : Alike(<<t, k>>)
  BY <1>1 DEF Orders
<1> QED BY <1>1, <1>2, OneReport

\* A step of one task that changes neither its call nor what the exchange
\* answered, and reaches no place from which it reports.
LEMMA MoveReport ==
  ASSUME IInv, CountInv, NEW s \in Signals, pc[s] \notin {"record", "lost"},
         pc'[s] # "record", call'[s] = call[s],
         UNCHANGED <<ord, exState, sends, faults>>,
         \A t \in Signals : t # s => SameReport(t),
         ReportSound(s)'
  PROVE  CountInv'
<1>1. FallbackSound(s)'
  BY DEF CountInv, FallbackSound
<1> QED BY <1>1, QuietReport

-----------------------------------------------------------------------------
(* The executor *)

\* Moves to a place from which the task reports nothing yet.
LEMMA OnwardCount ==
  ASSUME IInv, CountInv, NEW s \in Signals,
         Approve(s) \/ AddTrade(s) \/ Poll(s) \/ Link(s) \/ OpenTrade(s)
  PROVE  CountInv'
<1>1. TypeOK
  BY DEF IInv
<1>2. /\ UNCHANGED <<call, reply, ord, exState, sends, faults, alerted, incident>>
      /\ pc[s] \in {"idle", "add_trade", "poll", "link", "open"}
      /\ pc'[s] \in {"add_trade", "create", "poll", "poll_write", "open", "notify"}
      /\ \A t \in Signals : t # s => pc'[t] = pc[t] /\ trade'[t] = trade[t]
  BY <1>1 DEF TypeOK, Approve, AddTrade, Poll, Link, OpenTrade, Goto, dbVars, exVars,
     noticeVars, boundVars
<1>3. \A t \in Signals : t # s => SameReport(t)
  BY <1>2 DEF SameReport
<1>4. ReportSound(s)'
  BY <1>2 DEF ReportSound
<1> QED BY <1>2, <1>3, <1>4, MoveReport

\* The row is not submitted or has not filled, or the clock has run out: the
\* task gives up, and knows of no fill.
LEMMA WaitCount ==
  ASSUME IInv, CountInv, NEW s \in Signals, BeginWait(s) \/ Refresh(s) \/ PollTimeout(s)
  PROVE  CountInv'
<1>1. TypeOK /\ TaskSound(s)
  BY DEF IInv
<1>2. /\ UNCHANGED <<call, reply, ord, exState, sends, faults, trade, alerted, incident>>
      /\ pc[s] \in {"wait", "refresh", "poll"}
      /\ pc'[s] \in {"poll", "stop_get", "fail"}
      /\ \A t \in Signals : t # s => pc'[t] = pc[t]
      /\ pc'[s] = "fail" /\ pc[s] = "refresh" => ord[Entry(s)] # "filled"
  BY <1>1 DEF TypeOK, BeginWait, Refresh, PollTimeout, Goto, dbVars, exVars, noticeVars,
     boundVars
<1>3. \A t \in Signals : t # s => SameReport(t)
  BY <1>2 DEF SameReport
<1>4. pc'[s] = "fail" => ord[Entry(s)] # "filled"
  BY <1>1, <1>2 DEF TaskSound, StepSound
<1>5. ReportSound(s)'
  BY <1>2, <1>4 DEF ReportSound, Entry
<1> QED BY <1>2, <1>3, <1>5, MoveReport

\* Nothing to execute: the entry was never sent.
LEMMA SkipCount ==
  ASSUME IInv, CountInv, NEW s \in Signals, Skip(s)
  PROVE  CountInv'
<1>1. TypeOK /\ TaskSound(s)
  BY DEF IInv
<1>2. /\ UNCHANGED <<call, reply, ord, exState, sends, faults, trade, alerted, incident>>
      /\ pc[s] = "add_trade" /\ pc'[s] = "done"
      /\ \A t \in Signals : t # s => pc'[t] = pc[t]
  BY <1>1 DEF TypeOK, Skip, Goto, dbVars, exVars, noticeVars, boundVars
<1>3. \A t \in Signals : t # s => SameReport(t)
  BY <1>2 DEF SameReport
<1>4. exState[Entry(s)] = "none"
  BY <1>1, <1>2 DEF TaskSound, StepSound, BeforeTrade
<1>5. ReportSound(s)'
  BY <1>2, <1>4 DEF ReportSound, Entry
<1> QED BY <1>2, <1>3, <1>5, MoveReport

\* The operator is told that the trade is open: its stop is at the exchange.
LEMMA NotifyOpenCount ==
  ASSUME IInv, CountInv, NEW s \in Signals, NotifyOpen(s)
  PROVE  CountInv'
<1>1. TypeOK /\ TaskSound(s)
  BY DEF IInv
<1>2. /\ UNCHANGED <<call, reply, ord, exState, sends, faults, trade, alerted, incident>>
      /\ pc[s] = "notify" /\ pc'[s] = "done"
      /\ \A t \in Signals : t # s => pc'[t] = pc[t]
  BY <1>1 DEF TypeOK, NotifyOpen, Goto, dbVars, exVars, boundVars
<1>3. \A t \in Signals : t # s => SameReport(t)
  BY <1>2 DEF SameReport
<1>4. call[s] # "entry" /\ exState[Current(s)] # "none"
  BY <1>1, <1>2 DEF TaskSound, CoverSound, Opening
<1>5. ReportSound(s)'
  BY <1>2, <1>4 DEF ReportSound, Entry, Current
<1> QED BY <1>2, <1>3, <1>5, MoveReport

\* No stop was placed: the incident is emitted before the task gives up.
LEMMA StopFailedCount ==
  ASSUME IInv, CountInv, NEW s \in Signals, StopFailed(s)
  PROVE  CountInv'
<1>1. TypeOK
  BY DEF IInv
<1>2. /\ UNCHANGED <<call, reply, ord, exState, sends, faults, trade>>
      /\ pc[s] = "stop_failed" /\ pc'[s] = "fail" /\ incident'[s]
      /\ \A t \in Signals : t # s => /\ pc'[t] = pc[t] /\ alerted'[t] = alerted[t]
                                     /\ incident'[t] = incident[t]
  BY <1>1 DEF TypeOK, StopFailed, Goto, dbVars, exVars, boundVars
<1>3. \A t \in Signals : t # s => SameReport(t)
  BY <1>2 DEF SameReport
<1>4. ReportSound(s)'
  BY <1>2 DEF ReportSound
<1> QED BY <1>2, <1>3, <1>4, MoveReport

\* The trade fails...
LEMMA FailCount ==
  ASSUME IInv, CountInv, NEW s \in Signals, Fail(s)
  PROVE  CountInv'
<1>1. TypeOK
  BY DEF IInv
<1>2. /\ UNCHANGED <<call, reply, ord, exState, sends, faults, alerted, incident>>
      /\ pc[s] = "fail" /\ pc'[s] = "fail_alert" /\ trade'[s] = "failed"
      /\ \A t \in Signals : t # s => pc'[t] = pc[t] /\ trade'[t] = trade[t]
  BY <1>1 DEF TypeOK, Fail, Goto, exVars, noticeVars, boundVars
<1>3. \A t \in Signals : t # s => SameReport(t)
  BY <1>2 DEF SameReport
<1>4. ReportSound(s)'
  BY <1>2 DEF ReportSound, CountInv, Entry
<1> QED BY <1>2, <1>3, <1>4, MoveReport

\* ... and the operator is alerted.
LEMMA FailAlertCount ==
  ASSUME IInv, CountInv, NEW s \in Signals, FailAlert(s)
  PROVE  CountInv'
<1>1. TypeOK
  BY DEF IInv
<1>2. /\ UNCHANGED <<call, reply, ord, exState, sends, faults, trade, incident>>
      /\ pc[s] = "fail_alert" /\ pc'[s] = "done" /\ alerted'[s]
      /\ \A t \in Signals : t # s => pc'[t] = pc[t] /\ alerted'[t] = alerted[t]
  BY <1>1 DEF TypeOK, FailAlert, Goto, dbVars, exVars, boundVars
<1>3. \A t \in Signals : t # s => SameReport(t)
  BY <1>2 DEF SameReport
<1>4. ReportSound(s)'
  BY <1>2 DEF ReportSound, CountInv, Entry
<1> QED BY <1>2, <1>3, <1>4, MoveReport

\* The placer begins: no stop order has a row.
LEMMA BeginStopCount ==
  ASSUME IInv, CountInv, NEW s \in Signals, BeginStop(s)
  PROVE  CountInv'
<1>1. TypeOK /\ TaskSound(s)
  BY DEF IInv
<1>2. /\ UNCHANGED <<reply, ord, exState, sends, faults, trade, alerted, incident>>
      /\ pc[s] = "stop_get" /\ pc'[s] = "create" /\ call'[s] = "stop_market"
      /\ \A t \in Signals : t # s => pc'[t] = pc[t] /\ call'[t] = call[t]
  BY <1>1 DEF TypeOK, BeginStop, Goto, dbVars, exVars, noticeVars, boundVars
<1>3. \A t \in Signals : t # s => SameReport(t)
  BY <1>2 DEF SameReport
<1>4. ord[<<s, "stop_limit">>] = "absent"
  BY <1>1, <1>2 DEF TaskSound, StepSound, FillSound, Waiting, StopKinds
<1>5. FallbackSound(s)'
  BY <1>2, <1>4 DEF FallbackSound
<1>6. ReportSound(s)'
  BY <1>2 DEF ReportSound
<1> QED BY <1>2, <1>3, <1>5, <1>6, QuietReport

-----------------------------------------------------------------------------
(* Steps that write a row *)

\* A step of one task that sends nothing and writes one row at most.
LEMMA OneRow ==
  ASSUME IInv, CountInv, NEW s \in Signals, NEW k \in Kinds, pc[s] # "lost",
         UNCHANGED <<exState, sends, faults>>,
         \A o \in Orders : o # <<s, k>> => ord'[o] = ord[o],
         pc[s] = "record" => Current(s) = <<s, k>>,
         \A t \in Signals : t # s => SameReport(t),
         Forward(<<s, k>>), FallbackSound(s)', ReportSound(s)'
  PROVE  CountInv'
<1>1. ASSUME NEW o \in Orders, o # <<s, k>> PROVE Forward(o)
  <2>1. o[1] \in Signals /\ ord'[o] = ord[o]
    BY <1>1 DEF Orders
  <2>2. CASE o[1] = s
    BY <1>1, <2>1, <2>2 DEF Forward, Recording
  <2>3. CASE o[1] # s
    BY <2>1, <2>3 DEF Forward, Recording, SameReport, Current
  <2> QED BY <2>2, <2>3
<1>2. ASSUME NEW t \in Signals, t # s, NEW j \in Kinds PROVE Alike(<<t, j>>)
  BY <1>2 DEF Orders, Alike
<1> QED BY <1>1, <1>2, OneReport

\* A row that is neither absent nor created stays so.
LEMMA RowForward ==
  ASSUME NEW o, UNCHANGED <<exState, sends, faults>>, pc[o[1]] \notin {"lost", "record"},
         ord'[o] \notin {"absent", "created"} \/ ord'[o] = ord[o]
                        \/ (ord[o] = "absent" /\ ord'[o] = "created")
  PROVE  Forward(o)
BY DEF Forward, Recording

\* The detector writes what it has read into the entry's row.
LEMMA PollWriteCount ==
  ASSUME IInv, CountInv, NEW s \in Signals, PollWrite(s)
  PROVE  CountInv'
<1>1. TypeOK /\ TaskSound(s)
  BY DEF IInv
<1>2. /\ UNCHANGED <<call, reply, exState, sends, faults, trade, alerted, incident>>
      /\ pc[s] = "poll_write" /\ pc'[s] = "refresh"
      /\ ord' = [ord EXCEPT ![Entry(s)] = observed[s]]
      /\ \A t \in Signals : t # s => pc'[t] = pc[t]
  BY <1>1 DEF TypeOK, PollWrite, Goto, exVars, noticeVars, boundVars
<1>3. \A t \in Signals : t # s => SameReport(t)
  BY <1>2 DEF SameReport
<1>4. observed[s] \in Terminal
  BY <1>1, <1>2 DEF TypeOK, TaskSound, StepSound
<1>5. Entry(s) = <<s, "entry">> /\ Entry(s) \in Orders /\ Entry(s)[1] = s
  BY DEF Entry, Orders, Kinds
<1>6. ord'[Entry(s)] = observed[s] /\ \A o \in Orders : o # Entry(s) => ord'[o] = ord[o]
  BY <1>1, <1>2, <1>5 DEF TypeOK
<1>7. Forward(Entry(s))
  <2>1. ord'[Entry(s)] \notin {"absent", "created"}
    BY <1>4, <1>6 DEF Terminal
  <2> QED BY <1>2, <1>5, <2>1, RowForward
<1>8. FallbackSound(s)'
  <2>1. \A k \in StopKinds : ord'[<<s, k>>] = ord[<<s, k>>]
    BY <1>5, <1>6 DEF Orders, Kinds, StopKinds
  <2> QED BY <1>2, <2>1 DEF FallbackSound, CountInv, StopKinds
<1>9. ReportSound(s)'
  BY <1>2 DEF ReportSound
<1> QED BY <1>2, <1>3, <1>5, <1>6, <1>7, <1>8, <1>9, OneRow DEF Kinds

\* The placer tries again or gives up: that is never a fallback.
LEMMA RaisedNext ==
  ASSUME TypeOK, NEW s \in Signals, call[s] # "entry", NextAttempt(s) \/ Raised(s)
  PROVE  /\ pc'[s] \in {"create", "stop_failed"}
         /\ call'[s] = "stop_limit" => call[s] = "stop_limit"
<1>1. NextAttempt(s)
  BY DEF Raised
<1> QED BY <1>1 DEF TypeOK, NextAttempt, Goto

\* What the placer does with the outcome of an order: the fallback begins
\* only when stop_market is refused, and none of the outcomes is reported yet.
LEMMA StopNext ==
  ASSUME TypeOK, NEW s \in Signals, call[s] # "entry", NEW status, NEW refused,
         Returned(s, status, refused)
  PROVE  /\ pc'[s] \in {"create", "stop_failed", "link"}
         /\ call'[s] = "stop_limit" =>
              \/ call[s] = "stop_limit"
              \/ status = "rejected" /\ refused /\ call[s] = "stop_market"
<1>1. CASE NextAttempt(s)
  BY <1>1, RaisedNext
<1>2. CASE ~NextAttempt(s)
  BY <1>2 DEF TypeOK, Returned, StopReturned, Goto
<1> QED BY <1>1, <1>2

\* The row of an order is found, or made.
LEMMA AddOrGetCount ==
  ASSUME IInv, CountInv, NEW s \in Signals, AddOrGet(s)
  PROVE  CountInv'
<1> DEFINE o == Current(s)
<1>1. TypeOK /\ TaskSound(s) /\ call[s] \in Kinds /\ FallbackSound(s)
  BY DEF IInv, TypeOK, CountInv
<1>2. /\ UNCHANGED <<reply, exState, sends, faults, trade, alerted, incident>>
      /\ pc[s] = "create"
  BY DEF AddOrGet, exVars, noticeVars, boundVars
<1>3. o = <<s, call[s]>> /\ o \in Orders /\ o[1] = s
  BY <1>1 DEF Current, Orders
<1>4. CASE ord[o] \in {"absent", "created"}
  <2>1. ord' = [ord EXCEPT ![o] = "created"] /\ UNCHANGED call
        /\ pc'[s] = "submit" /\ \A t \in Signals : t # s => pc'[t] = pc[t]
    BY <1>1, <1>4 DEF AddOrGet, Goto, TypeOK
  <2>2. ord'[o] = "created" /\ \A q \in Orders : q # o => ord'[q] = ord[q]
    BY <1>1, <1>3, <2>1 DEF TypeOK
  <2>3. \A t \in Signals : t # s => SameReport(t)
    BY <1>2, <2>1 DEF SameReport
  <2>4. Forward(o)
    BY <1>2, <1>3, <1>4, <2>2, RowForward
  <2>5. FallbackSound(s)'
    <3>1. <<s, "stop_market">> \in Orders /\ <<s, "stop_limit">> \in Orders
      BY DEF Orders, Kinds, StopKinds
    <3>2. CASE call[s] = "stop_market"
      BY <1>1, <1>2, <1>3, <1>4, <2>1, <2>2, <3>1, <3>2 DEF FallbackSound
    <3>3. CASE call[s] # "stop_market"
      BY <1>1, <1>2, <1>3, <1>4, <2>1, <2>2, <3>1, <3>3 DEF FallbackSound, TaskSound,
         FillSound, Kinds, StopKinds
    <3> QED BY <3>2, <3>3
  <2>6. ReportSound(s)'
    BY <2>1 DEF ReportSound
  <2> QED BY <1>1, <1>2, <1>3, <2>1, <2>2, <2>3, <2>4, <2>5, <2>6, OneRow
<1>5. CASE ord[o] \notin {"absent", "created"}
  <2>1. Returned(s, ord[o], FALSE) /\ UNCHANGED ord
    BY <1>5 DEF AddOrGet
  <2>2. call[s] # "entry"
    BY <1>1, <1>2, <1>5 DEF TaskSound, StepSound, Entry, Current
  <2>3. \A t \in Signals : t # s => SameReport(t)
    BY <1>1, <1>2, <2>1, ReturnedOutcome DEF SameReport
  <2>4. /\ pc'[s] \in {"create", "stop_failed", "link"}
        /\ call'[s] = "stop_limit" => call[s] = "stop_limit"
    BY <1>1, <2>1, <2>2, StopNext
  <2>5. FallbackSound(s)'
    BY <1>1, <1>2, <2>1, <2>4 DEF FallbackSound
  <2>6. ReportSound(s)'
    BY <2>4 DEF ReportSound
  <2> QED BY <1>2, <2>1, <2>3, <2>5, <2>6, QuietReport
<1> QED BY <1>4, <1>5

\* The seatbelt withholds the order, or the adapter cannot connect.
LEMMA SubmitGatedCount ==
  ASSUME IInv, CountInv, NEW s \in Signals, SubmitGated(s)
  PROVE  CountInv'
<1>1. TypeOK /\ TaskSound(s) /\ call[s] \in Kinds /\ FallbackSound(s)
  BY DEF IInv, TypeOK, CountInv
<1>2. /\ UNCHANGED <<ord, exState, sends, faults, trade, alerted, incident>>
      /\ pc[s] = "submit" /\ ord[Current(s)] = "created"
  BY <1>1 DEF SubmitGated, dbVars, exVars, noticeVars, boundVars, TaskSound, StepSound
<1>3. CASE gate = "blocked"
  <2>1. /\ UNCHANGED call /\ pc'[s] = "record" /\ reply'[s] = "blocked"
        /\ \A t \in Signals : t # s => pc'[t] = pc[t] /\ reply'[t] = reply[t]
    BY <1>1, <1>3 DEF SubmitGated, Goto, TypeOK
  <2>2. \A t \in Signals : t # s => SameReport(t)
    BY <1>2, <2>1 DEF SameReport
  <2>3. FallbackSound(s)'
    BY <1>1, <1>2, <2>1 DEF FallbackSound, TypeRefused
  <2>4. ReportSound(s)'
    BY <2>1 DEF ReportSound
  <2> QED BY <1>2, <2>2, <2>3, <2>4, QuietReport
<1>4. CASE gate # "blocked"
  <2>1. Raised(s) /\ UNCHANGED reply
    BY <1>4 DEF SubmitGated
  <2>2. \A t \in Signals : t # s => SameReport(t)
    BY <1>1, <1>2, <2>1, RaisedOutcome DEF SameReport
  <2>3. CASE call[s] = "entry"
    <3>1. call'[s] = "entry" /\ pc'[s] = "fail"
      BY <1>1, <2>1, <2>3, RaisedOutcome
    <3>2. FallbackSound(s)'
      BY <1>1, <1>2, <2>3, <3>1 DEF FallbackSound
    <3>3. ReportSound(s)'
      BY <1>2, <2>3, <3>1 DEF ReportSound, Entry, Current
    <3> QED BY <1>2, <2>2, <3>2, <3>3, QuietReport
  <2>4. CASE call[s] # "entry"
    <3>1. /\ pc'[s] \in {"create", "stop_failed"}
          /\ call'[s] = "stop_limit" => call[s] = "stop_limit"
      BY <1>1, <2>1, <2>4, RaisedNext
    <3>2. FallbackSound(s)'
      BY <1>1, <1>2, <3>1 DEF FallbackSound
    <3>3. ReportSound(s)'
      BY <3>1 DEF ReportSound
    <3> QED BY <1>2, <2>2, <3>2, <3>3, QuietReport
  <2> QED BY <2>3, <2>4
<1> QED BY <1>3, <1>4

\* The order is sent.
LEMMA SubmitCount ==
  ASSUME IInv, CountInv, NEW s \in Signals, Submit(s)
  PROVE  CountInv'
<1> DEFINE o == Current(s)
<1>1. TypeOK /\ TaskSound(s) /\ call[s] \in Kinds
  BY DEF IInv, TypeOK
<1>2. /\ UNCHANGED <<call, ord, faults, trade, alerted, incident>>
      /\ pc[s] = "submit" /\ pc'[s] = "record" /\ ord[o] = "created"
      /\ \A t \in Signals : t # s => pc'[t] = pc[t]
  BY <1>1 DEF Submit, Goto, TypeOK, dbVars, noticeVars, boundVars, TaskSound, StepSound
<1>3. o = <<s, call[s]>> /\ o \in Orders /\ o[1] = s
  BY <1>1 DEF Current, Orders
<1>4. sends' = [sends EXCEPT ![o] = @ + 1]
  BY DEF Submit
<1>5. PICK r \in Replies :
        /\ reply' = [reply EXCEPT ![s] = r]
        /\ \/ exState' = [exState EXCEPT ![o] = "open"] /\ ~TypeRefused(r)
           \/ exState' = exState
  BY DEF Submit, Errors, TypeRefused, Replies
<1>6. /\ \A t \in Signals : t # s => SameReport(t)
      /\ reply'[s] = r
  BY <1>1, <1>2, <1>5 DEF TypeOK, SameReport
<1>7. /\ sends[o] \in Nat /\ faults \in Nat /\ sends'[o] = sends[o] + 1
      /\ \A q \in Orders : q # o => sends'[q] = sends[q] /\ exState'[q] = exState[q]
  BY <1>1, <1>3, <1>4, <1>5, ExecutionAssumption DEF TypeOK
<1>8. sends[o] <= faults
  BY <1>2, <1>3 DEF CountInv, SendSound, Recording
<1>9. ASSUME NEW q \in Orders PROVE SendSound(q)'
  <2>1. CASE q = o
    <3>1. Recording(q)'
      BY <1>2, <1>3, <2>1 DEF Recording, Current
    <3> QED BY <1>2, <1>7, <1>8, <2>1, <3>1 DEF SendSound
  <2>2. CASE q # o
    <3>1. q[1] \in Signals
      BY DEF Orders
    <3>2. Recording(q) <=> Recording(q)'
      BY <1>2, <1>3, <2>2, <3>1 DEF Recording, Current
    <3>3. pc'[q[1]] = "lost" <=> pc[q[1]] = "lost"
      BY <1>2, <3>1
    <3> QED BY <1>1, <1>2, <1>7, <2>2, <3>2, <3>3 DEF SendSound, CountInv
  <2> QED BY <2>1, <2>2
<1>10. FallbackSound(s)'
  <2>1. /\ <<s, "stop_market">> \in Orders /\ <<s, "stop_limit">> \in Orders
        /\ FallbackSound(s)
    BY DEF Orders, Kinds, StopKinds, CountInv
  <2>2. CASE call[s] = "stop_market"
    <3>1. faults = 0 => exState[o] = "none"
      BY <1>3, <1>7, <1>8 DEF CountInv, SendSound
    <3>2. o = <<s, "stop_market">>
      BY <1>3, <2>2
    <3>3. faults = 0 => ord[<<s, "stop_limit">>] = "absent"
      BY <1>2, <2>1, <3>2 DEF FallbackSound
    <3>4. TypeRefused(reply'[s]) => exState' = exState
      BY <1>5, <1>6
    <3>5. TypeRefused(reply[s])' = TypeRefused(reply'[s])
      BY DEF TypeRefused
    <3> QED BY <1>2, <2>2, <3>1, <3>2, <3>3, <3>4, <3>5 DEF FallbackSound
  <2>3. CASE call[s] # "stop_market"
    <3>1. o # <<s, "stop_market">>
      BY <1>3, <2>3
    <3> QED BY <1>2, <1>7, <2>1, <2>3, <3>1 DEF FallbackSound
  <2> QED BY <2>2, <2>3
<1>11. ReportSound(s)'
  BY <1>2 DEF ReportSound
<1>12. ASSUME NEW t \in Signals, t # s PROVE FallbackSound(t)' /\ ReportSound(t)'
  <2>1. \A k \in Kinds : Alike(<<t, k>>)
    BY <1>2, <1>3, <1>7, <1>12 DEF Alike, Orders
  <2> QED BY <1>1, <1>2, <1>6, <1>12, <2>1, SameReportSound DEF CountInv
<1> QED BY <1>9, <1>10, <1>11, <1>12 DEF CountInv

\* The outcome is written.
LEMMA RecordCount ==
  ASSUME IInv, CountInv, NEW s \in Signals, Record(s)
  PROVE  CountInv'
<1> DEFINE o      == Current(s)
           status == StatusOf(reply[s])
<1>1. TypeOK /\ TaskSound(s) /\ call[s] \in Kinds /\ FallbackSound(s)
  BY DEF IInv, TypeOK, CountInv
<1>2. /\ UNCHANGED <<exState, sends, faults, trade, alerted, incident>>
      /\ pc[s] = "record" /\ ord[o] = "created"
      /\ ord' = [ord EXCEPT ![o] = status]
      /\ reply' = [reply EXCEPT ![s] = "none"]
      /\ Returned(s, status, TypeRefused(reply[s]))
  BY DEF Record, exVars, noticeVars, boundVars
<1>3. o = <<s, call[s]>> /\ o \in Orders /\ o[1] = s
  BY <1>1 DEF Current, Orders
<1>4. ord'[o] = status /\ \A q \in Orders : q # o => ord'[q] = ord[q]
  BY <1>1, <1>2, <1>3 DEF TypeOK
<1>5. status \in {"submitted", "cancelled", "failed", "rejected"}
  BY DEF StatusOf
<1>6. \A t \in Signals : t # s => SameReport(t)
  BY <1>1, <1>2, ReturnedOutcome DEF SameReport, TypeOK
<1>7. Forward(o)
  BY <1>2, <1>3, <1>4, <1>5 DEF Forward
<1>8. FallbackSound(s)' /\ ReportSound(s)'
  <2>1. <<s, "stop_market">> \in Orders /\ <<s, "stop_limit">> \in Orders
    BY DEF Orders, Kinds, StopKinds
  <2>2. CASE call[s] = "entry"
    <3>1. call'[s] = "entry" /\ pc'[s] \in {"wait", "fail"}
      BY <1>1, <1>2, <2>2, ReturnedOutcome
    <3>2. ord'[<<s, "stop_limit">>] = "absent"
      BY <1>1, <1>3, <1>4, <2>1, <2>2 DEF TaskSound, FillSound, StopKinds
    <3>3. FallbackSound(s)'
      BY <3>1, <3>2 DEF FallbackSound
    <3>4. ord'[Entry(s)] # "filled"
      BY <1>3, <1>4, <1>5, <2>2 DEF Entry
    <3>5. ReportSound(s)'
      BY <3>1, <3>4 DEF ReportSound, Entry
    <3> QED BY <3>3, <3>5
  <2>3. CASE call[s] # "entry"
    <3>1. /\ pc'[s] \in {"create", "stop_failed", "link"}
          /\ call'[s] = "stop_limit" =>
               \/ call[s] = "stop_limit"
               \/ status = "rejected" /\ TypeRefused(reply[s]) /\ call[s] = "stop_market"
      BY <1>1, <1>2, <2>3, StopNext
    <3>2. ReportSound(s)'
      BY <3>1 DEF ReportSound
    <3>3. CASE call[s] = "stop_limit"
      <4>1. faults = 0 => /\ ord'[<<s, "stop_market">>] = "rejected"
                          /\ exState'[<<s, "stop_market">>] = "none"
        BY <1>1, <1>2, <1>3, <1>4, <2>1, <3>3 DEF FallbackSound
      <4> QED BY <1>2, <3>1, <3>2, <4>1 DEF FallbackSound
    <3>4. CASE call[s] = "stop_market"
      <4>1. o = <<s, "stop_market">>
        BY <1>3, <3>4
      <4>2. faults = 0 => ord'[<<s, "stop_limit">>] = "absent"
        BY <1>1, <1>2, <1>4, <2>1, <4>1 DEF FallbackSound
      <4>3. faults = 0 /\ call'[s] = "stop_limit" =>
              /\ ord'[<<s, "stop_market">>] = "rejected"
              /\ exState'[<<s, "stop_market">>] = "none"
        BY <1>1, <1>2, <1>4, <3>1, <3>4, <4>1 DEF FallbackSound
      <4> QED BY <1>2, <3>1, <3>2, <4>2, <4>3 DEF FallbackSound
    <3> QED BY <1>1, <2>3, <3>3, <3>4 DEF Kinds, StopKinds
  <2> QED BY <2>2, <2>3
<1> QED BY <1>1, <1>2, <1>3, <1>4, <1>6, <1>7, <1>8, OneRow

-----------------------------------------------------------------------------
(* Faults, passes, the exchange and crashes *)

\* A fault in a task: whatever it leaves unwritten, it counts.
LEMMA StorageFaultCount ==
  ASSUME IInv, CountInv, NEW s \in Signals, StorageFault(s)
  PROVE  CountInv'
<1>1. TypeOK /\ TaskSound(s)
  BY DEF IInv
<1>2. UNCHANGED <<exState, sends>> /\ faults' = faults + 1
  BY DEF StorageFault, exVars
<1>3. /\ pc[s] # "lost"
      /\ \A t \in Signals : t # s => pc'[t] = pc[t]
  <2>1. CASE AddTradeFault(s) \/ UncaughtFault(s) \/ SwallowedFault(s)
    BY <1>1, <2>1 DEF TypeOK, AddTradeFault, UncaughtFault, SwallowedFault, Goto
  <2>2. CASE CreateFault(s)
    BY <1>1, <2>2, RaisedOutcome DEF CreateFault
  <2> QED BY <2>1, <2>2 DEF StorageFault
<1>4. ASSUME NEW o \in Orders
      PROVE  \/ ord'[o] = ord[o] \/ ord'[o] \notin {"absent", "created"}
             \/ ord[o] = "absent" /\ ord'[o] = "created"
  <2>1. CASE AddTradeFault(s) \/ SwallowedFault(s)
    BY <2>1 DEF AddTradeFault, SwallowedFault
  <2>2. CASE UncaughtFault(s)
    <3>1. pc[s] = "poll_write" => observed[s] \in Terminal
      BY <1>1 DEF TypeOK, TaskSound, StepSound
    <3> QED BY <1>1, <2>2, <3>1 DEF TypeOK, UncaughtFault, Terminal
  <2>3. CASE CreateFault(s)
    <3>1. StatusOf(reply[s]) \notin {"absent", "created"}
      BY DEF StatusOf
    <3> QED BY <1>1, <2>3, <3>1 DEF TypeOK, CreateFault
  <2> QED BY <2>1, <2>2, <2>3 DEF StorageFault
<1>5. ASSUME NEW o \in Orders PROVE Forward(o)
  <2>1. o[1] \in Signals
    BY DEF Orders
  <2>2. pc[o[1]] = "lost" => pc'[o[1]] = "lost"
    BY <1>3, <2>1
  <2> QED BY <1>2, <1>4, <2>2 DEF Forward
<1> QED BY <1>2, <1>5, FaultCount

\* The steps of a pass that write no row.
LEMMA PassCount ==
  ASSUME IInv, CountInv, NEW p \in Passes,
         FetchExchange(p) \/ PassFails(p) \/ DiffOrders(p) \/ FinishPass(p) \/ PatchFault(p)
  PROVE  CountInv'
<1>1. /\ UNCHANGED <<pc, call, reply, trade, alerted, incident, ord, exState, sends>>
      /\ faults' \in {faults, faults + 1}
  BY DEF FetchExchange, PassFails, DiffOrders, FinishPass, PatchFault, execVars, dbVars, exVars,
     noticeVars, boundVars
<1>2. ASSUME NEW o \in Orders PROVE Forward(o) /\ Alike(o)
  BY <1>1 DEF Forward, Alike, Recording, Current
<1>3. \A s \in Signals : SameReport(s)
  BY <1>1 DEF SameReport
<1> QED BY <1>1, <1>2, <1>3, NoReport, FaultCount

\* A pass closes a row that it still finds submitted.
LEMMA PatchOrphanCount ==
  ASSUME IInv, CountInv, NEW p \in Passes, PatchOrphan(p)
  PROVE  CountInv'
<1>1. TypeOK
  BY DEF IInv
<1>2. UNCHANGED <<pc, call, reply, trade, alerted, incident, exState, sends, faults>>
  BY DEF PatchOrphan, execVars, exVars, noticeVars, boundVars
<1>3. PICK q \in Orders :
        ord' = [ord EXCEPT ![q] = IF ord[q] = "submitted" THEN "cancelled" ELSE ord[q]]
  BY <1>1 DEF PatchOrphan, TypeOK
<1>4. ASSUME NEW o \in Orders
      PROVE  ord'[o] = ord[o] \/ (ord[o] = "submitted" /\ ord'[o] = "cancelled")
  BY <1>1, <1>3 DEF TypeOK
<1>5. ASSUME NEW o \in Orders PROVE Forward(o) /\ Alike(o)
  BY <1>2, <1>4 DEF Forward, Alike, Recording, Current
<1>6. \A s \in Signals : SameReport(s)
  BY <1>2 DEF SameReport
<1> QED BY <1>2, <1>5, <1>6, NoReport

\* An open order fills or ends: it stays sent.
LEMMA ExchangeCount ==
  ASSUME IInv, CountInv, NEW q \in Orders, ExchangeFill(q) \/ ExchangeEnd(q)
  PROVE  CountInv'
<1>1. TypeOK
  BY DEF IInv
<1>2. UNCHANGED <<pc, call, reply, trade, alerted, incident, ord, sends, faults>>
  BY DEF ExchangeFill, ExchangeEnd, execVars, dbVars, noticeVars, boundVars
<1>3. ASSUME NEW o \in Orders PROVE exState'[o] = "none" <=> exState[o] = "none"
  <2>1. exState[q] = "open"
    BY DEF ExchangeFill, ExchangeEnd
  <2>2. PICK x \in {"open", "closed", "canceled", "rejected"} :
          exState' = [exState EXCEPT ![q] = x]
    BY <2>1 DEF ExchangeFill, ExchangeEnd
  <2> QED BY <1>1, <2>1, <2>2 DEF TypeOK
<1>4. ASSUME NEW o \in Orders PROVE Forward(o) /\ Alike(o)
  BY <1>2, <1>3 DEF Forward, Alike, Recording, Current
<1>5. \A s \in Signals : SameReport(s)
  BY <1>2 DEF SameReport
<1> QED BY <1>2, <1>4, <1>5, NoReport

\* A crash loses the tasks: what they had sent they send no more.
LEMMA CrashCount ==
  ASSUME IInv, CountInv, Crash
  PROVE  CountInv'
<1>1. UNCHANGED <<call, reply, trade, ord, exState, sends, alerted, incident, faults>>
  BY DEF Crash, dbVars, exVars, noticeVars
<1>2. \A s \in Signals : pc'[s] = "lost" \/ (pc'[s] = pc[s] /\ pc[s] \in {"idle", "done"})
  BY DEF Crash
<1>3. ASSUME NEW o \in Orders PROVE SendSound(o)'
  <2>1. o[1] \in Signals
    BY DEF Orders
  <2>2. pc[o[1]] = "lost" => pc'[o[1]] = "lost"
    BY <1>2, <2>1
  <2>3. Recording(o) => pc'[o[1]] = "lost"
    BY <1>2, <2>1 DEF Recording
  <2>4. Forward(o)
    BY <1>1, <2>2, <2>3 DEF Forward
  <2> QED BY <2>4, ForwardSound DEF IInv, CountInv
<1>4. ASSUME NEW s \in Signals PROVE FallbackSound(s)' /\ ReportSound(s)'
  <2>1. FallbackSound(s)'
    BY <1>1, <1>2 DEF CountInv, FallbackSound
  <2>2. ReportSound(s)'
    BY <1>1, <1>2 DEF CountInv, ReportSound, Entry, Current
  <2> QED BY <2>1, <2>2
<1> QED BY <1>3, <1>4 DEF CountInv

-----------------------------------------------------------------------------
(* The invariant *)

\* It holds at first.
LEMMA CountInit ==
  Init => CountInv
<1> SUFFICES ASSUME Init PROVE CountInv
  OBVIOUS
<1>1. ASSUME NEW o \in Orders PROVE SendSound(o)
  BY <1>1 DEF Init, SendSound
<1>2. ASSUME NEW s \in Signals PROVE FallbackSound(s) /\ ReportSound(s)
  BY DEF Init, FallbackSound, ReportSound, Orders, Kinds, StopKinds
<1> QED BY <1>1, <1>2 DEF CountInv

\* Every step from a sound state preserves it.
LEMMA CountNext ==
  IInv /\ CountInv /\ [Next]_vars => CountInv'
<1> SUFFICES ASSUME IInv, CountInv, [Next]_vars PROVE CountInv'
  OBVIOUS
<1>1. ASSUME NEW s \in Signals, Approve(s) \/ ExecutorStep(s) \/ StorageFault(s)
      PROVE  CountInv'
  BY <1>1, OnwardCount, WaitCount, SkipCount, NotifyOpenCount, StopFailedCount, FailCount,
     FailAlertCount, BeginStopCount, PollWriteCount, AddOrGetCount, SubmitGatedCount,
     SubmitCount, RecordCount, StorageFaultCount
  DEF ExecutorStep
<1>2. ASSUME NEW p \in Passes, ReconcileStep(p) \/ PassFails(p) \/ PatchFault(p)
      PROVE  CountInv'
  BY <1>2, PassCount, PatchOrphanCount DEF ReconcileStep
<1>3. ASSUME NEW o \in Orders, ExchangeFill(o) \/ ExchangeEnd(o)
      PROVE  CountInv'
  BY <1>3, ExchangeCount
<1>4. CASE UNCHANGED vars
  <2>1. UNCHANGED <<pc, call, reply, trade, alerted, incident, ord, exState, sends, faults>>
    BY <1>4 DEF vars, execVars, dbVars, exVars, noticeVars, boundVars
  <2>2. ASSUME NEW o \in Orders PROVE Forward(o) /\ Alike(o)
    BY <2>1 DEF Forward, Alike, Recording, Current
  <2>3. \A s \in Signals : SameReport(s)
    BY <2>1 DEF SameReport
  <2> QED BY <2>1, <2>2, <2>3, NoReport
<1> QED BY <1>1, <1>2, <1>3, <1>4, CrashCount DEF Next

\* In every behaviour of the execution layer both invariants hold.
THEOREM CountInductive == Spec => [](IInv /\ CountInv)
<1>1. Init => CountInv
  BY CountInit
<1>2. IInv /\ CountInv /\ [Next]_vars => CountInv'
  BY CountNext
<1> QED BY <1>1, <1>2, InitInv, NextInv, PTL DEF Spec

-----------------------------------------------------------------------------
(* The properties *)

\* Unless the database failed, at most one stop rests at the exchange for a
\* trade, whatever the exchange answers and however often the placer tries.
THEOREM OneStopAtMost == Spec => []AtMostOneLiveStop
<1>1. IInv /\ CountInv => AtMostOneLiveStop
  <2> SUFFICES ASSUME IInv, CountInv, NEW s \in Signals, faults = 0
               PROVE  \E k \in StopKinds : exState[<<s, k>>] # "open"
    BY DEF AtMostOneLiveStop
  <2>1. <<s, "stop_limit">> \in Orders
    BY DEF Orders, Kinds, StopKinds
  <2>2. CASE exState[<<s, "stop_limit">>] # "open"
    BY <2>2 DEF StopKinds
  <2>3. CASE exState[<<s, "stop_limit">>] = "open"
    <3>1. ord[<<s, "stop_limit">>] # "absent"
      BY <2>1, <2>3 DEF IInv, OrderSound
    <3>2. exState[<<s, "stop_market">>] = "none"
      BY <3>1 DEF CountInv, FallbackSound
    <3> QED BY <3>2 DEF StopKinds
  <2> QED BY <2>2, <2>3
<1> QED BY <1>1, CountInductive, PTL

\* An order is sent once, plus at most once for each database error.
THEOREM SendsAreAccounted == Spec => []ResentOnlyAfterFault
<1>1. IInv /\ CountInv => ResentOnlyAfterFault
  BY DEF CountInv, SendSound, ResentOnlyAfterFault
<1> QED BY <1>1, CountInductive, PTL

\* Unless the database failed, no executor ends in silence with a filled
\* amount that has no stop.
THEOREM UncoveredFillsAreReported == Spec => []UncoveredFillIsReported
<1>1. IInv /\ CountInv => UncoveredFillIsReported
  <2> SUFFICES ASSUME IInv, CountInv, NEW s \in Signals, pc[s] = "done", faults = 0,
                      exFilled[Entry(s)] > 0, \A k \in StopKinds : exState[<<s, k>>] = "none"
               PROVE  /\ trade[s] = "failed" /\ alerted[s]
                      /\ ord[Entry(s)] = "filled" => incident[s]
    BY DEF UncoveredFillIsReported
  <2>1. call[s] \in Kinds /\ Entry(s) \in Orders
    BY DEF IInv, TypeOK, Entry, Orders, Kinds
  <2>2. exState[Entry(s)] # "none"
    BY <2>1 DEF IInv, OrderSound
  <2>3. ~(call[s] # "entry" /\ exState[Current(s)] # "none")
    BY <2>1 DEF Current, Kinds
  <2> QED BY <2>2, <2>3 DEF CountInv, ReportSound
<1> QED BY <1>1, CountInductive, PTL

-----------------------------------------------------------------------------
(***************************************************************************)
(* What the steps of OrderExecution may do, proved from its inductive      *)
(* invariant: the final order rows they rewrite, and the contract of       *)
(* TradeContract that they implement.                                      *)
(***************************************************************************)

-----------------------------------------------------------------------------
(* Rewriting of final rows *)

\* What RewritesOnlyCorrect allows a step to do to the row of o.
RowStep(o) ==
  ord[o] \in Terminal /\ ord'[o] # ord[o]
    => ord[o] = "cancelled" /\ ord'[o] = LocalStatus(exState[o])

\* A write to the row of q that is not final, or says what the exchange says.
LEMMA OneRowStep ==
  ASSUME TypeOK, NEW q \in Orders, NEW x, ord' = [ord EXCEPT ![q] = x],
         \/ ord[q] \notin Terminal
         \/ x = ord[q]
         \/ ord[q] = "cancelled" /\ x = LocalStatus(exState[q])
  PROVE  \A o \in Orders : RowStep(o)
<1>1. \A o \in Orders : ord'[o] = IF o = q THEN x ELSE ord[o]
  BY DEF TypeOK
<1> QED BY <1>1 DEF RowStep

\* A final order row is only rewritten from cancelled to what the exchange
\* says of its order.
THEOREM RewritesAreCorrect == Spec => RewritesOnlyCorrect
<1>1. ASSUME IInv, [Next]_vars PROVE \A o \in Orders : RowStep(o)
  <2>1. TypeOK
    BY <1>1 DEF IInv
  <2>2. CASE UNCHANGED ord
    BY <2>2 DEF RowStep
  <2>3. ASSUME NEW s \in Signals, AddOrGet(s) \/ Record(s) \/ CreateFault(s), ord' # ord
        PROVE  \A o \in Orders : RowStep(o)
    <3>1. PICK x : ord' = [ord EXCEPT ![Current(s)] = x]
      BY <2>3 DEF AddOrGet, Record, CreateFault
    <3>2. TaskSound(s) /\ Current(s) \in Orders
      BY <1>1, <2>1 DEF IInv, TypeOK, Current, Orders
    <3>3. ord[Current(s)] \in {"absent", "created"}
      BY <2>3, <3>2 DEF AddOrGet, Record, CreateFault, TaskSound, StepSound
    <3> QED BY <2>1, <3>1, <3>2, <3>3, OneRowStep DEF Terminal
  <2>4. ASSUME NEW s \in Signals, PollWrite(s) \/ UncaughtFault(s), ord' # ord
        PROVE  \A o \in Orders : RowStep(o)
    <3>1. pc[s] = "poll_write" /\ ord' = [ord EXCEPT ![Entry(s)] = observed[s]]
      BY <2>4 DEF PollWrite, UncaughtFault
    <3>2. Entry(s) \in Orders /\ ord[Entry(s)] \in {"submitted", "cancelled"}
          /\ observed[s] = LocalStatus(exState[Entry(s)])
      BY <1>1, <3>1 DEF IInv, TaskSound, StepSound, Entry, Orders, Kinds
    <3> QED BY <2>1, <3>1, <3>2, OneRowStep DEF Terminal
  <2>5. ASSUME NEW p \in Passes, PatchOrphan(p)
        PROVE  \A o \in Orders : RowStep(o)
    <3>1. PICK q \in rOrphanDb[p] :
            ord' = [ord EXCEPT ![q] = IF ord[q] = "submitted" THEN "cancelled" ELSE ord[q]]
      BY <2>5 DEF PatchOrphan
    <3>2. q \in Orders
      BY <2>1 DEF TypeOK
    <3>3. CASE ord[q] = "submitted"
      BY <2>1, <3>1, <3>2, <3>3, OneRowStep DEF Terminal
    <3>4. CASE ord[q] # "submitted"
      BY <2>1, <3>1, <3>2, <3>4, OneRowStep
    <3> QED BY <3>3, <3>4
  <2>6. ASSUME ord' # ord
        PROVE  \/ \E s \in Signals : \/ AddOrGet(s) \/ Record(s) \/ CreateFault(s)
                                     \/ PollWrite(s) \/ UncaughtFault(s)
               \/ \E p \in Passes : PatchOrphan(p)
    <3> USE DEF dbVars
    <3>1. ~ UNCHANGED vars
      BY <2>6 DEF vars
    <3>2. ASSUME NEW s \in Signals, Approve(s) \/ ExecutorStep(s)
          PROVE  AddOrGet(s) \/ Record(s) \/ PollWrite(s)
      BY <2>6, <3>2 DEF Approve, ExecutorStep, Skip, AddTrade, SubmitGated, Submit, BeginWait,
           Poll, Refresh, PollTimeout, BeginStop, StopFailed, Link, OpenTrade, NotifyOpen, Fail,
           FailAlert
    <3>3. ASSUME NEW s \in Signals, StorageFault(s)
          PROVE  CreateFault(s) \/ UncaughtFault(s)
      BY <2>6, <3>3 DEF StorageFault, AddTradeFault, SwallowedFault
    <3>4. ASSUME NEW p \in Passes, ReconcileStep(p) \/ PassFails(p) \/ PatchFault(p)
          PROVE  PatchOrphan(p)
      BY <2>6, <3>4 DEF ReconcileStep, FetchExchange, PassFails, DiffOrders, PatchFault,
           FinishPass
    <3>5. \A o \in Orders : ~ ExchangeFill(o) /\ ~ ExchangeEnd(o)
      BY <2>6 DEF ExchangeFill, ExchangeEnd
    <3>6. ~ Crash
      BY <2>6 DEF Crash
    <3> QED BY <1>1, <3>1, <3>2, <3>3, <3>4, <3>5, <3>6 DEF Next
  <2> QED BY <2>2, <2>3, <2>4, <2>5, <2>6
<1>2. IInv /\ [Next]_vars => [\A o \in Orders : RowStep(o)]_vars
  BY <1>1
<1> QED BY <1>2, Inductive, PTL DEF Spec, RewritesOnlyCorrect, RowStep

-----------------------------------------------------------------------------
(* The contract *)

\* The contract's state for one signal, as the execution layer has it.
Position == [s \in Signals |-> exFilled[Entry(s)]]
Covered  == [s \in Signals |-> \E k \in StopKinds : exState[<<s, k>>] # "none"]

\* A step that changes no trade, no filled amount and no stop's existence.
LEMMA ContractStutter ==
  ASSUME UNCHANGED trade,
         \A s \in Signals : exFilled'[Entry(s)] = exFilled[Entry(s)],
         \A o \in Orders : exState[o] = "none" <=> exState'[o] = "none"
  PROVE  UNCHANGED Contract!contractVars
<1>1. \A s \in Signals, k \in StopKinds : <<s, k>> \in Orders
  BY DEF Orders, Kinds
<1>2. Position' = Position /\ Covered' = Covered
  BY <1>1 DEF Position, Covered, Entry
<1> QED BY <1>2 DEF Contract!contractVars, Position, Covered

\* A step that moves one trade and nothing at the exchange.
LEMMA ContractTrade ==
  ASSUME NEW s \in Signals, UNCHANGED <<exState, exFilled>>,
         \/ trade[s] = "none" /\ trade' = [trade EXCEPT ![s] = "pending"]
         \/ trade[s] = "pending" /\ trade' = [trade EXCEPT ![s] = "failed"]
         \/ /\ trade[s] = "pending" /\ trade' = [trade EXCEPT ![s] = "open"]
            /\ \E k \in StopKinds : exState[<<s, k>>] # "none"
  PROVE  Contract!ContractNext
<1>1. Position' = Position /\ Covered' = Covered
  BY DEF Position, Covered, Entry
<1>2. Contract!Begin(s) \/ Contract!GiveUp(s) \/ Contract!Open(s)
  BY <1>1 DEF Contract!Begin, Contract!GiveUp, Contract!Open, Position, Covered
<1> QED BY <1>2 DEF Contract!ContractNext

\* A step of the executor keeps the contract.
LEMMA ContractExecutor ==
  ASSUME IInv, NEW s \in Signals, Approve(s) \/ ExecutorStep(s) \/ StorageFault(s)
  PROVE  Contract!ContractNext \/ UNCHANGED Contract!contractVars
<1> USE DEF dbVars, exVars
<1>1. TypeOK /\ TaskSound(s) /\ call[s] \in Kinds
  BY DEF IInv, TypeOK
<1>2. CASE UNCHANGED <<trade, exState, exFilled>>
  BY <1>2, ContractStutter
<1>3. CASE AddTrade(s) \/ (StorageFault(s) /\ AddTradeFault(s) /\ trade' # trade)
  <2>1. trade[s] = "none" /\ trade' = [trade EXCEPT ![s] = "pending"]
    BY <1>1, <1>3 DEF AddTrade, AddTradeFault, TaskSound, StepSound, BeforeTrade
  <2>2. UNCHANGED <<exState, exFilled>>
    BY <1>3 DEF AddTrade, StorageFault
  <2> QED BY <2>1, <2>2, ContractTrade
<1>4. CASE OpenTrade(s)
  <2>1. call[s] \in StopKinds /\ exState[<<s, call[s]>>] # "none"
    BY <1>1, <1>4 DEF OpenTrade, TaskSound, CoverSound, Opening, Current, Kinds
  <2> QED BY <1>4, <2>1, ContractTrade DEF OpenTrade
<1>5. CASE Fail(s)
  <2>1. trade[s] = "pending"
    BY <1>1, <1>5 DEF Fail, TaskSound, StepSound, Holding
  <2> QED BY <1>5, <2>1, ContractTrade DEF Fail
<1>6. CASE Submit(s) /\ exState' # exState
  <2>1. PICK k \in Kinds : k = call[s]
    BY <1>1
  <2>2. <<s, k>> \in Orders /\ <<s, k>> = Current(s)
    BY <2>1 DEF Orders, Current
  <2>3. /\ exState[<<s, k>>] = "none" /\ exState' = [exState EXCEPT ![<<s, k>>] = "open"]
        /\ UNCHANGED <<trade, exFilled>> /\ trade[s] = "pending"
    BY <1>1, <1>6, <2>2 DEF Submit, TaskSound, StepSound, Holding
  <2>4. \A o \in Orders : exState'[o] = IF o = <<s, k>> THEN "open" ELSE exState[o]
    BY <1>1, <2>3 DEF TypeOK
  <2>5. Position' = Position
    BY <2>3 DEF Position, Entry
  <2>6. \A t \in Signals, j \in StopKinds : <<t, j>> \in Orders
    BY DEF Orders, Kinds
  <2>7. CASE k = "entry"
    <3>1. \A t \in Signals, j \in StopKinds : exState'[<<t, j>>] = exState[<<t, j>>]
      BY <2>4, <2>6, <2>7 DEF StopKinds
    <3>2. Covered' = Covered
      BY <3>1 DEF Covered
    <3> QED BY <2>3, <2>5, <3>2 DEF Contract!contractVars, Position, Covered
  <2>8. CASE k # "entry"
    <3>1. k \in StopKinds /\ Entry(s) \in Orders /\ OrderSound(Entry(s))
      BY <2>8 DEF Kinds, Entry, Orders, IInv
    <3>2. ord[Entry(s)] = "filled"
      BY <1>1, <2>1, <2>8 DEF TaskSound, FillSound
    <3>3. Position[s] = Lot
      BY <3>1, <3>2 DEF OrderSound, Position
    <3>4. \A t \in Signals : (\E j \in StopKinds : exState'[<<t, j>>] # "none")
                               <=> (t = s \/ \E j \in StopKinds : exState[<<t, j>>] # "none")
      BY <2>4, <2>6, <3>1
    <3>5. Covered' = [Covered EXCEPT ![s] = TRUE]
      BY <3>4 DEF Covered
    <3>6. Contract!Cover(s)
      BY <2>3, <2>5, <3>3, <3>5 DEF Contract!Cover, Position, Covered
    <3> QED BY <3>6 DEF Contract!ContractNext
  <2> QED BY <2>7, <2>8
<1>7. CASE Approve(s) \/ Skip(s) \/ AddOrGet(s) \/ SubmitGated(s) \/ Record(s) \/ BeginWait(s)
           \/ Poll(s) \/ PollWrite(s) \/ Refresh(s) \/ PollTimeout(s) \/ BeginStop(s)
           \/ StopFailed(s) \/ Link(s) \/ NotifyOpen(s) \/ FailAlert(s)
  <2>1. UNCHANGED <<trade, exState, exFilled>>
    BY <1>7 DEF Approve, Skip, AddOrGet, SubmitGated, Record, BeginWait, Poll, PollWrite,
         Refresh, PollTimeout, BeginStop, StopFailed, Link, NotifyOpen, FailAlert
  <2> QED BY <1>2, <2>1
<1>8. CASE Submit(s) /\ exState' = exState
  BY <1>2, <1>8 DEF Submit
<1>9. CASE StorageFault(s) /\ ~ (AddTradeFault(s) /\ trade' # trade)
  <2>1. UNCHANGED <<trade, exState, exFilled>>
    BY <1>9 DEF StorageFault, CreateFault, UncaughtFault, SwallowedFault
  <2> QED BY <1>2, <2>1
<1> QED BY <1>3, <1>4, <1>5, <1>6, <1>7, <1>8, <1>9 DEF ExecutorStep

\* An order that fills or ends at the exchange keeps it.
LEMMA ContractExchange ==
  ASSUME IInv, NEW o \in Orders, ExchangeFill(o) \/ ExchangeEnd(o)
  PROVE  Contract!ContractNext \/ UNCHANGED Contract!contractVars
<1>1. TypeOK /\ OrderSound(o) /\ exState[o] = "open" /\ UNCHANGED trade
  BY DEF IInv, ExchangeFill, ExchangeEnd, dbVars
<1>2. \A q \in Orders : exState[q] = "none" <=> exState'[q] = "none"
  BY <1>1 DEF ExchangeFill, ExchangeEnd, TypeOK
<1>3. CASE o[2] = "entry" /\ ExchangeFill(o)
  <2>1. PICK s \in Signals : o = Entry(s)
    BY <1>3 DEF Orders, Entry
  <2>2. trade[s] # "none" /\ Position[s] < Lot
    BY <1>1, <2>1 DEF IInv, TaskSound, CoverSound, OrderSound, Position
  <2>3. Position' = [Position EXCEPT ![s] = @ + 1]
    <3>1. \A t \in Signals : Entry(t) \in Orders /\ (Entry(t) = o <=> t = s)
      BY <2>1 DEF Entry, Orders, Kinds
    <3>2. \A t \in Signals : exFilled'[Entry(t)] =
            IF t = s THEN exFilled[Entry(t)] + 1 ELSE exFilled[Entry(t)]
      BY <1>1, <1>3, <3>1 DEF ExchangeFill, TypeOK
    <3> QED BY <3>2 DEF Position
  <2>4. Covered' = Covered
    BY <1>2 DEF Covered, Orders, Kinds
  <2>5. Contract!Fill(s)
    BY <1>1, <2>2, <2>3, <2>4 DEF Contract!Fill, Position, Covered
  <2> QED BY <2>5 DEF Contract!ContractNext
<1>4. CASE ~ (o[2] = "entry" /\ ExchangeFill(o))
  <2>1. \A s \in Signals : exFilled'[Entry(s)] = exFilled[Entry(s)]
    <3>1. \A s \in Signals : Entry(s) \in Orders /\ (Entry(s) = o => o[2] = "entry")
      BY DEF Entry, Orders, Kinds
    <3> QED BY <1>1, <1>4, <3>1 DEF ExchangeFill, ExchangeEnd, TypeOK
  <2> QED BY <1>1, <1>2, <2>1, ContractStutter
<1> QED BY <1>3, <1>4

\* The execution layer, with its tables, retries, reconcile passes, database
\* errors and crashes, implements the contract: what it does to a trade, to
\* its position and to its stop is only what TradeContract allows.
THEOREM ImplementsContract == Spec => RefinesContract
<1>1. Init => Contract!ContractInit
  BY DEF Init, Contract!ContractInit, Orders, Kinds, StopKinds, Entry
<1>2. IInv /\ [Next]_vars => [Contract!ContractNext]_(Contract!contractVars)
  <2> SUFFICES ASSUME IInv, [Next]_vars
               PROVE  Contract!ContractNext \/ UNCHANGED Contract!contractVars
    OBVIOUS
  <2>1. CASE \/ \E p \in Passes : ReconcileStep(p) \/ PassFails(p) \/ PatchFault(p)
             \/ Crash
             \/ UNCHANGED vars
    <3>1. UNCHANGED <<trade, exState, exFilled>>
      BY <2>1 DEF ReconcileStep, FetchExchange, PassFails, DiffOrders, PatchOrphan, PatchFault,
           FinishPass, Crash, vars, dbVars, exVars
    <3> QED BY <3>1, ContractStutter
  <2> QED BY <2>1, ContractExecutor, ContractExchange DEF Next
<1> QED BY <1>1, <1>2, Inductive, PTL DEF Spec, RefinesContract, Contract!ContractSpec

-----------------------------------------------------------------------------
(***************************************************************************)
(* The composition with a panic: PanicInv is the two invariants with what  *)
(* the seatbelt keeps from the exchange and what the report may hold.      *)
(***************************************************************************)

\* The seatbelt withholds every order of the process it is on for: what rests
\* at the exchange behind it was sent before a restart.
NothingSent == gate = "blocked" /\ crashes = 0 => \A o \in Orders : exState[o] = "none"

\* Only the seatbelt's confirmations are on the report.
Confirmed == cancelled # {} \/ closed # {} => gate = "blocked"

PanicInv ==
  /\ IInv /\ CountInv
  /\ NothingSent
  /\ PanicTypeOK /\ Confirmed
  /\ panics > 0 /\ panicStep = "calm" /\ crashes = 0 /\ "state" \notin failed
       => ~enabled

-----------------------------------------------------------------------------
(* Steps of the execution layer *)

\* But for a crash the gate is fixed, and behind the seatbelt nothing is sent.
LEMMA GateFixed ==
  ASSUME Next, ~Crash
  PROVE  gate' = gate /\ crashes' = crashes
<1> QED
  BY Zenon DEF Next, ExecutorStep, ReconcileStep, Approve, Skip, AddTrade, AddOrGet,
     SubmitGated, Submit, Record, BeginWait, Poll, PollWrite, Refresh, PollTimeout, BeginStop,
     StopFailed, Link, OpenTrade, NotifyOpen, Fail, FailAlert, StorageFault, FetchExchange,
     PassFails, DiffOrders, PatchOrphan, FinishPass, PatchFault, ExchangeFill, ExchangeEnd,
     boundVars

LEMMA NothingSentStep ==
  ASSUME IInv, NothingSent, Next
  PROVE  NothingSent'
<1>1. CASE Crash
  <2>1. crashes' # 0
    BY <1>1, ExecutionAssumption DEF Crash, IInv, TypeOK
  <2> QED BY <2>1 DEF NothingSent
<1>2. CASE ~Crash
  <2>1. gate' = gate /\ crashes' = crashes
    BY <1>2, GateFixed
  <2>2. ASSUME gate = "blocked", crashes = 0 PROVE UNCHANGED exState
    <3>1. ASSUME NEW s \in Signals, Approve(s) \/ ExecutorStep(s) \/ StorageFault(s)
          PROVE  UNCHANGED exState
      <4>1. ~Submit(s)
        BY <2>2 DEF Submit
      <4> QED BY <3>1, <4>1, Zenon DEF ExecutorStep, Approve, Skip, AddTrade, AddOrGet,
         SubmitGated, Record, BeginWait, Poll, PollWrite, Refresh, PollTimeout, BeginStop,
         StopFailed, Link, OpenTrade, NotifyOpen, Fail, FailAlert, StorageFault, exVars
    <3>2. ASSUME NEW p \in Passes, ReconcileStep(p) \/ PassFails(p) \/ PatchFault(p)
          PROVE  UNCHANGED exState
      BY <3>2, Zenon DEF ReconcileStep, FetchExchange, PassFails, DiffOrders, PatchOrphan,
         FinishPass, PatchFault, exVars
    <3>3. ASSUME NEW o \in Orders PROVE ~ExchangeFill(o) /\ ~ExchangeEnd(o)
      BY <2>2 DEF NothingSent, ExchangeFill, ExchangeEnd
    <3> QED BY <1>2, <3>1, <3>2, <3>3 DEF Next
  <2> QED BY <2>1, <2>2 DEF NothingSent
<1> QED BY <1>1, <1>2

\* A step of the layer, next to the panic or under it, preserves the invariant.
LEMMA ExecutionPanic ==
  ASSUME PanicInv, ExecutionStep \/ CrashInPanic
  PROVE  PanicInv'
<1>1. Next
  BY DEF ExecutionStep, CrashInPanic, Next
<1>2. IInv' /\ CountInv' /\ NothingSent'
  BY <1>1, NextInv, CountNext, NothingSentStep DEF PanicInv
<1>3. CASE ExecutionStep
  <2>1. UNCHANGED panicVars
    BY <1>3 DEF ExecutionStep
  <2>2. UNCHANGED <<gate, crashes>>
    BY <1>3, Zenon DEF ExecutionStep, ExecutorStep, ReconcileStep, Approve, Skip, AddTrade,
       AddOrGet, SubmitGated, Submit, Record, BeginWait, Poll, PollWrite, Refresh, PollTimeout,
       BeginStop, StopFailed, Link, OpenTrade, NotifyOpen, Fail, FailAlert, StorageFault,
       FetchExchange, PassFails, DiffOrders, PatchOrphan, FinishPass, PatchFault, ExchangeFill,
       ExchangeEnd, boundVars
  <2> QED BY <1>2, <2>1, <2>2 DEF PanicInv, PanicTypeOK, Confirmed, panicVars
<1>4. CASE CrashInPanic
  <2>1. crashes' # 0
    BY <1>4, ExecutionAssumption DEF CrashInPanic, Crash, PanicInv, IInv, TypeOK
  <2>2. PanicTypeOK' /\ Confirmed'
    BY <1>2, <1>4 DEF CrashInPanic, PanicInv, PanicTypeOK, Confirmed
  <2> QED BY <1>2, <2>1, <2>2 DEF PanicInv
<1> QED BY <1>3, <1>4

-----------------------------------------------------------------------------
(* Steps of the panic *)

\* What a step of the panic does to the layer: nothing, but for a fault.
LayerStands ==
  /\ UNCHANGED <<gate, execVars, dbVars, exVars, noticeVars, recVars, crashes>>
  /\ \/ UNCHANGED faults
     \/ faults < MaxFaults /\ faults' = faults + 1

LEMMA LayerKept ==
  ASSUME IInv, CountInv, NothingSent, LayerStands
  PROVE  IInv' /\ CountInv' /\ NothingSent'
<1>1. /\ UNCHANGED <<gate, pc, call, attempt, polls, reply, observed, filledAmt, trade, ord,
                     linked, exState, exSize, exFilled, sends, alerted, incident, opened, rpc,
                     rFeed, rOrphanDb, rOrphanEx, crashes>>
      /\ faults' \in {faults, faults + 1} /\ faults' \in 0 .. MaxFaults
  BY ExecutionAssumption DEF LayerStands, execVars, dbVars, exVars, noticeVars, recVars, IInv,
     TypeOK
<1>2. TypeOK'
  BY <1>1 DEF IInv, TypeOK
<1>3. \A s \in Signals : SameTask(s) /\ SameReport(s)
  BY <1>1 DEF SameTask, SameReport
<1>4. ASSUME NEW o \in Orders PROVE Forward(o) /\ Alike(o)
  BY <1>1 DEF Forward, Alike, Recording, Current
<1>5. IInv'
  BY <1>1, <1>2, <1>3, NoTask
<1>6. CountInv'
  BY <1>1, <1>3, <1>4, NoReport, FaultCount
<1>7. NothingSent'
  BY <1>1 DEF NothingSent
<1> QED BY <1>5, <1>6, <1>7

\* Every step of the panic preserves the invariant.
LEMMA PanicKeeps ==
  ASSUME PanicInv, PanicStep
  PROVE  PanicInv'
<1>1. LayerStands
  BY DEF PanicStep, ListOrders, CancelListed, ListTrades, CloseListed, FlipKillSwitch,
     LayerStands, vars, boundVars
<1>2. IInv' /\ CountInv' /\ NothingSent' /\ gate' = gate /\ UNCHANGED crashes
  BY <1>1, LayerKept DEF PanicInv, LayerStands
<1> USE DEF PanicInv, PanicTypeOK, Confirmed
<1>3. CASE ListOrders
  BY <1>2, <1>3, PanicAssumption DEF ListOrders
<1>4. CASE CancelListed
  BY <1>2, <1>4 DEF CancelListed, AdapterConfirms
<1>5. CASE ListTrades
  BY <1>2, <1>5 DEF ListTrades
<1>6. CASE CloseListed
  BY <1>2, <1>6 DEF CloseListed, AdapterConfirms
<1>7. CASE FlipKillSwitch
  BY <1>2, <1>7 DEF FlipKillSwitch
<1> QED BY <1>3, <1>4, <1>5, <1>6, <1>7 DEF PanicStep

-----------------------------------------------------------------------------
(* The theorems *)

LEMMA PanicInvInit == PanicInit => PanicInv
<1> SUFFICES ASSUME PanicInit PROVE PanicInv
  OBVIOUS
<1>1. IInv /\ CountInv
  BY InitInv, CountInit DEF PanicInit
<1>2. NothingSent
  BY DEF PanicInit, Init, NothingSent
<1> QED BY <1>1, <1>2, PanicAssumption DEF PanicInit, PanicInv, PanicTypeOK, Confirmed

\* With panics at any time, the execution layer keeps its invariants.
THEOREM PanicInductive == PanicSpec => []PanicInv
<1>1. PanicInv /\ [PanicNext]_allVars => PanicInv'
  <2> SUFFICES ASSUME PanicInv, [PanicNext]_allVars PROVE PanicInv'
    OBVIOUS
  <2>1. CASE PanicStep
    BY <2>1, PanicKeeps
  <2>2. CASE ExecutionStep \/ CrashInPanic
    BY <2>2, ExecutionPanic
  <2>3. CASE UNCHANGED allVars
    <3>1. LayerStands
      BY <2>3 DEF allVars, vars, boundVars, LayerStands
    <3>2. IInv' /\ CountInv' /\ NothingSent' /\ gate' = gate /\ UNCHANGED crashes
      BY <3>1, LayerKept DEF PanicInv, LayerStands
    <3>3. UNCHANGED panicVars
      BY <2>3 DEF allVars
    <3> QED BY <3>2, <3>3 DEF PanicInv, PanicTypeOK, Confirmed, panicVars
  <2> QED BY <2>1, <2>2, <2>3 DEF PanicNext
<1> QED BY <1>1, PanicInvInit, PTL DEF PanicSpec

\* Only a restart with the seatbelt on makes what a panic reports false, and
\* trading is off after it.
THEOREM PanicsAreHonest == PanicSpec => []PanicIsHonest
<1>1. PanicInv => PanicIsHonest
  <2> SUFFICES ASSUME PanicInv PROVE PanicIsHonest
    OBVIOUS
  <2> USE DEF PanicInv
  <2>1. crashes \in Nat
    BY ExecutionAssumption DEF IInv, TypeOK
  <2>2. ASSUME NEW o \in cancelled, exState[o] = "open" PROVE crashes > 0
    BY <2>1, <2>2 DEF PanicTypeOK, Confirmed, NothingSent
  <2>3. ASSUME NEW s \in closed, exFilled[Entry(s)] > 0 PROVE crashes > 0
    <3>1. gate = "blocked" /\ Entry(s) \in Orders
      BY DEF PanicTypeOK, Confirmed, Entry, Orders, Kinds
    <3>2. exState[Entry(s)] # "none"
      BY <2>3, <3>1 DEF IInv, OrderSound
    <3> QED BY <2>1, <3>1, <3>2 DEF NothingSent
  <2> QED BY <2>2, <2>3 DEF PanicIsHonest, Confirmed
<1> QED BY <1>1, PanicInductive, PTL

=============================================================================
