--------------------------- MODULE OperatingModes ---------------------------
(***************************************************************************)
(* What an operator can make of the bot: the mode ladder                   *)
(* (trading/mode_service.py, mode_guards.py, mode_transitions_repo.py),    *)
(* the two-step /go_live (operations/go_live.py, preflight.py), /wind_down *)
(* (operations/wind_down.py), /panic (trading/panic.py), /stop and /freeze *)
(* (telegram/handlers/emergency.py) and the kill window of the daily       *)
(* drawdown gate, all writers of the one row of trading_state.             *)
(*                                                                         *)
(* The bot handles one update after another, and the gate runs inside an   *)
(* update: two of these operations never interleave.  Each is a series of  *)
(* transactions; between two of them time passes, and an error or a crash  *)
(* ends the operation and leaves what was committed.  A refused command    *)
(* changes nothing and is no step.                                         *)
(*                                                                         *)
(* Cancelling orders and closing positions, the first half of a panic,     *)
(* changes nothing modelled here.                                          *)
(***************************************************************************)
EXTENDS Naturals, Sequences, FiniteSets

CONSTANTS
  Actors,       \* operators on the whitelist
  NoActor,      \* nobody
  Day,          \* a day, in ticks of the clock
  MinStay,      \* MIN_DAYS_PER_TRANSITION by the mode that is left, in ticks
  MinTrades,    \* closed trades that leaving paper upwards takes
  MinStreak,    \* MIN_DAYS_CLEAN_STREAK_FOR_LIVE, in ticks
  ForceWindow,  \* FORCE_RATE_LIMIT_WINDOW, in ticks
  ConfirmDelay, \* settings.go_live_min_confirm_delay_seconds, in ticks
  CodeTtl,      \* settings.go_live_code_ttl_seconds, in ticks
  MaxAttempts,  \* settings.go_live_max_attempts
  PanicDays,    \* PANIC_KILL_WINDOW_DAYS
  Incidents,    \* when severe incidents may happen
  Horizon,      \* bound: last tick of the clock
  MaxRows,      \* bound: rows of mode_transitions
  MaxPendings,  \* bound: rows of go_live_pendings
  MaxTrades,    \* bound: closed trades
  MaxStops,     \* bound: wind-downs, panics and breaches
  MaxAborts     \* bound: operations cut short

Modes   == {"off", "shadow", "paper", "semi_auto", "live"}
Rank    == [off |-> 0, shadow |-> 1, paper |-> 2, semi_auto |-> 3, live |-> 4]
Climbed == {"shadow", "paper", "semi_auto"}

ASSUME ModesAssumption ==
  /\ NoActor \notin Actors
  /\ Day \in Nat \ {0} /\ PanicDays \in Nat \ {0}
  /\ MinStay \in [Climbed -> Nat] /\ MinTrades \in Nat /\ MinStreak \in Nat
  /\ ForceWindow \in Nat
  /\ ConfirmDelay \in Nat /\ CodeTtl \in Nat /\ MaxAttempts \in Nat \ {0}
  /\ Horizon \in Nat /\ MaxRows \in Nat /\ MaxPendings \in Nat
  /\ Incidents \subseteq Nat
  /\ MaxTrades \in Nat /\ MaxStops \in Nat /\ MaxAborts \in Nat

\* The operation under way: what it does next, for which command and operator.
Steps    == {"idle", "audit", "enable", "confirm", "email", "disable", "complete"}
Commands == {"none", "mode", "force", "live", "flat", "open"}
Jobs     == [step : Steps, kind : Commands, by : Actors \union {NoActor},
             to : Modes, at : Nat, pend : Nat]
Idle     == [step |-> "idle", kind |-> "none", by |-> NoActor,
             to |-> "off", at |-> 0, pend |-> 0]

\* A row of mode_transitions: by names the actor when override_used is set.
Rows == [to : Modes, at : Nat, by : Actors \union {NoActor}]

\* A row of go_live_pendings; its code is known by the row's number.
PendingStatuses == {"pending", "confirmed", "expired", "rejected"}
Pendings == [by : Actors, at : Nat, attempts : Nat, status : PendingStatuses]

VARIABLES
  now,          \* the clock
  enabled,      \* trading_state.enabled
  mode,         \* trading_state.mode
  killedUntil,  \* trading_state.killed_until
  log,          \* mode_transitions
  pendings,     \* go_live_pendings
  windDown,     \* latest row of wind_down_state: none, active or done
  closes,       \* closed_at of the closed trades
  resetAt,      \* what the clean streak counts from; 0 before any incident
  job,          \* the operation under way
  since,        \* history: when the mode was last changed
  lastForce,    \* history: when the operator last forced a mode; 0 never
  inPaper,      \* history: trades closed while the mode was paper
  promised,     \* history: the end of what a panic promises
  lost,         \* history: a mode was changed and its row was not written
  excused,      \* history: why entries may be enabled in a wind-down
  stops,        \* wind-downs, panics and breaches so far
  aborts        \* operations cut short so far

stateVars == <<enabled, mode, killedUntil>>
tableVars == <<log, pendings, windDown>>
worldVars == <<closes, resetAt>>
pastVars  == <<since, lastForce, inPaper, promised, lost, excused>>
counts   == <<stops, aborts>>
vars == <<now, stateVars, tableVars, worldVars, job, pastVars, counts>>

TypeOK ==
  /\ now \in Nat
  /\ enabled \in BOOLEAN /\ mode \in Modes /\ killedUntil \in Nat
  /\ log \in Seq(Rows)
  /\ pendings \in Seq(Pendings)
  /\ windDown \in {"none", "active", "done"}
  /\ closes \in Seq(Nat) /\ resetAt \in Nat
  /\ job \in Jobs
  /\ since \in Nat /\ lastForce \in [Actors -> Nat] /\ inPaper \in Nat
  /\ promised \in Nat /\ lost \in BOOLEAN /\ excused \in BOOLEAN
  /\ stops \in 0 .. MaxStops /\ aborts \in 0 .. MaxAborts

\* The seed migrations: trading is off and disabled.  Ticks count from 1.
Init ==
  /\ now = 1
  /\ enabled = FALSE /\ mode = "off" /\ killedUntil = 0
  /\ log = <<>> /\ pendings = <<>> /\ windDown = "none"
  /\ closes = <<>> /\ resetAt = 0
  /\ job = Idle
  /\ since = 0 /\ lastForce = [a \in Actors |-> 0] /\ inPaper = 0
  /\ promised = 0 /\ lost = FALSE /\ excused = FALSE
  /\ stops = 0 /\ aborts = 0

-----------------------------------------------------------------------------
(* What the guards read *)

\* Mutant of StayedFor: counts from the first entry into the mode.
StayedSinceFirst(m, d) ==
  \E i \in DOMAIN log : log[i].to = m /\ log[i].at + d <= now

\* days_in_current_mode(m) reaches d: counted from the latest row into m.
StayedFor(m, d) ==
  \E i \in DOMAIN log :
    /\ log[i].to = m /\ \A j \in DOMAIN log : j > i => log[j].to # m
    /\ log[i].at + d <= now

\* Mutant of ClosedIn: counts every trade closed since the first entry.
ClosedSinceFirst(m) ==
  {k \in DOMAIN closes : \E i \in DOMAIN log : log[i].to = m /\ log[i].at <= closes[k]}

\* closed_trades_in_mode: closed in a window from a row into m to the next row.
\* (Of two rows into m in a row, the later one starts the window.)
ClosedIn(m) ==
  {k \in DOMAIN closes : \E i \in DOMAIN log :
     /\ log[i].to = m /\ log[i].at <= closes[k]
     /\ IF i < Len(log) THEN log[i + 1].to # m /\ closes[k] < log[i + 1].at
                        ELSE closes[k] < now}

\* compute_days_clean_streak reaches MinStreak.
CleanStreak == resetAt = 0 \/ resetAt + MinStreak <= now

\* check_transition_allowed, from the current mode to another one.
MayTransition(to, reason) ==
  \/ to = "off"
  \/ Rank[to] < Rank[mode] /\ reason
  \/ mode = "off" /\ to = "shadow"
  \/ /\ mode \in Climbed /\ Rank[to] = Rank[mode] + 1
     /\ StayedFor(mode, MinStay[mode])
     /\ mode = "paper" => Cardinality(ClosedIn("paper")) >= MinTrades
     /\ to = "live" => CleanStreak

\* list_forces_in_window: overrides of the actor, go-lives included.
ForcesInWindow(a) == {i \in DOMAIN log : log[i].by = a /\ log[i].at + ForceWindow >= now}

\* run_preflight: the checks that depend on the modelled state; the rest
\* (scheduler, reconciler, keys, heartbeat, gates) pass.
Preflight ==
  /\ CleanStreak
  /\ StayedFor("paper", MinStay["paper"])
  /\ Cardinality(ClosedIn("paper")) >= MinTrades

\* The row /go_live_confirm works on: the actor's latest one that is pending.
LatestPending(a) ==
  {p \in DOMAIN pendings :
     /\ pendings[p].by = a /\ pendings[p].status = "pending"
     /\ \A q \in DOMAIN pendings :
          q > p => ~(pendings[q].by = a /\ pendings[q].status = "pending")}

\* KillSwitchGate.check.
KillSwitchOpen == enabled /\ now >= killedUntil

NextMidnight == (now \div Day + 1) * Day

-----------------------------------------------------------------------------
(* Changes of mode *)

\* The times of rows and trades are read from a clock so fine that a trade
\* never closes at the very time of a change of mode.
NoCloseNow == \A k \in DOMAIN closes : closes[k] # now
NoMoveNow  == since # now

\* ModeService.transition_to: the guards have passed, trading_state.mode is
\* written.  The audit row is a transaction of its own.
Move(a, to, kind, p) ==
  /\ to # mode
  /\ NoCloseNow /\ Len(log) < MaxRows
  /\ mode' = to
  /\ job' = [step |-> "audit", kind |-> kind, by |-> a, to |-> to, at |-> now, pend |-> p]
  /\ since' = now
  /\ UNCHANGED <<now, enabled, killedUntil, tableVars, worldVars, inPaper, promised,
                 lost, excused, counts>>

\* /mode
SetMode(to, reason) ==
  /\ job = Idle
  /\ MayTransition(to, reason)
  /\ Move(NoActor, to, "mode", 0)
  /\ UNCHANGED lastForce

\* /mode_force: the ladder is bypassed, not the weekly limit.
ForceMode(a, to) ==
  /\ job = Idle
  /\ ForcesInWindow(a) = {}
  /\ Move(a, to, "force", 0)
  /\ lastForce' = [lastForce EXCEPT ![a] = now]

\* Mutant of AddRow: the row does not say that the guards were overridden.
AddRowPlain ==
  /\ job.step = "audit"
  /\ log' = Append(log, [to |-> job.to, at |-> job.at, by |-> NoActor])
  /\ job' = IF job.kind = "live" THEN [job EXCEPT !.step = "enable"] ELSE Idle
  /\ UNCHANGED <<now, stateVars, pendings, windDown, worldVars, pastVars, counts>>

\* ModeTransitionRepository.add; a go-live goes on to enable trading.
AddRow ==
  /\ job.step = "audit"
  /\ log' = Append(log, [to |-> job.to, at |-> job.at, by |-> job.by])
  /\ job' = IF job.kind = "live" THEN [job EXCEPT !.step = "enable"] ELSE Idle
  /\ UNCHANGED <<now, stateVars, pendings, windDown, worldVars, pastVars, counts>>

-----------------------------------------------------------------------------
(* /go_live and /go_live_confirm *)

Initiate(a) ==
  /\ job = Idle
  /\ Preflight
  /\ Len(pendings) < MaxPendings
  /\ pendings' = Append(pendings,
                   [by |-> a, at |-> now, attempts |-> 0, status |-> "pending"])
  /\ job' = [Idle EXCEPT !.step = "email", !.pend = Len(pendings) + 1]
  /\ UNCHANGED <<now, stateVars, log, windDown, worldVars, pastVars, counts>>

Mark(p, to) == pendings' = [pendings EXCEPT ![p].status = to]

\* The code goes out, or the row is rejected.
Email(sent) ==
  /\ job.step = "email"
  /\ IF sent THEN UNCHANGED pendings ELSE Mark(job.pend, "rejected")
  /\ job' = Idle
  /\ UNCHANGED <<now, stateVars, log, windDown, worldVars, pastVars, counts>>

\* Mutant of Due: a code may be confirmed at any age.
DueAnyAge(p) == pendings[p].at + ConfirmDelay <= now

\* The row is old enough, and has not expired.
Due(p) ==
  /\ pendings[p].at + ConfirmDelay <= now
  /\ now < pendings[p].at + CodeTtl

\* Too late, too often, or the wrong code.
Refuse(a) ==
  /\ job = Idle
  /\ \E p \in LatestPending(a) :
       /\ pendings[p].at + ConfirmDelay <= now
       /\ \/ ~Due(p) /\ Mark(p, "expired")
          \/ Due(p) /\ pendings[p].attempts >= MaxAttempts /\ Mark(p, "rejected")
          \/ /\ Due(p) /\ pendings[p].attempts < MaxAttempts
             /\ pendings' = [pendings EXCEPT ![p].attempts = @ + 1]
  /\ UNCHANGED <<now, stateVars, log, windDown, worldVars, job, pastVars, counts>>

\* The right code.  When the mode is live already, transition_to refuses a
\* no_op_transition and nothing changes.
Verify(a) ==
  /\ job = Idle
  /\ \E p \in LatestPending(a) :
       /\ Due(p) /\ pendings[p].attempts < MaxAttempts
       /\ Move(a, "live", "live", p)
  /\ UNCHANGED lastForce

Enable ==
  /\ job.step = "enable"
  /\ enabled' = TRUE /\ excused' = TRUE
  /\ job' = [job EXCEPT !.step = "confirm"]
  /\ UNCHANGED <<now, mode, killedUntil, tableVars, worldVars, since, lastForce,
                 inPaper, promised, lost, counts>>

MarkConfirmed ==
  /\ job.step = "confirm"
  /\ Mark(job.pend, "confirmed")
  /\ job' = Idle
  /\ UNCHANGED <<now, stateVars, log, windDown, worldVars, pastVars, counts>>

-----------------------------------------------------------------------------
(* Stopping *)

\* /stop and /freeze.
Stop ==
  /\ job = Idle
  /\ enabled' = FALSE
  /\ UNCHANGED <<now, mode, killedUntil, tableVars, worldVars, job, pastVars, counts>>

\* WindDownService.start: its row first; how many positions are open decides
\* whether it completes at once.
StartWindDown(flat) ==
  /\ job = Idle
  /\ stops < MaxStops /\ stops' = stops + 1
  /\ windDown # "active"
  /\ windDown' = "active" /\ excused' = FALSE
  /\ job' = [Idle EXCEPT !.step = "disable", !.kind = IF flat THEN "flat" ELSE "open"]
  /\ UNCHANGED <<now, stateVars, log, pendings, worldVars, since, lastForce,
                 inPaper, promised, lost, aborts>>

Disable ==
  /\ job.step = "disable"
  /\ enabled' = FALSE
  /\ job' = IF job.kind = "flat" THEN [job EXCEPT !.step = "complete"] ELSE Idle
  /\ UNCHANGED <<now, mode, killedUntil, tableVars, worldVars, pastVars, counts>>

Complete ==
  /\ job.step = "complete"
  /\ windDown' = "done"
  /\ job' = Idle
  /\ UNCHANGED <<now, stateVars, log, pendings, worldVars, pastVars, counts>>

\* execute_panic, its last step: the only one that writes trading_state.
Panic ==
  /\ job = Idle
  /\ stops < MaxStops /\ stops' = stops + 1
  /\ enabled' = FALSE
  /\ killedUntil' = NextMidnight + (PanicDays - 1) * Day
  /\ promised' = now + (PanicDays - 1) * Day
  /\ UNCHANGED <<now, mode, tableVars, worldVars, job, since, lastForce, inPaper,
                 lost, excused, aborts>>

\* Mutant of Breach: the gate runs whether or not a window is active.
BreachAnyTime ==
  /\ job = Idle
  /\ stops < MaxStops /\ stops' = stops + 1
  /\ killedUntil' = NextMidnight
  /\ UNCHANGED <<now, enabled, mode, tableVars, worldVars, job, pastVars, aborts>>

\* DailyDrawdownGate.check, when today's losses exceed the limit; the kill
\* switch's gate has passed before it, and a window is not written twice.
Breach ==
  /\ job = Idle
  /\ stops < MaxStops /\ stops' = stops + 1
  /\ KillSwitchOpen
  /\ killedUntil' = NextMidnight
  /\ UNCHANGED <<now, enabled, mode, tableVars, worldVars, job, pastVars, aborts>>

-----------------------------------------------------------------------------
(* The world *)

Tick ==
  /\ now < Horizon
  /\ now' = now + 1
  /\ UNCHANGED <<stateVars, tableVars, worldVars, job, pastVars, counts>>

\* A trade is marked closed.
CloseTrade ==
  /\ NoMoveNow /\ Len(closes) < MaxTrades
  /\ closes' = Append(closes, now)
  /\ inPaper' = IF mode = "paper" THEN inPaper + 1 ELSE inPaper
  /\ UNCHANGED <<now, stateVars, tableVars, resetAt, job, since, lastForce, promised,
                 lost, excused, counts>>

\* A severe incident: the streak counts from its occurrence.
Incident ==
  /\ now \in Incidents
  /\ resetAt' = now
  /\ UNCHANGED <<now, stateVars, tableVars, closes, job, pastVars, counts>>

\* A transaction fails, or the process stops: the operation ends where it is.
Abort ==
  /\ job # Idle /\ aborts < MaxAborts
  /\ aborts' = aborts + 1 /\ UNCHANGED stops
  /\ job' = Idle
  /\ lost' = (lost \/ job.step = "audit")
  /\ excused' = (excused \/ job.step = "disable")
  /\ UNCHANGED <<now, stateVars, tableVars, worldVars, since, lastForce, inPaper, promised>>

Ladder == \E to \in Modes :
  \/ \E reason \in BOOLEAN : SetMode(to, reason)
  \/ \E a \in Actors : ForceMode(a, to)

GoLive == \E a \in Actors : Initiate(a) \/ Refuse(a) \/ Verify(a)

Next ==
  \/ Ladder \/ AddRow
  \/ GoLive \/ (\E sent \in BOOLEAN : Email(sent)) \/ Enable \/ MarkConfirmed
  \/ Stop \/ (\E flat \in BOOLEAN : StartWindDown(flat)) \/ Disable \/ Complete
  \/ Panic \/ Breach
  \/ Tick \/ CloseTrade \/ Incident \/ Abort

Spec == Init /\ [][Next]_vars

-----------------------------------------------------------------------------
(* Properties *)

\* A mode is raised without force one rung at a time, after the stay its guard
\* asks for, counted over the mode's latest stay only, unless an audit row was
\* lost (mode_guards.py).
LadderRespected ==
  [][/\ mode' # mode /\ Rank[mode'] > Rank[mode] /\ job'.kind = "mode"
     => /\ Rank[mode'] = Rank[mode] + 1
        /\ mode \in Climbed /\ ~lost => since + MinStay[mode] <= now]_vars

\* Paper is left upwards without force only after enough trades have closed
\* while the mode was paper, over all its stays (closed_trades_in_mode).
PaperIsEarned ==
  [][mode = "paper" /\ mode' = "semi_auto" /\ job'.kind = "mode" /\ ~lost
     => inPaper >= MinTrades]_vars

\* An operator forces a mode at most once a week, whatever was done in between,
\* unless an audit row was lost (force_transition_to).
ForcesAreRare ==
  [][\A a \in Actors :
       lastForce'[a] # lastForce[a] /\ lastForce[a] # 0 /\ ~lost
         => lastForce[a] + ForceWindow < now]_vars

\* Trading is only ever enabled by the second step of a go-live, in live mode,
\* with a code confirmed in its time and with attempts left (GoLiveFlow.confirm).
EnabledByCode ==
  [][~enabled /\ enabled' =>
       /\ mode = "live" /\ job.kind = "live" /\ job.pend \in DOMAIN pendings
       /\ LET p == pendings[job.pend] IN
            /\ p.by = job.by /\ p.status = "pending" /\ p.attempts < MaxAttempts
            /\ p.at + ConfirmDelay <= job.at /\ job.at < p.at + CodeTtl]_vars

\* After a panic no signal passes the kill switch for PanicDays - 1 days: not
\* after a go-live, not after a later drawdown (panic.py, kill_switch.py).
PanicHolds == now < promised => ~KillSwitchOpen

\* While a wind-down is in progress entries are disabled, unless the wind-down
\* was cut short or a go-live came after it (WindDownService.start).
WindDownHolds ==
  windDown = "active" /\ job.step # "disable" /\ enabled => excused

=============================================================================
