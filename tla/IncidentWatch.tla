---------------------------- MODULE IncidentWatch ----------------------------
(***************************************************************************)
(* How the bot watches itself (observability/): reconcile passes and the   *)
(* supervisor of the job's failures, the scheduler-health marks and the    *)
(* /heartbeat endpoint, the circuit-breaker registry, the incidents table  *)
(* with its Prometheus counter, the clean streak computed from the table,  *)
(* preflight's reading of the last pass, and the operator's /incident and  *)
(* /reconcile.                                                             *)
(*                                                                         *)
(* The table and the reconcile runs are in the database; marks, streaks,   *)
(* breakers and counters are in memory and a restart forgets them.  Time   *)
(* is counted in periods of the reconcile job.                             *)
(***************************************************************************)
EXTENDS Integers, Sequences, FiniteSets

CONSTANTS
  Breakers,       \* names of circuit breakers
  Threshold,      \* PROLONGED_FAILURE_THRESHOLD
  OpenThreshold,  \* PROLONGED_OPEN_THRESHOLD
  HeartbeatAge,   \* heartbeat_reconcile_max_age_sec
  Day,            \* 24 hours
  Stale,          \* RECONCILE_MAX_STALE_HOURS
  Horizon,        \* bound: the last period
  MaxRows,        \* bound: incidents
  MaxFaults,      \* bound: failed inserts of an incident
  MaxCrashes      \* bound: restarts

ASSUME WatchAssumption ==
  /\ Threshold \in Nat \ {0} /\ OpenThreshold \in Nat \ {0}
  /\ HeartbeatAge \in Nat /\ Day \in Nat \ {0} /\ Stale \in Nat
  /\ Horizon \in Nat /\ MaxRows \in Nat /\ MaxFaults \in Nat /\ MaxCrashes \in Nat

Never   == -1                        \* a timestamp that is None
Times   == 0 .. Horizon
Stamps  == Times \union {Never}

\* CriticalIncidentType, those that this module tells apart: a severe type,
\* the two prolonged outages, and the operator's.
SevereTypes   == {"orphan_unresolved"}
IncidentTypes == SevereTypes \union {"reconcile_failed", "breaker_open", "manual"}

\* A row of critical_incidents.  Its context keeps the breaker it is "of", if
\* any, and the start of the outage it is "about".
Rows == [type : IncidentTypes, at : Times, of : SUBSET Breakers, about : Stamps,
         resolved : Stamps]

VARIABLES
  now,        \* the period
  pass,       \* step of the reconcile job's pass; "passed" is a run that an
              \*   operator's pass has started after
  success,    \* the pass has not ended in an error so far
  ticked,     \* SchedulerHealth.last_tick_at
  reconciled, \* SchedulerHealth.last_reconcile_at
  lastRun,    \* the row of reconcile_runs that started last
  since,      \* ReconcileFailureSupervisor.streak_started_at
  emitted,    \* ReconcileFailureSupervisor.emitted_for_streak
  opened,     \* opened_at of each breaker
  told,       \* last_emitted_for of each breaker
  check,      \* a check_prolonged in progress: its breakers still to visit,
              \*   its time, and the breaker it is emitting for
  incidents,  \* critical_incidents, in the order of their ids
  counter,    \* mib_critical_incident_total
  booted,     \* incidents there were when the process started
  faults, crashes

jobVars     == <<pass, success, ticked, reconciled, lastRun>>
supVars     == <<since, emitted>>
breakerVars == <<opened, told, check>>
rowVars     == <<incidents, counter>>
boundVars   == <<faults, crashes>>
vars == <<now, jobVars, supVars, breakerVars, rowVars, booted, boundVars>>

PassSteps == {"idle", "run", "passed", "feed", "emit"}
Runs == [clean : BOOLEAN, at : Stamps, by : {"nobody", "scheduler", "operator"}]
NoRun == [clean |-> FALSE, at |-> Never, by |-> "nobody"]
NoCheck   == [todo |-> {}, at |-> Never, emitting |-> {}, about |-> Never]

TypeOK ==
  /\ now \in Times
  /\ pass \in PassSteps
  /\ success \in BOOLEAN
  /\ ticked \in Stamps /\ reconciled \in Stamps
  /\ lastRun \in Runs
  /\ since \in Stamps /\ emitted \in BOOLEAN
  /\ opened \in [Breakers -> Stamps] /\ told \in [Breakers -> Stamps]
  /\ check \in [todo : SUBSET Breakers, at : Stamps, emitting : SUBSET Breakers,
                about : Stamps]
  /\ incidents \in Seq(Rows) /\ Len(incidents) <= MaxRows
  /\ counter \in [IncidentTypes -> 0 .. MaxRows]
  /\ booted \in 0 .. MaxRows
  /\ faults \in 0 .. MaxFaults /\ crashes \in 0 .. MaxCrashes

Init ==
  /\ now = 0
  /\ pass = "idle"
  /\ success = TRUE
  /\ ticked = Never /\ reconciled = Never
  /\ lastRun = NoRun
  /\ since = Never /\ emitted = FALSE
  /\ opened = [b \in Breakers |-> Never] /\ told = [b \in Breakers |-> Never]
  /\ check = NoCheck
  /\ incidents = <<>>
  /\ counter = [t \in IncidentTypes |-> 0]
  /\ booted = 0
  /\ faults = 0 /\ crashes = 0

-----------------------------------------------------------------------------
(* IncidentEmitter *)

Row(type, of, about) ==
  [type |-> type, at |-> now, of |-> of, about |-> about, resolved |-> Never]

\* IncidentEmitter.emit: the row, and once it is committed the counter.
Emit(type, of, about) ==
  /\ Len(incidents) < MaxRows
  /\ incidents' = Append(incidents, Row(type, of, about))
  /\ counter' = [counter EXCEPT ![type] = @ + 1]

\* The insert raises: no row, no count.
EmitFails ==
  /\ faults < MaxFaults
  /\ faults' = faults + 1
  /\ UNCHANGED rowVars

-----------------------------------------------------------------------------
(* The reconcile job *)

\* reconcile_job marks its tick before anything else; the scheduler runs one
\* instance of it, once a period.
StartPass ==
  /\ pass = "idle" /\ ticked # now
  /\ ticked' = now
  /\ pass' = "run"
  /\ success' = TRUE
  /\ UNCHANGED <<now, reconciled, lastRun, supVars, breakerVars, rowVars, booted, boundVars>>

\* _persist_run: "ok" and "discrepancies" are clean, "error" is not.
PersistRun(clean, at, by) == lastRun' = [clean |-> clean, at |-> at, by |-> by]

\* reconcile: the snapshot, the two feeds, the differences, the patches, the
\* run's row, the metrics and the alert.  Whatever raises, the row's insert
\* included, makes the pass an error; a patch, an incident or an alert that
\* raises is only logged.  The drift compares the snapshot's equity with
\* itself, and an orphan is an incident only when its payload says that it was
\* not patched, which nothing ever writes: no incident comes out of a pass.
\* An error is stored as a run of its own, unless that insert fails too.
RunPass ==
  /\ pass \in {"run", "passed"}
  /\ pass' = "feed"
  /\ success' \in BOOLEAN
  /\ \/ /\ IF pass = "run" THEN PersistRun(success', ticked, "scheduler")
                           ELSE UNCHANGED lastRun
        /\ UNCHANGED faults
     \/ /\ ~success' /\ faults < MaxFaults
        /\ faults' = faults + 1
        /\ UNCHANGED lastRun
  /\ UNCHANGED <<now, ticked, reconciled, supVars, breakerVars, rowVars, booted, crashes>>

\* /reconcile: the same pass for the operator.  It marks no health and feeds no
\* supervisor; the runs are ordered by their start.
OperatorPass ==
  /\ \E clean \in BOOLEAN : PersistRun(clean, now, "operator")
  /\ pass' = IF pass = "run" THEN "passed" ELSE pass
  /\ UNCHANGED <<now, success, ticked, reconciled, supVars, breakerVars, rowVars,
                 booted, boundVars>>

\* mark_reconcile, only for a pass that did not end in an error.
Mark == reconciled' = IF success THEN now ELSE reconciled

\* Mutant of DueIncident: the streak's flag is not looked at.
DueIncidentRepeats == since # Never /\ now - since >= Threshold

\* record_run: a failed pass of a streak that is old enough and untold.
DueIncident == since # Never /\ ~emitted /\ now - since >= Threshold

\* The end of the pass: the health mark, then record_run.
Feed ==
  /\ pass = "feed"
  /\ Mark
  /\ \/ /\ success
        /\ pass' = "idle"
        /\ since' = Never /\ emitted' = FALSE
     \/ /\ ~success
        /\ pass' = IF DueIncident THEN "emit" ELSE "idle"
        /\ since' = IF since = Never THEN now ELSE since
        /\ UNCHANGED emitted
  /\ success' = TRUE
  /\ UNCHANGED <<now, ticked, lastRun, breakerVars, rowVars, booted, boundVars>>

\* The supervisor's emission: the flag is set only when the row was stored, so
\* that the next failed pass tries again.
EmitFailure ==
  /\ pass = "emit"
  /\ \/ Emit("reconcile_failed", {}, since) /\ emitted' = TRUE /\ UNCHANGED faults
     \/ EmitFails /\ UNCHANGED emitted
  /\ pass' = "idle"
  /\ UNCHANGED <<now, success, ticked, reconciled, lastRun, since, breakerVars, booted,
                 crashes>>

-----------------------------------------------------------------------------
(* Circuit breakers *)

\* CircuitBreakerRegistry.open and close.
OpenBreaker(b) ==
  /\ opened[b] = Never
  /\ opened' = [opened EXCEPT ![b] = now]
  /\ told' = [told EXCEPT ![b] = Never]
  /\ UNCHANGED <<now, jobVars, supVars, check, rowVars, booted, boundVars>>

CloseBreaker(b) ==
  /\ opened[b] # Never
  /\ opened' = [opened EXCEPT ![b] = Never]
  /\ told' = [told EXCEPT ![b] = Never]
  /\ UNCHANGED <<now, jobVars, supVars, check, rowVars, booted, boundVars>>

\* check_prolonged: one reading of the clock for the whole loop.
StartCheck ==
  /\ check = NoCheck
  /\ \E b \in Breakers : opened[b] # Never
  /\ check' = [NoCheck EXCEPT !.todo = Breakers, !.at = now]
  /\ UNCHANGED <<now, jobVars, supVars, opened, told, rowVars, booted, boundVars>>

\* Mutant of Prolonged: an opening that was already told is told again.
ProlongedAgain(b) == opened[b] # Never /\ check.at - opened[b] >= OpenThreshold

Prolonged(b) ==
  /\ opened[b] # Never
  /\ check.at - opened[b] >= OpenThreshold
  /\ told[b] # opened[b]

Checked == IF check.todo = {} THEN NoCheck
                              ELSE [check EXCEPT !.emitting = {}, !.about = Never]

\* One breaker of the loop: passed over, or its emission is awaited.
VisitBreaker(b) ==
  /\ check.emitting = {} /\ b \in check.todo
  /\ \/ /\ ~Prolonged(b)
        /\ check' = IF check.todo = {b} THEN NoCheck ELSE [check EXCEPT !.todo = @ \ {b}]
     \/ /\ Prolonged(b)
        /\ check' = [check EXCEPT !.todo = @ \ {b}, !.emitting = {b}, !.about = opened[b]]
  /\ UNCHANGED <<now, jobVars, supVars, opened, told, rowVars, booted, boundVars>>

\* The emission returns: the breaker may have been closed, or closed and
\* opened again, and last_emitted_for takes the opening it has now.
EmitBreaker(b) ==
  /\ check.emitting = {b}
  /\ check' = Checked
  /\ \/ /\ Emit("breaker_open", {b}, check.about)
        /\ told' = [told EXCEPT ![b] = opened[b]]
        /\ UNCHANGED faults
     \/ EmitFails /\ UNCHANGED told
  /\ UNCHANGED <<now, jobVars, supVars, opened, booted, crashes>>

-----------------------------------------------------------------------------
(* The operator, the clock and the process *)

\* /incident: any of the types, MANUAL_INTERVENTION_REQUIRED by default.
Register(type) ==
  /\ \/ Emit(type, {}, Never) /\ UNCHANGED faults
     \/ EmitFails
  /\ UNCHANGED <<now, jobVars, supVars, breakerVars, booted, crashes>>

\* resolve_incident, once per row.
Resolve(i) ==
  /\ incidents[i].resolved = Never
  /\ incidents' = [incidents EXCEPT ![i].resolved = now]
  /\ UNCHANGED <<now, jobVars, supVars, breakerVars, counter, booted, boundVars>>

Tick ==
  /\ now < Horizon
  /\ now' = now + 1
  /\ UNCHANGED <<jobVars, supVars, breakerVars, rowVars, booted, boundVars>>

\* A restart keeps the two tables: the incidents and the runs.
Crash ==
  /\ crashes < MaxCrashes
  /\ crashes' = crashes + 1
  /\ pass' = "idle" /\ success' = TRUE
  /\ ticked' = Never /\ reconciled' = Never
  /\ since' = Never /\ emitted' = FALSE
  /\ opened' = [b \in Breakers |-> Never] /\ told' = [b \in Breakers |-> Never]
  /\ check' = NoCheck
  /\ counter' = [t \in IncidentTypes |-> 0]
  /\ booted' = Len(incidents)
  /\ UNCHANGED <<now, lastRun, incidents, faults>>

-----------------------------------------------------------------------------
(* Specification *)

PassStep == StartPass \/ RunPass \/ Feed \/ EmitFailure

BreakerStep(b) ==
  OpenBreaker(b) \/ CloseBreaker(b) \/ VisitBreaker(b) \/ EmitBreaker(b)

Next ==
  \/ PassStep
  \/ OperatorPass
  \/ StartCheck
  \/ \E b \in Breakers : BreakerStep(b)
  \/ \E type \in SevereTypes \union {"manual"} : Register(type)
  \/ \E i \in 1 .. Len(incidents) : Resolve(i)
  \/ Tick
  \/ Crash

Spec == Init /\ [][Next]_vars

-----------------------------------------------------------------------------
(* What is read off the state *)

\* Mutant of Resets: a long incident counts from its start.
ResetsAtStart(r) ==
  IF r.type \in SevereTypes THEN {r.at}
  ELSE IF r.resolved # Never
       THEN IF r.resolved - r.at > Day THEN {r.at} ELSE {}
       ELSE IF now - r.at > Day THEN {r.at + Day} ELSE {}

\* _find_last_reset_at: the candidate a row contributes, if any.
Resets(r) ==
  IF r.type \in SevereTypes THEN {r.at}
  ELSE IF r.resolved # Never
       THEN IF r.resolved - r.at > Day THEN {r.resolved} ELSE {}
       ELSE IF now - r.at > Day THEN {r.at + Day} ELSE {}

AllResets == UNION {Resets(incidents[i]) : i \in 1 .. Len(incidents)}

\* /heartbeat, its reconcile half: 200 only with a recent successful pass.
HeartbeatOk == ticked # Never /\ reconciled # Never /\ now - reconciled <= HeartbeatAge

\* _check_reconcile_clean: what preflight lets through.
ReconcileClean == lastRun.at # Never /\ now - lastRun.at <= Stale /\ lastRun.clean

-----------------------------------------------------------------------------
(* Properties *)

Reported(type, start) ==
  {i \in booted + 1 .. Len(incidents) :
     incidents[i].type = type /\ incidents[i].about = start}

\* A reconcile outage is told once, and never early: two failed passes that
\* far apart with no success between them.  An emission that failed leaves the
\* outage untold, so that a later pass tells it (reconcile_supervisor.py:65).
OneIncidentPerOutage ==
  since # Never =>
    /\ emitted <=> Reported("reconcile_failed", since) # {}
    /\ Cardinality(Reported("reconcile_failed", since)) <= 1
    /\ \A i \in Reported("reconcile_failed", since) :
          incidents[i].at - since >= Threshold

\* While the supervisor has reported an outage the heartbeat is not OK: the
\* two watch the same job by different marks, and must not contradict each
\* other (reconcile_job.py:31-43, heartbeat.py:59-68).
OutageStopsHeartbeat == emitted => ~HeartbeatOk

\* A reported outage keeps preflight from passing (preflight.py:251-305), which
\* reads the runs and not the supervisor, with three exceptions: the operator
\* has made a pass of his own, the success that ends the outage is stored and
\* not yet fed, or the rows of its errors were lost and the last one stored is
\* from before it.
OutageBlocksGoLive ==
  emitted /\ ReconcileClean =>
    \/ lastRun.by = "operator"
    \/ pass = "feed" /\ success
    \/ lastRun.at <= since /\ faults > 0

\* An opening of a breaker is told at most once, and only after it was open
\* for the threshold, though the registry changes under the awaits of a check
\* and a check takes its clock before them (circuit_breaker.py:78-116).
OneIncidentPerOpening ==
  \A i \in 1 .. Len(incidents) :
    incidents[i].type = "breaker_open" =>
      /\ incidents[i].at - incidents[i].about >= OpenThreshold
      /\ \A j \in 1 .. Len(incidents) :
           incidents[j].of = incidents[i].of /\ incidents[j].about = incidents[i].about
             => i = j

\* The counter of each type is the number of rows stored since the process
\* started, through failed inserts and concurrent emitters (emitter.py:4-5).
CounterMatchesRows ==
  \A t \in IncidentTypes :
    counter[t] = Cardinality({i \in booted + 1 .. Len(incidents) : incidents[i].type = t})

\* The clean streak's last reset never moves back: neither time, nor new
\* rows, nor the resolution of an incident, which replaces its 24-hour mark
\* by its resolution, gives days back (clean_streak.py:108-131).
ResetNeverMovesBack ==
  [][\A old \in AllResets : \E new \in AllResets' : new >= old]_vars

\* The incidents on record agree with what they tell of: outages of the
\* reconcile job with its supervisor, its heartbeat and preflight, and the
\* counter with the rows (reconcile_supervisor.py:42-90, heartbeat.py:59-68,
\* preflight.py:251-305, emitter.py:34-62).
OutagesAreTold ==
  /\ TypeOK
  /\ OneIncidentPerOutage /\ OutageStopsHeartbeat /\ OutageBlocksGoLive
  /\ CounterMatchesRows

=============================================================================
