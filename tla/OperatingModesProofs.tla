------------------------- MODULE OperatingModesProofs -------------------------
(***************************************************************************)
(* Theorems about OperatingModes, for any number of operators, any length  *)
(* of the day and of every stay, window and delay.  OperatingModesInv      *)
(* defines the inductive invariant.                                        *)
(***************************************************************************)
EXTENDS OperatingModesInv, SequenceTheorems, FiniteSetTheorems, TLAPS

USE ModesAssumption

-----------------------------------------------------------------------------
(* Types *)

LEMMA IdleType == Idle \in Jobs
  BY DEF Idle, Jobs, Steps, Commands, Modes

\* Midnight comes after now.
LEMMA MidnightAhead ==
  ASSUME NEW n \in Nat PROVE (n \div Day + 1) * Day \in Nat /\ n < (n \div Day + 1) * Day
  OBVIOUS

LEMMA PanicSpan == (PanicDays - 1) * Day \in Nat
  OBVIOUS

LEMMA TypeInit == Init => TypeOK
<1> SUFFICES ASSUME Init PROVE TypeOK
  OBVIOUS
<1>1. log \in Seq(Rows) /\ pendings \in Seq(Pendings) /\ closes \in Seq(Nat)
  BY DEF Init
<1>2. now \in Nat /\ enabled \in BOOLEAN /\ mode \in Modes /\ killedUntil \in Nat
  BY DEF Init, Modes
<1>3. windDown \in {"none", "active", "done"} /\ resetAt \in Nat /\ job \in Jobs
  BY IdleType DEF Init
<1>4. since \in Nat /\ lastForce \in [Actors -> Nat] /\ inPaper \in Nat
  BY DEF Init
<1>5. promised \in Nat /\ lost \in BOOLEAN /\ excused \in BOOLEAN
  BY DEF Init
<1>6. stops \in 0 .. MaxStops /\ aborts \in 0 .. MaxAborts
  BY DEF Init
<1> QED
  BY <1>1, <1>2, <1>3, <1>4, <1>5, <1>6 DEF TypeOK

\* The rows of go_live_pendings keep their type when one is marked.
LEMMA RowType ==
  ASSUME TypeOK, NEW p \in DOMAIN pendings
  PROVE  pendings[p] \in Pendings /\ p \in 1 .. Len(pendings)
  BY DEF TypeOK

LEMMA NextMidnightAhead ==
  ASSUME now \in Nat PROVE NextMidnight \in Nat /\ now < NextMidnight
  BY MidnightAhead DEF NextMidnight

LEMMA MarkType ==
  ASSUME TypeOK, NEW p \in DOMAIN pendings, NEW to \in PendingStatuses, Mark(p, to)
  PROVE  pendings' \in Seq(Pendings)
<1>1. [pendings[p] EXCEPT !.status = to] \in Pendings
  BY RowType DEF Pendings
<1>2. pendings' = [pendings EXCEPT ![p] = [pendings[p] EXCEPT !.status = to]]
  BY DEF Mark
<1> QED
  BY <1>1, <1>2, RowType, ExceptSeq DEF TypeOK

LEMMA MoveType ==
  ASSUME TypeOK, NEW a \in Actors \union {NoActor}, NEW to \in Modes,
         NEW kind \in Commands, NEW p \in Nat, Move(a, to, kind, p)
  PROVE  job' \in Jobs /\ mode' \in Modes /\ since' \in Nat
  BY DEF TypeOK, Move, Jobs, Steps

LEMMA TypeStep == TypeOK /\ CodeSound /\ [Next]_vars => TypeOK'
<1> SUFFICES ASSUME TypeOK, CodeSound, [Next]_vars PROVE TypeOK'
  OBVIOUS
<1> USE DEF TypeOK, stateVars, tableVars, worldVars, pastVars, counts
<1>1. ASSUME NEW to \in Modes, NEW reason \in BOOLEAN, SetMode(to, reason) PROVE TypeOK'
  BY <1>1, MoveType DEF SetMode, Move, Commands
<1>2. ASSUME NEW to \in Modes, NEW a \in Actors, ForceMode(a, to) PROVE TypeOK'
  BY <1>2, MoveType DEF ForceMode, Move, Commands
<1>3. ASSUME AddRow PROVE TypeOK'
  <2>1. [to |-> job.to, at |-> job.at, by |-> job.by] \in Rows
    BY DEF Jobs, Rows
  <2>2. log' \in Seq(Rows)
    BY <1>3, <2>1, AppendProperties DEF AddRow
  <2>3. job' \in Jobs
    BY <1>3, IdleType DEF AddRow, Jobs, Steps
  <2> QED
    BY <1>3, <2>2, <2>3 DEF AddRow
<1>4. ASSUME NEW a \in Actors, Initiate(a) PROVE TypeOK'
  <2>1. [by |-> a, at |-> now, attempts |-> 0, status |-> "pending"] \in Pendings
    BY DEF Pendings, PendingStatuses
  <2>2. pendings' \in Seq(Pendings)
    BY <1>4, <2>1, AppendProperties DEF Initiate
  <2>4. Len(pendings) + 1 \in Nat
    BY LenProperties
  <2>3. job' \in Jobs
    BY <1>4, <2>4, IdleType DEF Initiate, Jobs, Steps
  <2> QED
    BY <1>4, <2>2, <2>3 DEF Initiate
<1>5. ASSUME NEW a \in Actors, Refuse(a) PROVE TypeOK'
  <2>1. pendings' \in Seq(Pendings)
    <3>1. PICK p \in LatestPending(a) :
             \/ Mark(p, "expired") \/ Mark(p, "rejected")
             \/ pendings' = [pendings EXCEPT ![p].attempts = @ + 1]
      BY <1>5 DEF Refuse
    <3>2. p \in DOMAIN pendings
      BY DEF LatestPending
    <3>3. CASE Mark(p, "expired") \/ Mark(p, "rejected")
      BY <3>2, <3>3, MarkType DEF PendingStatuses
    <3>4. CASE pendings' = [pendings EXCEPT ![p].attempts = @ + 1]
      <4>1. pendings[p] \in Pendings
        BY <3>2, RowType
      <4>2. pendings[p].attempts + 1 \in Nat
        BY <4>1 DEF Pendings
      <4>3. [pendings[p] EXCEPT !.attempts = pendings[p].attempts + 1] \in Pendings
        BY <4>1, <4>2, Zenon DEF Pendings
      <4> QED
        BY <3>2, <3>4, <4>3, RowType, ExceptSeq
    <3> QED
      BY <3>1, <3>3, <3>4
  <2> QED
    BY <1>5, <2>1 DEF Refuse
<1>6. ASSUME NEW a \in Actors, Verify(a) PROVE TypeOK'
  <2>1. PICK p \in LatestPending(a) : Move(a, "live", "live", p)
    BY <1>6 DEF Verify
  <2>2. p \in Nat
    BY RowType DEF LatestPending
  <2> QED
    BY <1>6, <2>1, <2>2, MoveType DEF Verify, Move, Commands, Modes
<1>7. ASSUME NEW sent \in BOOLEAN, Email(sent), job.pend \in DOMAIN pendings PROVE TypeOK'
  <2>1. pendings' \in Seq(Pendings)
    BY <1>7, MarkType DEF Email, PendingStatuses
  <2> QED
    BY <1>7, <2>1, IdleType DEF Email
<1>8. ASSUME Enable PROVE TypeOK'
  <2>1. job' \in Jobs
    BY <1>8 DEF Enable, Jobs, Steps
  <2>2. enabled' \in BOOLEAN /\ excused' \in BOOLEAN
    BY <1>8 DEF Enable
  <2> QED
    BY <1>8, <2>1, <2>2 DEF Enable
<1>9. ASSUME MarkConfirmed, job.pend \in DOMAIN pendings PROVE TypeOK'
  <2>1. pendings' \in Seq(Pendings)
    BY <1>9, MarkType DEF MarkConfirmed, PendingStatuses
  <2> QED
    BY <1>9, <2>1, IdleType DEF MarkConfirmed
<1>10. ASSUME Stop PROVE TypeOK'
  BY <1>10 DEF Stop
<1>11. ASSUME NEW flat \in BOOLEAN, StartWindDown(flat) PROVE TypeOK'
  <2>1. job' \in Jobs
    BY <1>11, IdleType DEF StartWindDown, Jobs, Steps, Commands
  <2>2. stops' \in 0 .. MaxStops
    <3>1. stops < MaxStops /\ stops' = stops + 1
      BY <1>11, Zenon DEF StartWindDown
    <3> QED
      BY <3>1
  <2> QED
    BY <1>11, <2>1, <2>2 DEF StartWindDown
<1>12. ASSUME Disable PROVE TypeOK'
  <2>1. job' \in Jobs
    BY <1>12, IdleType DEF Disable, Jobs, Steps
  <2> QED
    BY <1>12, <2>1 DEF Disable
<1>13. ASSUME Complete PROVE TypeOK'
  BY <1>13, IdleType DEF Complete
<1>14. ASSUME Panic PROVE TypeOK'
  <2>1. killedUntil' \in Nat /\ promised' \in Nat
    <3>1. PICK span \in Nat : killedUntil' = NextMidnight + span /\ promised' = now + span
      BY <1>14, PanicSpan, Zenon DEF Panic
    <3> QED
      BY <3>1, NextMidnightAhead
  <2>2. stops' \in 0 .. MaxStops
    BY <1>14 DEF Panic
  <2> QED
    BY <1>14, <2>1, <2>2 DEF Panic
<1>15. ASSUME Breach PROVE TypeOK'
  <2>1. killedUntil' \in Nat
    BY <1>15, NextMidnightAhead DEF Breach
  <2> QED
    BY <1>15, <2>1 DEF Breach
<1>16. ASSUME Tick \/ Incident PROVE TypeOK'
  <2>1. CASE Tick
    BY <2>1 DEF Tick
  <2>2. CASE Incident
    BY <2>2 DEF Incident
  <2> QED BY <1>16, <2>1, <2>2
<1>17. ASSUME CloseTrade PROVE TypeOK'
  <2>1. closes' \in Seq(Nat)
    BY <1>17, AppendProperties DEF CloseTrade
  <2> QED
    BY <1>17, <2>1 DEF CloseTrade
<1>18. ASSUME Abort PROVE TypeOK'
  <2>1. lost' \in BOOLEAN /\ excused' \in BOOLEAN
    BY <1>18, Zenon DEF Abort
  <2>2. job' \in Jobs /\ aborts' \in 0 .. MaxAborts /\ stops' = stops
    BY <1>18, IdleType DEF Abort
  <2> QED
    BY <1>18, <2>1, <2>2 DEF Abort
<1>19. ASSUME UNCHANGED vars PROVE TypeOK'
  BY <1>19 DEF vars
<1> QED
  BY <1>1, <1>2, <1>3, <1>4, <1>5, <1>6, <1>7, <1>8, <1>9, <1>10, <1>11, <1>12, <1>13,
     <1>14, <1>15, <1>16, <1>17, <1>18, <1>19
     DEF Next, Ladder, GoLive, CodeSound, Email, MarkConfirmed

-----------------------------------------------------------------------------
(* The parts of the invariant *)

LEMMA CodeStep == TypeOK /\ CodeSound /\ [Next]_vars => CodeSound'
<1> SUFFICES ASSUME TypeOK, CodeSound, [Next]_vars PROVE CodeSound'
  OBVIOUS
<1> USE DEF stateVars, tableVars, worldVars, pastVars, counts
<1>1. ASSUME NEW to \in Modes, NEW reason \in BOOLEAN, SetMode(to, reason) PROVE CodeSound'
  BY <1>1 DEF SetMode, Move, CodeSound
<1>2. ASSUME NEW to \in Modes, NEW a \in Actors, ForceMode(a, to) PROVE CodeSound'
  BY <1>2 DEF ForceMode, Move, CodeSound
<1>3. ASSUME AddRow PROVE CodeSound'
  <2>1. CASE job.kind = "live"
    <3>1. CodeAccepted
      BY <1>3, <2>1 DEF AddRow, CodeSound
    <3>2. job' = [job EXCEPT !.step = "enable"] /\ UNCHANGED <<mode, pendings>>
      BY <1>3, <2>1 DEF AddRow
    <3>3. job'.step = "enable" /\ job'.kind = job.kind /\ job'.pend = job.pend
          /\ job'.by = job.by /\ job'.at = job.at
      BY <3>2 DEF TypeOK, Jobs
    <3> QED
      BY <3>1, <3>2, <3>3 DEF CodeSound, CodeAccepted
  <2>2. CASE job.kind # "live"
    BY <1>3, <2>2 DEF AddRow, CodeSound, Idle
  <2> QED
    BY <2>1, <2>2
<1>4. ASSUME NEW a \in Actors, Initiate(a) PROVE CodeSound'
  <2>1. [by |-> a, at |-> now, attempts |-> 0, status |-> "pending"] \in Pendings
    BY DEF TypeOK, Pendings, PendingStatuses
  <2>2. Len(pendings') = Len(pendings) + 1 /\ pendings' \in Seq(Pendings)
    BY <1>4, <2>1, AppendProperties DEF TypeOK, Initiate
  <2>3. Len(pendings) + 1 \in DOMAIN pendings'
    BY <2>2, LenProperties DEF TypeOK
  <2>4. job'.step = "email" /\ job'.pend = Len(pendings) + 1
    BY <1>4 DEF Initiate, Idle
  <2> QED
    BY <2>3, <2>4 DEF CodeSound
<1>5. ASSUME NEW a \in Actors, Refuse(a) PROVE CodeSound'
  BY <1>5 DEF Refuse, CodeSound, Idle
<1>6. ASSUME NEW a \in Actors, Verify(a) PROVE CodeSound'
  <2>1. PICK p \in LatestPending(a) :
           Due(p) /\ pendings[p].attempts < MaxAttempts /\ Move(a, "live", "live", p)
    BY <1>6 DEF Verify
  <2>2. p \in DOMAIN pendings /\ pendings[p].by = a /\ pendings[p].status = "pending"
    BY DEF LatestPending
  <2>3. job' = [step |-> "audit", kind |-> "live", by |-> a, to |-> "live",
                at |-> now, pend |-> p] /\ mode' = "live" /\ pendings' = pendings
    BY <2>1 DEF Move
  <2> QED
    BY <2>1, <2>2, <2>3 DEF CodeSound, CodeAccepted, Due
<1>7. ASSUME Enable PROVE CodeSound'
  <2>1. CodeAccepted
    BY <1>7 DEF Enable, CodeSound
  <2>2. job'.step = "confirm" /\ job'.pend = job.pend /\ pendings' = pendings
    BY <1>7 DEF Enable, TypeOK, Jobs
  <2> QED
    BY <2>1, <2>2 DEF CodeSound, CodeAccepted
<1>8. ASSUME NEW flat \in BOOLEAN, StartWindDown(flat) PROVE CodeSound'
  BY <1>8 DEF StartWindDown, CodeSound, Idle
<1>9. ASSUME Disable PROVE CodeSound'
  BY <1>9 DEF Disable, CodeSound, Idle, TypeOK, Jobs
<1>10. ASSUME job' = Idle PROVE CodeSound'
  BY <1>10 DEF CodeSound, Idle
<1>11. ASSUME UNCHANGED <<job, mode, pendings>> PROVE CodeSound'
  BY <1>11 DEF CodeSound, CodeAccepted
<1>12. ASSUME Complete \/ Abort \/ MarkConfirmed \/ \E sent \in BOOLEAN : Email(sent)
       PROVE  job' = Idle
  BY <1>12 DEF Complete, Abort, MarkConfirmed, Email
<1>13. ASSUME Stop \/ Panic \/ Breach \/ Tick \/ CloseTrade \/ Incident \/ UNCHANGED vars
       PROVE  UNCHANGED <<job, mode, pendings>>
  BY <1>13, Zenon DEF Stop, Panic, Breach, Tick, CloseTrade, Incident, vars
<1> QED
  BY <1>1, <1>2, <1>3, <1>4, <1>5, <1>6, <1>7, <1>8, <1>9, <1>10, <1>11, <1>12, <1>13
     DEF Next, Ladder, GoLive

\* A panic is never cut down: every write of killed_until is a later time.
LEMMA KillStep ==
  TypeOK /\ promised <= killedUntil /\ [Next]_vars => (promised <= killedUntil)'
<1> SUFFICES ASSUME TypeOK, promised <= killedUntil, [Next]_vars
             PROVE  (promised <= killedUntil)'
  OBVIOUS
<1> USE DEF stateVars, tableVars, worldVars, pastVars, counts
<1>1. ASSUME Panic PROVE (promised <= killedUntil)'
  <2>1. PICK span \in Nat : killedUntil' = NextMidnight + span /\ promised' = now + span
    BY <1>1, PanicSpan, Zenon DEF Panic
  <2> QED
    BY <2>1, NextMidnightAhead DEF TypeOK
<1>2. ASSUME Breach PROVE (promised <= killedUntil)'
  <2>1. now >= killedUntil /\ killedUntil' = NextMidnight /\ promised' = promised
    BY <1>2 DEF Breach, KillSwitchOpen
  <2> QED
    BY <2>1, NextMidnightAhead DEF TypeOK
<1>3. ASSUME UNCHANGED <<promised, killedUntil>> PROVE (promised <= killedUntil)'
  BY <1>3
<1>4. ASSUME Next, ~Panic, ~Breach PROVE UNCHANGED <<promised, killedUntil>>
  BY <1>4, Zenon
     DEF Next, Ladder, SetMode, ForceMode, Move, AddRow, GoLive, Initiate, Refuse, Verify,
         Email, Enable, MarkConfirmed, Stop, StartWindDown, Disable, Complete, Tick,
         CloseTrade, Incident, Abort
<1> QED
  BY <1>1, <1>2, <1>3, <1>4 DEF vars

LEMMA WindStep == TypeOK /\ WindDownHolds /\ [Next]_vars => WindDownHolds'
<1> SUFFICES ASSUME TypeOK, WindDownHolds, [Next]_vars PROVE WindDownHolds'
  OBVIOUS
<1> USE DEF stateVars, tableVars, worldVars, pastVars, counts, WindDownHolds
<1>1. ASSUME Enable \/ Stop \/ Disable \/ Complete \/ Panic PROVE WindDownHolds'
  BY <1>1, Zenon DEF Enable, Stop, Disable, Complete, Panic
<1>2. ASSUME NEW flat \in BOOLEAN, StartWindDown(flat) PROVE WindDownHolds'
  <2>1. job'.step = "disable"
    BY <1>2 DEF StartWindDown, Idle
  <2> QED
    BY <2>1
<1>3. ASSUME Abort PROVE WindDownHolds'
  <2>1. CASE job.step = "disable"
    BY <1>3, <2>1 DEF Abort
  <2>2. CASE job.step # "disable"
    BY <1>3, <2>2, Zenon DEF Abort
  <2> QED
    BY <2>1, <2>2
<1>4. ASSUME UNCHANGED <<windDown, enabled, excused>>, job.step # "disable" PROVE WindDownHolds'
  BY <1>4
<1>5. ASSUME UNCHANGED <<windDown, enabled, excused, job>> PROVE WindDownHolds'
  BY <1>5
<1>6. ASSUME Ladder \/ AddRow \/ GoLive \/ MarkConfirmed \/ \E sent \in BOOLEAN : Email(sent)
      PROVE  UNCHANGED <<windDown, enabled, excused>> /\ job.step # "disable"
  <2>1. UNCHANGED <<windDown, enabled, excused>>
    BY <1>6, Zenon DEF Ladder, SetMode, ForceMode, Move, AddRow, GoLive, Initiate, Refuse,
                       Verify, Email, MarkConfirmed
  <2>2. job = Idle \/ job.step \in {"audit", "confirm", "email"}
    BY <1>6 DEF Ladder, SetMode, ForceMode, AddRow, GoLive, Initiate, Refuse, Verify, Email,
                MarkConfirmed
  <2> QED
    BY <2>1, <2>2 DEF Idle
<1>7. ASSUME Breach \/ Tick \/ CloseTrade \/ Incident \/ UNCHANGED vars
      PROVE  UNCHANGED <<windDown, enabled, excused, job>>
  BY <1>7, Zenon DEF Breach, Tick, CloseTrade, Incident, vars
<1> QED
  BY <1>1, <1>2, <1>3, <1>4, <1>5, <1>6, <1>7 DEF Next

\* A step that neither changes the mode nor ends a change of mode leaves what the
\* audit is about alone.
Quiet ==
  /\ UNCHANGED <<mode, log, since, lost, lastForce>>
  /\ job' = job \/ (job.step # "audit" /\ job'.step # "audit")

LEMMA QuietSteps ==
  ASSUME TypeOK, [Next]_vars, ~AddRow, ~Abort, ~Ladder,
         ~ \E a \in Actors : Verify(a)
  PROVE  Quiet
<1> USE DEF stateVars, tableVars, worldVars, pastVars, counts
<1>1. CASE \E a \in Actors : Initiate(a)
  BY <1>1 DEF Initiate, Quiet, Idle
<1>2. CASE \E a \in Actors : Refuse(a)
  <2>1. UNCHANGED <<mode, log, since, lost, lastForce, job>>
    BY <1>2, Zenon DEF Refuse
  <2> QED
    BY <2>1 DEF Quiet
<1>3. CASE \E sent \in BOOLEAN : Email(sent)
  BY <1>3 DEF Email, Quiet, Idle
<1>4. CASE Enable
  BY <1>4 DEF Enable, Quiet, TypeOK, Jobs
<1>5. CASE MarkConfirmed \/ Complete
  BY <1>5 DEF MarkConfirmed, Complete, Quiet, Idle
<1>6. CASE \E flat \in BOOLEAN : StartWindDown(flat)
  BY <1>6 DEF StartWindDown, Quiet, Idle
<1>7. CASE Disable
  BY <1>7 DEF Disable, Quiet, Idle, TypeOK, Jobs
<1>8. CASE Stop \/ Panic \/ Breach \/ Tick \/ CloseTrade \/ Incident \/ UNCHANGED vars
  <2>1. UNCHANGED <<mode, log, since, lost, lastForce, job>>
    BY <1>8, Zenon DEF Stop, Panic, Breach, Tick, CloseTrade, Incident, vars
  <2> QED
    BY <2>1 DEF Quiet
<1> QED
  BY <1>1, <1>2, <1>3, <1>4, <1>5, <1>6, <1>7, <1>8 DEF Next, GoLive

LEMMA MoveEffect ==
  ASSUME NEW a, NEW to, NEW kind, NEW p, Move(a, to, kind, p)
  PROVE  /\ mode' = to /\ since' = now /\ UNCHANGED <<log, lost>>
         /\ job'.step = "audit" /\ job'.kind = kind /\ job'.by = a
         /\ job'.to = to /\ job'.at = now
<1>1. mode' = to /\ since' = now /\ UNCHANGED <<log, lost>>
  BY Zenon DEF Move, tableVars
<1>2. job' = [step |-> "audit", kind |-> kind, by |-> a, to |-> to, at |-> now, pend |-> p]
  BY DEF Move
<1> QED
  BY <1>1, <1>2

\* A change of mode leaves its row to be written.
LEMMA MoveLeavesAudit ==
  ASSUME TypeOK, Ladder \/ \E a \in Actors : Verify(a)
  PROVE  /\ job = Idle /\ job'.step = "audit" /\ job'.to = mode' /\ job'.at = since'
         /\ UNCHANGED <<log, lost>>
         /\ \A a \in Actors : lastForce'[a] = lastForce[a]
                              \/ (job'.by = a /\ job'.at = lastForce'[a])
<1>1. CASE \E to \in Modes, reason \in BOOLEAN : SetMode(to, reason)
  <2>1. PICK to \in Modes, reason \in BOOLEAN : SetMode(to, reason)
    BY <1>1
  <2>2. job = Idle /\ Move(NoActor, to, "mode", 0) /\ UNCHANGED lastForce
    BY <2>1 DEF SetMode
  <2>3. /\ mode' = to /\ since' = now /\ UNCHANGED <<log, lost>>
        /\ job'.step = "audit" /\ job'.to = to /\ job'.at = now
    BY <2>2, MoveEffect
  <2> QED
    BY <2>2, <2>3
<1>2. CASE \E to \in Modes, a \in Actors : ForceMode(a, to)
  <2>1. PICK to \in Modes, a \in Actors : ForceMode(a, to)
    BY <1>2
  <2>2. job = Idle /\ Move(a, to, "force", 0)
    BY <2>1 DEF ForceMode
  <2>3. \A b \in Actors : lastForce'[b] = IF b = a THEN now ELSE lastForce[b]
    BY <2>1 DEF ForceMode, TypeOK
  <2>4. /\ mode' = to /\ since' = now /\ UNCHANGED <<log, lost>>
        /\ job'.step = "audit" /\ job'.by = a /\ job'.to = to /\ job'.at = now
    BY <2>2, MoveEffect
  <2> QED
    BY <2>2, <2>3, <2>4
<1>3. CASE \E a \in Actors : Verify(a)
  <2>1. PICK a \in Actors : Verify(a)
    BY <1>3
  <2>2. PICK p \in LatestPending(a) : Move(a, "live", "live", p)
    BY <2>1 DEF Verify
  <2>3. job = Idle /\ UNCHANGED lastForce
    BY <2>1 DEF Verify
  <2>4. /\ mode' = "live" /\ since' = now /\ UNCHANGED <<log, lost>>
        /\ job'.step = "audit" /\ job'.to = "live" /\ job'.at = now
    BY <2>2, MoveEffect
  <2> QED
    BY <2>3, <2>4
<1> QED
  BY <1>1, <1>2, <1>3 DEF Ladder

\* What writing the row of a change of mode does to the table.
LEMMA RowWritten ==
  ASSUME TypeOK, AddRow
  PROVE  /\ log' \in Seq(Rows) /\ Len(log') = Len(log) + 1
         /\ \A i \in DOMAIN log : i \in DOMAIN log' /\ log'[i] = log[i]
         /\ Len(log') \in DOMAIN log'
         /\ log'[Len(log')] = [to |-> job.to, at |-> job.at, by |-> job.by]
         /\ job'.step # "audit"
         /\ UNCHANGED <<mode, since, lost, lastForce>>
<1>1. [to |-> job.to, at |-> job.at, by |-> job.by] \in Rows
  BY DEF TypeOK, Jobs, Rows
<1>2. log' = Append(log, [to |-> job.to, at |-> job.at, by |-> job.by])
  BY DEF AddRow
<1>3. log \in Seq(Rows)
  BY DEF TypeOK
<1>4. /\ log' \in Seq(Rows) /\ Len(log') = Len(log) + 1
      /\ \A i \in 1 .. Len(log) : log'[i] = log[i]
      /\ log'[Len(log) + 1] = [to |-> job.to, at |-> job.at, by |-> job.by]
  BY <1>1, <1>2, <1>3, AppendProperties
<1>5. DOMAIN log = 1 .. Len(log) /\ DOMAIN log' = 1 .. Len(log') /\ Len(log) \in Nat
  BY <1>3, <1>4, LenProperties
<1>6. job'.step # "audit"
  BY DEF AddRow, TypeOK, Jobs, Idle
<1>7. UNCHANGED <<mode, since, lost, lastForce>>
  BY DEF AddRow, stateVars, pastVars
<1> QED
  BY <1>4, <1>5, <1>6, <1>7

LEMMA AbortEffect ==
  ASSUME Abort
  PROVE  /\ UNCHANGED <<mode, log, since, lastForce>> /\ job'.step # "audit"
         /\ ~lost' => ~lost /\ job.step # "audit"
<1>1. UNCHANGED <<mode, log, since, lastForce>>
  BY DEF Abort, stateVars, tableVars
<1>2. job'.step # "audit"
  BY DEF Abort, Idle
<1>3. ~lost' => ~lost /\ job.step # "audit"
  BY Zenon DEF Abort
<1> QED
  BY <1>1, <1>2, <1>3

LEMMA AuditStep == TypeOK /\ AuditSound /\ [Next]_vars => AuditSound'
<1> SUFFICES ASSUME TypeOK, AuditSound, [Next]_vars PROVE AuditSound'
  OBVIOUS
<1>1. CASE Ladder \/ \E a \in Actors : Verify(a)
  BY <1>1, MoveLeavesAudit DEF AuditSound
<1>2. CASE AddRow
  <2>1. job.step = "audit"
    BY <1>2 DEF AddRow
  <2>2. ~lost => job.to = mode /\ job.at = since
    BY <2>1 DEF AuditSound
  <2>3. log' # <<>>
    BY <1>2, RowWritten
  <2> QED
    BY <1>2, <2>2, <2>3, RowWritten DEF AuditSound, LastRow
<1>3. CASE Abort
  BY <1>3, AbortEffect DEF AuditSound, LastRow
<1>4. CASE Quiet
  BY <1>4 DEF Quiet, AuditSound, LastRow
<1> QED
  BY <1>1, <1>2, <1>3, <1>4, QuietSteps

LEMMA ForcesStep == TypeOK /\ ForcesSound /\ [Next]_vars => ForcesSound'
<1> SUFFICES ASSUME TypeOK, ForcesSound, [Next]_vars, ~lost',
                    NEW a \in Actors, lastForce'[a] # 0
             PROVE  ForceRecorded(a)'
  BY DEF ForcesSound
<1>1. CASE Ladder \/ \E b \in Actors : Verify(b)
  <2>1. CASE job'.by = a /\ job'.at = lastForce'[a]
    BY <1>1, <2>1, MoveLeavesAudit DEF ForceRecorded
  <2>2. CASE lastForce'[a] = lastForce[a]
    <3>1. job = Idle /\ UNCHANGED <<log, lost>>
      BY <1>1, MoveLeavesAudit
    <3>2. ForceRecorded(a)
      BY <2>2, <3>1 DEF ForcesSound
    <3>3. job.step # "audit"
      BY <3>1 DEF Idle
    <3> QED
      BY <2>2, <3>1, <3>2, <3>3 DEF ForceRecorded
  <2> QED
    BY <1>1, <2>1, <2>2, MoveLeavesAudit
<1>2. CASE AddRow
  <2>1. ForceRecorded(a) /\ UNCHANGED lastForce
    BY <1>2, RowWritten DEF ForcesSound
  <2>2. CASE \E i \in DOMAIN log : log[i].by = a /\ log[i].at = lastForce[a]
    <3>1. PICK i \in DOMAIN log : log[i].by = a /\ log[i].at = lastForce[a]
      BY <2>2
    <3> QED
      BY <1>2, <2>1, <3>1, RowWritten DEF ForceRecorded
  <2>3. CASE job.by = a /\ job.at = lastForce[a]
    BY <1>2, <2>1, <2>3, RowWritten DEF ForceRecorded
  <2> QED
    BY <2>1, <2>2, <2>3 DEF ForceRecorded
<1>3. CASE Abort
  BY <1>3, AbortEffect DEF ForcesSound, ForceRecorded
<1>4. CASE Quiet
  BY <1>4 DEF Quiet, ForcesSound, ForceRecorded
<1> QED
  BY <1>1, <1>2, <1>3, <1>4, QuietSteps

-----------------------------------------------------------------------------
(* The theorems *)

\* OperatingInv holds at every step of every operation.
THEOREM OperatingInductive == Spec => []OperatingInv
<1>1. Init => OperatingInv
  <2> SUFFICES ASSUME Init PROVE OperatingInv
    OBVIOUS
  <2>1. AuditSound
    BY DEF Init, AuditSound, Idle
  <2>2. ForcesSound
    BY DEF Init, ForcesSound
  <2>3. CodeSound /\ WindDownHolds
    BY DEF Init, CodeSound, Idle, WindDownHolds
  <2>4. promised <= killedUntil
    BY DEF Init
  <2> QED
    BY TypeInit, <2>1, <2>2, <2>3, <2>4 DEF OperatingInv
<1>2. OperatingInv /\ [Next]_vars => OperatingInv'
  BY TypeStep, AuditStep, ForcesStep, CodeStep, KillStep, WindStep DEF OperatingInv
<1> QED
  BY <1>1, <1>2, PTL DEF Spec

\* trading_state, its tables and the operation under way keep their types.
THEOREM OperatingTypeCorrect == Spec => []TypeOK
<1>1. OperatingInv => TypeOK
  BY DEF OperatingInv
<1> QED
  BY <1>1, OperatingInductive, PTL

\* No signal passes the kill switch in the days a panic promises.
THEOREM PanicsHold == Spec => []PanicHolds
<1>1. OperatingInv => PanicHolds
  BY DEF OperatingInv, PanicHolds, KillSwitchOpen, TypeOK
<1> QED
  BY <1>1, OperatingInductive, PTL

\* A wind-down keeps entries disabled until a go-live.
THEOREM WindDownsHold == Spec => []WindDownHolds
<1>1. OperatingInv => WindDownHolds
  BY DEF OperatingInv
<1> QED
  BY <1>1, OperatingInductive, PTL

\* Only the three changes of mode change the mode, and only a force is recorded.
LEMMA OnlyMoves ==
  ASSUME TypeOK, [Next]_vars, mode' # mode
  PROVE  \/ \E to \in Modes, reason \in BOOLEAN : SetMode(to, reason)
         \/ job'.kind \in {"force", "live"}
<1>1. CASE \E to \in Modes, reason \in BOOLEAN : SetMode(to, reason)
  BY <1>1
<1>2. CASE \E to \in Modes, a \in Actors : ForceMode(a, to)
  <2>1. PICK to \in Modes, a \in Actors : Move(a, to, "force", 0)
    BY <1>2 DEF ForceMode
  <2> QED
    BY <2>1, MoveEffect
<1>3. CASE \E a \in Actors : Verify(a)
  <2>1. PICK a \in Actors : Verify(a)
    BY <1>3
  <2>2. PICK p \in LatestPending(a) : Move(a, "live", "live", p)
    BY <2>1 DEF Verify
  <2> QED
    BY <2>2, MoveEffect
<1>4. CASE AddRow \/ Abort \/ Quiet
  BY <1>4, RowWritten, AbortEffect DEF Quiet
<1> QED
  BY <1>1, <1>2, <1>3, <1>4, QuietSteps DEF Ladder

LEMMA LadderStep ==
  ASSUME OperatingInv, NEW to \in Modes, NEW reason \in BOOLEAN, SetMode(to, reason),
         Rank[mode'] > Rank[mode]
  PROVE  /\ Rank[mode'] = Rank[mode] + 1
         /\ mode \in Climbed /\ ~lost => since + MinStay[mode] <= now
<1> USE DEF OperatingInv, TypeOK
<1>1. mode' = to /\ job = Idle /\ MayTransition(to, reason)
  BY DEF SetMode, Move
<1>2. Rank[to] \in Nat /\ Rank[mode] \in Nat /\ Rank["off"] = 0 /\ Rank["shadow"] = 1
  BY DEF Rank, Modes
<1>3. CASE mode = "off" /\ to = "shadow"
  BY <1>1, <1>2, <1>3 DEF Climbed
<1>4. CASE mode \in Climbed /\ Rank[to] = Rank[mode] + 1 /\ StayedFor(mode, MinStay[mode])
  <2>1. SUFFICES ASSUME ~lost PROVE since + MinStay[mode] <= now
    BY <1>1, <1>4
  <2>2. PICK i \in DOMAIN log :
           /\ log[i].to = mode /\ \A j \in DOMAIN log : j > i => log[j].to # mode
           /\ log[i].at + MinStay[mode] <= now
    BY <1>4 DEF StayedFor
  <2>3. DOMAIN log = 1 .. Len(log) /\ Len(log) \in Nat
    BY LenProperties
  <2>4. log # <<>> /\ Len(log) \in DOMAIN log
    BY <2>2, <2>3
  <2>5. job.step # "audit"
    BY <1>1 DEF Idle
  <2>6. log[Len(log)].to = mode /\ log[Len(log)].at = since
    BY <2>1, <2>4, <2>5 DEF AuditSound, LastRow
  <2>7. i = Len(log)
    BY <2>2, <2>3, <2>4, <2>6
  <2> QED
    BY <2>2, <2>6, <2>7
<1> QED
  BY <1>1, <1>2, <1>3, <1>4 DEF MayTransition

\* No rung of the ladder is skipped, and none is left before its time.
THEOREM LadderIsRespected == Spec => LadderRespected
<1>1. OperatingInv /\ [Next]_vars =>
        [/\ mode' # mode /\ Rank[mode'] > Rank[mode] /\ job'.kind = "mode"
         => /\ Rank[mode'] = Rank[mode] + 1
            /\ mode \in Climbed /\ ~lost => since + MinStay[mode] <= now]_vars
  <2> SUFFICES ASSUME OperatingInv, [Next]_vars, mode' # mode, Rank[mode'] > Rank[mode],
                      job'.kind = "mode"
               PROVE  /\ Rank[mode'] = Rank[mode] + 1
                      /\ mode \in Climbed /\ ~lost => since + MinStay[mode] <= now
    OBVIOUS
  <2>1. PICK to \in Modes, reason \in BOOLEAN : SetMode(to, reason)
    BY OnlyMoves DEF OperatingInv
  <2> QED
    BY <2>1, LadderStep
<1> QED
  BY <1>1, OperatingInductive, PTL DEF Spec, LadderRespected

\* Two forces of one operator are more than the window apart.
THEOREM ForcesAreFarApart == Spec => ForcesAreRare
<1>1. OperatingInv /\ [Next]_vars =>
        [\A a \in Actors :
           lastForce'[a] # lastForce[a] /\ lastForce[a] # 0 /\ ~lost
             => lastForce[a] + ForceWindow < now]_vars
  <2> SUFFICES ASSUME OperatingInv, [Next]_vars, NEW a \in Actors, ~lost,
                      lastForce'[a] # lastForce[a], lastForce[a] # 0
               PROVE  lastForce[a] + ForceWindow < now
    OBVIOUS
  <2>1. PICK b \in Actors, to \in Modes : ForceMode(b, to)
    <3>1. ~AddRow /\ ~Abort /\ ~Quiet
      BY RowWritten, AbortEffect DEF OperatingInv, Quiet
    <3>2. Ladder \/ \E b \in Actors : Verify(b)
      BY <3>1, QuietSteps DEF OperatingInv
    <3> QED
      BY <3>2 DEF Ladder, SetMode, Verify
  <2>2. a = b
    BY <2>1 DEF ForceMode, OperatingInv, TypeOK
  <2>3. job = Idle /\ ForcesInWindow(a) = {}
    BY <2>1, <2>2 DEF ForceMode
  <2>4. ForceRecorded(a)
    BY DEF OperatingInv, ForcesSound
  <2>5. PICK i \in DOMAIN log : log[i].by = a /\ log[i].at = lastForce[a]
    BY <2>3, <2>4 DEF ForceRecorded, Idle
  <2>6. ~(log[i].at + ForceWindow >= now)
    BY <2>3, <2>5 DEF ForcesInWindow
  <2> QED
    BY <2>5, <2>6 DEF OperatingInv, TypeOK
<1> QED
  BY <1>1, OperatingInductive, PTL DEF Spec, ForcesAreRare

\* Trading is enabled by a confirmed code and by nothing else.
THEOREM OnlyCodesEnable == Spec => EnabledByCode
<1>1. OperatingInv /\ [Next]_vars =>
        [~enabled /\ enabled' =>
           /\ mode = "live" /\ job.kind = "live" /\ job.pend \in DOMAIN pendings
           /\ LET p == pendings[job.pend] IN
                /\ p.by = job.by /\ p.status = "pending" /\ p.attempts < MaxAttempts
                /\ p.at + ConfirmDelay <= job.at /\ job.at < p.at + CodeTtl]_vars
  <2> SUFFICES ASSUME OperatingInv, [Next]_vars, ~enabled, enabled' PROVE CodeAccepted
    BY DEF CodeAccepted
  <2>1. Enable
    BY Zenon DEF Next, Ladder, SetMode, ForceMode, Move, AddRow, GoLive, Initiate, Refuse,
       Verify, Email, MarkConfirmed, Stop, StartWindDown, Disable, Complete, Panic, Breach,
       Tick, CloseTrade, Incident, Abort, vars, stateVars
  <2> QED
    BY <2>1 DEF Enable, OperatingInv, CodeSound
<1> QED
  BY <1>1, OperatingInductive, PTL DEF Spec, EnabledByCode

-----------------------------------------------------------------------------
(***************************************************************************)
(* Leaving paper is earned: the trades that the windows of mode_transitions*)
(* count as closed in paper did close while the mode was paper.  TradesInv *)
(* (OperatingModesInv) is inductive relative to OperatingInv.              *)
(***************************************************************************)

HIDE ModesAssumption

-----------------------------------------------------------------------------
(* Frames *)

\* Only a closing changes what is known of trades, only the clock the time.
LEMMA OnlyCloses ==
  ASSUME [Next]_vars, ~CloseTrade
  PROVE  UNCHANGED <<closes, inPaper>>
BY Zenon DEF Next, Ladder, SetMode, ForceMode, Move, AddRow, GoLive, Initiate, Refuse,
   Verify, Email, Enable, MarkConfirmed, Stop, StartWindDown, Disable, Complete, Panic, Breach,
   Tick, Incident, Abort, vars, worldVars, pastVars

LEMMA OnlyTicks ==
  ASSUME TypeOK, [Next]_vars
  PROVE  now' \in Nat /\ now <= now'
<1>1. CASE Tick
  BY <1>1 DEF Tick, TypeOK
<1>2. CASE ~Tick
  <2>1. UNCHANGED now
    BY <1>2, Zenon DEF Next, Ladder, SetMode, ForceMode, Move, AddRow, GoLive, Initiate,
       Refuse, Verify, Email, Enable, MarkConfirmed, Stop, StartWindDown, Disable, Complete,
       Panic, Breach, CloseTrade, Incident, Abort, vars
  <2> QED BY <2>1 DEF TypeOK
<1> QED BY <1>1, <1>2

\* A mode changes at a time at which no trade closes.
LEMMA MoveIsAlone ==
  ASSUME Ladder \/ \E a \in Actors : Verify(a)
  PROVE  NoCloseNow /\ UNCHANGED <<now, closes, inPaper>> /\ job'.at = now
<1>1. PICK a \in Actors \union {NoActor}, to \in Modes, kind \in Commands,
           p \in {0} \union DOMAIN pendings : Move(a, to, kind, p)
  BY DEF Ladder, SetMode, ForceMode, Verify, LatestPending, Modes, Commands
<1> QED BY <1>1, MoveEffect DEF Move, worldVars

\* The tables of trades and of changes have numbers for their times.
LEMMA Numbers ==
  ASSUME TypeOK
  PROVE  /\ now \in Nat /\ job.at \in Nat /\ inPaper \in Nat
         /\ Len(log) \in Nat /\ DOMAIN log = 1 .. Len(log)
         /\ \A i \in DOMAIN log : log[i].at \in Nat
         /\ Len(closes) \in Nat /\ DOMAIN closes = 1 .. Len(closes)
         /\ \A k \in DOMAIN closes : closes[k] \in Nat
<1>1. log \in Seq(Rows) /\ closes \in Seq(Nat)
  BY DEF TypeOK
<1>2. Len(log) \in Nat /\ DOMAIN log = 1 .. Len(log) /\ \A i \in DOMAIN log : log[i] \in Rows
  BY <1>1, LenProperties, ElementOfSeq
<1>3. /\ Len(closes) \in Nat /\ DOMAIN closes = 1 .. Len(closes)
      /\ \A k \in DOMAIN closes : closes[k] \in Nat
  BY <1>1, LenProperties, ElementOfSeq
<1>4. now \in Nat /\ job.at \in Nat /\ inPaper \in Nat
  BY DEF TypeOK, Jobs
<1> QED BY <1>2, <1>3, <1>4 DEF Rows

\* Of two sets of trades, the smaller counts no more.
LEMMA PaperTradesFinite ==
  ASSUME TypeOK
  PROVE  /\ IsFiniteSet(PaperTrades) /\ Cardinality(PaperTrades) \in Nat
         /\ \A T \in SUBSET PaperTrades :
              IsFiniteSet(T) /\ Cardinality(T) <= Cardinality(PaperTrades)
<1>1. IsFiniteSet(DOMAIN closes)
  BY Numbers, FS_Interval
<1>2. IsFiniteSet(PaperTrades)
  BY <1>1, FS_Subset DEF PaperTrades
<1> QED BY <1>2, FS_Subset, FS_CardinalityType

-----------------------------------------------------------------------------
(* The steps *)

LEMMA TimesInit == Init => TradesInv
<1> SUFFICES ASSUME Init PROVE TradesInv
  OBVIOUS
<1>1. DOMAIN log = {} /\ DOMAIN closes = {} /\ job.step # "audit" /\ inPaper = 0
  BY DEF Init, Idle
<1>2. PaperTrades = {}
  BY <1>1 DEF PaperTrades
<1> QED BY <1>1, <1>2, FS_EmptySet DEF TradesInv, TimesPast

\* Nothing on record comes to be of the future.
LEMMA TimesStep ==
  ASSUME OperatingInv, TradesInv, [Next]_vars
  PROVE  TimesPast'
<1>1. TypeOK /\ TypeOK' /\ now <= now' /\ now \in Nat /\ now' \in Nat
  BY OnlyTicks, TypeStep, Numbers DEF OperatingInv
<1>2. \A k \in DOMAIN closes' : closes'[k] <= now'
  <2>1. CASE CloseTrade
    <3>1. closes' = Append(closes, now) /\ closes \in Seq(Nat)
      BY <1>1, <2>1 DEF CloseTrade, TypeOK
    <3>2. /\ DOMAIN closes' = 1 .. Len(closes) + 1
          /\ \A k \in 1 .. Len(closes) : closes'[k] = closes[k]
          /\ closes'[Len(closes) + 1] = now
      BY <1>1, <3>1, AppendProperties
    <3> QED BY <1>1, <3>2, Numbers DEF TradesInv, TimesPast
  <2>2. CASE ~CloseTrade
    BY <1>1, <2>2, OnlyCloses, Numbers DEF TradesInv, TimesPast
  <2> QED BY <2>1, <2>2
<1>3. \A i \in DOMAIN log : log[i].at \in Nat /\ log[i].at <= now'
  BY <1>1, Numbers DEF TradesInv, TimesPast
<1>4. (\A i \in DOMAIN log' : log'[i].at <= now') /\ (job'.step = "audit" => job'.at <= now')
  <2>1. CASE Ladder \/ \E a \in Actors : Verify(a)
    BY <1>1, <1>3, <2>1, MoveLeavesAudit, MoveIsAlone
  <2>2. CASE AddRow
    <3>1. job.at <= now' /\ job.at \in Nat
      BY <1>1, <2>2, Numbers DEF AddRow, TradesInv, TimesPast
    <3>2. DOMAIN log' = 1 .. Len(log) + 1
      BY <1>1, <2>2, RowWritten, LenProperties
    <3> QED BY <1>1, <1>3, <2>2, <3>1, <3>2, RowWritten, Numbers
  <2>3. CASE Abort
    BY <1>3, <2>3, AbortEffect
  <2>4. CASE Quiet
    BY <1>1, <1>3, <2>4, Numbers DEF Quiet, TradesInv, TimesPast
  <2> QED BY <1>1, <2>1, <2>2, <2>3, <2>4, QuietSteps
<1> QED BY <1>2, <1>4 DEF TimesPast

\* A trade that closes is in a window into paper only in paper.
LEMMA CloseCounts ==
  ASSUME OperatingInv, TradesInv, CloseTrade, ~lost
  PROVE  Cardinality(PaperTrades') <= inPaper'
<1>1. /\ TypeOK /\ UNCHANGED <<log, job, now, lost>>
      /\ closes' = Append(closes, now) /\ closes \in Seq(Nat)
      /\ inPaper' = IF mode = "paper" THEN inPaper + 1 ELSE inPaper
  BY DEF CloseTrade, OperatingInv, TypeOK, tableVars
<1> PICK new \in Nat : new = Len(closes) + 1
  BY <1>1, Numbers
<1>2. /\ DOMAIN closes' = 1 .. new
      /\ \A k \in 1 .. Len(closes) : closes'[k] = closes[k]
      /\ closes'[new] = now
  BY <1>1, AppendProperties, Numbers
<1>3. ASSUME NEW k \in DOMAIN closes, InPaperWindow(k)' PROVE InPaperWindow(k)
  BY <1>1, <1>2, <1>3, Numbers DEF InPaperWindow
<1>4. InPaperWindow(new)' => mode = "paper"
  <2>1. CASE \E i \in DOMAIN log :
               /\ log[i].to = "paper"
               /\ IF i < Len(log) THEN now < log[i + 1].at
                                  ELSE job.step = "audit" => now < job.at
    <3>1. PICK i \in DOMAIN log :
             /\ log[i].to = "paper"
             /\ IF i < Len(log) THEN now < log[i + 1].at
                                ELSE job.step = "audit" => now < job.at
      BY <2>1
    <3>2. i = Len(log)
      BY <1>1, <3>1, Numbers DEF TradesInv, TimesPast
    <3>3. job.step # "audit"
      BY <1>1, <3>1, <3>2, Numbers DEF TradesInv, TimesPast
    <3>4. log # <<>>
      BY <3>2
    <3> QED BY <3>1, <3>2, <3>3, <3>4 DEF OperatingInv, AuditSound, LastRow
  <2>2. CASE job.step = "audit" /\ job.to = "paper"
    BY <2>2 DEF OperatingInv, AuditSound
  <2> QED BY <1>1, <1>2, <2>1, <2>2 DEF InPaperWindow
<1>5. IsFiniteSet(PaperTrades) /\ Cardinality(PaperTrades) <= inPaper
      /\ Cardinality(PaperTrades) \in Nat /\ inPaper \in Nat
  BY <1>1, PaperTradesFinite, Numbers DEF TradesInv
<1>6. CASE mode = "paper"
  <2>1. PaperTrades' \subseteq PaperTrades \union {new}
    BY <1>1, <1>2, <1>3, Numbers DEF PaperTrades
  <2>2. /\ IsFiniteSet(PaperTrades \union {new})
        /\ Cardinality(PaperTrades \union {new}) <= Cardinality(PaperTrades) + 1
        /\ Cardinality(PaperTrades \union {new}) \in Nat
    <3>1. /\ IsFiniteSet(PaperTrades \union {new})
          /\ Cardinality(PaperTrades \union {new})
               \in {Cardinality(PaperTrades), Cardinality(PaperTrades) + 1}
      BY <1>5, FS_AddElement
    <3> QED BY <1>5, <3>1
  <2>3. /\ Cardinality(PaperTrades') <= Cardinality(PaperTrades \union {new})
        /\ Cardinality(PaperTrades') \in Nat
    BY <2>1, <2>2, FS_Subset, FS_CardinalityType
  <2> QED BY <1>1, <1>5, <1>6, <2>2, <2>3
<1>7. CASE mode # "paper"
  <2>1. PaperTrades' \in SUBSET PaperTrades
    BY <1>1, <1>2, <1>3, <1>4, <1>7, Numbers DEF PaperTrades
  <2>2. Cardinality(PaperTrades') <= Cardinality(PaperTrades) /\ Cardinality(PaperTrades') \in Nat
    BY <1>1, <1>5, <2>1, PaperTradesFinite, FS_CardinalityType
  <2> QED BY <1>1, <1>5, <1>7, <2>2
<1> QED BY <1>6, <1>7

\* Every other step keeps a trade out of the windows it was not in.
LEMMA OthersCount ==
  ASSUME OperatingInv, TradesInv, [Next]_vars, ~CloseTrade, ~lost'
  PROVE  Cardinality(PaperTrades') <= inPaper'
<1>1. TypeOK /\ UNCHANGED <<closes, inPaper>>
  BY OnlyCloses DEF OperatingInv
<1>2. ASSUME NEW k \in DOMAIN closes, InPaperWindow(k)' PROVE ~lost /\ InPaperWindow(k)
  <2>1. CASE Ladder \/ \E a \in Actors : Verify(a)
    <3>1. /\ UNCHANGED <<log, lost>> /\ job.step # "audit" /\ job'.at = now
      BY <1>1, <2>1, MoveLeavesAudit, MoveIsAlone DEF Idle
    <3>2. closes[k] < now
      BY <1>1, <2>1, MoveIsAlone, Numbers DEF NoCloseNow, TradesInv, TimesPast
    <3> QED BY <1>1, <1>2, <3>1, <3>2, Numbers DEF InPaperWindow
  <2>2. CASE AddRow
    <3>1. job.step = "audit" /\ UNCHANGED lost /\ job'.step # "audit"
      BY <1>1, <2>2, RowWritten DEF AddRow
    <3>2. /\ DOMAIN log' = 1 .. Len(log) + 1 /\ Len(log') = Len(log) + 1
          /\ \A i \in 1 .. Len(log) : log'[i] = log[i]
          /\ log'[Len(log) + 1].to = job.to /\ log'[Len(log) + 1].at = job.at
      BY <1>1, <2>2, RowWritten, LenProperties, Numbers
    <3>3. PICK i \in 1 .. Len(log) + 1 :
             /\ log'[i].to = "paper" /\ log'[i].at <= closes[k]
             /\ i < Len(log) + 1 => closes[k] < log'[i + 1].at
      BY <1>1, <1>2, <3>1, <3>2 DEF InPaperWindow
    <3>4. CASE i = Len(log) + 1
      BY <3>1, <3>2, <3>3, <3>4 DEF InPaperWindow
    <3>5. CASE i < Len(log)
      <4>1. i \in DOMAIN log /\ i + 1 \in 1 .. Len(log)
        BY <1>1, <3>3, <3>5, Numbers
      <4>2. log'[i] = log[i] /\ log'[i + 1] = log[i + 1]
        BY <1>1, <3>2, <4>1, Numbers
      <4>3. i < Len(log) + 1
        BY <1>1, <3>5, Numbers
      <4> QED BY <3>1, <3>3, <4>1, <4>2, <4>3 DEF InPaperWindow
    <3>6. CASE i = Len(log)
      <4>1. i \in DOMAIN log /\ ~(i < Len(log)) /\ i < Len(log) + 1
        BY <1>1, <3>3, <3>6, Numbers
      <4>2. log'[i] = log[i] /\ log'[i + 1].at = job.at
        BY <1>1, <3>2, <3>6, <4>1, Numbers
      <4> QED BY <3>1, <3>3, <4>1, <4>2 DEF InPaperWindow
    <3>7. i < Len(log) \/ i = Len(log) \/ i = Len(log) + 1
      BY <1>1, <3>3, Numbers
    <3> QED BY <3>1, <3>4, <3>5, <3>6, <3>7
  <2>3. CASE Abort
    BY <1>1, <1>2, <2>3, AbortEffect DEF InPaperWindow
  <2>4. CASE Quiet
    <3>1. UNCHANGED <<log, lost>> /\ (job' = job \/ (job.step # "audit" /\ job'.step # "audit"))
      BY <2>4 DEF Quiet
    <3> QED BY <1>1, <1>2, <3>1 DEF InPaperWindow
  <2> QED BY <1>1, <2>1, <2>2, <2>3, <2>4, QuietSteps
<1>3. ~lost
  BY Zenon DEF Next, Ladder, SetMode, ForceMode, Move, AddRow, GoLive, Initiate, Refuse,
     Verify, Email, Enable, MarkConfirmed, Stop, StartWindDown, Disable, Complete, Panic,
     Breach, Tick, Incident, Abort, vars, pastVars
<1>4. PaperTrades' \in SUBSET PaperTrades
  BY <1>1, <1>2 DEF PaperTrades
<1>5. /\ Cardinality(PaperTrades') <= Cardinality(PaperTrades)
      /\ Cardinality(PaperTrades') \in Nat /\ Cardinality(PaperTrades) \in Nat
      /\ inPaper \in Nat
  BY <1>1, <1>4, PaperTradesFinite, FS_CardinalityType, Numbers
<1> QED BY <1>1, <1>3, <1>5 DEF TradesInv

LEMMA TradesStep == OperatingInv /\ TradesInv /\ [Next]_vars => TradesInv'
<1> SUFFICES ASSUME OperatingInv, TradesInv, [Next]_vars PROVE TradesInv'
  OBVIOUS
<1>1. CloseTrade => lost' = lost
  BY DEF CloseTrade
<1> QED BY <1>1, TimesStep, CloseCounts, OthersCount DEF TradesInv

-----------------------------------------------------------------------------
(* The theorem *)

\* Paper is left upwards, without force, only when enough trades have closed
\* while the mode was paper: no window of the log counts a trade of another mode.
THEOREM PaperMustBeEarned == Spec => PaperIsEarned
<1>1. OperatingInv /\ TradesInv /\ [Next]_vars =>
        [mode = "paper" /\ mode' = "semi_auto" /\ job'.kind = "mode" /\ ~lost
           => inPaper >= MinTrades]_vars
  <2> SUFFICES ASSUME OperatingInv, TradesInv, [Next]_vars, mode = "paper",
                      mode' = "semi_auto", job'.kind = "mode", ~lost
               PROVE  inPaper >= MinTrades
    OBVIOUS
  <2>1. PICK to \in Modes, reason \in BOOLEAN : SetMode(to, reason)
    BY OnlyMoves DEF OperatingInv
  <2>2. job = Idle /\ to = "semi_auto" /\ MayTransition("semi_auto", reason)
    BY <2>1 DEF SetMode, Move
  <2>3. Cardinality(ClosedIn("paper")) >= MinTrades
    BY <2>2 DEF MayTransition, Rank
  <2>4. ClosedIn("paper") \in SUBSET PaperTrades
    <3>1. job.step # "audit"
      BY <2>2 DEF Idle
    <3>2. \A i \in DOMAIN log : i < Len(log) \/ i = Len(log)
      BY Numbers DEF OperatingInv
    <3> QED BY <3>1, <3>2 DEF ClosedIn, PaperTrades, InPaperWindow
  <2>5. /\ Cardinality(ClosedIn("paper")) <= Cardinality(PaperTrades)
        /\ Cardinality(ClosedIn("paper")) \in Nat /\ Cardinality(PaperTrades) \in Nat
        /\ inPaper \in Nat
    BY <2>4, PaperTradesFinite, FS_CardinalityType, Numbers DEF OperatingInv
  <2> QED BY <2>3, <2>5, ModesAssumption DEF TradesInv
<1>2. Spec => []TradesInv
  BY TimesInit, TradesStep, OperatingInductive, PTL DEF Spec
<1> QED BY <1>1, <1>2, OperatingInductive, PTL DEF Spec, PaperIsEarned

=============================================================================
