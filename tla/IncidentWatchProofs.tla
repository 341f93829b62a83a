-------------------------- MODULE IncidentWatchProofs --------------------------
(***************************************************************************)
(* Proofs about IncidentWatch: WatchInv (IncidentWatchInv) is inductive.   *)
(* A step leaves what the rows tell as it was (Kept), adds one row         *)
(* (Added), or is a restart; the lemmas say what each of these does to the *)
(* conjuncts that speak of rows, and the actions are taken one by one for  *)
(* the others.                                                             *)
(***************************************************************************)
EXTENDS IncidentWatchInv, FiniteSetTheorems, TLAPS

-----------------------------------------------------------------------------
(* The rows of a step *)

\* Every row tells what it told; resolving one changes no more.
Kept ==
  /\ incidents' \in Seq(Rows) /\ Len(incidents') = Len(incidents)
  /\ \A i \in 1 .. Len(incidents) :
       /\ incidents'[i].type = incidents[i].type /\ incidents'[i].at = incidents[i].at
       /\ incidents'[i].of = incidents[i].of /\ incidents'[i].about = incidents[i].about
  /\ counter' = counter /\ booted' = booted

\* One row more, counted.
Added(type, of, about) ==
  /\ incidents' \in Seq(Rows) /\ Len(incidents') = Len(incidents) + 1
  /\ Len(incidents') <= MaxRows
  /\ \A i \in 1 .. Len(incidents) : incidents'[i] = incidents[i]
  /\ incidents'[Len(incidents) + 1] = Row(type, of, about)
  /\ counter' = [counter EXCEPT ![type] = @ + 1] /\ booted' = booted

LEMMA Indices ==
  ASSUME TypeOK
  PROVE  /\ DOMAIN incidents = 1 .. Len(incidents) /\ Len(incidents) \in Nat
         /\ \A i \in 1 .. Len(incidents) : incidents[i] \in Rows
BY DEF TypeOK

LEMMA UnchangedKept ==
  ASSUME TypeOK, UNCHANGED <<incidents, counter, booted>>
  PROVE  Kept
BY DEF TypeOK, Kept

LEMMA ResolveKept ==
  ASSUME TypeOK, NEW i \in 1 .. Len(incidents), Resolve(i)
  PROVE  Kept
<1>1. incidents[i] \in Rows /\ now \in Stamps
  BY Indices DEF TypeOK, Stamps
<1>2. [incidents[i] EXCEPT !.resolved = now] \in Rows
  BY <1>1 DEF Rows
<1>3. incidents' = [incidents EXCEPT ![i] = [incidents[i] EXCEPT !.resolved = now]]
  BY DEF Resolve
<1>4. incidents' \in Seq(Rows) /\ Len(incidents') = Len(incidents)
  BY <1>2, <1>3 DEF TypeOK
<1>5. \A j \in 1 .. Len(incidents) :
        incidents'[j] = IF j = i THEN [incidents[i] EXCEPT !.resolved = now] ELSE incidents[j]
  BY <1>3 DEF TypeOK
<1>6. [incidents[i] EXCEPT !.resolved = now].type = incidents[i].type
      /\ [incidents[i] EXCEPT !.resolved = now].at = incidents[i].at
      /\ [incidents[i] EXCEPT !.resolved = now].of = incidents[i].of
      /\ [incidents[i] EXCEPT !.resolved = now].about = incidents[i].about
  BY <1>1 DEF Rows
<1> QED BY <1>4, <1>5, <1>6 DEF Kept, Resolve

LEMMA EmitAdds ==
  ASSUME TypeOK, NEW type \in IncidentTypes, NEW of \in SUBSET Breakers, NEW about \in Stamps,
         Emit(type, of, about), booted' = booted
  PROVE  Added(type, of, about)
<1>1. Row(type, of, about) \in Rows
  BY DEF Row, Rows, TypeOK, Stamps, Never
<1>2. incidents \in Seq(Rows) /\ Len(incidents) \in Nat
  BY DEF TypeOK
<1>3. incidents' = Append(incidents, Row(type, of, about))
  BY DEF Emit
<1>4. incidents' \in Seq(Rows) /\ Len(incidents') = Len(incidents) + 1
  BY <1>1, <1>2, <1>3
<1>5. /\ \A i \in 1 .. Len(incidents) : incidents'[i] = incidents[i]
      /\ incidents'[Len(incidents) + 1] = Row(type, of, about)
  BY <1>1, <1>2, <1>3
<1> QED BY <1>2, <1>4, <1>5, WatchAssumption DEF Added, Emit

-----------------------------------------------------------------------------
(* The conjuncts about rows *)

LEMMA KeptTells ==
  ASSUME TypeOK, Kept
  PROVE  /\ DOMAIN incidents' = 1 .. Len(incidents)
         /\ \A t \in IncidentTypes : \A s : Reported(t, s)' = Reported(t, s)
<1>1. DOMAIN incidents' = 1 .. Len(incidents)
  BY DEF Kept
<1>2. booted \in Nat /\ Len(incidents) \in Nat /\ Len(incidents') = Len(incidents)
      /\ booted' = booted
  BY DEF TypeOK, Kept
<1>3. \A i \in booted + 1 .. Len(incidents) : i \in 1 .. Len(incidents)
  BY <1>2
<1>4. \A t, s : Reported(t, s)' = Reported(t, s)
  BY <1>2, <1>3, Zenon DEF Kept, Reported
<1> QED BY <1>1, <1>4

LEMMA KeptRows ==
  ASSUME WatchInv, Kept
  PROVE  RowsSound' /\ CounterMatchesRows'
<1>1. TypeOK
  BY DEF WatchInv
<1>2. RowsSound'
  <2>1. \A i \in 1 .. Len(incidents) : RowSound(incidents[i])' 
    <3> TAKE i \in 1 .. Len(incidents)
    <3>1. RowSound(incidents[i])
      BY Indices, <1>1 DEF WatchInv, RowsSound
    <3>2. /\ incidents'[i].type = incidents[i].type /\ incidents'[i].at = incidents[i].at
          /\ incidents'[i].of = incidents[i].of /\ incidents'[i].about = incidents[i].about
      BY DEF Kept
    <3> QED BY <3>1, <3>2 DEF RowSound
  <2> QED BY <2>1, <1>1, KeptTells DEF RowsSound
<1>3. CounterMatchesRows'
  <2>1. \A t \in IncidentTypes :
          {i \in booted' + 1 .. Len(incidents') : incidents'[i].type = t}
            = {i \in booted + 1 .. Len(incidents) : incidents[i].type = t}
    <3>1. booted \in Nat /\ Len(incidents) \in Nat
      BY <1>1 DEF TypeOK
    <3>2. \A i \in booted + 1 .. Len(incidents) : i \in 1 .. Len(incidents)
      BY <3>1
    <3> QED BY <3>2, Zenon DEF Kept
  <2>2. counter' = counter
    BY DEF Kept
  <2> QED BY <2>1, <2>2 DEF WatchInv, CounterMatchesRows
<1> QED BY <1>2, <1>3

LEMMA AddedRows ==
  ASSUME WatchInv, NEW type \in IncidentTypes, NEW of \in SUBSET Breakers,
         NEW about \in Stamps, Added(type, of, about), RowSound(Row(type, of, about))
  PROVE  RowsSound' /\ CounterMatchesRows' /\ counter' \in [IncidentTypes -> 0 .. MaxRows]
<1>1. TypeOK
  BY DEF WatchInv
<1> DEFINE n == Len(incidents)
<1>2. n \in Nat /\ booted \in Nat /\ booted <= n /\ booted' = booted
  BY <1>1 DEF TypeOK, Added, WatchInv, PastSound
<1>3. DOMAIN incidents' = 1 .. n + 1
  BY <1>2 DEF Added
<1>4. RowsSound'
  <2>1. \A i \in 1 .. n : RowSound(incidents'[i])
    BY <1>1, Indices DEF Added, WatchInv, RowsSound
  <2>2. RowSound(incidents'[n + 1])
    BY DEF Added
  <2>3. \A i \in 1 .. n + 1 : i \in 1 .. n \/ i = n + 1
    BY <1>2
  <2>4. \A i \in 1 .. n + 1 : RowSound(incidents'[i])
    BY <2>1, <2>2, <2>3
  <2> QED BY <2>4, <1>3 DEF RowsSound, RowSound
<1> DEFINE Old(t) == {i \in booted + 1 .. n : incidents[i].type = t}
           New(t) == {i \in booted' + 1 .. Len(incidents') : incidents'[i].type = t}
<1>5. Row(type, of, about).type = type
  BY DEF Row
<1>6. \A t : New(t) = IF t = type THEN Old(t) \cup {n + 1} ELSE Old(t)
  <2> TAKE t
  <2>1. incidents'[n + 1].type = type /\ Len(incidents') = n + 1
    BY <1>5 DEF Added
  <2>2. \A i \in 1 .. n : incidents'[i] = incidents[i]
    BY DEF Added
  <2>3. \A i \in booted' + 1 .. Len(incidents') :
          (i \in booted + 1 .. n /\ incidents'[i] = incidents[i]) \/ i = n + 1
    BY <2>1, <2>2, <1>2
  <2>4. \A i \in booted + 1 .. n :
           i \in booted' + 1 .. Len(incidents') /\ incidents'[i] = incidents[i]
    BY <2>1, <2>2, <1>2
  <2>5. n + 1 \in booted' + 1 .. Len(incidents')
    BY <2>1, <1>2
  <2> HIDE DEF n
  <2>6. CASE t = type
    <3>1. New(t) = Old(t) \cup {n + 1}
      BY <2>1, <2>3, <2>4, <2>5, <2>6, Zenon
    <3> QED BY <3>1, <2>6
  <2>7. CASE t # type
    <3>1. New(t) = Old(t)
      BY <2>1, <2>3, <2>4, <2>5, <2>7, Zenon
    <3> QED BY <3>1, <2>7
  <2> QED BY <2>6, <2>7
<1>7. \A t : IsFiniteSet(Old(t)) /\ Cardinality(Old(t)) \in Nat
             /\ Cardinality(Old(t)) <= n /\ n + 1 \notin Old(t)
  <2> TAKE t
  <2>1. Old(t) \in SUBSET (1 .. n) /\ n + 1 \notin Old(t)
    BY <1>2
  <2>2. IsFiniteSet(1 .. n) /\ Cardinality(1 .. n) = n
    <3> HIDE DEF n
    <3>1. Cardinality(1 .. n) = IF 1 > n THEN 0 ELSE n - 1 + 1
      BY <1>2, FS_Interval
    <3> QED BY <3>1, <1>2, FS_Interval
  <2>3. IsFiniteSet(Old(t)) /\ Cardinality(Old(t)) <= n
    BY <2>1, <2>2, FS_Subset
  <2> QED BY <2>1, <2>3, FS_CardinalityType
<1>8. \A t \in IncidentTypes : counter[t] = Cardinality(Old(t))
  BY DEF WatchInv, CounterMatchesRows
<1>9. n + 1 <= MaxRows /\ MaxRows \in Nat
  BY WatchAssumption DEF Added
<1>10. counter' = [t \in IncidentTypes |-> IF t = type THEN counter[t] + 1 ELSE counter[t]]
  BY <1>1 DEF Added, TypeOK
<1>11. \A t \in IncidentTypes : counter'[t] = Cardinality(New(t))
  <2> TAKE t \in IncidentTypes
  <2>1. CASE t = type
    <3> HIDE DEF New, Old, n
    <3>1. Cardinality(Old(t) \cup {n + 1}) = Cardinality(Old(t)) + 1
      BY <1>7, FS_AddElement
    <3> QED BY <3>1, <2>1, <1>6, <1>8, <1>10
  <2>2. CASE t # type
    <3> HIDE DEF New, Old
    <3> QED BY <2>2, <1>6, <1>8, <1>10
  <2> QED BY <2>1, <2>2
<1>12. counter' \in [IncidentTypes -> 0 .. MaxRows]
  <2>1. \A t \in IncidentTypes : counter[t] \in Nat /\ counter[t] <= n
    <3> HIDE DEF Old, n
    <3> QED BY <1>7, <1>8
  <2> QED BY <2>1, <1>2, <1>9, <1>10
<1> QED BY <1>4, <1>11, <1>12 DEF CounterMatchesRows

LEMMA BreakersKept ==
  ASSUME WatchInv, Kept, UNCHANGED breakerVars
  PROVE  BreakersSound'
<1>1. TypeOK /\ BreakersSound /\ DOMAIN incidents = 1 .. Len(incidents)
  BY Indices DEF WatchInv
<1>2. DOMAIN incidents' = DOMAIN incidents
  BY <1>1, KeptTells
<1>3. \A i \in DOMAIN incidents :
        /\ incidents'[i].type = incidents[i].type /\ incidents'[i].of = incidents[i].of
        /\ incidents'[i].about = incidents[i].about
  BY <1>1 DEF Kept
<1>4. opened' = opened /\ told' = told /\ check' = check
  BY DEF breakerVars
<1>5. \A i \in DOMAIN incidents', b \in Breakers :
        opened'[b] # Never /\ Tells(i, b, opened[b])' => told'[b] = opened'[b]
  BY <1>1, <1>2, <1>3, <1>4 DEF BreakersSound, Tells
<1>6. \A b \in Breakers : check'.emitting = {b} =>
        /\ check'.about # Never /\ check'.at - check'.about >= OpenThreshold
        /\ \A i \in DOMAIN incidents' : ~Tells(i, b, check.about)'
  BY <1>1, <1>2, <1>3, <1>4 DEF BreakersSound, Tells
<1>7. \A i, j \in DOMAIN incidents', b \in Breakers :
        Tells(i, b, incidents[i].about)' /\ Tells(j, b, incidents[i].about)' => i = j
  BY <1>1, <1>2, <1>3 DEF BreakersSound, Tells
<1> QED BY <1>5, <1>6, <1>7, Zenon DEF BreakersSound, Tells

LEMMA OutageKept ==
  ASSUME WatchInv, Kept, UNCHANGED supVars
  PROVE  OutageSound'
<1>1. TypeOK /\ OutageSound /\ "reconcile_failed" \in IncidentTypes
  BY DEF WatchInv, IncidentTypes
<1>2. \A s : Reported("reconcile_failed", s)' = Reported("reconcile_failed", s)
  BY <1>1, KeptTells
<1>3. since' = since /\ emitted' = emitted
  BY DEF supVars
<1>4. Reported("reconcile_failed", since)' = Reported("reconcile_failed", since)
  <2>1. PICK s : s = since
    OBVIOUS
  <2>2. Reported("reconcile_failed", s)' = Reported("reconcile_failed", s)
    BY <1>2, Zenon
  <2> QED BY <1>3, <2>1, <2>2, Zenon DEF Reported
<1> QED BY <1>1, <1>3, <1>4, Zenon DEF OutageSound

\* A row is not from the future, and a step makes nothing older.
LEMMA PastKept ==
  ASSUME WatchInv, Kept, now' = now \/ Tick
  PROVE  /\ \A i \in DOMAIN incidents' : incidents'[i].at <= now'
         /\ booted' <= Len(incidents')
         /\ now \in Nat /\ now <= now' /\ now' \in Nat
<1>1. TypeOK /\ PastSound /\ DOMAIN incidents = 1 .. Len(incidents)
  BY Indices DEF WatchInv
<1>2. now \in Nat /\ now <= now' /\ now' \in Nat
  BY <1>1, WatchAssumption DEF TypeOK, Times, Tick
<1>3. DOMAIN incidents' = DOMAIN incidents
  BY <1>1, KeptTells
<1>4. \A i \in DOMAIN incidents : incidents'[i].at = incidents[i].at /\ incidents[i].at \in Nat
  <2>1. \A i \in DOMAIN incidents : incidents[i] \in Rows
    BY <1>1, Indices
  <2>2. \A r \in Rows : r.at \in Nat
    BY WatchAssumption DEF Rows, Times
  <2> QED BY <1>1, <2>1, <2>2 DEF Kept
<1>5. \A i \in DOMAIN incidents' : incidents'[i].at <= now'
  BY <1>1, <1>2, <1>3, <1>4 DEF PastSound
<1> QED BY <1>1, <1>2, <1>5 DEF PastSound, Kept

-----------------------------------------------------------------------------
(* The steps that store nothing *)

LEMMA PassType ==
  ASSUME WatchInv, StartPass \/ RunPass \/ OperatorPass \/ Feed
  PROVE  TypeOK'
<1>1. TypeOK /\ "scheduler" \in {"nobody", "scheduler", "operator"}
  BY DEF WatchInv
<1>2. now \in Stamps
  BY <1>1 DEF TypeOK, Stamps
<1>3. CASE StartPass
  BY <1>1, <1>2, <1>3 DEF StartPass, TypeOK, PassSteps, supVars, breakerVars, rowVars, boundVars
<1>4. CASE RunPass
  BY <1>1, <1>4, WatchAssumption DEF RunPass, PersistRun, TypeOK, PassSteps, Runs, supVars,
     breakerVars, rowVars
<1>5. CASE OperatorPass
  BY <1>1, <1>2, <1>5 DEF OperatorPass, PersistRun, TypeOK, PassSteps, Runs, supVars,
     breakerVars, rowVars, boundVars
<1>6. CASE Feed
  BY <1>1, <1>2, <1>6 DEF Feed, Mark, TypeOK, PassSteps, Stamps, supVars, breakerVars,
     rowVars, boundVars
<1> QED BY <1>3, <1>4, <1>5, <1>6

LEMMA PassKept ==
  ASSUME WatchInv, StartPass \/ RunPass \/ OperatorPass \/ Feed
  PROVE  /\ Kept /\ RowsSound' /\ CounterMatchesRows' /\ BreakersSound'
         /\ now' = now /\ UNCHANGED breakerVars
<1>1. UNCHANGED <<now, breakerVars, incidents, counter, booted>>
  BY DEF StartPass, RunPass, OperatorPass, Feed, breakerVars, rowVars
<1>2. Kept
  BY <1>1, UnchangedKept DEF WatchInv
<1> QED BY <1>1, <1>2, KeptRows, BreakersKept

\* A streak that begins now has no row: rows are about earlier ones.
LEMMA NewStreakUntold ==
  ASSUME WatchInv
  PROVE  Reported("reconcile_failed", now) = {}
<1> SUFFICES ASSUME NEW i \in Reported("reconcile_failed", now) PROVE FALSE
  OBVIOUS
<1>1. TypeOK /\ PastSound /\ RowsSound
  BY DEF WatchInv
<1>2. /\ i \in booted + 1 .. Len(incidents) /\ incidents[i].type = "reconcile_failed"
      /\ incidents[i].about = now
  BY DEF Reported
<1>3. RowSound(incidents[i]) /\ incidents[i].at <= now /\ incidents[i] \in Rows
  <2>1. i \in 1 .. Len(incidents)
    BY <1>1, <1>2 DEF TypeOK
  <2> QED BY <1>1, <2>1, Indices DEF RowsSound, PastSound
<1>4. incidents[i].at - now >= Threshold
  BY <1>2, <1>3 DEF RowSound
<1>5. now \in Int /\ incidents[i].at \in Int
  BY <1>1, <1>3, WatchAssumption DEF TypeOK, Rows, Times
<1> QED BY <1>3, <1>4, <1>5, WatchAssumption

LEMMA PassStreak ==
  ASSUME WatchInv, StartPass \/ RunPass \/ OperatorPass \/ Feed
  PROVE  PastSound' /\ StreakSound' /\ OutageSound' /\ RunSound'
<1>1. TypeOK /\ PastSound /\ StreakSound /\ OutageSound /\ RunSound
  BY DEF WatchInv
<1>2. Kept /\ now' = now /\ opened' = opened /\ check' = check
  BY PassKept DEF breakerVars
<1>3. /\ \A i \in DOMAIN incidents' : incidents'[i].at <= now'
      /\ booted' <= Len(incidents') /\ now \in Int
  BY <1>2, PastKept
<1>4. CASE StartPass
  <2>1. UNCHANGED supVars /\ pass' = "run" /\ pass = "idle" /\ ticked' = now
        /\ UNCHANGED <<reconciled, lastRun, faults>>
    BY <1>4 DEF StartPass, boundVars
  <2>2. PastSound'
    BY <1>1, <1>2, <1>3, <2>1 DEF PastSound, supVars
  <2>3. OutageSound'
    BY <1>2, <2>1, OutageKept
  <2>4. StreakSound'
    BY <1>1, <1>2, <2>1 DEF StreakSound, supVars
  <2>5. RunSound'
    BY <1>1, <2>1 DEF RunSound, supVars
  <2> QED BY <2>2, <2>3, <2>4, <2>5
<1>5. CASE RunPass
  <2>1. UNCHANGED supVars /\ pass' = "feed" /\ pass \in {"run", "passed"}
        /\ UNCHANGED <<reconciled, ticked>>
    BY <1>5 DEF RunPass
  <2>2. PastSound'
    <3>1. lastRun'.at <= now
      BY <1>1, <1>5 DEF RunPass, PersistRun, PastSound
    <3> QED BY <1>1, <1>2, <1>3, <2>1, <3>1 DEF PastSound, supVars
  <2>3. OutageSound'
    BY <1>2, <2>1, OutageKept
  <2>4. StreakSound'
    BY <1>1, <1>2, <2>1 DEF StreakSound, supVars
  <2>5. RunSound'
    BY <1>1, <1>5, <2>1, WatchAssumption DEF RunSound, RunPass, PersistRun, supVars, TypeOK
  <2> QED BY <2>2, <2>3, <2>4, <2>5
<1>6. CASE OperatorPass
  <2>1. UNCHANGED supVars /\ UNCHANGED <<reconciled, ticked, success>>
        /\ pass' \in {pass, "passed"} /\ lastRun'.by = "operator" /\ lastRun'.at = now
    BY <1>6 DEF OperatorPass, PersistRun
  <2>2. PastSound'
    BY <1>1, <1>2, <1>3, <2>1 DEF PastSound, supVars
  <2>3. OutageSound'
    BY <1>2, <2>1, OutageKept
  <2>4. StreakSound'
    BY <1>1, <1>2, <2>1 DEF StreakSound, supVars
  <2>5. RunSound'
    BY <2>1 DEF RunSound
  <2> QED BY <2>2, <2>3, <2>4, <2>5
<1>7. CASE Feed
  <2>1. UNCHANGED <<ticked, lastRun, faults>> /\ pass = "feed"
        /\ pass' \in {"idle", "emit"} /\ now \in Nat
        /\ reconciled' = IF success THEN now ELSE reconciled
    BY <1>1, <1>7 DEF Feed, Mark, boundVars, TypeOK, Times
  <2>2. since' \in {since, now, Never}
    BY <1>7 DEF Feed
  <2>3. PastSound'
    BY <1>1, <1>2, <1>3, <2>1, <2>2 DEF PastSound, Never
  <2>4. CASE success
    <3>1. since' = Never /\ emitted' = FALSE /\ pass' = "idle"
      BY <1>7, <2>4 DEF Feed
    <3> QED BY <2>1, <2>3, <3>1, <1>1 DEF StreakSound, OutageSound, RunSound
  <2>5. CASE ~success
    <3>1. /\ pass' = IF DueIncident THEN "emit" ELSE "idle"
          /\ since' = IF since = Never THEN now ELSE since
          /\ emitted' = emitted /\ reconciled' = reconciled
      BY <1>7, <2>1, <2>5 DEF Feed
    <3>2. StreakSound'
      BY <1>1, <1>2, <2>1, <3>1 DEF StreakSound, DueIncident, PastSound
    <3>3. RunSound'
      BY <1>1, <2>1, <2>5, <3>1 DEF RunSound, PastSound
    <3>4. OutageSound'
      <4>1. CASE since = Never
        <5>1. Reported("reconcile_failed", now) = {} /\ since' = now /\ ~emitted'
          BY <1>1, <3>1, <4>1, NewStreakUntold DEF StreakSound
        <5>2. Reported("reconcile_failed", now)' = {}
          <6>1. \A s : Reported("reconcile_failed", s)' = Reported("reconcile_failed", s)
            BY <1>1, <1>2, KeptTells DEF IncidentTypes
          <6> QED BY <5>1, <6>1, <1>2
        <5> QED BY <5>1, <5>2, <1>2 DEF OutageSound, Reported
      <4>2. CASE since # Never
        BY <1>2, <3>1, <4>2, OutageKept DEF supVars
      <4> QED BY <4>1, <4>2
    <3> QED BY <2>3, <3>2, <3>3, <3>4
  <2> QED BY <2>4, <2>5
<1> QED BY <1>4, <1>5, <1>6, <1>7

LEMMA PassPreserves ==
  ASSUME WatchInv, StartPass \/ RunPass \/ OperatorPass \/ Feed
  PROVE  WatchInv'
BY PassType, PassKept, PassStreak DEF WatchInv

\* What a step of the breakers that stores nothing leaves alone.
LEMMA RegistryKept ==
  ASSUME WatchInv, NEW b \in Breakers,
         OpenBreaker(b) \/ CloseBreaker(b) \/ StartCheck \/ VisitBreaker(b)
  PROVE  /\ Kept /\ RowsSound' /\ CounterMatchesRows'
         /\ StreakSound' /\ OutageSound' /\ RunSound'
         /\ UNCHANGED <<now, jobVars, supVars, incidents, booted, boundVars>>
<1>1. UNCHANGED <<now, jobVars, supVars, incidents, counter, booted, boundVars>>
  BY DEF OpenBreaker, CloseBreaker, StartCheck, VisitBreaker, rowVars
<1>2. Kept
  BY <1>1, UnchangedKept DEF WatchInv
<1>3. StreakSound' /\ RunSound'
  BY <1>1 DEF WatchInv, StreakSound, RunSound, jobVars, supVars, boundVars
<1> QED BY <1>1, <1>2, <1>3, KeptRows, OutageKept

\* No incident is about an opening that begins now.
LEMMA NewOpeningUntold ==
  ASSUME WatchInv, NEW b \in Breakers, NEW i \in DOMAIN incidents
  PROVE  ~Tells(i, b, now)
<1>1. TypeOK /\ PastSound /\ RowsSound
  BY DEF WatchInv
<1>2. RowSound(incidents[i]) /\ incidents[i].at <= now /\ incidents[i] \in Rows
  BY <1>1, Indices DEF RowsSound, PastSound
<1> QED BY <1>1, <1>2, WatchAssumption DEF Tells, RowSound, TypeOK, Rows, Times

LEMMA RegistryPreserves ==
  ASSUME WatchInv, NEW b \in Breakers,
         OpenBreaker(b) \/ CloseBreaker(b) \/ StartCheck \/ VisitBreaker(b)
  PROVE  WatchInv'
<1>1. TypeOK /\ PastSound /\ BreakersSound
  BY DEF WatchInv
<1>2. UNCHANGED <<now, incidents, booted>> /\ now \in Stamps /\ now \in Nat
  BY <1>1, RegistryKept DEF TypeOK, Stamps, Times
<1>3. \A i, c, t : Tells(i, c, t)' = Tells(i, c, t)
  BY <1>2, Zenon DEF Tells
<1>4. UNCHANGED <<pass, success, ticked, reconciled, lastRun, since, emitted, counter,
                  faults, crashes>>
  BY RegistryKept DEF jobVars, supVars, boundVars, Kept
<1>5. CASE OpenBreaker(b)
  <2>1. /\ opened' = [opened EXCEPT ![b] = now] /\ told' = [told EXCEPT ![b] = Never]
        /\ check' = check
    BY <1>5 DEF OpenBreaker
  <2>2. TypeOK'
    BY <1>1, <1>2, <1>4, <2>1 DEF TypeOK, Stamps
  <2>3. PastSound'
    BY <1>1, <1>2, <1>4, <2>1 DEF PastSound, TypeOK
  <2>4. \A i \in DOMAIN incidents, c \in Breakers :
          opened'[c] # Never /\ Tells(i, c, opened'[c]) => told'[c] = opened'[c]
    <3>1. \A i \in DOMAIN incidents : ~Tells(i, b, now)
      BY NewOpeningUntold
    <3> QED BY <1>1, <2>1, <3>1 DEF BreakersSound, TypeOK
  <2>5. BreakersSound'
    BY <1>1, <1>2, <2>1, <2>4 DEF BreakersSound, Tells
  <2> QED BY <2>2, <2>3, <2>5, RegistryKept DEF WatchInv
<1>6. CASE CloseBreaker(b)
  <2>1. /\ opened' = [opened EXCEPT ![b] = Never] /\ told' = [told EXCEPT ![b] = Never]
        /\ check' = check
    BY <1>6 DEF CloseBreaker
  <2>2. TypeOK'
    BY <1>1, <1>2, <1>4, <2>1 DEF TypeOK, Stamps
  <2>3. PastSound'
    BY <1>1, <1>2, <1>4, <2>1 DEF PastSound, TypeOK, Never
  <2>4. \A c \in Breakers :
          /\ opened'[c] = IF c = b THEN Never ELSE opened[c]
          /\ c # b => told'[c] = told[c]
    <3>1. \A c \in Breakers : opened'[c] = IF c = b THEN Never ELSE opened[c]
      BY <1>1, <2>1 DEF TypeOK
    <3>2. \A c \in Breakers : c # b => told'[c] = told[c]
      BY <1>1, <2>1 DEF TypeOK
    <3> QED BY <3>1, <3>2
  <2>5. BreakersSound'
    BY <1>1, <1>2, <2>1, <2>4 DEF BreakersSound, Tells
  <2> QED BY <2>2, <2>3, <2>5, RegistryKept DEF WatchInv
<1>7. CASE StartCheck
  <2>1. /\ check' = [todo |-> Breakers, at |-> now, emitting |-> {}, about |-> Never]
        /\ opened' = opened /\ told' = told
    BY <1>7 DEF StartCheck, NoCheck
  <2>2. TypeOK'
    BY <1>1, <1>2, <1>4, <2>1 DEF TypeOK, Stamps
  <2>3. PastSound'
    BY <1>1, <1>2, <1>4, <2>1 DEF PastSound
  <2>4. BreakersSound'
    BY <1>1, <1>2, <2>1 DEF BreakersSound, Tells
  <2> QED BY <2>2, <2>3, <2>4, RegistryKept DEF WatchInv
<1>8. CASE VisitBreaker(b)
  <2>1. opened' = opened /\ told' = told
    BY <1>8 DEF VisitBreaker
  <2>2. \/ check' = NoCheck
        \/ check' = [check EXCEPT !.todo = @ \ {b}] /\ check.emitting = {}
        \/ check' = [check EXCEPT !.todo = @ \ {b}, !.emitting = {b}, !.about = opened[b]]
           /\ Prolonged(b)
    BY <1>8 DEF VisitBreaker
  <2>3. check' \in [todo : SUBSET Breakers, at : Stamps, emitting : SUBSET Breakers,
                    about : Stamps]
        /\ check'.at \in {check.at, Never}
    <3>1. check \in [todo : SUBSET Breakers, at : Stamps, emitting : SUBSET Breakers,
                     about : Stamps]
          /\ opened[b] \in Stamps
      BY <1>1 DEF TypeOK
    <3>2. NoCheck \in [todo : SUBSET Breakers, at : Stamps, emitting : SUBSET Breakers,
                       about : Stamps]
          /\ NoCheck.at = Never
      BY DEF NoCheck, Stamps
    <3>3. CASE check' = NoCheck
      BY <3>2, <3>3
    <3>4. CASE check' = [check EXCEPT !.todo = @ \ {b}]
      BY <3>1, <3>4
    <3>5. CASE check' = [check EXCEPT !.todo = @ \ {b}, !.emitting = {b}, !.about = opened[b]]
      BY <3>1, <3>5
    <3> QED BY <2>2, <3>3, <3>4, <3>5
  <2>4. TypeOK'
    BY <1>1, <1>2, <1>4, <2>1, <2>3 DEF TypeOK
  <2>5. check'.at <= now
    BY <1>1, <1>2, <2>3 DEF PastSound, Never
  <2>6. PastSound'
    BY <1>1, <1>2, <1>4, <2>1, <2>5 DEF PastSound
  <2>7. \A c \in Breakers : check'.emitting = {c} =>
          /\ check'.about # Never /\ check'.at - check'.about >= OpenThreshold
          /\ \A i \in DOMAIN incidents : ~Tells(i, c, check'.about)
    <3>1. CASE check' = NoCheck
      BY <3>1 DEF NoCheck
    <3>2. CASE check' = [check EXCEPT !.todo = @ \ {b}] /\ check.emitting = {}
      BY <3>2, <1>1 DEF TypeOK
    <3>3. CASE /\ check' = [check EXCEPT !.todo = @ \ {b}, !.emitting = {b},
                                        !.about = opened[b]]
               /\ Prolonged(b)
      <4>1. check'.emitting = {b} /\ check'.about = opened[b] /\ check'.at = check.at
        BY <3>3, <1>1 DEF TypeOK
      <4>2. \A i \in DOMAIN incidents : ~Tells(i, b, opened[b])
        BY <1>1, <3>3 DEF BreakersSound, Prolonged
      <4> QED BY <3>3, <4>1, <4>2 DEF Prolonged
    <3> QED BY <2>2, <3>1, <3>2, <3>3
  <2>8. BreakersSound'
    BY <1>1, <1>2, <2>1, <2>7 DEF BreakersSound, Tells
  <2> QED BY <2>4, <2>6, <2>8, RegistryKept DEF WatchInv
<1> QED BY <1>5, <1>6, <1>7, <1>8

LEMMA TickPreserves ==
  ASSUME WatchInv, Tick
  PROVE  WatchInv'
<1>1. TypeOK /\ PastSound /\ StreakSound /\ RunSound /\ now' = now + 1 /\ now < Horizon
  BY DEF WatchInv, Tick
<1>2. UNCHANGED <<pass, success, ticked, reconciled, lastRun, since, emitted, opened, told,
                  check, incidents, counter, booted, faults, crashes>>
  BY DEF Tick, jobVars, supVars, breakerVars, rowVars, boundVars
<1>3. Kept
  BY <1>1, <1>2, UnchangedKept
<1>4. TypeOK'
  BY <1>1, <1>2, WatchAssumption DEF TypeOK, Times
<1>5. \A t \in Stamps : t \in Int
  BY WatchAssumption DEF Stamps, Times, Never
<1>6. PastSound'
  <2>1. \A t \in Stamps : t <= now => t <= now'
    BY <1>1, <1>5 DEF TypeOK, Times
  <2>2. /\ ticked \in Stamps /\ reconciled \in Stamps /\ since \in Stamps
        /\ check.at \in Stamps /\ lastRun.at \in Stamps
        /\ \A b \in Breakers : opened[b] \in Stamps
    BY <1>1 DEF TypeOK, Runs
  <2>3. /\ \A i \in DOMAIN incidents' : incidents'[i].at <= now'
        /\ booted' <= Len(incidents')
    BY <1>3, PastKept
  <2> QED BY <1>1, <1>2, <2>1, <2>2, <2>3 DEF PastSound
<1>7. StreakSound' /\ RunSound'
  <2>1. since \in Int /\ now \in Int
    BY <1>1, <1>5 DEF TypeOK, Times
  <2>2. StreakSound'
    BY <1>1, <1>2, <2>1, WatchAssumption DEF StreakSound
  <2> QED BY <1>1, <1>2, <2>2 DEF RunSound
<1>8. OutageSound' /\ BreakersSound' /\ RowsSound' /\ CounterMatchesRows'
  BY <1>2, <1>3, OutageKept, BreakersKept, KeptRows DEF supVars, breakerVars
<1> QED BY <1>4, <1>6, <1>7, <1>8 DEF WatchInv

LEMMA ResolvePreserves ==
  ASSUME WatchInv, NEW i \in 1 .. Len(incidents), Resolve(i)
  PROVE  WatchInv'
<1>1. TypeOK /\ PastSound /\ StreakSound /\ RunSound
  BY DEF WatchInv
<1>2. UNCHANGED <<now, pass, success, ticked, reconciled, lastRun, since, emitted, opened,
                  told, check, counter, booted, faults, crashes>>
  BY DEF Resolve, jobVars, supVars, breakerVars, boundVars
<1>3. Kept
  BY <1>1, ResolveKept
<1>4. TypeOK'
  BY <1>1, <1>2, <1>3 DEF TypeOK, Kept
<1>5. PastSound' /\ StreakSound' /\ RunSound'
  <2>1. /\ \A j \in DOMAIN incidents' : incidents'[j].at <= now'
        /\ booted' <= Len(incidents')
    BY <1>2, <1>3, PastKept
  <2> QED BY <1>1, <1>2, <2>1 DEF PastSound, StreakSound, RunSound
<1>6. OutageSound' /\ BreakersSound' /\ RowsSound' /\ CounterMatchesRows'
  BY <1>2, <1>3, OutageKept, BreakersKept, KeptRows DEF supVars, breakerVars
<1> QED BY <1>4, <1>5, <1>6 DEF WatchInv

-----------------------------------------------------------------------------
(* The steps that store an incident *)

LEMMA AddedTells ==
  ASSUME WatchInv, NEW type \in IncidentTypes, NEW of \in SUBSET Breakers,
         NEW about \in Stamps, Added(type, of, about)
  PROVE  /\ DOMAIN incidents' = 1 .. Len(incidents) + 1
         /\ \A s : s = about => Reported(type, s)' = Reported(type, s) \cup {Len(incidents) + 1}
         /\ \A t, s : t # type => Reported(t, s)' = Reported(t, s)
<1> DEFINE n == Len(incidents)
<1>1. n \in Nat /\ booted \in Nat /\ booted <= n /\ booted' = booted
  BY DEF WatchInv, PastSound, TypeOK, Added
<1>2. DOMAIN incidents' = 1 .. n + 1 /\ Len(incidents') = n + 1
  BY <1>1 DEF Added
<1>3. \A i \in 1 .. n : incidents'[i] = incidents[i]
  BY DEF Added
<1>4. /\ incidents'[n + 1].type = type /\ incidents'[n + 1].of = of
      /\ incidents'[n + 1].about = about
  BY DEF Added, Row
<1>5. \A i \in booted' + 1 .. Len(incidents') :
         (i \in booted + 1 .. n /\ incidents'[i] = incidents[i]) \/ i = n + 1
  BY <1>1, <1>2, <1>3
<1>6. \A i \in booted + 1 .. n :
         i \in booted' + 1 .. Len(incidents') /\ incidents'[i] = incidents[i]
  BY <1>1, <1>2, <1>3
<1>7. n + 1 \in booted' + 1 .. Len(incidents')
  BY <1>1, <1>2
<1> HIDE DEF n
<1>8. ASSUME NEW s, s = about
      PROVE  Reported(type, s)' = Reported(type, s) \cup {n + 1}
  <2>1. {i \in booted' + 1 .. Len(incidents') :
           incidents'[i].type = type /\ incidents'[i].about = s}
         = {i \in booted + 1 .. n : incidents[i].type = type /\ incidents[i].about = s}
             \cup {n + 1}
    BY <1>4, <1>5, <1>6, <1>7, <1>8, Zenon
  <2> QED BY <2>1 DEF Reported, n
<1>9. ASSUME NEW t, NEW s, t # type
      PROVE  Reported(t, s)' = Reported(t, s)
  <2>1. {i \in booted' + 1 .. Len(incidents') :
           incidents'[i].type = t /\ incidents'[i].about = s}
         = {i \in booted + 1 .. n : incidents[i].type = t /\ incidents[i].about = s}
    BY <1>4, <1>5, <1>6, <1>7, <1>9, Zenon
  <2> QED BY <2>1 DEF Reported, n
<1> QED BY <1>2, <1>8, <1>9 DEF n

LEMMA AddedPast ==
  ASSUME WatchInv, NEW type \in IncidentTypes, NEW of \in SUBSET Breakers,
         NEW about \in Stamps, Added(type, of, about), now' = now
  PROVE  /\ \A i \in DOMAIN incidents' : incidents'[i].at <= now'
         /\ booted' <= Len(incidents')
<1>1. TypeOK /\ PastSound /\ now \in Nat
  BY WatchAssumption DEF WatchInv, TypeOK, Times
<1>2. DOMAIN incidents' = 1 .. Len(incidents) + 1
  BY AddedTells
<1>3. incidents'[Len(incidents) + 1].at = now
  BY DEF Added, Row
<1>4. \A i \in 1 .. Len(incidents) : incidents'[i].at <= now
  BY <1>1, Indices DEF Added, PastSound
<1>5. \A i \in DOMAIN incidents' : i \in 1 .. Len(incidents) \/ i = Len(incidents) + 1
  BY <1>1, <1>2, Indices
<1>6. booted' <= Len(incidents')
  BY <1>1 DEF PastSound, Added, TypeOK
<1> QED BY <1>1, <1>3, <1>4, <1>5, <1>6

\* An insert that fails leaves one fault and nothing else.
LEMMA FaultPreserves ==
  ASSUME WatchInv, EmitFails,
         UNCHANGED <<now, success, ticked, reconciled, lastRun, since, emitted, opened, told,
                     booted, crashes>>,
         pass' = pass \/ (pass = "emit" /\ pass' = "idle"),
         \/ check' = check
         \/ check' = Checked
  PROVE  WatchInv'
<1>1. TypeOK /\ PastSound /\ StreakSound /\ RunSound /\ BreakersSound
  BY DEF WatchInv
<1>2. faults' = faults + 1 /\ UNCHANGED <<incidents, counter>> /\ faults < MaxFaults
  BY DEF EmitFails, rowVars
<1>3. Kept
  BY <1>1, <1>2, UnchangedKept
<1>4. check' \in [todo : SUBSET Breakers, at : Stamps, emitting : SUBSET Breakers,
                  about : Stamps]
      /\ check'.at \in {check.at, Never} /\ check'.emitting \in {check.emitting, {}}
      /\ (check'.emitting # {} => check'.about = check.about /\ check'.at = check.at)
  <2>1. check \in [todo : SUBSET Breakers, at : Stamps, emitting : SUBSET Breakers,
                   about : Stamps]
    BY <1>1 DEF TypeOK
  <2>2. Never \in Stamps
    BY DEF Stamps
  <2>3. CASE check' = check
    BY <2>1, <2>3
  <2>4. CASE check' = NoCheck
    BY <2>2, <2>4 DEF NoCheck
  <2>5. CASE check' = [check EXCEPT !.emitting = {}, !.about = Never]
    BY <2>1, <2>2, <2>5
  <2> QED BY <2>3, <2>4, <2>5 DEF Checked
<1>5. TypeOK'
  BY <1>1, <1>2, <1>4, WatchAssumption DEF TypeOK, PassSteps
<1>6. PastSound'
  <2>1. now \in Nat
    BY <1>1, WatchAssumption DEF TypeOK, Times
  <2>2. check'.at <= now
    BY <1>1, <1>4, <2>1 DEF PastSound, Never
  <2> QED BY <1>1, <1>2, <2>2 DEF PastSound
<1>7. StreakSound'
  BY <1>1 DEF StreakSound
<1>8. RunSound'
  <2>1. faults \in Nat
    BY <1>1, WatchAssumption DEF TypeOK
  <2> QED BY <1>1, <1>2, <2>1 DEF RunSound
<1>9. BreakersSound'
  <2>1. \A i, b, t : Tells(i, b, t)' = Tells(i, b, t)
    BY <1>2, Zenon DEF Tells
  <2>2. \A b \in Breakers : check'.emitting = {b} =>
          /\ check'.about # Never /\ check'.at - check'.about >= OpenThreshold
          /\ \A i \in DOMAIN incidents : ~Tells(i, b, check'.about)
    BY <1>1, <1>4 DEF BreakersSound
  <2> QED BY <1>1, <1>2, <2>2 DEF BreakersSound, Tells
<1>10. OutageSound' /\ RowsSound' /\ CounterMatchesRows'
  BY <1>3, OutageKept, KeptRows DEF supVars
<1> QED BY <1>5, <1>6, <1>7, <1>8, <1>9, <1>10 DEF WatchInv

\* What storing an incident that tells of no breaker leaves alone.
LEMMA OtherBreakersSound ==
  ASSUME WatchInv, NEW type \in IncidentTypes, NEW about \in Stamps,
         Added(type, {}, about), UNCHANGED breakerVars
  PROVE  BreakersSound'
<1>1. TypeOK /\ BreakersSound /\ DOMAIN incidents = 1 .. Len(incidents)
      /\ Len(incidents) \in Nat
  BY Indices DEF WatchInv
<1> DEFINE n == Len(incidents) + 1
<1>2. \A i \in DOMAIN incidents' : i \in DOMAIN incidents \/ i = n
  <2>1. DOMAIN incidents' = 1 .. Len(incidents')
    BY <1>1 DEF Added
  <2> QED BY <1>1, <2>1 DEF Added
<1>3. incidents'[n].of = {}
  BY DEF Added, Row
<1>4. \A i \in DOMAIN incidents : incidents'[i] = incidents[i]
  BY <1>1 DEF Added
<1>5. opened' = opened /\ told' = told /\ check' = check
  BY DEF breakerVars
<1> HIDE DEF n
<1>6. \A i \in DOMAIN incidents', b \in Breakers :
        incidents'[i].of = {b} => i \in DOMAIN incidents /\ incidents'[i] = incidents[i]
  BY <1>2, <1>3, <1>4
<1>7. \A i \in DOMAIN incidents', b \in Breakers :
        opened'[b] # Never /\ Tells(i, b, opened[b])' => told'[b] = opened'[b]
  BY <1>1, <1>6, <1>5 DEF BreakersSound, Tells
<1>8. \A b \in Breakers : check'.emitting = {b} =>
        /\ check'.about # Never /\ check'.at - check'.about >= OpenThreshold
        /\ \A i \in DOMAIN incidents' : ~Tells(i, b, check.about)'
  BY <1>1, <1>6, <1>5 DEF BreakersSound, Tells
<1>9. \A i, j \in DOMAIN incidents', b \in Breakers :
        Tells(i, b, incidents[i].about)' /\ Tells(j, b, incidents[i].about)' => i = j
  BY <1>1, <1>6 DEF BreakersSound, Tells
<1> QED BY <1>7, <1>8, <1>9, Zenon DEF BreakersSound, Tells

LEMMA EmitFailurePreserves ==
  ASSUME WatchInv, EmitFailure
  PROVE  WatchInv'
<1>1. TypeOK /\ PastSound /\ StreakSound /\ RunSound /\ OutageSound
  BY DEF WatchInv
<1>2. /\ UNCHANGED <<now, success, ticked, reconciled, lastRun, since, opened, told, check,
                     booted, crashes>>
      /\ pass = "emit" /\ pass' = "idle"
  BY DEF EmitFailure, breakerVars
<1>3. CASE EmitFails /\ UNCHANGED emitted
  BY <1>2, <1>3, FaultPreserves
<1>4. CASE Emit("reconcile_failed", {}, since) /\ emitted' = TRUE /\ UNCHANGED faults
  <2> DEFINE type == "reconcile_failed"
  <2> PICK about : about = since
    OBVIOUS
  <2>1. type \in IncidentTypes /\ {} \in SUBSET Breakers /\ about \in Stamps
    BY <1>1 DEF IncidentTypes, TypeOK
  <2>2. Added(type, {}, about)
    BY <1>1, <1>2, <1>4, <2>1, EmitAdds
  <2>3. since # Never /\ ~emitted /\ now - since >= Threshold
    BY <1>1, <1>2 DEF StreakSound
  <2>4. RowSound(Row(type, {}, about))
    BY <2>3 DEF RowSound, Row
  <2>5. RowsSound' /\ CounterMatchesRows' /\ counter' \in [IncidentTypes -> 0 .. MaxRows]
    BY <2>1, <2>2, <2>4, AddedRows
  <2>6. TypeOK'
    BY <1>1, <1>2, <1>4, <2>2, <2>5 DEF TypeOK, PassSteps, Added
  <2>7. PastSound'
    BY <1>1, <1>2, <2>1, <2>2, AddedPast DEF PastSound
  <2>8. StreakSound' /\ RunSound'
    BY <1>1, <1>2, <1>4, <2>3 DEF StreakSound, RunSound
  <2>9. OutageSound'
    <3>1. Reported(type, since) = {}
      BY <1>1, <2>3 DEF OutageSound
    <3>2. Reported(type, about)' = Reported(type, about) \cup {Len(incidents) + 1}
      BY <2>1, <2>2, AddedTells
    <3>3. Reported(type, about)' = {Len(incidents) + 1} /\ since' = about
      BY <1>2, <3>1, <3>2
    <3> QED BY <1>4, <3>3 DEF OutageSound, Reported
  <2>10. BreakersSound'
    BY <1>2, <2>1, <2>2, OtherBreakersSound DEF breakerVars
  <2> QED BY <2>5, <2>6, <2>7, <2>8, <2>9, <2>10 DEF WatchInv
<1> QED BY <1>3, <1>4 DEF EmitFailure

LEMMA OtherOutageSound ==
  ASSUME WatchInv, NEW type \in IncidentTypes, NEW of \in SUBSET Breakers,
         NEW about \in Stamps, Added(type, of, about), type # "reconcile_failed",
         UNCHANGED supVars
  PROVE  OutageSound'
<1>1. \A t, s : t # type => Reported(t, s)' = Reported(t, s)
  BY AddedTells, Zenon
<1>2. since' = since /\ emitted' = emitted /\ OutageSound
  BY DEF supVars, WatchInv
<1>3. PICK s : s = since
  OBVIOUS
<1>4. Reported("reconcile_failed", s)' = Reported("reconcile_failed", s)
  BY <1>1, Zenon
<1>5. Reported("reconcile_failed", since)' = Reported("reconcile_failed", since)
  BY <1>2, <1>3, <1>4, Zenon DEF Reported
<1> QED BY <1>2, <1>5, Zenon DEF OutageSound

LEMMA RegisterPreserves ==
  ASSUME WatchInv, NEW type \in SevereTypes \union {"manual"}, Register(type)
  PROVE  WatchInv'
<1>1. TypeOK /\ PastSound /\ StreakSound /\ RunSound
  BY DEF WatchInv
<1>2. UNCHANGED <<now, pass, success, ticked, reconciled, lastRun, since, emitted, opened,
                  told, check, booted, crashes>>
  BY DEF Register, jobVars, supVars, breakerVars
<1>3. CASE EmitFails
  BY <1>2, <1>3, FaultPreserves
<1>4. CASE Emit(type, {}, Never) /\ UNCHANGED faults
  <2>1. /\ type \in IncidentTypes /\ {} \in SUBSET Breakers /\ Never \in Stamps
        /\ type \notin {"reconcile_failed", "breaker_open"}
    BY DEF IncidentTypes, SevereTypes, Stamps
  <2>2. Added(type, {}, Never)
    BY <1>1, <1>2, <1>4, <2>1, EmitAdds
  <2>3. RowSound(Row(type, {}, Never))
    BY <2>1 DEF RowSound, Row
  <2>4. RowsSound' /\ CounterMatchesRows' /\ counter' \in [IncidentTypes -> 0 .. MaxRows]
    BY <2>1, <2>2, <2>3, AddedRows
  <2>5. TypeOK'
    BY <1>1, <1>2, <1>4, <2>2, <2>4 DEF TypeOK, Added
  <2>6. PastSound'
    BY <1>1, <1>2, <2>1, <2>2, AddedPast DEF PastSound
  <2>7. StreakSound' /\ RunSound'
    BY <1>1, <1>2, <1>4 DEF StreakSound, RunSound
  <2>8. OutageSound' /\ BreakersSound'
    BY <1>2, <2>1, <2>2, OtherOutageSound, OtherBreakersSound DEF supVars, breakerVars
  <2> QED BY <2>4, <2>5, <2>6, <2>7, <2>8 DEF WatchInv
<1> QED BY <1>3, <1>4 DEF Register

LEMMA EmitBreakerPreserves ==
  ASSUME WatchInv, NEW b \in Breakers, EmitBreaker(b)
  PROVE  WatchInv'
<1>1. TypeOK /\ PastSound /\ StreakSound /\ RunSound /\ BreakersSound
  BY DEF WatchInv
<1>2. /\ UNCHANGED <<now, pass, success, ticked, reconciled, lastRun, since, emitted, opened,
                     booted, crashes>>
      /\ check.emitting = {b} /\ check' = Checked
  BY DEF EmitBreaker, jobVars, supVars
<1>3. CASE EmitFails /\ UNCHANGED told
  BY <1>2, <1>3, FaultPreserves
<1>4. CASE /\ Emit("breaker_open", {b}, check.about)
           /\ told' = [told EXCEPT ![b] = opened[b]] /\ UNCHANGED faults
  <2> DEFINE type == "breaker_open"
  <2> PICK a : a = check.about
    OBVIOUS
  <2>1. /\ type \in IncidentTypes /\ {b} \in SUBSET Breakers /\ a \in Stamps
        /\ now \in Nat /\ check.at \in Int /\ a \in Int
    BY <1>1, WatchAssumption DEF IncidentTypes, TypeOK, Stamps, Times, Never
  <2>2. Added(type, {b}, a)
    BY <1>1, <1>2, <1>4, <2>1, EmitAdds
  <2>3. /\ a # Never /\ now - a >= OpenThreshold
        /\ \A i \in DOMAIN incidents : ~Tells(i, b, a)
    BY <1>1, <1>2, <2>1, WatchAssumption DEF BreakersSound, PastSound
  <2>4. RowSound(Row(type, {b}, a))
    BY <2>3 DEF RowSound, Row
  <2>5. RowsSound' /\ CounterMatchesRows' /\ counter' \in [IncidentTypes -> 0 .. MaxRows]
    BY <2>1, <2>2, <2>4, AddedRows
  <2>6. /\ check' \in [todo : SUBSET Breakers, at : Stamps, emitting : SUBSET Breakers,
                       about : Stamps]
        /\ check'.at \in {check.at, Never} /\ check'.emitting = {}
    <3>1. check \in [todo : SUBSET Breakers, at : Stamps, emitting : SUBSET Breakers,
                     about : Stamps] /\ Never \in Stamps
      BY <1>1 DEF TypeOK, Stamps
    <3>2. CASE check' = NoCheck
      BY <3>1, <3>2 DEF NoCheck
    <3>3. CASE check' = [check EXCEPT !.emitting = {}, !.about = Never]
      BY <3>1, <3>3
    <3> QED BY <1>2, <3>2, <3>3 DEF Checked
  <2>7. TypeOK'
    BY <1>1, <1>2, <1>4, <2>2, <2>5, <2>6 DEF TypeOK, Added
  <2>8. PastSound'
    <3>1. check'.at <= now
      BY <1>1, <2>1, <2>6 DEF PastSound, Never
    <3> QED BY <1>1, <1>2, <2>1, <2>2, <3>1, AddedPast DEF PastSound
  <2>9. StreakSound' /\ RunSound'
    BY <1>1, <1>2, <1>4 DEF StreakSound, RunSound
  <2>10. OutageSound'
    BY <1>2, <2>1, <2>2, OtherOutageSound DEF supVars
  <2>11. BreakersSound'
    <3> DEFINE n == Len(incidents) + 1
    <3>1. DOMAIN incidents = 1 .. Len(incidents) /\ Len(incidents) \in Nat
      BY <1>1, Indices
    <3>2. \A i \in DOMAIN incidents' : i \in DOMAIN incidents \/ i = n
      <4>1. DOMAIN incidents' = 1 .. Len(incidents')
        BY <2>2 DEF Added
      <4> QED BY <3>1, <4>1, <2>2 DEF Added
    <3>3. \A i \in DOMAIN incidents : incidents'[i] = incidents[i]
      BY <3>1, <2>2 DEF Added
    <3>4. incidents'[n].of = {b} /\ incidents'[n].about = a
      BY <2>2 DEF Added, Row
    <3> HIDE DEF n
    <3>7. \A i \in DOMAIN incidents', c \in Breakers :
            opened'[c] # Never /\ Tells(i, c, opened[c])' => told'[c] = opened'[c]
      <4> SUFFICES ASSUME NEW i \in DOMAIN incidents', NEW c \in Breakers,
                          opened[c] # Never, incidents'[i].type = type,
                          incidents'[i].of = {c}, incidents'[i].about = opened[c]
                   PROVE  told'[c] = opened[c]
        BY <1>2, Zenon DEF Tells
      <4>1. told'[c] = IF c = b THEN opened[b] ELSE told[c]
        BY <1>1, <1>4 DEF TypeOK
      <4>2. CASE c = b
        BY <4>1, <4>2
      <4>3. CASE c # b
        <5>1. i \in DOMAIN incidents /\ incidents'[i] = incidents[i]
          <6>1. {c} # {b}
            BY <4>3
          <6> QED BY <3>2, <3>3, <3>4, <6>1
        <5>2. Tells(i, c, opened[c])
          BY <5>1 DEF Tells
        <5> QED BY <1>1, <4>1, <4>3, <5>1, <5>2 DEF BreakersSound
      <4> QED BY <4>2, <4>3
    <3>8. \A c \in Breakers : check'.emitting # {c}
      BY <2>6
    <3>9. \A i, j \in DOMAIN incidents', c \in Breakers :
            Tells(i, c, incidents[i].about)' /\ Tells(j, c, incidents[i].about)' => i = j
      <4> SUFFICES ASSUME NEW i \in DOMAIN incidents', NEW j \in DOMAIN incidents',
                          NEW c \in Breakers, NEW s, s = incidents'[i].about,
                          incidents'[i].type = type, incidents'[i].of = {c},
                          incidents'[j].type = type, incidents'[j].of = {c},
                          incidents'[j].about = s
                   PROVE  i = j
        BY Zenon DEF Tells
      <4>1. CASE i \in DOMAIN incidents /\ j \in DOMAIN incidents
        <5>1. Tells(i, c, incidents[i].about) /\ Tells(j, c, incidents[i].about)
          BY <3>3, <4>1 DEF Tells
        <5> QED BY <1>1, <4>1, <5>1 DEF BreakersSound
      <4>2. ASSUME NEW k \in DOMAIN incidents, incidents'[k].type = type,
                   incidents'[k].of = {b}, incidents'[k].about = a
            PROVE  FALSE
        <5>1. Tells(k, b, a)
          BY <3>3, <4>2 DEF Tells
        <5> QED BY <2>3, <5>1
      <4>3. CASE i = n /\ j \in DOMAIN incidents
        BY <3>4, <4>2, <4>3
      <4>4. CASE j = n /\ i \in DOMAIN incidents
        BY <3>4, <4>2, <4>4
      <4> QED BY <3>2, <4>1, <4>3, <4>4
    <3> QED BY <3>7, <3>8, <3>9, Zenon DEF BreakersSound, Tells
  <2> QED BY <2>5, <2>7, <2>8, <2>9, <2>10, <2>11 DEF WatchInv
<1> QED BY <1>3, <1>4 DEF EmitBreaker

\* A restart forgets the marks and the counter; the rows stay.
LEMMA CrashPreserves ==
  ASSUME WatchInv, Crash
  PROVE  WatchInv'
<1>1. TypeOK /\ PastSound /\ RowsSound /\ BreakersSound
  BY DEF WatchInv
<1>2. /\ UNCHANGED <<now, lastRun, incidents, faults>> /\ pass' = "idle" /\ success' = TRUE
      /\ ticked' = Never /\ reconciled' = Never /\ since' = Never /\ emitted' = FALSE
      /\ opened' = [b \in Breakers |-> Never] /\ told' = [b \in Breakers |-> Never]
      /\ check' = NoCheck /\ counter' = [t \in IncidentTypes |-> 0]
      /\ booted' = Len(incidents) /\ crashes' = crashes + 1 /\ crashes < MaxCrashes
  BY DEF Crash
<1>3. Never \in Stamps /\ now \in Nat /\ Len(incidents) \in Nat
  BY <1>1, WatchAssumption DEF Stamps, TypeOK, Times
<1>4. TypeOK'
  <2>1. check' \in [todo : SUBSET Breakers, at : Stamps, emitting : SUBSET Breakers,
                    about : Stamps]
    BY <1>2, <1>3 DEF NoCheck
  <2>2. /\ opened' \in [Breakers -> Stamps] /\ told' \in [Breakers -> Stamps]
        /\ counter' \in [IncidentTypes -> 0 .. MaxRows]
    BY <1>2, <1>3, WatchAssumption
  <2>3. booted' \in 0 .. MaxRows /\ crashes' \in 0 .. MaxCrashes
    BY <1>1, <1>2, <1>3, WatchAssumption DEF TypeOK
  <2> QED BY <1>1, <1>2, <1>3, <2>1, <2>2, <2>3 DEF TypeOK, PassSteps
<1>5. PastSound'
  BY <1>1, <1>2, <1>3 DEF PastSound, NoCheck, Never
<1>6. RowsSound'
  BY <1>1, <1>2 DEF RowsSound, RowSound
<1>7. StreakSound' /\ OutageSound' /\ RunSound'
  BY <1>2 DEF StreakSound, OutageSound, RunSound
<1>8. BreakersSound'
  <2>1. \A b \in Breakers : opened'[b] = Never /\ check'.emitting # {b}
    BY <1>2 DEF NoCheck
  <2>2. \A i, j \in DOMAIN incidents, b \in Breakers :
          Tells(i, b, incidents[i].about)' /\ Tells(j, b, incidents[i].about)' => i = j
    BY <1>1, <1>2 DEF BreakersSound, Tells
  <2> QED BY <1>2, <2>1, <2>2 DEF BreakersSound, Tells
<1>9. CounterMatchesRows'
  <2>1. \A t : {i \in booted' + 1 .. Len(incidents') : incidents'[i].type = t} = {}
    BY <1>2, <1>3
  <2> QED BY <1>2, <2>1, FS_EmptySet DEF CounterMatchesRows
<1> QED BY <1>4, <1>5, <1>6, <1>7, <1>8, <1>9 DEF WatchInv

-----------------------------------------------------------------------------
(* The theorems *)

LEMMA WatchInit == Init => WatchInv
<1> SUFFICES ASSUME Init PROVE WatchInv
  OBVIOUS
<1>1. TypeOK
  <2>1. Never \in Stamps /\ 0 \in Times /\ incidents \in Seq(Rows) /\ Len(incidents) = 0
    BY WatchAssumption DEF Stamps, Times, Init
  <2>2. /\ check \in [todo : SUBSET Breakers, at : Stamps, emitting : SUBSET Breakers,
                      about : Stamps]
        /\ lastRun \in Runs
    BY <2>1 DEF Init, NoCheck, NoRun, Runs
  <2>3. /\ opened \in [Breakers -> Stamps] /\ told \in [Breakers -> Stamps]
        /\ counter \in [IncidentTypes -> 0 .. MaxRows]
    BY <2>1, WatchAssumption DEF Init
  <2>4. /\ now \in Times /\ pass \in PassSteps /\ success \in BOOLEAN /\ emitted \in BOOLEAN
        /\ ticked \in Stamps /\ reconciled \in Stamps /\ since \in Stamps
    BY <2>1 DEF Init, PassSteps
  <2>5. /\ Len(incidents) <= MaxRows /\ booted \in 0 .. MaxRows
        /\ faults \in 0 .. MaxFaults /\ crashes \in 0 .. MaxCrashes
    BY <2>1, WatchAssumption DEF Init
  <2> QED BY <2>1, <2>2, <2>3, <2>4, <2>5 DEF TypeOK
<1>2. PastSound /\ RowsSound /\ StreakSound /\ OutageSound /\ RunSound /\ BreakersSound
  BY DEF Init, PastSound, RowsSound, StreakSound, OutageSound, RunSound, BreakersSound,
     NoRun, NoCheck, Never
<1>3. CounterMatchesRows
  <2>1. \A t : {i \in booted + 1 .. Len(incidents) : incidents[i].type = t} = {}
    BY DEF Init
  <2> QED BY <2>1, FS_EmptySet DEF Init, CounterMatchesRows
<1> QED BY <1>1, <1>2, <1>3 DEF WatchInv

\* The steps that store, resolve or lose nothing leave the tables as they were,
\* whatever the case; the action lemmas together make the induction step.
LEMMA WatchStep == WatchInv /\ [Next]_vars => WatchInv'
<1> SUFFICES ASSUME WatchInv, [Next]_vars PROVE WatchInv'
  OBVIOUS
<1>1. CASE PassStep \/ OperatorPass
  BY <1>1, PassPreserves, EmitFailurePreserves DEF PassStep
<1>2. CASE StartCheck
  BY <1>2, RegistryPreserves DEF StartCheck
<1>3. ASSUME NEW b \in Breakers, BreakerStep(b) PROVE WatchInv'
  BY <1>3, RegistryPreserves, EmitBreakerPreserves DEF BreakerStep
<1>4. ASSUME NEW type \in SevereTypes \union {"manual"}, Register(type) PROVE WatchInv'
  BY <1>4, RegisterPreserves
<1>5. ASSUME NEW i \in 1 .. Len(incidents), Resolve(i) PROVE WatchInv'
  BY <1>5, ResolvePreserves
<1>6. CASE Tick
  BY <1>6, TickPreserves
<1>7. CASE Crash
  BY <1>7, CrashPreserves
<1>8. CASE UNCHANGED vars
  <2>1. /\ UNCHANGED <<now, pass, success, ticked, reconciled, lastRun, since, emitted>>
        /\ UNCHANGED <<opened, told, check, incidents, counter, booted, faults, crashes>>
    BY <1>8 DEF vars, jobVars, supVars, breakerVars, rowVars, boundVars
  <2>2. Kept
    BY <2>1, UnchangedKept DEF WatchInv
  <2>3. RowsSound' /\ CounterMatchesRows' /\ BreakersSound' /\ OutageSound'
    BY <2>1, <2>2, KeptRows, BreakersKept, OutageKept DEF breakerVars, supVars
  <2>4. TypeOK' /\ PastSound' /\ StreakSound' /\ RunSound'
    BY <2>1 DEF WatchInv, TypeOK, PastSound, StreakSound, RunSound
  <2> QED BY <2>3, <2>4 DEF WatchInv
<1> QED BY <1>1, <1>2, <1>3, <1>4, <1>5, <1>6, <1>7, <1>8 DEF Next

\* The incidents on record agree with the supervisor, the breakers, the runs
\* and the counter, in every behaviour.
THEOREM WatchInductive == Spec => []WatchInv
<1> QED BY WatchInit, WatchStep, PTL DEF Spec

\* The rows about the streak: one when it is told and none before.
LEMMA StreakToldOnce ==
  ASSUME WatchInv
  PROVE  OneIncidentPerOutage
<1> SUFFICES ASSUME since # Never
             PROVE  /\ emitted <=> Reported("reconcile_failed", since) # {}
                    /\ Cardinality(Reported("reconcile_failed", since)) <= 1
                    /\ \A i \in Reported("reconcile_failed", since) :
                          incidents[i].at - since >= Threshold
  BY DEF OneIncidentPerOutage
<1> DEFINE rows == Reported("reconcile_failed", since)
<1>1. TypeOK /\ OutageSound /\ RowsSound
  BY DEF WatchInv
<1>2. emitted <=> rows # {}
  BY <1>1 DEF OutageSound, TypeOK
<1>3. Cardinality(rows) <= 1
  <2>1. CASE rows = {}
    BY <2>1, FS_EmptySet
  <2>2. CASE rows # {}
    <3>1. PICK i \in rows : TRUE
      BY <2>2
    <3>2. rows = {i}
      BY <1>1, <3>1 DEF OutageSound
    <3>3. Cardinality({i}) = 1
      BY FS_Singleton, Zenon
    <3> QED BY <3>2, <3>3
  <2> QED BY <2>1, <2>2
<1>4. \A i \in rows : incidents[i].at - since >= Threshold
  <2> TAKE i \in rows
  <2>1. i \in DOMAIN incidents /\ incidents[i].type = "reconcile_failed"
        /\ incidents[i].about = since
    BY <1>1, Indices DEF Reported, TypeOK
  <2> QED BY <1>1, <2>1 DEF RowsSound, RowSound
<1> QED BY <1>2, <1>3, <1>4

\* An outage is told once and not early, and while it is told neither the
\* heartbeat nor preflight says that all is well: for every setting in which
\* the heartbeat's limit is below the supervisor's threshold.
THEOREM OutagesToldRight ==
  ASSUME HeartbeatAge < Threshold
  PROVE  Spec => []OutagesAreTold
<1>1. WatchInv => OutagesAreTold
  <2> SUFFICES ASSUME WatchInv PROVE OutagesAreTold
    OBVIOUS
  <2>1. TypeOK /\ StreakSound /\ RunSound /\ CounterMatchesRows
    BY DEF WatchInv
  <2>2. OneIncidentPerOutage
    BY StreakToldOnce
  <2>3. OutageStopsHeartbeat
    <3> SUFFICES ASSUME emitted, HeartbeatOk PROVE FALSE
      BY DEF OutageStopsHeartbeat
    <3>1. since # Never /\ now - since >= Threshold /\ reconciled <= since
      BY <2>1 DEF StreakSound
    <3>2. now \in Int /\ since \in Int /\ reconciled \in Int
      BY <2>1, WatchAssumption DEF TypeOK, Stamps, Times, Never
    <3> QED BY <3>1, <3>2, WatchAssumption DEF HeartbeatOk
  <2>4. OutageBlocksGoLive
    BY <2>1 DEF OutageBlocksGoLive, ReconcileClean, RunSound, StreakSound
  <2> QED BY <2>1, <2>2, <2>3, <2>4 DEF OutagesAreTold
<1> QED BY <1>1, WatchInductive, PTL

\* An opening of a breaker has one incident at most, stored when it was old
\* enough, whatever happens to the breaker while the insert is awaited.
THEOREM OpeningsToldOnce == Spec => []OneIncidentPerOpening
<1>1. WatchInv => OneIncidentPerOpening
  <2> SUFFICES ASSUME WatchInv, NEW i \in 1 .. Len(incidents),
                      incidents[i].type = "breaker_open"
               PROVE  /\ incidents[i].at - incidents[i].about >= OpenThreshold
                      /\ \A j \in 1 .. Len(incidents) :
                           incidents[j].of = incidents[i].of
                           /\ incidents[j].about = incidents[i].about => i = j
    BY DEF OneIncidentPerOpening
  <2>1. TypeOK /\ RowsSound /\ BreakersSound /\ DOMAIN incidents = 1 .. Len(incidents)
    BY Indices DEF WatchInv
  <2>2. \A j \in DOMAIN incidents : RowSound(incidents[j])
    BY <2>1 DEF RowsSound
  <2>3. PICK b \in Breakers : incidents[i].of = {b}
    BY <2>1, <2>2 DEF RowSound
  <2>4. ASSUME NEW j \in DOMAIN incidents, incidents[j].of = {b},
               incidents[j].about = incidents[i].about
        PROVE  i = j
    <3>1. incidents[j].type = "breaker_open"
      BY <2>2, <2>4 DEF RowSound
    <3>2. Tells(i, b, incidents[i].about) /\ Tells(j, b, incidents[i].about)
      BY <2>3, <2>4, <3>1 DEF Tells
    <3> QED BY <2>1, <3>2 DEF BreakersSound
  <2> QED BY <2>1, <2>2, <2>3, <2>4 DEF RowSound
<1> QED BY <1>1, WatchInductive, PTL

\* What a row resets the streak to, a step resets it to again, or to later.
LEMMA RowNeverMovesBack ==
  ASSUME WatchInv, [Next]_vars, NEW i \in DOMAIN incidents, NEW old \in Resets(incidents[i])
  PROVE  i \in DOMAIN incidents' /\ \E new \in Resets(incidents[i])' : new >= old
<1>1. TypeOK /\ TypeOK' /\ PastSound
  BY WatchStep DEF WatchInv
<1>2. incidents[i] \in Rows /\ i \in 1 .. Len(incidents) /\ Len(incidents) \in Nat
  BY <1>1, Indices
<1>3. /\ now \in Nat /\ now' \in Nat /\ now <= now'
  <2>1. now' = now \/ Tick
    BY Zenon DEF Next, PassStep, StartPass, RunPass, Feed, EmitFailure, OperatorPass,
       StartCheck, BreakerStep, OpenBreaker, CloseBreaker, VisitBreaker, EmitBreaker,
       Register, Resolve, Crash, vars
  <2> QED BY <1>1, <2>1, WatchAssumption DEF Tick, TypeOK, Times
<1>4. /\ incidents[i].at \in Nat /\ incidents[i].at <= now
      /\ incidents[i].resolved \in Nat \union {Never} /\ Never = -1
  BY <1>1, <1>2, WatchAssumption DEF Rows, PastSound, Times, Stamps, Never
<1>5. /\ i \in DOMAIN incidents'
      /\ \/ incidents'[i] = incidents[i]
         \/ /\ incidents[i].resolved = Never /\ now' = now
            /\ incidents'[i] = [incidents[i] EXCEPT !.resolved = now]
  <2>1. CASE UNCHANGED incidents
    BY <2>1
  <2>2. ASSUME NEW type, NEW of, NEW about, Emit(type, of, about)
        PROVE  i \in DOMAIN incidents' /\ incidents'[i] = incidents[i]
    <3>1. Row(type, of, about) \in {Row(type, of, about)} /\ incidents \in Seq(Rows)
      BY <1>1 DEF TypeOK
    <3> QED BY <1>2, <2>2, <3>1 DEF Emit
  <2>3. ASSUME NEW j \in 1 .. Len(incidents), Resolve(j)
        PROVE  <1>5!1 /\ <1>5!2
    <3>1. incidents \in Seq(Rows)
      BY <1>1 DEF TypeOK
    <3>2. incidents' = [incidents EXCEPT ![j] = [incidents[j] EXCEPT !.resolved = now]]
      BY <2>3 DEF Resolve
    <3> QED BY <1>2, <2>3, <3>1, <3>2 DEF Resolve
  <2>4. \/ UNCHANGED incidents
        \/ \E type, of, about : Emit(type, of, about)
        \/ \E j \in 1 .. Len(incidents) : Resolve(j)
    BY Zenon DEF Next, PassStep, StartPass, RunPass, Feed, EmitFailure, OperatorPass,
       StartCheck, BreakerStep, OpenBreaker, CloseBreaker, VisitBreaker, EmitBreaker,
       Register, Tick, Crash, vars, rowVars, EmitFails
  <2> QED BY <2>1, <2>2, <2>3, <2>4
<1>6. CASE incidents'[i] = incidents[i]
  <2>1. old \in Resets(incidents[i])'
    BY <1>3, <1>4, <1>6, WatchAssumption DEF Resets
  <2>2. old \in Int
    BY <1>4, WatchAssumption DEF Resets
  <2> QED BY <1>5, <2>1, <2>2
<1>7. CASE /\ incidents[i].resolved = Never /\ now' = now
           /\ incidents'[i] = [incidents[i] EXCEPT !.resolved = now]
  <2>1. /\ incidents'[i].type = incidents[i].type /\ incidents'[i].at = incidents[i].at
        /\ incidents'[i].resolved = now
    BY <1>2, <1>7 DEF Rows
  <2> QED BY <1>3, <1>4, <1>5, <1>7, <2>1, WatchAssumption DEF Resets
<1> QED BY <1>5, <1>6, <1>7

\* Neither time, nor a new incident, nor the resolution of an old one gives
\* days back to the clean streak.
THEOREM ResetsNeverMoveBack == Spec => ResetNeverMovesBack
<1>1. WatchInv /\ [Next]_vars
        => [\A old \in AllResets : \E new \in AllResets' : new >= old]_vars
  <2> SUFFICES ASSUME WatchInv, [Next]_vars, NEW old \in AllResets
               PROVE  \E new \in AllResets' : new >= old
    OBVIOUS
  <2>1. DOMAIN incidents = 1 .. Len(incidents) /\ DOMAIN incidents' = 1 .. Len(incidents')
    <3>1. TypeOK /\ TypeOK'
      BY WatchStep DEF WatchInv
    <3> QED BY <3>1 DEF TypeOK
  <2>2. PICK i \in DOMAIN incidents : old \in Resets(incidents[i])
    BY <2>1 DEF AllResets
  <2>3. PICK new \in Resets(incidents[i])' : new >= old
    BY <2>2, RowNeverMovesBack
  <2>4. i \in 1 .. Len(incidents')
    BY <2>1, <2>2, RowNeverMovesBack
  <2>5. new \in AllResets'
    BY <2>3, <2>4 DEF AllResets, Resets
  <2> QED BY <2>3, <2>5
<1> QED BY <1>1, WatchInductive, PTL DEF Spec, ResetNeverMovesBack

=============================================================================
