--------------------------- MODULE IncidentWatchInv ---------------------------
(***************************************************************************)
(* The inductive invariant of IncidentWatch: what the incidents on record  *)
(* say of the supervisor's streak, of the breakers and of the runs.  TLC   *)
(* checks it and IncidentWatchProofs proves it inductive.                  *)
(***************************************************************************)
EXTENDS IncidentWatch

\* No mark, row or opening is from the future.
PastSound ==
  /\ ticked <= now /\ reconciled <= now /\ since <= now /\ check.at <= now
  /\ lastRun.at <= now
  /\ \A b \in Breakers : opened[b] <= now
  /\ \A i \in DOMAIN incidents : incidents[i].at <= now
  /\ booted <= Len(incidents)

\* A reconcile incident was stored a threshold after the streak it is about
\* began: the next streak is about a time of its own.
RowSound(r) ==
  /\ r.type = "reconcile_failed" =>
       r.of = {} /\ r.about # Never /\ r.at - r.about >= Threshold
  /\ r.type = "breaker_open" =>
       /\ \E b \in Breakers : r.of = {b}
       /\ r.about # Never /\ r.at - r.about >= OpenThreshold
  /\ r.type \notin {"reconcile_failed", "breaker_open"} => r.of = {}

RowsSound == \A i \in DOMAIN incidents : RowSound(incidents[i])

\* The flag belongs to a streak, an emission to one that is old and untold, and
\* a success marked earlier is not after the streak's beginning.
StreakSound ==
  /\ since = Never => ~emitted
  /\ pass = "emit" => since # Never /\ ~emitted /\ now - since >= Threshold
  /\ emitted => now - since >= Threshold
  /\ since # Never => reconciled <= since

\* The rows of the process that tell of the streak: one if it is told.
OutageSound ==
  since # Never =>
    /\ emitted => \E i \in Reported("reconcile_failed", since) : TRUE
    /\ ~emitted => Reported("reconcile_failed", since) = {}
    /\ \A i, j \in Reported("reconcile_failed", since) : i = j

\* A clean run of the scheduler's is from before the streak, or of the pass
\* that will end it.
RunSound ==
  /\ pass = "passed" => lastRun.by = "operator"
  /\ pass = "feed" /\ ~success /\ lastRun.clean =>
       lastRun.by = "operator" \/ faults > 0
  /\ since # Never /\ lastRun.clean =>
       \/ lastRun.by = "operator"
       \/ pass = "feed" /\ success
       \/ lastRun.at <= since /\ faults > 0

\* An incident of breaker b about its opening at time t.
Tells(i, b, t) ==
  incidents[i].type = "breaker_open" /\ incidents[i].of = {b} /\ incidents[i].about = t

\* An opening with an incident is marked as told; the one whose incident is
\* being stored has none yet; and no opening has two.
BreakersSound ==
  /\ \A i \in DOMAIN incidents, b \in Breakers :
       opened[b] # Never /\ Tells(i, b, opened[b]) => told[b] = opened[b]
  /\ \A b \in Breakers : check.emitting = {b} =>
       /\ check.about # Never /\ check.at - check.about >= OpenThreshold
       /\ \A i \in DOMAIN incidents : ~Tells(i, b, check.about)
  /\ \A i, j \in DOMAIN incidents, b \in Breakers :
       Tells(i, b, incidents[i].about) /\ Tells(j, b, incidents[i].about) => i = j

WatchInv ==
  /\ TypeOK
  /\ PastSound /\ RowsSound
  /\ StreakSound /\ OutageSound /\ RunSound /\ BreakersSound
  /\ CounterMatchesRows

=============================================================================
