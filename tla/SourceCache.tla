----------------------------- MODULE SourceCache -----------------------------
(***************************************************************************)
(* One data source (sources/base.py) with its token bucket, its retries    *)
(* and its rows of the persistent cache (cache/store.py), and the liveness *)
(* probe (services/health_probe.py) of it.  What health() asks is the      *)
(* source's own choice (HealthKinds): most ask like any other caller.      *)
(*                                                                         *)
(* There is no single flight: callers that miss together load together,    *)
(* and the last to store wins.  Time is kept as ages, so that behaviours   *)
(* need no horizon: of a row, of a value, of the bucket's last refill.     *)
(***************************************************************************)
EXTENDS Naturals, Sequences, FiniteSets, FiniteSetsExt, Functions

CONSTANTS
  Callers,      \* concurrent calls of the source's methods
  Probe,        \* the one of them that is health()
  KeyOf,        \* the cache key each asks for
  Ttl,          \* ttl_seconds
  Lag,          \* how long one await of the database may last
  MaxCalls,     \* max_calls of the limiter
  Period,       \* its period_seconds
  MaxRetries,   \* max_retries
  SlowAfter,    \* a probe is degraded from here on
  ProbeCap      \* and cancelled here

ASSUME SourceAssumption ==
  /\ Probe \in Callers
  /\ {Ttl, Lag, MaxCalls, Period, MaxRetries, SlowAfter, ProbeCap} \subseteq Nat \ {0}

\* How a source answers health(): with a call through its cache and limiter
\* (ccxt, yfinance, finnhub, fred, rss), with a request that goes around both
\* (coingecko), with True and no call (tradingview_ta), or with False and no call
\* (finnhub and fred without an API key).
HealthKinds == {"cached", "direct", "assumed", "keyless"}

VARIABLES
  health,      \* the kind of this source
  pc,          \* what each caller awaits
  attempt,     \* the attempt its loader is at
  value,       \* the age of the value it carries
  held,        \* how long its await of the database has lasted
  row,         \* the cache rows: age of the value, time left to expires_at
  queue,       \* the limiter's lock, a FIFO of waiters
  tokens,      \* the bucket at its last refill, a token being Period units
  refilled,    \* how long ago that was
  grants,      \* loads let through, by age up to Period
  status,      \* the probe's verdict
  elapsed,     \* how long the probe has run
  sinceProbe,  \* how long ago the last one ended
  sinceAnswer  \* how long ago the upstream last answered

sourceVars == <<health, pc, attempt, value, held, row, queue, tokens, refilled, grants,
                status, elapsed, sinceProbe, sinceAnswer>>

\* The oldest a value can be when it is served: it waits for its log row,
\* its cache row and the log row of the hit, and lives for Ttl in between.
MaxAge == Ttl + 3 * Lag

Never == MaxAge + 3   \* an age from which it makes no difference
Older(age, cap) == Min({age + 1, cap})

Keys == {KeyOf[c] : c \in Callers}
NoRow == [age |-> Never, left |-> 0]
Full == MaxCalls * Period

SourceInit ==
  /\ health \in HealthKinds
  /\ pc = [c \in Callers |-> "idle"]
  /\ attempt = [c \in Callers |-> 0]
  /\ value = [c \in Callers |-> Never]
  /\ held = [c \in Callers |-> 0]
  /\ row = [k \in Keys |-> NoRow]
  /\ queue = <<>>
  /\ tokens = Full
  /\ refilled = 0
  /\ grants = [t \in 0..Period - 1 |-> 0]
  /\ status = "none"
  /\ elapsed = 0
  /\ sinceProbe = 3
  /\ sinceAnswer = Never

-----------------------------------------------------------------------------
(* The probe's side of a call that ends *)

\* Mutant of ProbeVerdict: the probe's verdict looks at the time it took and not at its outcome.
ProbeVerdictByTime(ok) == IF elapsed < SlowAfter THEN "ok" ELSE "degraded"

ProbeVerdict(ok) ==
  IF ~ok THEN "down" ELSE IF elapsed < SlowAfter THEN "ok" ELSE "degraded"

\* The caller has its value, or an exception; the probe records which.
Finish(c, ok) ==
  /\ pc' = [pc EXCEPT ![c] = "idle"]
  /\ held' = [held EXCEPT ![c] = 0]
  /\ attempt' = [attempt EXCEPT ![c] = 0]
  /\ value' = [value EXCEPT ![c] = Never]
  /\ IF c = Probe
     THEN /\ status' = ProbeVerdict(ok)
          /\ elapsed' = 0
          /\ sinceProbe' = 0
     ELSE UNCHANGED <<status, elapsed, sinceProbe>>
  /\ UNCHANGED health

Go(c, to) ==
  /\ pc' = [pc EXCEPT ![c] = to]
  /\ held' = [held EXCEPT ![c] = 0]
  /\ UNCHANGED <<health, status, elapsed, sinceProbe>>

-----------------------------------------------------------------------------
(* CacheStore *)

Fresh(k) == row[k].left > 0
Expired(k) == row[k] # NoRow /\ ~Fresh(k)

Wait(c) == queue' = Append(queue, c)

\* The probe's interval job is added paused (next_run_time=None): only the task
\* that start_scheduler creates runs it, once in the life of the process.
MayProbe == pc[Probe] = "idle" /\ status = "none"

MayCall(c) == pc[c] = "idle" /\ (c = Probe => MayProbe /\ health = "cached")

Get(c) ==
  LET k == KeyOf[c] IN
  /\ MayCall(c)
  /\ \/ /\ Fresh(k)
        /\ value' = [value EXCEPT ![c] = row[k].age]
        /\ Go(c, "log-hit")
        /\ UNCHANGED queue
     \/ /\ Expired(k)
        /\ Go(c, "drop")
        /\ UNCHANGED <<value, queue>>
     \/ /\ row[k] = NoRow
        /\ Go(c, "limiter") /\ Wait(c)
        /\ UNCHANGED value
  /\ UNCHANGED <<attempt, row, tokens, refilled, grants, sinceAnswer>>

\* The row is deleted by its key: one stored since the read goes with it.
DropExpired(c) ==
  /\ pc[c] = "drop"
  /\ row' = [row EXCEPT ![KeyOf[c]] = NoRow]
  /\ Go(c, "limiter") /\ Wait(c)
  /\ UNCHANGED <<attempt, value, tokens, refilled, grants, sinceAnswer>>

\* The upsert: whatever is there is replaced, by an older value too.
Set(c) ==
  /\ pc[c] = "store"
  /\ row' = [row EXCEPT ![KeyOf[c]] = [age |-> value[c], left |-> Ttl]]
  /\ Finish(c, TRUE)
  /\ UNCHANGED <<queue, tokens, refilled, grants, sinceAnswer>>

-----------------------------------------------------------------------------
(* RateLimiter *)

Refilled == Min({Full, tokens + refilled * MaxCalls})

\* Mutant of Acquire: acquire does not move _last_refill on.
AcquireSameRefill(c) ==
  /\ pc[c] = "limiter" /\ Head(queue) = c
  /\ Refilled >= Period
  /\ tokens' = Refilled - Period
  /\ UNCHANGED refilled
  /\ queue' = Tail(queue)
  /\ grants' = [grants EXCEPT ![0] = @ + 1]
  /\ attempt' = [attempt EXCEPT ![c] = 1]
  /\ Go(c, "load")
  /\ UNCHANGED <<value, row, sinceAnswer>>

Acquire(c) ==
  /\ pc[c] = "limiter" /\ Head(queue) = c
  /\ Refilled >= Period
  /\ tokens' = Refilled - Period
  /\ refilled' = 0
  /\ queue' = Tail(queue)
  /\ grants' = [grants EXCEPT ![0] = @ + 1]
  /\ attempt' = [attempt EXCEPT ![c] = 1]
  /\ Go(c, "load")
  /\ UNCHANGED <<value, row, sinceAnswer>>

-----------------------------------------------------------------------------
(* DataSource *)

Load(c) ==
  /\ pc[c] = "load"
  /\ \/ /\ value' = [value EXCEPT ![c] = 0]
        /\ sinceAnswer' = 0
        /\ Go(c, "log-load")
        /\ UNCHANGED attempt
     \/ \* a TimeoutError or ConnectionError is tried again, without a token
        /\ attempt[c] < MaxRetries
        /\ attempt' = [attempt EXCEPT ![c] = @ + 1]
        /\ UNCHANGED <<health, pc, held, status, elapsed, sinceProbe, value, sinceAnswer>>
     \/ /\ Go(c, "log-failure")
        /\ UNCHANGED <<value, sinceAnswer, attempt>>
  /\ UNCHANGED <<row, queue, tokens, refilled, grants>>

\* _log_source_call swallows what goes wrong with the row.
LogSourceCall(c) ==
  /\ \/ pc[c] = "log-hit" /\ Finish(c, TRUE)
     \/ pc[c] = "log-load" /\ Go(c, "store") /\ UNCHANGED <<attempt, value>>
     \/ pc[c] = "log-failure" /\ Finish(c, FALSE)
  /\ UNCHANGED <<row, queue, tokens, refilled, grants, sinceAnswer>>

\* The cache's own statements fail the call, a value already loaded included.
DatabaseFails(c) ==
  /\ pc[c] \in {"drop", "store"}
  /\ Finish(c, FALSE)
  /\ UNCHANGED <<row, queue, tokens, refilled, grants, sinceAnswer>>

\* Whoever waited behind it moves up.
Leave(c) ==
  IF pc[c] = "limiter"
  THEN \E i \in DOMAIN queue :
         /\ queue[i] = c
         /\ queue' = [j \in 1 .. Len(queue) - 1 |-> IF j < i THEN queue[j] ELSE queue[j + 1]]
  ELSE UNCHANGED queue

\* A caller can be cancelled at any await (/ask after 15 seconds).
Cancelled(c) ==
  /\ c # Probe /\ pc[c] # "idle"
  /\ Finish(c, FALSE) /\ Leave(c)
  /\ UNCHANGED <<row, tokens, refilled, grants, sinceAnswer>>

\* health() of a source that looks at nothing but itself.
ProbeAsksNobody ==
  /\ MayProbe /\ health \in {"assumed", "keyless"}
  /\ Finish(Probe, health = "assumed")
  /\ UNCHANGED <<row, queue, tokens, refilled, grants, sinceAnswer>>

\* health() that sends its own request, past the cache, the limiter and the
\* retries, and what comes of it.
ProbeDirectly ==
  /\ MayProbe /\ health = "direct"
  /\ Go(Probe, "ping")
  /\ UNCHANGED <<attempt, value, row, queue, tokens, refilled, grants, sinceAnswer>>

Pinged ==
  /\ pc[Probe] = "ping"
  /\ \/ Finish(Probe, TRUE) /\ sinceAnswer' = 0
     \/ Finish(Probe, FALSE) /\ UNCHANGED sinceAnswer
  /\ UNCHANGED <<row, queue, tokens, refilled, grants>>

ProbeTimesOut ==
  /\ pc[Probe] # "idle" /\ elapsed = ProbeCap
  /\ Finish(Probe, FALSE) /\ Leave(Probe)
  /\ UNCHANGED <<row, tokens, refilled, grants, sinceAnswer>>

-----------------------------------------------------------------------------

InDatabase(c) == pc[c] \in {"drop", "log-hit", "log-load", "log-failure", "store"}
Carries(c) == pc[c] \in {"log-hit", "log-load", "store"}

SourceTick ==
  /\ \A c \in Callers : InDatabase(c) => held[c] < Lag
  /\ pc[Probe] # "idle" => elapsed < ProbeCap
  /\ held' = [c \in Callers |-> IF InDatabase(c) THEN held[c] + 1 ELSE 0]
  /\ value' = [c \in Callers |-> IF Carries(c) THEN Older(value[c], Never) ELSE value[c]]
  /\ row' = [k \in Keys |-> IF row[k] = NoRow THEN NoRow
                            ELSE [age |-> Older(row[k].age, Never - 1),
                                  left |-> Max({row[k].left, 1}) - 1]]
  /\ refilled' = Older(refilled, Period)
  /\ grants' = [t \in DOMAIN grants |-> IF t = 0 THEN 0 ELSE grants[t - 1]]
  /\ elapsed' = IF pc[Probe] # "idle" THEN elapsed + 1 ELSE 0
  /\ sinceProbe' = Older(sinceProbe, 3)
  /\ sinceAnswer' = Older(sinceAnswer, Never)
  /\ UNCHANGED <<health, pc, attempt, queue, tokens, status>>

CallStep(c) ==
  DropExpired(c) \/ Set(c) \/ Acquire(c) \/ Load(c) \/ LogSourceCall(c) \/ DatabaseFails(c)

SourceNext ==
  \/ \E c \in Callers : Get(c) \/ CallStep(c) \/ Cancelled(c)
  \/ ProbeAsksNobody \/ ProbeDirectly \/ Pinged \/ ProbeTimesOut
  \/ SourceTick

-----------------------------------------------------------------------------
(* Properties *)

SourceTypeOK ==
  /\ health \in HealthKinds
  /\ pc \in [Callers -> {"idle", "drop", "limiter", "load", "log-load", "log-hit",
                         "log-failure", "store", "ping"}]
  /\ attempt \in [Callers -> 0..MaxRetries] /\ held \in [Callers -> 0..Lag]
  /\ value \in [Callers -> 0..Never]
  /\ row \in [Keys -> [age : 0..Never, left : 0..Ttl]]
  /\ {c \in Callers : pc[c] = "limiter"} = {queue[i] : i \in DOMAIN queue}
  /\ tokens \in 0..Full /\ refilled \in 0..Period
  /\ status \in {"none", "ok", "degraded", "down"} /\ elapsed \in 0..ProbeCap

\* Whatever the callers that load the same key do to each other's row
\* (cache/store.py:66) or drop of it (cache/store.py:57), nobody is served a
\* value older than its time to live and the awaits it passed through.  And
\* what /health shows as reachable (services/health_probe.py:53) had answered
\* by the time of that probe, or not longer before it than a cached value
\* lives: a probe that failed, or was cut short, never shows as reachable.  The
\* one exception is a source that says so without asking anybody
\* (tradingview_ta.py:131-133): of that one the verdict says nothing.
ServedIsRecent ==
  /\ SourceTypeOK
  /\ \A c \in Callers : Carries(c) => value[c] <= MaxAge
  /\ status \in {"ok", "degraded"} /\ health # "assumed" =>
       sinceAnswer <= sinceProbe + MaxAge

\* The bucket (sources/base.py:78) lets no more than a full bucket and what
\* it regains meanwhile through in any period: twice max_calls, which its
\* docstring calls the upper bound.  What takes no token is not counted: the
\* retries of a load and the ping of coingecko's health().
RateIsBounded == SumFunction(grants) <= 2 * MaxCalls

SourceSpec == SourceInit /\ [][SourceNext]_sourceVars

=============================================================================
