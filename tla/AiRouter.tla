------------------------------ MODULE AiRouter ------------------------------
(***************************************************************************)
(* The AI router (ai/router.py) with its usage tracker, its four providers *)
(* and the requests that run through it.  A request of Asks is POST /ask:  *)
(* plan, collect, summarise, all of it under one 15-second timeout that    *)
(* can cancel it at any await.  A request of Others is one complete() of   *)
(* an AIService method.                                                    *)
(*                                                                         *)
(* The quota is the number of today's rows in ai_calls; it is read before  *)
(* a call and the row is written after it, so requests that run together   *)
(* do not see each other's calls.  Gemini's client is synchronous and runs *)
(* in a thread of the default executor, which nothing can cancel.          *)
(***************************************************************************)
EXTENDS Naturals, Sequences, FiniteSets

CONSTANTS
  Asks,          \* the requests of POST /ask
  Others,        \* the requests that are a single complete()
  Configured,    \* the providers that have an API key
  DailyLimit,    \* the calls a day of each provider; 0 means no gate
  Resends,       \* max_retries of the groq and openai clients, left at its default
  Workers,       \* threads of the default executor
  Midnights      \* how many midnights may pass

Requests == Asks \cup Others
Providers == {"groq", "openrouter", "gemini", "nvidia"}

ASSUME RouterAssumption ==
  /\ Asks \cap Others = {}
  /\ IsFiniteSet(Requests) /\ Requests # {}
  /\ DailyLimit \in [Providers -> Nat]
  /\ Resends \in Nat
  /\ Workers \in Nat \ {0}
  /\ Midnights \in Nat

VARIABLES
  stage,      \* how far each request is
  call,       \* its run through the chain: task type, position, what it awaits
  rows,       \* today's rows of ai_calls, by provider
  issued,     \* completions asked of each provider since midnight
  requested,  \* HTTP requests its SDK has made of them
  unlogged,   \* attempts whose row was never written, since midnight
  orphans,    \* executor threads whose caller has given up on them
  passed      \* midnights passed

routerVars == <<stage, call, rows, issued, requested, unlogged, orphans, passed>>

ReasoningChain == <<"nvidia", "openrouter", "gemini", "groq">>
AnalysisChain == <<"nvidia", "groq", "openrouter", "gemini">>
Chain ==
  [ classify   |-> <<"groq", "nvidia", "gemini", "openrouter">>,
    analysis   |-> AnalysisChain,
    reasoning  |-> ReasoningChain,
    summary    |-> <<"gemini", "groq", "nvidia", "openrouter">>,
    validate   |-> ReasoningChain,
    postmortem |-> AnalysisChain ]

Finished == {"answered", "degraded", "failed", "timeout"}
Idle == [task |-> "none", step |-> 0, at |-> "none"]

RouterInit ==
  /\ stage = [r \in Requests |-> "new"]
  /\ call = [r \in Requests |-> Idle]
  /\ rows = [p \in Providers |-> 0]
  /\ issued = [p \in Providers |-> 0]
  /\ requested = [p \in Providers |-> 0]
  /\ unlogged = [p \in Providers |-> 0]
  /\ orphans = 0
  /\ passed = 0

-----------------------------------------------------------------------------
(* Who a request is asking, and what it finds there *)

ProviderOf(r) == Chain[call[r].task][call[r].step]

Awaits(r, at) == call[r].at = at

\* int(daily_limit * skip_ratio), with skip_ratio = 0.90
SkipAt(p) == (9 * DailyLimit[p]) \div 10

CallsToday(p) == rows[p]

IsOverLimit(p) == DailyLimit[p] > 0 /\ CallsToday(p) >= SkipAt(p)

InFlight(p) == {r \in Requests : Awaits(r, "reply") /\ ProviderOf(r) = p}

\* The HTTP requests one completion may come to: the SDK sends again what fails.
Sends(p) == IF p = "gemini" THEN 1 ELSE 1 + Resends

\* The completion goes out to p, its requests counted on the day it does.
Ask(p) ==
  /\ issued' = [issued EXCEPT ![p] = @ + 1]
  /\ \E n \in 1 .. Sends(p) : requested' = [requested EXCEPT ![p] = @ + n]

FreeThread == Cardinality(InFlight("gemini")) + orphans < Workers

\* What complete() of a provider comes to: an error or its own timeout is a
\* failed response; an SDK reply with no choices raises outside the try.
GroqOutcomes == {"ok", "failed", "raised"}
NvidiaOutcomes == {"ok", "failed", "raised"}
OpenRouterOutcomes == {"ok", "failed", "raised"}
GeminiOutcomes == {"ok", "failed", "abandoned"}
Outcomes ==
  [ groq |-> GroqOutcomes, nvidia |-> NvidiaOutcomes,
    openrouter |-> OpenRouterOutcomes, gemini |-> GeminiOutcomes ]

-----------------------------------------------------------------------------
(* What a request makes of complete() returning (ok or not) or raising *)

\* A plan that is no JSON becomes intent "other"; one with null tickers is a
\* TypeError in _execute_plan, which /ask does not catch.
AfterPlan(ok) == IF ok THEN {"collect", "failed"} ELSE {"collect"}

AfterAnswer(ok) == IF ok THEN {"answered"} ELSE {"degraded"}

\* Classifiers degrade a reply they cannot parse.
AfterSingle(ok) == IF ok THEN {"answered", "degraded"} ELSE {"degraded"}

After(r, ok) ==
  CASE stage[r] = "plan"   -> AfterPlan(ok)
    [] stage[r] = "answer" -> AfterAnswer(ok)
    [] OTHER               -> AfterSingle(ok)

\* 502 from the planner, a canned text from the summariser, and from the
\* other methods the exception itself.
AfterRaise(r) == IF stage[r] = "answer" THEN "degraded" ELSE "failed"

Return(r, ok) ==
  /\ \E s \in After(r, ok) : stage' = [stage EXCEPT ![r] = s]
  /\ call' = [call EXCEPT ![r] = Idle]

Raise(r) ==
  /\ stage' = [stage EXCEPT ![r] = AfterRaise(r)]
  /\ call' = [call EXCEPT ![r] = Idle]

\* Mutant of TryNext: a provider that fails is asked again, never the next.
TryNextSame(r) ==
  IF call[r].step < Len(Chain[call[r].task])
  THEN /\ call' = [call EXCEPT ![r].at = "gate"]
       /\ UNCHANGED stage
  ELSE Return(r, FALSE)

\* The next step of the chain, or "all providers exhausted".
TryNext(r) ==
  IF call[r].step < Len(Chain[call[r].task])
  THEN /\ call' = [call EXCEPT ![r] = [task |-> @.task, step |-> @.step + 1, at |-> "gate"]]
       /\ UNCHANGED stage
  ELSE Return(r, FALSE)

Move(r, at) == call' = [call EXCEPT ![r].at = at]

Begin(r, s, task) ==
  /\ stage' = [stage EXCEPT ![r] = s]
  /\ call' = [call EXCEPT ![r] = [task |-> task, step |-> 1, at |-> "gate"]]

-----------------------------------------------------------------------------
(* The steps of a request *)

PlanQuery(r) ==
  /\ r \in Asks /\ stage[r] = "new"
  /\ Begin(r, "plan", "reasoning")
  /\ UNCHANGED <<rows, issued, requested, unlogged, orphans, passed>>

\* news_sentiment, symbol_analysis and the trade validator, one chain each
SingleTask(r) ==
  /\ r \in Others /\ stage[r] = "new"
  /\ \E task \in {"classify", "analysis", "validate"} : Begin(r, "single", task)
  /\ UNCHANGED <<rows, issued, requested, unlogged, orphans, passed>>

\* Every source's failure is caught: the plan is executed with what there is.
CollectAndSummarise(r) ==
  /\ stage[r] = "collect"
  /\ Begin(r, "answer", "summary")
  /\ UNCHANGED <<rows, issued, requested, unlogged, orphans, passed>>

Skip(r) ==
  /\ Awaits(r, "gate")
  /\ ProviderOf(r) \notin Configured \/ IsOverLimit(ProviderOf(r))
  /\ TryNext(r)
  /\ UNCHANGED <<rows, issued, requested, unlogged, orphans, passed>>

\* The rows are counted and the call goes out; Gemini's waits for a thread.
Try(r) ==
  LET p == ProviderOf(r) IN
  /\ Awaits(r, "gate")
  /\ p \in Configured /\ ~IsOverLimit(p)
  /\ IF p = "gemini" THEN Move(r, "thread") /\ UNCHANGED <<issued, requested>>
     ELSE Move(r, "reply") /\ Ask(p)
  /\ UNCHANGED <<stage, rows, unlogged, orphans, passed>>

ThreadStarts(r) ==
  /\ Awaits(r, "thread") /\ FreeThread
  /\ Move(r, "reply")
  /\ Ask("gemini")
  /\ UNCHANGED <<stage, rows, unlogged, orphans, passed>>

\* The 30 seconds pass in the executor's queue: the call is never made.
ThreadNeverStarts(r) ==
  /\ Awaits(r, "thread")
  /\ Move(r, "log-failed")
  /\ UNCHANGED <<stage, rows, issued, requested, unlogged, orphans, passed>>

\* A reply, an error or the provider's own timeout.  A Gemini call that is
\* given up leaves its thread running.
Reply(r) ==
  LET p == ProviderOf(r) IN
  /\ Awaits(r, "reply")
  /\ \E out \in Outcomes[p] :
       /\ IF out = "raised"
          THEN Raise(r) /\ unlogged' = [unlogged EXCEPT ![p] = @ + 1]
          ELSE /\ Move(r, IF out = "ok" THEN "log-ok" ELSE "log-failed")
               /\ UNCHANGED <<stage, unlogged>>
       /\ orphans' = IF out = "abandoned" THEN orphans + 1 ELSE orphans
  /\ UNCHANGED <<rows, issued, requested, passed>>

Logging(r) == Awaits(r, "log-ok") \/ Awaits(r, "log-failed")

\* Mutant of LogCall: only successful calls count.
LogCallSuccessOnly(r) ==
  /\ Logging(r)
  /\ rows' = [rows EXCEPT ![ProviderOf(r)] = IF Awaits(r, "log-ok") THEN @ + 1 ELSE @]
  /\ IF Awaits(r, "log-ok") THEN Return(r, TRUE) ELSE TryNext(r)
  /\ UNCHANGED <<issued, requested, unlogged, orphans, passed>>

LogCall(r) ==
  /\ Logging(r)
  /\ rows' = [rows EXCEPT ![ProviderOf(r)] = @ + 1]
  /\ IF Awaits(r, "log-ok") THEN Return(r, TRUE) ELSE TryNext(r)
  /\ UNCHANGED <<issued, requested, unlogged, orphans, passed>>

\* The database stays locked for the 30 seconds of its timeout.
LogCallFails(r) ==
  /\ Logging(r)
  /\ Raise(r)
  /\ unlogged' = [unlogged EXCEPT ![ProviderOf(r)] = @ + 1]
  /\ UNCHANGED <<rows, issued, requested, orphans, passed>>

\* asyncio.wait_for cancels whatever /ask awaits; a row that is being written
\* may or may not be there afterwards.
AskTimesOut(r) ==
  /\ r \in Asks /\ stage[r] \notin Finished \cup {"new"}
  /\ stage' = [stage EXCEPT ![r] = "timeout"]
  /\ call' = [call EXCEPT ![r] = Idle]
  /\ IF Awaits(r, "reply") \/ Logging(r)
     THEN LET p == ProviderOf(r) IN
          \/ /\ unlogged' = [unlogged EXCEPT ![p] = @ + 1]
             /\ UNCHANGED rows
          \/ /\ Logging(r)
             /\ rows' = [rows EXCEPT ![p] = @ + 1]
             /\ UNCHANGED unlogged
     ELSE UNCHANGED <<rows, unlogged>>
  /\ orphans' = IF Awaits(r, "reply") /\ ProviderOf(r) = "gemini" THEN orphans + 1 ELSE orphans
  /\ UNCHANGED <<issued, requested, passed>>

ThreadEnds ==
  /\ orphans > 0
  /\ orphans' = orphans - 1
  /\ UNCHANGED <<stage, call, rows, issued, requested, unlogged, passed>>

\* calls_today counts from midnight UTC.
Midnight ==
  /\ passed < Midnights
  /\ passed' = passed + 1
  /\ rows' = [p \in Providers |-> 0]
  /\ issued' = [p \in Providers |-> 0]
  /\ requested' = [p \in Providers |-> 0]
  /\ unlogged' = [p \in Providers |-> 0]
  /\ UNCHANGED <<stage, call, orphans>>

RequestStep(r) ==
  \/ PlanQuery(r) \/ SingleTask(r) \/ CollectAndSummarise(r)
  \/ Skip(r) \/ Try(r) \/ ThreadStarts(r) \/ ThreadNeverStarts(r)
  \/ Reply(r) \/ LogCall(r) \/ LogCallFails(r) \/ AskTimesOut(r)

RouterNext ==
  \/ \E r \in Requests : RequestStep(r)
  \/ ThreadEnds
  \/ Midnight

-----------------------------------------------------------------------------
(* Properties *)

RouterTypeOK ==
  /\ stage \in [Requests -> {"new", "plan", "collect", "answer", "single"} \cup Finished]
  /\ call \in [Requests -> [ task : DOMAIN Chain \cup {"none"}, step : 0..4,
                             at : {"none", "gate", "thread", "reply", "log-ok", "log-failed"} ]]
  /\ \A r \in Requests : call[r] # Idle <=> stage[r] \in {"plan", "answer", "single"}
  /\ {rows, issued, requested, unlogged} \subseteq [Providers -> Nat]
  /\ orphans \in 0..Workers

\* Requests that run together pass the gate of a provider (ai/router.py:152)
\* on the same count, and a cancelled or failed log (ai/router.py:170) is
\* never made up for: a day's completions exceed the gate by no more than one
\* per other request, plus those that were not logged.  The provider may see
\* more: the clients are built with their default retries (groq_provider.py:47,
\* openrouter_provider.py:42, nvidia_provider.py:52), of which the count knows
\* nothing, so that each completion may be several requests.
OvershootIsBounded ==
  RouterTypeOK /\ \A p \in Providers : DailyLimit[p] > 0 =>
    LET most == SkipAt(p) + Cardinality(Requests) - 1 + unlogged[p]
    IN  issued[p] <= most /\ requested[p] <= Sends(p) * most

\* Every request ends, whatever the providers do and however many of the
\* executor's threads hang in Gemini's client (gemini_provider.py:60): each
\* await of the chain has its own timeout, and the chain is walked forwards.
EveryRequestIsAnswered ==
  \A r \in Requests : stage[r] # "new" ~> stage[r] \in Finished

\* A provider's timeout, the executor queue's and the database's all come, so
\* a request that has begun takes a step; whether it is logged, cancelled or
\* raised is left open, and threads need not end.
RouterFairness == \A r \in Requests : WF_routerVars(RequestStep(r))

RouterSpec == RouterInit /\ [][RouterNext]_routerVars /\ RouterFairness

=============================================================================
