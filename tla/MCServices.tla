----------------------------- MODULE MCServices -----------------------------
(***************************************************************************)
(* The services beside the trading path.  The AI router, a data source and *)
(* the jobs that message users share no state, so a behaviour follows one  *)
(* part: the router, the source, or jobs that compete for the write lock.  *)
(* Those meet only there, and are taken by pairs, with one url; the news   *)
(* job, which competes with itself, is also run alone, with all of them.   *)
(***************************************************************************)
EXTENDS ServicesInv, TLC

VARIABLE part

vars == <<part, routerVars, sourceVars, jobVars>>

Parts == {"router", "source", "alerts and news", "watchlist and news", "news"}
JobParts == Parts \ {"router", "source"}

\* Gates at one call (int(2 * 0.9)) for the providers that are configured.
SomeLimits == [groq |-> 0, openrouter |-> 2, gemini |-> 2, nvidia |-> 2]

\* Both callers ask for the same key.
SomeKeys == [c \in Callers |-> "ticker"]

\* The first is due at every price, the second at one of the two.
SomeAlerts ==
  { [ticker |-> "btc", op |-> ">", target |-> 0],
    [ticker |-> "eth", op |-> "<", target |-> 2] }

SomeWatched == {[user |-> "ana", ticker |-> "btc"]}

\* Two anomalies at the edge of their thresholds, and none.
SomeSnapshots == {[rsi |-> 29, change |-> 5], [rsi |-> 30, change |-> -4]}

FirstUrl == CHOOSE url \in Urls : TRUE

Init ==
  /\ part \in Parts /\ RouterInit /\ SourceInit /\ JobsInit
  /\ part # "source" => health = "cached"

Next ==
  /\ UNCHANGED part
  /\ \/ part = "router" /\ RouterNext /\ UNCHANGED <<sourceVars, jobVars>>
     \/ part = "source" /\ SourceNext /\ UNCHANGED <<routerVars, jobVars>>
     \/ /\ part \in JobParts /\ JobsNext /\ UNCHANGED <<routerVars, sourceVars>>
        /\ part # "alerts and news" => alert' = alert
        /\ part # "watchlist and news" => watch' = watch
        /\ part # "news" => news'.items \subseteq {FirstUrl}
        /\ part = "alerts and news" => ~TimePasses
        /\ part = "watchlist and news" => faults' = faults

\* The fairness of RouterSpec and JobsSpec, each for its own part.
Spec ==
  /\ Init /\ [][Next]_vars
  /\ \A r \in Requests : WF_routerVars(part = "router" /\ RequestStep(r))
  /\ WF_jobVars(part = "alerts and news" /\ PriceStep)
  /\ \A a \in Due : SF_jobVars(part = "alerts and news" /\ Fire(a, TRUE))
  /\ \A a \in Due : SF_jobVars(part = "alerts and news" /\
                               \E p \in Quotes : p[a.ticker] # None /\ FetchPrices(p))
=============================================================================
