----------------------------- MODULE AiRouterInv -----------------------------
(***************************************************************************)
(* The inductive invariant that ServicesProofs establishes for AiRouter:   *)
(* RouterInv, and beside it RequestsSound about the requests of the SDKs.  *)
(***************************************************************************)
EXTENDS AiRouter

Places == {"none", "gate", "thread", "reply", "log-ok", "log-failed"}

\* A request's run through a chain, by where it is: past the gate of p, and
\* of those still waiting for a thread, or waiting for the reply.
Past(c, p)    == c.at \in {"thread", "reply", "log-ok", "log-failed"} /\ Chain[c.task][c.step] = p
Waits(c, p)   == c.at = "thread" /\ Chain[c.task][c.step] = p
Replies(c, p) == c.at = "reply" /\ Chain[c.task][c.step] = p

PastGate(p) == {r \in Requests : Past(call[r], p)}
Queued(p)   == {r \in Requests : Waits(call[r], p)}
Replying(p) == {r \in Requests : Replies(call[r], p)}

Calls == [task : DOMAIN Chain \cup {"none"}, step : 0 .. 4, at : Places]

InChain == {"plan", "answer", "single"}
Stages == {"new", "collect"} \cup InChain \cup Finished

Types ==
  /\ stage \in [Requests -> Stages]
  /\ call \in [Requests -> Calls]
  /\ rows \in [Providers -> Nat] /\ issued \in [Providers -> Nat]
  /\ unlogged \in [Providers -> Nat]
  /\ orphans \in Nat

\* A request that is in a chain is at one of its steps, and only Gemini's
\* calls wait for a thread.
PlaceOf(c) ==
  /\ c.at = "none" <=> c = Idle
  /\ c.at # "none" => c.task \in DOMAIN Chain /\ c.step \in 1 .. 4
  /\ c.at = "thread" => Chain[c.task][c.step] = "gemini"

CallsSound ==
  \A r \in Requests :
    PlaceOf(call[r]) /\ (call[r] # Idle <=> stage[r] \in InChain)

\* A call issued is a row, an attempt that lost its row, or on its way to one.
\* Those that wait for a thread are counted as if they were issued: they have
\* passed the gate, and rows written meanwhile do not call them back.
CountSound(p) ==
  /\ issued[p] + Cardinality(Queued(p)) <= rows[p] + unlogged[p] + Cardinality(PastGate(p))
  /\ DailyLimit[p] > 0 =>
       /\ issued[p] + Cardinality(Queued(p))
            <= SkipAt(p) + Cardinality(Requests) - 1 + unlogged[p]
       /\ Cardinality(PastGate(p)) > 0 => SkipAt(p) >= 1

\* No completion was sent more often than its SDK sends it.
RequestsSound ==
  /\ requested \in [Providers -> Nat]
  /\ \A p \in Providers : requested[p] <= Sends(p) * issued[p]

ThreadsSound == Cardinality(Replying("gemini")) + orphans <= Workers

RouterInv ==
  /\ Types /\ CallsSound /\ ThreadsSound
  /\ \A p \in Providers : CountSound(p)

=============================================================================
