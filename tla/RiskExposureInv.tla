--------------------------- MODULE RiskExposureInv ---------------------------
(***************************************************************************)
(* The inductive invariant of RiskExposure, with that of the snapshots it  *)
(* is computed from.  TLC checks it and RiskExposureProofs proves it       *)
(* inductive.                                                              *)
(***************************************************************************)
EXTENDS RiskExposure

\* Whoever is between the two calls holds the lock, nobody waits twice, and no
\* cached snapshot, nor one in the making, is older than the one before.
PortfolioSound ==
  /\ \A c \in Callers : phase[c] = "positions" => Holds(c)
  /\ \A i, j \in DOMAIN queue : queue[i] = queue[j] => i = j
  /\ cache.ok =>
       /\ cache.snap.at <= now
       /\ \A c \in Callers : phase[c] = "positions" => balance[c].at >= cache.snap.at

\* Only produced signals have decisions, and only decided ones are consumed.
RowsSound ==
  \A s \in Signals :
    /\ latest[s].made => status[s] # "none" /\ latest[s].at <= now
    /\ latest[s].ok => latest[s].made
    /\ latest[s].saw \subseteq Consumed
    /\ s \in Consumed => latest[s].made /\ used[s].ok /\ used[s].saw \subseteq Consumed

\* A consumed signal that was evaluated again was evaluated later: what it was
\* executed under is never on record again.
UsedSound ==
  /\ \A s \in Consumed : latest[s] = used[s] \/ used[s].at < latest[s].at
  /\ cur # NoSignal =>
       status[cur] # "none" /\ (latest[cur].made => latest[cur].at < now)

\* What SizeWithinLimits says of a decision about s.
Limited(s, d) ==
  /\ d.sized >= MinNotional /\ d.sized > 0
  /\ d.sized <= d.free
  /\ 100 * d.sized <= PositionPct * d.equity
  /\ 100 * d.sized <= TickerPct * d.equity
  /\ 100 * d.sized * proposal[s].distance <= RiskPct * d.equity * proposal[s].entry
  /\ 100 * d.amount <= MaxModifier * d.sized

\* Executed before decision d, and not evaluated again since.
Before(d, members) ==
  {t \in d.saw : latest[t] = used[t] /\ TickerOf(t) \in members}

\* What EveryApprovalSawHeadroom says of a decision about s.
Headroom(s, d) ==
  /\ 100 * SumUsed(Before(d, {TickerOf(s)})) < TickerPct * d.equity
  /\ \A g \in Groups :
       TickerOf(s) \in g.members => 100 * SumUsed(Before(d, g.members)) < g.pct * d.equity

\* An approving decision was within the limits when it was taken, and is while
\* it may still be acted upon; so was the one a signal was executed under.
DecisionsSound ==
  \A s \in Signals :
    /\ latest[s].ok => Limited(s, latest[s]) /\ Headroom(s, latest[s])
    /\ s \in Consumed => Headroom(s, used[s])

\* The window that a breach opens lasts as long as the day it is remembered.
DaySound == breached => Midnight <= killedUntil

RiskInv ==
  /\ TypeOK
  /\ PortfolioSound /\ RowsSound /\ UsedSound /\ DecisionsSound /\ DaySound

=============================================================================
