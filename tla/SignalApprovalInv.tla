-------------------------- MODULE SignalApprovalInv --------------------------
(***************************************************************************)
(* The inductive invariant of SignalApproval: what a scan and a click have *)
(* established at each of their steps, what the rows of a signal say of    *)
(* each other, and what every decision that was taken can rely on.  TLC    *)
(* checks it and SignalApprovalProofs proves it inductive.                 *)
(***************************************************************************)
EXTENDS SignalApproval

AfterVerdict == {"evaluate", "append", "notify"}

\* A scan works on signals whose cards are not out yet, and those it has still
\* to store have no row.
ScanSound ==
  /\ bot \notin ScanSteps => todo = {}
  /\ bot \in ScanSteps => cur \notin offered /\ cur \notin todo
  /\ bot = "add" => status[cur] = "none"
  /\ bot \in ScanSteps \ {"add"} => status[cur] # "none"
  /\ bot \in AfterVerdict => verdict[cur] \in {"approve", "crash"}
  /\ bot = "notify" /\ draft.ok => latest[cur].made /\ latest[cur] = draft
  /\ \A t \in todo : status[t] = "none"

\* Buttons are only pressed on offered cards; a task starts for a signal that
\* has just been consumed.
ClickSound ==
  /\ bot \in OkSteps \union {"cancel"} => cur \in offered
  /\ bot = "spawn" => status[cur] = "consumed" /\ started[cur] = 0
  /\ bot \in {"append", "ok_append"} => draft.made
  /\ bot = "judge" => latest[cur] = draft
  /\ bot \in {"ok_append", "judge"} => began <= draft.at + StaleAfter

SignalSound(s) ==
  /\ s \in offered =>
       status[s] # "none" /\ verdict[s] \in {"approve", "crash"} /\ latest[s].made
  /\ status[s] = "consumed" => s \in offered
  /\ started[s] # 0 => started[s] = 1 /\ status[s] = "consumed"

\* The decisions held in memory and on record, and the consumptions.
Held == {draft} \union {latest[s] : s \in Signals}
Uses == {used[s] : s \in Consumed}

\* A decision that approves was made in the past, while trading was enabled and
\* within the caps of its time.
DecisionSound(d) ==
  d.ok => /\ d.at <= now
          /\ ~enabled => d.at <= stoppedAt
          /\ WithinCaps(d.at)

\* So was the decision behind a consumption, and its click was recent.
UseSound(u) ==
  /\ u.decided <= now /\ u.began <= now
  /\ WithinCaps(u.decided)
  /\ ~enabled => u.began <= stoppedAt + StaleAfter

\* The conjunction, which every step preserves.
ApprovalInv ==
  /\ TypeOK
  /\ began <= now
  /\ ScanSound
  /\ ClickSound
  /\ \A s \in Signals : SignalSound(s)
  /\ \A d \in Held : DecisionSound(d)
  /\ \A u \in Uses : UseSound(u)

=============================================================================
