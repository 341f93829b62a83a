-------------------------- MODULE OperatingModesInv --------------------------
(***************************************************************************)
(* The inductive invariant of OperatingModes: what the audit rows say of   *)
(* the mode and of the forces, how a panic's promise is kept, and what a   *)
(* go-live has established when it enables trading.  TLC checks it and     *)
(* OperatingModesProofs proves it inductive.                               *)
(***************************************************************************)
EXTENDS OperatingModes

LastRow == log[Len(log)]

\* The row being written, or else the last one, is the current mode's entry.
AuditSound ==
  ~lost => IF job.step = "audit" THEN job.to = mode /\ job.at = since
           ELSE IF log = <<>> THEN mode = "off"
           ELSE LastRow.to = mode /\ LastRow.at = since

\* The last force of every operator has a row, or is about to have it.
ForceRecorded(a) ==
  \/ \E i \in DOMAIN log : log[i].by = a /\ log[i].at = lastForce[a]
  \/ job.step = "audit" /\ job.by = a /\ job.at = lastForce[a]

ForcesSound == ~lost => \A a \in Actors : lastForce[a] # 0 => ForceRecorded(a)

\* A go-live past its code works on a pending row of its operator, confirmed in
\* its time.
CodeAccepted ==
  /\ mode = "live" /\ job.kind = "live" /\ job.pend \in DOMAIN pendings
  /\ LET p == pendings[job.pend] IN
       /\ p.by = job.by /\ p.status = "pending" /\ p.attempts < MaxAttempts
       /\ p.at + ConfirmDelay <= job.at /\ job.at < p.at + CodeTtl

CodeSound ==
  /\ job.step = "enable" \/ (job.step = "audit" /\ job.kind = "live") => CodeAccepted
  /\ job.step \in {"email", "confirm"} => job.pend \in DOMAIN pendings

\* The conjunction, which every step preserves.
OperatingInv ==
  /\ TypeOK
  /\ AuditSound
  /\ ForcesSound
  /\ CodeSound
  /\ promised <= killedUntil
  /\ WindDownHolds

-----------------------------------------------------------------------------
(* What the windows of the log say of the trades closed: a second inductive  *)
(* invariant, relative to the first.                                         *)

\* Trade k closed after a row into paper and before the next one; the row of a
\* change under way counts as written.
InPaperWindow(k) ==
  \/ \E i \in DOMAIN log :
       /\ log[i].to = "paper" /\ log[i].at <= closes[k]
       /\ IF i < Len(log) THEN closes[k] < log[i + 1].at
                          ELSE job.step = "audit" => closes[k] < job.at
  \/ job.step = "audit" /\ job.to = "paper" /\ job.at <= closes[k]

PaperTrades == {k \in DOMAIN closes : InPaperWindow(k)}

\* Nothing on record is of the future.
TimesPast ==
  /\ \A i \in DOMAIN log : log[i].at <= now
  /\ \A k \in DOMAIN closes : closes[k] <= now
  /\ job.step = "audit" => job.at <= now

TradesInv ==
  /\ TimesPast
  /\ ~lost => Cardinality(PaperTrades) <= inPaper

=============================================================================
