------------------------ MODULE SignalApprovalProofs ------------------------
(***************************************************************************)
(* Theorems about SignalApproval, for any number of signals and any value  *)
(* of the limits: its safety properties, and that it implements            *)
(* SignalOutcome.  SignalApprovalInv defines the inductive invariant.      *)
(***************************************************************************)
EXTENDS SignalApprovalInv, FiniteSetTheorems, TLAPS

-----------------------------------------------------------------------------
(* Types *)

USE ApprovalAssumption

LEMMA TypeInit == Init => TypeOK
  BY DEF Init, TypeOK, BotSteps, Decisions, NoDecision, Statuses, Verdicts

LEMMA EvaluationType == ASSUME TypeOK PROVE Evaluation \subseteq Decisions
<1> SUFFICES ASSUME NEW d \in Evaluation PROVE d \in Decisions
  OBVIOUS
<1>1. PICK ok \in BOOLEAN : d = [made |-> TRUE, ok |-> ok, at |-> now]
  BY DEF Evaluation
<1> QED
  BY <1>1 DEF TypeOK, Decisions

LEMMA TypeStep == TypeOK /\ [Next]_vars => TypeOK'
<1> SUFFICES ASSUME TypeOK, [Next]_vars PROVE TypeOK'
  OBVIOUS
<1> USE DEF TypeOK, BotSteps, ScanSteps, OkSteps, stateVars, botVars, rowVars, restVars
<1>0. NoDecision \in Decisions
  BY DEF NoDecision, Decisions
<1>1. ASSUME Scan PROVE TypeOK'
  BY <1>1 DEF Scan
<1>2. ASSUME Add PROVE TypeOK'
  BY <1>2 DEF Add, Goto, Statuses
<1>3. ASSUME AddFault PROVE TypeOK'
  BY <1>0, <1>3 DEF AddFault, Fault, NextOfScan, Statuses
<1>4. ASSUME Validate PROVE TypeOK'
  BY <1>4 DEF Validate, Goto, Verdicts
<1>5. ASSUME AiReject PROVE TypeOK'
  BY <1>0, <1>5 DEF AiReject, Transition, NextOfScan, Statuses
<1>6. ASSUME AiRejectFault PROVE TypeOK'
  BY <1>0, <1>6 DEF AiRejectFault, Fault, NextOfScan
<1>7. ASSUME Evaluate PROVE TypeOK'
  BY <1>7, EvaluationType DEF Evaluate
<1>8. ASSUME Append PROVE TypeOK'
  BY <1>8 DEF Append, Goto
<1>9. ASSUME EvaluateFault PROVE TypeOK'
  BY <1>0, <1>9 DEF EvaluateFault, Fault
<1>10. ASSUME Notify PROVE TypeOK'
  BY <1>0, <1>10 DEF Notify, NextOfScan
<1>11. ASSUME Click PROVE TypeOK'
  BY <1>11 DEF Click
<1>12. ASSUME ReadLatest PROVE TypeOK'
  BY <1>12 DEF ReadLatest
<1>13. ASSUME Reevaluate PROVE TypeOK'
  BY <1>13, EvaluationType DEF Reevaluate
<1>14. ASSUME AppendAgain PROVE TypeOK'
  BY <1>14 DEF AppendAgain, Goto
<1>15. ASSUME ReevaluateFault PROVE TypeOK'
  BY <1>0, <1>15 DEF ReevaluateFault, Fault, Finish
<1>16. ASSUME Refuse \/ ConsumeLate PROVE TypeOK'
  BY <1>0, <1>16 DEF Refuse, ConsumeLate, Finish
<1>17. ASSUME Consume PROVE TypeOK'
  BY <1>17 DEF Consume, MarkConsumed, Goto, Statuses, Decisions
<1>18. ASSUME Spawn PROVE TypeOK'
  BY <1>0, <1>18 DEF Spawn, Finish
<1>19. ASSUME Cancel PROVE TypeOK'
  BY <1>0, <1>19 DEF Cancel, Transition, Finish, Statuses
<1>20. ASSUME ClickFault PROVE TypeOK'
  BY <1>0, <1>20 DEF ClickFault, Fault, Transition, Finish, Statuses
<1>21. ASSUME Stop \/ GoLive PROVE TypeOK'
  <2>1. enabled' \in BOOLEAN
    BY <1>21, Zenon DEF Stop, GoLive
  <2>3. stoppedAt' \in Nat
    BY <1>21 DEF Stop, GoLive
  <2>2. UNCHANGED <<now, killedUntil, botVars, rowVars, restVars, offered, cand, faults,
                    crashes>>
    BY <1>21 DEF Stop, GoLive
  <2> QED
    BY <2>1, <2>2, <2>3
<1>22. ASSUME ListExpired PROVE TypeOK'
  BY <1>22 DEF ListExpired, ExpiredPending
<1>23. ASSUME Expire PROVE TypeOK'
  BY <1>23 DEF Expire, Transition, Statuses
<1>24. ASSUME ExpireFault PROVE TypeOK'
  BY <1>24 DEF ExpireFault, Fault
<1>25. ASSUME Tick PROVE TypeOK'
  BY <1>25 DEF Tick
<1>26. ASSUME Crash PROVE TypeOK'
  BY <1>0, <1>26 DEF Crash
<1>27. ASSUME UNCHANGED vars PROVE TypeOK'
  BY <1>27 DEF vars
<1> QED
  BY <1>1, <1>2, <1>3, <1>4, <1>5, <1>6, <1>7, <1>8, <1>9, <1>10, <1>11, <1>12, <1>13,
     <1>14, <1>15, <1>16, <1>17, <1>18, <1>19, <1>20, <1>21, <1>22, <1>23, <1>24, <1>25,
     <1>26, <1>27
     DEF Next, ScanStep, ClickStep, FaultStep

-----------------------------------------------------------------------------
(* Structure: what the handler and the rows agree on *)

Structure ==
  /\ began <= now
  /\ ScanSound
  /\ ClickSound
  /\ \A s \in Signals : SignalSound(s)

\* A decision taken now is on record from now, and approves only through the gates.
LEMMA NewDecision ==
  ASSUME NEW d \in Evaluation
  PROVE  d.made /\ d.at = now /\ (d.ok => KillSwitchOpen /\ BelowCap /\ BelowRate)
<1>1. PICK ok \in {o \in BOOLEAN : o => KillSwitchOpen /\ BelowCap /\ BelowRate} :
        d = [made |-> TRUE, ok |-> ok, at |-> now]
  BY DEF Evaluation
<1> QED
  BY <1>1

LEMMA StructureStep == TypeOK /\ Structure /\ [Next]_vars => Structure'
<1> SUFFICES ASSUME TypeOK, Structure, [Next]_vars PROVE Structure'
  OBVIOUS
<1> USE DEF TypeOK, Structure, BotSteps, ScanSteps, OkSteps, AfterVerdict,
            stateVars, botVars, rowVars, restVars
<1>1. ASSUME Scan PROVE Structure'
  <2>1. began' <= now' /\ ScanSound'
    BY <1>1 DEF Scan, ScanSound, SignalSound
  <2>2. ClickSound'
    BY <1>1 DEF Scan, ScanSound, ClickSound, SignalSound
  <2>3. ASSUME NEW s \in Signals PROVE SignalSound(s)'
    BY <1>1 DEF Scan, ScanSound, ClickSound, SignalSound
  <2> QED
    BY <2>1, <2>2, <2>3
<1>2. ASSUME Add PROVE Structure'
  <2>1. began' <= now' /\ ScanSound'
    BY <1>2 DEF Add, Goto, ScanSound, SignalSound
  <2>2. ClickSound'
    BY <1>2 DEF Add, Goto, ScanSound, ClickSound, SignalSound
  <2>3. ASSUME NEW s \in Signals PROVE SignalSound(s)'
    BY <1>2 DEF Add, Goto, ScanSound, ClickSound, SignalSound
  <2> QED
    BY <2>1, <2>2, <2>3
<1>3. ASSUME AddFault PROVE Structure'
  <2>1. began' <= now' /\ ScanSound'
    BY <1>3 DEF AddFault, Fault, NextOfScan, NoDecision, ScanSound, SignalSound
  <2>2. ClickSound'
    BY <1>3 DEF AddFault, Fault, NextOfScan, NoDecision, ScanSound, ClickSound, SignalSound
  <2>3. ASSUME NEW s \in Signals PROVE SignalSound(s)'
    BY <1>3 DEF AddFault, Fault, NextOfScan, NoDecision, ScanSound, ClickSound, SignalSound
  <2> QED
    BY <2>1, <2>2, <2>3
<1>4. ASSUME Validate PROVE Structure'
  <2>1. began' <= now' /\ ScanSound'
    BY <1>4 DEF Validate, Goto, ScanSound, SignalSound
  <2>2. ClickSound'
    BY <1>4 DEF Validate, Goto, ScanSound, ClickSound, SignalSound
  <2>3. ASSUME NEW s \in Signals PROVE SignalSound(s)'
    BY <1>4 DEF Validate, Goto, ScanSound, ClickSound, SignalSound
  <2> QED
    BY <2>1, <2>2, <2>3
<1>5. ASSUME AiReject PROVE Structure'
  <2>1. began' <= now' /\ ScanSound'
    BY <1>5 DEF AiReject, Transition, NextOfScan, NoDecision, ScanSound, SignalSound
  <2>2. ClickSound'
    BY <1>5 DEF AiReject, Transition, NextOfScan, NoDecision, ScanSound, ClickSound, SignalSound
  <2>3. ASSUME NEW s \in Signals PROVE SignalSound(s)'
    BY <1>5 DEF AiReject, Transition, NextOfScan, NoDecision, ScanSound, ClickSound, SignalSound
  <2> QED
    BY <2>1, <2>2, <2>3
<1>6. ASSUME AiRejectFault PROVE Structure'
  <2>1. began' <= now' /\ ScanSound'
    BY <1>6 DEF AiRejectFault, Fault, NextOfScan, NoDecision, ScanSound, SignalSound
  <2>2. ClickSound'
    BY <1>6 DEF AiRejectFault, Fault, NextOfScan, NoDecision, ScanSound, ClickSound, SignalSound
  <2>3. ASSUME NEW s \in Signals PROVE SignalSound(s)'
    BY <1>6 DEF AiRejectFault, Fault, NextOfScan, NoDecision, ScanSound, ClickSound, SignalSound
  <2> QED
    BY <2>1, <2>2, <2>3
<1>7. ASSUME Evaluate PROVE Structure'
  <2>1. began' <= now' /\ ScanSound'
    BY NewDecision, <1>7 DEF Evaluate, ScanSound, SignalSound
  <2>2. ClickSound'
    BY NewDecision, <1>7 DEF Evaluate, ScanSound, ClickSound, SignalSound
  <2>3. ASSUME NEW s \in Signals PROVE SignalSound(s)'
    BY NewDecision, <1>7 DEF Evaluate, ScanSound, ClickSound, SignalSound
  <2> QED
    BY <2>1, <2>2, <2>3
<1>8. ASSUME Append PROVE Structure'
  <2>1. began' <= now' /\ ScanSound'
    BY <1>8 DEF Append, Goto, Decisions, ScanSound, ClickSound, SignalSound
  <2>2. ClickSound'
    BY <1>8 DEF Append, Goto, Decisions, ScanSound, ClickSound, SignalSound
  <2>3. ASSUME NEW s \in Signals PROVE SignalSound(s)'
    BY <1>8 DEF Append, Goto, Decisions, ScanSound, ClickSound, SignalSound
  <2> QED
    BY <2>1, <2>2, <2>3
<1>9. ASSUME EvaluateFault PROVE Structure'
  <2>1. began' <= now' /\ ScanSound'
    BY <1>9 DEF EvaluateFault, Fault, NoDecision, ScanSound, SignalSound
  <2>2. ClickSound'
    BY <1>9 DEF EvaluateFault, Fault, NoDecision, ScanSound, ClickSound, SignalSound
  <2>3. ASSUME NEW s \in Signals PROVE SignalSound(s)'
    BY <1>9 DEF EvaluateFault, Fault, NoDecision, ScanSound, ClickSound, SignalSound
  <2> QED
    BY <2>1, <2>2, <2>3
<1>10. ASSUME Notify PROVE Structure'
  <2>1. began' <= now' /\ ScanSound'
    BY <1>10 DEF Notify, NextOfScan, NoDecision, Decisions, ScanSound, SignalSound
  <2>2. ClickSound'
    BY <1>10 DEF Notify, NextOfScan, NoDecision, Decisions, ScanSound, ClickSound, SignalSound
  <2>3. ASSUME NEW s \in Signals PROVE SignalSound(s)'
    BY <1>10 DEF Notify, NextOfScan, NoDecision, Decisions, ScanSound, ClickSound, SignalSound
  <2> QED
    BY <2>1, <2>2, <2>3
<1>11. ASSUME Click PROVE Structure'
  <2>1. began' <= now' /\ ScanSound'
    BY <1>11 DEF Click, ScanSound, SignalSound
  <2>2. ClickSound'
    BY <1>11 DEF Click, ScanSound, ClickSound, SignalSound
  <2>3. ASSUME NEW s \in Signals PROVE SignalSound(s)'
    BY <1>11 DEF Click, ScanSound, ClickSound, SignalSound
  <2> QED
    BY <2>1, <2>2, <2>3
<1>12. ASSUME ReadLatest PROVE Structure'
  <2>1. began' <= now' /\ ScanSound'
    BY <1>12 DEF ReadLatest, Stale, Decisions, ScanSound, SignalSound
  <2>2. ClickSound'
    BY <1>12 DEF ReadLatest, Stale, Decisions, ScanSound, ClickSound, SignalSound
  <2>3. ASSUME NEW s \in Signals PROVE SignalSound(s)'
    BY <1>12 DEF ReadLatest, Stale, Decisions, ScanSound, ClickSound, SignalSound
  <2> QED
    BY <2>1, <2>2, <2>3
<1>13. ASSUME Reevaluate PROVE Structure'
  <2>1. began' <= now' /\ ScanSound'
    BY NewDecision, <1>13 DEF Reevaluate, ScanSound, SignalSound
  <2>2. ClickSound'
    BY NewDecision, <1>13 DEF Reevaluate, ScanSound, ClickSound, SignalSound
  <2>3. ASSUME NEW s \in Signals PROVE SignalSound(s)'
    BY NewDecision, <1>13 DEF Reevaluate, ScanSound, ClickSound, SignalSound
  <2> QED
    BY <2>1, <2>2, <2>3
<1>14. ASSUME AppendAgain PROVE Structure'
  <2>1. began' <= now' /\ ScanSound'
    BY <1>14 DEF AppendAgain, Goto, Decisions, ScanSound, SignalSound
  <2>2. ClickSound'
    BY <1>14 DEF AppendAgain, Goto, Decisions, ScanSound, ClickSound, SignalSound
  <2>3. ASSUME NEW s \in Signals PROVE SignalSound(s)'
    BY <1>14 DEF AppendAgain, Goto, Decisions, ScanSound, ClickSound, SignalSound
  <2> QED
    BY <2>1, <2>2, <2>3
<1>15. ASSUME ReevaluateFault PROVE Structure'
  <2>1. began' <= now' /\ ScanSound'
    BY <1>15 DEF ReevaluateFault, Fault, Finish, NoDecision, ScanSound, SignalSound
  <2>2. ClickSound'
    BY <1>15 DEF ReevaluateFault, Fault, Finish, NoDecision, ScanSound, ClickSound, SignalSound
  <2>3. ASSUME NEW s \in Signals PROVE SignalSound(s)'
    BY <1>15 DEF ReevaluateFault, Fault, Finish, NoDecision, ScanSound, ClickSound, SignalSound
  <2> QED
    BY <2>1, <2>2, <2>3
<1>16. ASSUME Refuse \/ ConsumeLate PROVE Structure'
  <2>1. began' <= now' /\ ScanSound'
    BY <1>16 DEF Refuse, ConsumeLate, Finish, NoDecision, Decisions, ScanSound, SignalSound
  <2>2. ClickSound'
    BY <1>16 DEF Refuse, ConsumeLate, Finish, NoDecision, Decisions, ScanSound, ClickSound, SignalSound
  <2>3. ASSUME NEW s \in Signals PROVE SignalSound(s)'
    BY <1>16 DEF Refuse, ConsumeLate, Finish, NoDecision, Decisions, ScanSound, ClickSound, SignalSound
  <2> QED
    BY <2>1, <2>2, <2>3
<1>17. ASSUME Consume PROVE Structure'
  <2>1. began' <= now' /\ ScanSound'
    BY <1>17 DEF Consume, MarkConsumed, Goto, Decisions, ScanSound, SignalSound
  <2>2. ClickSound'
    BY <1>17 DEF Consume, MarkConsumed, Goto, Decisions, ScanSound, ClickSound, SignalSound
  <2>3. ASSUME NEW s \in Signals PROVE SignalSound(s)'
    BY <1>17 DEF Consume, MarkConsumed, Goto, Decisions, ScanSound, ClickSound, SignalSound
  <2> QED
    BY <2>1, <2>2, <2>3
<1>18. ASSUME Spawn PROVE Structure'
  <2>1. began' <= now' /\ ScanSound'
    BY <1>18 DEF Spawn, Finish, NoDecision, ScanSound, SignalSound
  <2>2. ClickSound'
    BY <1>18 DEF Spawn, Finish, NoDecision, ScanSound, ClickSound, SignalSound
  <2>3. ASSUME NEW s \in Signals PROVE SignalSound(s)'
    BY <1>18 DEF Spawn, Finish, NoDecision, ScanSound, ClickSound, SignalSound
  <2> QED
    BY <2>1, <2>2, <2>3
<1>19. ASSUME Cancel PROVE Structure'
  <2>1. began' <= now' /\ ScanSound'
    BY <1>19 DEF Cancel, Transition, Finish, NoDecision, ScanSound, SignalSound
  <2>2. ClickSound'
    BY <1>19 DEF Cancel, Transition, Finish, NoDecision, ScanSound, ClickSound, SignalSound
  <2>3. ASSUME NEW s \in Signals PROVE SignalSound(s)'
    BY <1>19 DEF Cancel, Transition, Finish, NoDecision, ScanSound, ClickSound, SignalSound
  <2> QED
    BY <2>1, <2>2, <2>3
<1>20. ASSUME ClickFault PROVE Structure'
  <2>1. began' <= now' /\ ScanSound'
    BY <1>20 DEF ClickFault, Fault, Transition, Finish, NoDecision, Decisions, ScanSound, SignalSound
  <2>2. ClickSound'
    BY <1>20 DEF ClickFault, Fault, Transition, Finish, NoDecision, Decisions, ScanSound, ClickSound, SignalSound
  <2>3. ASSUME NEW s \in Signals PROVE SignalSound(s)'
    BY <1>20 DEF ClickFault, Fault, Transition, Finish, NoDecision, Decisions, ScanSound, ClickSound, SignalSound
  <2> QED
    BY <2>1, <2>2, <2>3
<1>21. ASSUME Stop \/ GoLive PROVE Structure'
  <2>1. began' <= now' /\ ScanSound'
    BY <1>21 DEF Stop, GoLive, ScanSound, SignalSound
  <2>2. ClickSound'
    BY <1>21 DEF Stop, GoLive, ScanSound, ClickSound, SignalSound
  <2>3. ASSUME NEW s \in Signals PROVE SignalSound(s)'
    BY <1>21 DEF Stop, GoLive, ScanSound, ClickSound, SignalSound
  <2> QED
    BY <2>1, <2>2, <2>3
<1>22. ASSUME ListExpired PROVE Structure'
  <2>1. began' <= now' /\ ScanSound'
    BY <1>22 DEF ListExpired, ScanSound, SignalSound
  <2>2. ClickSound'
    BY <1>22 DEF ListExpired, ScanSound, ClickSound, SignalSound
  <2>3. ASSUME NEW s \in Signals PROVE SignalSound(s)'
    BY <1>22 DEF ListExpired, ScanSound, ClickSound, SignalSound
  <2> QED
    BY <2>1, <2>2, <2>3
<1>23. ASSUME Expire PROVE Structure'
  <2>1. began' <= now' /\ ScanSound'
    BY <1>23 DEF Expire, Transition, ScanSound, SignalSound
  <2>2. ClickSound'
    BY <1>23 DEF Expire, Transition, ScanSound, ClickSound, SignalSound
  <2>3. ASSUME NEW s \in Signals PROVE SignalSound(s)'
    BY <1>23 DEF Expire, Transition, ScanSound, ClickSound, SignalSound
  <2> QED
    BY <2>1, <2>2, <2>3
<1>24. ASSUME ExpireFault PROVE Structure'
  <2>1. began' <= now' /\ ScanSound'
    BY <1>24 DEF ExpireFault, Fault, ScanSound, SignalSound
  <2>2. ClickSound'
    BY <1>24 DEF ExpireFault, Fault, ScanSound, ClickSound, SignalSound
  <2>3. ASSUME NEW s \in Signals PROVE SignalSound(s)'
    BY <1>24 DEF ExpireFault, Fault, ScanSound, ClickSound, SignalSound
  <2> QED
    BY <2>1, <2>2, <2>3
<1>25. ASSUME Tick PROVE Structure'
  <2>1. began' <= now' /\ ScanSound'
    BY <1>25 DEF Tick, ScanSound, SignalSound
  <2>2. ClickSound'
    BY <1>25 DEF Tick, ScanSound, ClickSound, SignalSound
  <2>3. ASSUME NEW s \in Signals PROVE SignalSound(s)'
    BY <1>25 DEF Tick, ScanSound, ClickSound, SignalSound
  <2> QED
    BY <2>1, <2>2, <2>3
<1>26. ASSUME Crash PROVE Structure'
  <2>1. began' <= now' /\ ScanSound'
    BY <1>26 DEF Crash, NoDecision, ScanSound, SignalSound
  <2>2. ClickSound'
    BY <1>26 DEF Crash, NoDecision, ScanSound, ClickSound, SignalSound
  <2>3. ASSUME NEW s \in Signals PROVE SignalSound(s)'
    BY <1>26 DEF Crash, NoDecision, ScanSound, ClickSound, SignalSound
  <2> QED
    BY <2>1, <2>2, <2>3
<1>27. ASSUME UNCHANGED vars PROVE Structure'
  <2>1. began' <= now' /\ ScanSound'
    BY <1>27 DEF vars, ScanSound, SignalSound
  <2>2. ClickSound'
    BY <1>27 DEF vars, ScanSound, ClickSound, SignalSound
  <2>3. ASSUME NEW s \in Signals PROVE SignalSound(s)'
    BY <1>27 DEF vars, ScanSound, ClickSound, SignalSound
  <2> QED
    BY <2>1, <2>2, <2>3
<1> QED
  BY <1>1, <1>2, <1>3, <1>4, <1>5, <1>6, <1>7, <1>8, <1>9, <1>10, <1>11, <1>12, <1>13,
     <1>14, <1>15, <1>16, <1>17, <1>18, <1>19, <1>20, <1>21, <1>22, <1>23, <1>24,
     <1>25, <1>26, <1>27
     DEF Next, ScanStep, ClickStep, FaultStep

-----------------------------------------------------------------------------
(* Decisions and consumptions *)

\* Only Consume adds to the consumed signals, and nothing removes one.
LEMMA ConsumedFrame ==
  ASSUME TypeOK, Structure, [Next]_vars
  PROVE  Consume \/ (Consumed' = Consumed /\ used' = used)
<1> USE DEF TypeOK, Structure, Consumed, stateVars, botVars, rowVars, restVars
<1>1. ASSUME Scan PROVE Consumed' = Consumed /\ used' = used
  BY <1>1 DEF Scan
<1>2. ASSUME Add PROVE Consumed' = Consumed /\ used' = used
  BY <1>2 DEF Add, Goto, ScanSound, ScanSteps, BotSteps
<1>3. ASSUME AddFault PROVE Consumed' = Consumed /\ used' = used
  BY <1>3 DEF AddFault, Fault, NextOfScan, ScanSound, ScanSteps, BotSteps
<1>4. ASSUME Validate PROVE Consumed' = Consumed /\ used' = used
  BY <1>4 DEF Validate, Goto
<1>5. ASSUME AiReject PROVE Consumed' = Consumed /\ used' = used
  BY <1>5 DEF AiReject, Transition, NextOfScan
<1>6. ASSUME AiRejectFault PROVE Consumed' = Consumed /\ used' = used
  BY <1>6 DEF AiRejectFault, Fault, NextOfScan
<1>7. ASSUME Evaluate PROVE Consumed' = Consumed /\ used' = used
  BY <1>7 DEF Evaluate
<1>8. ASSUME Append PROVE Consumed' = Consumed /\ used' = used
  BY <1>8 DEF Append, Goto
<1>9. ASSUME EvaluateFault PROVE Consumed' = Consumed /\ used' = used
  BY <1>9 DEF EvaluateFault, Fault
<1>10. ASSUME Notify PROVE Consumed' = Consumed /\ used' = used
  BY <1>10 DEF Notify, NextOfScan
<1>11. ASSUME Click PROVE Consumed' = Consumed /\ used' = used
  BY <1>11 DEF Click
<1>12. ASSUME ReadLatest PROVE Consumed' = Consumed /\ used' = used
  BY <1>12 DEF ReadLatest, Stale
<1>13. ASSUME Reevaluate PROVE Consumed' = Consumed /\ used' = used
  BY <1>13 DEF Reevaluate
<1>14. ASSUME AppendAgain PROVE Consumed' = Consumed /\ used' = used
  BY <1>14 DEF AppendAgain, Goto
<1>15. ASSUME ReevaluateFault PROVE Consumed' = Consumed /\ used' = used
  BY <1>15 DEF ReevaluateFault, Fault, Finish
<1>16. ASSUME Refuse \/ ConsumeLate PROVE Consumed' = Consumed /\ used' = used
  BY <1>16 DEF Refuse, ConsumeLate, Finish
<1>18. ASSUME Spawn PROVE Consumed' = Consumed /\ used' = used
  BY <1>18 DEF Spawn, Finish
<1>19. ASSUME Cancel PROVE Consumed' = Consumed /\ used' = used
  BY <1>19 DEF Cancel, Transition, Finish
<1>20. ASSUME ClickFault PROVE Consumed' = Consumed /\ used' = used
  BY <1>20 DEF ClickFault, Fault, Transition, Finish
<1>21. ASSUME Stop \/ GoLive PROVE Consumed' = Consumed /\ used' = used
  BY <1>21 DEF Stop, GoLive
<1>22. ASSUME ListExpired PROVE Consumed' = Consumed /\ used' = used
  BY <1>22 DEF ListExpired
<1>23. ASSUME Expire PROVE Consumed' = Consumed /\ used' = used
  BY <1>23 DEF Expire, Transition
<1>24. ASSUME ExpireFault PROVE Consumed' = Consumed /\ used' = used
  BY <1>24 DEF ExpireFault, Fault
<1>25. ASSUME Tick PROVE Consumed' = Consumed /\ used' = used
  BY <1>25 DEF Tick
<1>26. ASSUME Crash PROVE Consumed' = Consumed /\ used' = used
  BY <1>26 DEF Crash
<1>27. ASSUME UNCHANGED vars PROVE Consumed' = Consumed /\ used' = used
  BY <1>27 DEF vars
<1> QED
  BY <1>1, <1>2, <1>3, <1>4, <1>5, <1>6, <1>7, <1>8, <1>9, <1>10, <1>11, <1>12, <1>13,
     <1>14, <1>15, <1>16, <1>18, <1>19, <1>20, <1>21, <1>22, <1>23, <1>24, <1>25,
     <1>26, <1>27
     DEF Next, ScanStep, ClickStep, FaultStep

\* What had been consumed before a time that has come does not change.
LEMMA WithinKept ==
  ASSUME TypeOK, Structure, [Next]_vars, NEW d \in Nat, d <= now
  PROVE  WithinCaps(d)' <=> WithinCaps(d)
<1>1. ConsumedBefore(d)' = ConsumedBefore(d)
  <2>1. CASE Consume
    BY <2>1 DEF TypeOK, Consume, MarkConsumed, ConsumedBefore, Consumed
  <2>2. CASE Consumed' = Consumed /\ used' = used
    BY <2>2 DEF ConsumedBefore
  <2> QED
    BY <2>1, <2>2, ConsumedFrame
<1>2. RecentBefore(d)' = RecentBefore(d)
  <2>1. CASE Consume
    <3>1. \A t \in ConsumedBefore(d) : used'[t] = used[t]
      BY <2>1 DEF TypeOK, Consume, MarkConsumed, ConsumedBefore, Consumed
    <3> QED
      BY <1>1, <3>1 DEF RecentBefore
  <2>2. CASE Consumed' = Consumed /\ used' = used
    BY <1>1, <2>2 DEF RecentBefore
  <2> QED
    BY <2>1, <2>2, ConsumedFrame
<1> QED
  BY <1>1, <1>2 DEF WithinCaps

\* What the gates count covers what WithinCaps counts.
LEMMA GatesHoldCaps == TypeOK /\ BelowCap /\ BelowRate => WithinCaps(now)
<1> SUFFICES ASSUME TypeOK, BelowCap, BelowRate PROVE WithinCaps(now)
  OBVIOUS
<1> DEFINE Recent == {s \in Consumed : used[s].at + Hour >= now}
<1>1. IsFiniteSet(Consumed)
  BY FS_Subset DEF Consumed, ApprovalAssumption
<1>2. IsFiniteSet(Recent)
  BY <1>1, FS_Subset
<1>3. /\ Cardinality(ConsumedBefore(now)) <= Cardinality(Consumed)
      /\ Cardinality(ConsumedBefore(now)) \in Nat /\ Cardinality(Consumed) \in Nat
  BY <1>1, FS_Subset, FS_CardinalityType DEF ConsumedBefore
<1>4. /\ Cardinality(RecentBefore(now)) <= Cardinality(Recent)
      /\ Cardinality(RecentBefore(now)) \in Nat /\ Cardinality(Recent) \in Nat
  BY <1>2, FS_Subset, FS_CardinalityType DEF RecentBefore, ConsumedBefore
<1>5. Cardinality(Consumed) < Cap /\ Cardinality(Recent) < RateCap
  BY DEF BelowCap, BelowRate
<1> QED
  BY <1>3, <1>4, <1>5 DEF WithinCaps, ApprovalAssumption

\* Time does not go back, and trading is disabled at the present time.
LEMMA ClockStep ==
  ASSUME TypeOK, [Next]_vars
  PROVE  /\ now <= now'
         /\ \/ enabled' = enabled /\ stoppedAt' = stoppedAt
            \/ enabled'
            \/ stoppedAt' = now
<1> USE DEF TypeOK, stateVars
<1>1. ASSUME Scan PROVE now <= now' /\ (UNCHANGED stateVars \/ enabled' \/ stoppedAt' = now)
  BY <1>1 DEF Scan
<1>2. ASSUME Add PROVE now <= now' /\ (UNCHANGED stateVars \/ enabled' \/ stoppedAt' = now)
  BY <1>2 DEF Add, Goto
<1>3. ASSUME AddFault PROVE now <= now' /\ (UNCHANGED stateVars \/ enabled' \/ stoppedAt' = now)
  BY <1>3 DEF AddFault, Fault, NextOfScan
<1>4. ASSUME Validate PROVE now <= now' /\ (UNCHANGED stateVars \/ enabled' \/ stoppedAt' = now)
  BY <1>4 DEF Validate, Goto
<1>5. ASSUME AiReject PROVE now <= now' /\ (UNCHANGED stateVars \/ enabled' \/ stoppedAt' = now)
  BY <1>5 DEF AiReject, Transition, NextOfScan
<1>6. ASSUME AiRejectFault PROVE now <= now' /\ (UNCHANGED stateVars \/ enabled' \/ stoppedAt' = now)
  BY <1>6 DEF AiRejectFault, Fault, NextOfScan
<1>7. ASSUME Evaluate PROVE now <= now' /\ (UNCHANGED stateVars \/ enabled' \/ stoppedAt' = now)
  BY <1>7 DEF Evaluate
<1>8. ASSUME Append PROVE now <= now' /\ (UNCHANGED stateVars \/ enabled' \/ stoppedAt' = now)
  BY <1>8 DEF Append, Goto
<1>9. ASSUME EvaluateFault PROVE now <= now' /\ (UNCHANGED stateVars \/ enabled' \/ stoppedAt' = now)
  BY <1>9 DEF EvaluateFault, Fault
<1>10. ASSUME Notify PROVE now <= now' /\ (UNCHANGED stateVars \/ enabled' \/ stoppedAt' = now)
  BY <1>10 DEF Notify, NextOfScan
<1>11. ASSUME Click PROVE now <= now' /\ (UNCHANGED stateVars \/ enabled' \/ stoppedAt' = now)
  BY <1>11 DEF Click
<1>12. ASSUME ReadLatest PROVE now <= now' /\ (UNCHANGED stateVars \/ enabled' \/ stoppedAt' = now)
  BY <1>12 DEF ReadLatest, Stale
<1>13. ASSUME Reevaluate PROVE now <= now' /\ (UNCHANGED stateVars \/ enabled' \/ stoppedAt' = now)
  BY <1>13 DEF Reevaluate
<1>14. ASSUME AppendAgain PROVE now <= now' /\ (UNCHANGED stateVars \/ enabled' \/ stoppedAt' = now)
  BY <1>14 DEF AppendAgain, Goto
<1>15. ASSUME ReevaluateFault PROVE now <= now' /\ (UNCHANGED stateVars \/ enabled' \/ stoppedAt' = now)
  BY <1>15 DEF ReevaluateFault, Fault, Finish
<1>16. ASSUME Refuse \/ ConsumeLate PROVE now <= now' /\ (UNCHANGED stateVars \/ enabled' \/ stoppedAt' = now)
  BY <1>16 DEF Refuse, ConsumeLate, Finish
<1>17. ASSUME Consume PROVE now <= now' /\ (UNCHANGED stateVars \/ enabled' \/ stoppedAt' = now)
  BY <1>17 DEF Consume, MarkConsumed, Goto
<1>18. ASSUME Spawn PROVE now <= now' /\ (UNCHANGED stateVars \/ enabled' \/ stoppedAt' = now)
  BY <1>18 DEF Spawn, Finish
<1>19. ASSUME Cancel PROVE now <= now' /\ (UNCHANGED stateVars \/ enabled' \/ stoppedAt' = now)
  BY <1>19 DEF Cancel, Transition, Finish
<1>20. ASSUME ClickFault PROVE now <= now' /\ (UNCHANGED stateVars \/ enabled' \/ stoppedAt' = now)
  BY <1>20 DEF ClickFault, Fault, Transition, Finish
<1>21. ASSUME Stop \/ GoLive PROVE now <= now' /\ (UNCHANGED stateVars \/ enabled' \/ stoppedAt' = now)
  BY <1>21 DEF Stop, GoLive
<1>22. ASSUME ListExpired PROVE now <= now' /\ (UNCHANGED stateVars \/ enabled' \/ stoppedAt' = now)
  BY <1>22 DEF ListExpired
<1>23. ASSUME Expire PROVE now <= now' /\ (UNCHANGED stateVars \/ enabled' \/ stoppedAt' = now)
  BY <1>23 DEF Expire, Transition
<1>24. ASSUME ExpireFault PROVE now <= now' /\ (UNCHANGED stateVars \/ enabled' \/ stoppedAt' = now)
  BY <1>24 DEF ExpireFault, Fault
<1>25. ASSUME Tick PROVE now <= now' /\ (UNCHANGED stateVars \/ enabled' \/ stoppedAt' = now)
  BY <1>25 DEF Tick
<1>26. ASSUME Crash PROVE now <= now' /\ (UNCHANGED stateVars \/ enabled' \/ stoppedAt' = now)
  BY <1>26 DEF Crash
<1>27. ASSUME UNCHANGED vars PROVE now <= now' /\ (UNCHANGED stateVars \/ enabled' \/ stoppedAt' = now)
  BY <1>27 DEF vars
<1> QED
  BY <1>1, <1>2, <1>3, <1>4, <1>5, <1>6, <1>7, <1>8, <1>9, <1>10, <1>11, <1>12, <1>13,
     <1>14, <1>15, <1>16, <1>17, <1>18, <1>19, <1>20, <1>21, <1>22, <1>23, <1>24,
     <1>25, <1>26, <1>27
     DEF Next, ScanStep, ClickStep, FaultStep

\* A step holds the decisions it had, or one it has just taken.
LEMMA HeldStep ==
  ASSUME TypeOK, [Next]_vars
  PROVE  Held' \subseteq Held \union {NoDecision} \union Evaluation
<1> USE DEF TypeOK, Held, BotSteps, ScanSteps, OkSteps, stateVars, botVars, rowVars, restVars
<1>1. ASSUME Scan PROVE Held' \subseteq Held \union {NoDecision} \union Evaluation
  BY <1>1 DEF Scan
<1>2. ASSUME Add PROVE Held' \subseteq Held \union {NoDecision} \union Evaluation
  BY <1>2 DEF Add, Goto
<1>3. ASSUME AddFault PROVE Held' \subseteq Held \union {NoDecision} \union Evaluation
  BY <1>3 DEF AddFault, Fault, NextOfScan
<1>4. ASSUME Validate PROVE Held' \subseteq Held \union {NoDecision} \union Evaluation
  BY <1>4 DEF Validate, Goto
<1>5. ASSUME AiReject PROVE Held' \subseteq Held \union {NoDecision} \union Evaluation
  BY <1>5 DEF AiReject, NextOfScan
<1>6. ASSUME AiRejectFault PROVE Held' \subseteq Held \union {NoDecision} \union Evaluation
  BY <1>6 DEF AiRejectFault, NextOfScan
<1>7. ASSUME Evaluate PROVE Held' \subseteq Held \union {NoDecision} \union Evaluation
  BY <1>7 DEF Evaluate
<1>8. ASSUME Append PROVE Held' \subseteq Held \union {NoDecision} \union Evaluation
  BY <1>8 DEF Append, Goto
<1>9. ASSUME EvaluateFault PROVE Held' \subseteq Held \union {NoDecision} \union Evaluation
  BY <1>9 DEF EvaluateFault, Fault
<1>10. ASSUME Notify PROVE Held' \subseteq Held \union {NoDecision} \union Evaluation
  BY <1>10 DEF Notify, NextOfScan
<1>11. ASSUME Click PROVE Held' \subseteq Held \union {NoDecision} \union Evaluation
  BY <1>11 DEF Click
<1>12. ASSUME ReadLatest PROVE Held' \subseteq Held \union {NoDecision} \union Evaluation
  BY <1>12 DEF ReadLatest, Stale
<1>13. ASSUME Reevaluate PROVE Held' \subseteq Held \union {NoDecision} \union Evaluation
  BY <1>13 DEF Reevaluate
<1>14. ASSUME AppendAgain PROVE Held' \subseteq Held \union {NoDecision} \union Evaluation
  BY <1>14 DEF AppendAgain, Goto
<1>15. ASSUME ReevaluateFault PROVE Held' \subseteq Held \union {NoDecision} \union Evaluation
  BY <1>15 DEF ReevaluateFault, Fault, Finish
<1>16. ASSUME Refuse \/ ConsumeLate PROVE Held' \subseteq Held \union {NoDecision} \union Evaluation
  BY <1>16 DEF Refuse, ConsumeLate, Finish
<1>17. ASSUME Consume PROVE Held' \subseteq Held \union {NoDecision} \union Evaluation
  BY <1>17 DEF Consume, MarkConsumed, Goto
<1>18. ASSUME Spawn PROVE Held' \subseteq Held \union {NoDecision} \union Evaluation
  BY <1>18 DEF Spawn, Finish
<1>19. ASSUME Cancel PROVE Held' \subseteq Held \union {NoDecision} \union Evaluation
  BY <1>19 DEF Cancel, Finish
<1>20. ASSUME ClickFault PROVE Held' \subseteq Held \union {NoDecision} \union Evaluation
  BY <1>20 DEF ClickFault, Fault, Finish
<1>21. ASSUME Stop \/ GoLive PROVE Held' \subseteq Held \union {NoDecision} \union Evaluation
  BY <1>21 DEF Stop, GoLive
<1>22. ASSUME ListExpired PROVE Held' \subseteq Held \union {NoDecision} \union Evaluation
  BY <1>22 DEF ListExpired
<1>23. ASSUME Expire PROVE Held' \subseteq Held \union {NoDecision} \union Evaluation
  BY <1>23 DEF Expire
<1>24. ASSUME ExpireFault PROVE Held' \subseteq Held \union {NoDecision} \union Evaluation
  BY <1>24 DEF ExpireFault, Fault
<1>25. ASSUME Tick PROVE Held' \subseteq Held \union {NoDecision} \union Evaluation
  BY <1>25 DEF Tick
<1>26. ASSUME Crash PROVE Held' \subseteq Held \union {NoDecision} \union Evaluation
  BY <1>26 DEF Crash
<1>27. ASSUME UNCHANGED vars PROVE Held' \subseteq Held \union {NoDecision} \union Evaluation
  BY <1>27 DEF vars
<1> QED
  BY <1>1, <1>2, <1>3, <1>4, <1>5, <1>6, <1>7, <1>8, <1>9, <1>10, <1>11, <1>12, <1>13,
     <1>14, <1>15, <1>16, <1>17, <1>18, <1>19, <1>20, <1>21, <1>22, <1>23, <1>24,
     <1>25, <1>26, <1>27
     DEF Next, ScanStep, ClickStep, FaultStep

\* A decision that held stays good: its past is fixed, and trading is only
\* disabled now.
LEMMA DecisionKept ==
  ASSUME TypeOK, Structure, [Next]_vars, NEW d \in Decisions, DecisionSound(d)
  PROVE  DecisionSound(d)'
<1> SUFFICES ASSUME d.ok
             PROVE  d.at <= now' /\ (~enabled' => d.at <= stoppedAt') /\ WithinCaps(d.at)'
  BY DEF DecisionSound
<1>1. d.at \in Nat /\ d.at <= now
  BY DEF DecisionSound, Decisions
<1>2. WithinCaps(d.at)'
  BY <1>1, WithinKept DEF DecisionSound
<1>3. now' \in Nat /\ now \in Nat /\ stoppedAt \in Nat
  BY TypeStep DEF TypeOK
<1>4. d.at <= now'
  BY <1>1, <1>3, ClockStep
<1>5. ASSUME ~enabled' PROVE d.at <= stoppedAt'
  BY <1>1, <1>3, <1>5, ClockStep DEF DecisionSound
<1> QED
  BY <1>2, <1>4, <1>5

LEMMA UseKept ==
  ASSUME TypeOK, Structure, [Next]_vars,
         NEW u \in [decided : Nat, began : Nat, at : Nat], UseSound(u)
  PROVE  UseSound(u)'
<1>1. u.decided \in Nat /\ u.began \in Nat /\ u.decided <= now /\ u.began <= now
  BY DEF UseSound
<1>2. WithinCaps(u.decided)'
  BY <1>1, WithinKept DEF UseSound
<1>3. now' \in Nat /\ now \in Nat /\ stoppedAt \in Nat /\ StaleAfter \in Nat
  BY TypeStep DEF TypeOK, ApprovalAssumption
<1>4. u.decided <= now' /\ u.began <= now'
  BY <1>1, <1>3, ClockStep
<1>5. ASSUME ~enabled' PROVE u.began <= stoppedAt' + StaleAfter
  BY <1>1, <1>3, <1>5, ClockStep DEF UseSound
<1> QED
  BY <1>2, <1>4, <1>5 DEF UseSound

\* A decision just taken is sound, by the gates.
LEMMA FreshDecisionSound ==
  ASSUME TypeOK, NEW d \in Evaluation
  PROVE  DecisionSound(d)
<1> SUFFICES ASSUME d.ok PROVE DecisionSound(d)
  BY DEF DecisionSound
<1>1. d.at = now /\ KillSwitchOpen /\ BelowCap /\ BelowRate
  BY NewDecision
<1>2. WithinCaps(now)
  BY <1>1, GatesHoldCaps
<1> QED
  BY <1>1, <1>2 DEF DecisionSound, KillSwitchOpen, TypeOK

\* The consumption of a click rests on the decision it has in hand.
LEMMA FreshUseSound ==
  ASSUME TypeOK, Structure, \A d \in Held : DecisionSound(d),
         bot = "judge", draft.ok,
         NEW u, u = [decided |-> draft.at, began |-> began, at |-> now]
  PROVE  UseSound(u) /\ u \in [decided : Nat, began : Nat, at : Nat]
<1>1. PICK d \in Decisions : d = draft
  BY DEF TypeOK
<1>2. DecisionSound(d) /\ d.ok /\ d.at \in Nat /\ u.decided = d.at /\ u.began = began
  BY <1>1 DEF Held, Decisions
<1>3. began <= d.at + StaleAfter /\ began <= now
  BY <1>1 DEF Structure, ClickSound
<1>4. began \in Nat /\ now \in Nat /\ stoppedAt \in Nat /\ StaleAfter \in Nat
  BY DEF TypeOK, ApprovalAssumption
<1>5. u \in [decided : Nat, began : Nat, at : Nat]
  BY <1>1, <1>2, <1>4
<1>6. WithinCaps(u.decided) /\ u.decided <= now /\ u.began <= now
  BY <1>2, <1>3 DEF DecisionSound
<1>7. ASSUME ~enabled PROVE u.began <= stoppedAt + StaleAfter
  BY <1>2, <1>3, <1>4, <1>7 DEF DecisionSound
<1> QED
  BY <1>5, <1>6, <1>7 DEF UseSound

LEMMA DecisionsStep ==
  ASSUME ApprovalInv, [Next]_vars
  PROVE  \A d \in Held' : DecisionSound(d)'
<1>1. TypeOK /\ TypeOK' /\ Structure
  BY TypeStep DEF ApprovalInv, Structure
<1> SUFFICES ASSUME NEW d \in Held' PROVE DecisionSound(d)'
  OBVIOUS
<1>2. d \in Decisions
  BY <1>1 DEF Held, TypeOK
<1>3. CASE d \in Held
  BY <1>1, <1>2, <1>3, DecisionKept DEF ApprovalInv
<1>4. CASE d = NoDecision
  BY <1>4 DEF NoDecision, DecisionSound
<1>5. CASE d \in Evaluation
  BY <1>1, <1>2, <1>5, FreshDecisionSound, DecisionKept
<1> QED
  BY <1>1, <1>3, <1>4, <1>5, HeldStep

LEMMA UsesStep ==
  ASSUME ApprovalInv, [Next]_vars
  PROVE  \A u \in Uses' : UseSound(u)'
<1>1. TypeOK /\ TypeOK' /\ Structure
  BY TypeStep DEF ApprovalInv, Structure
<1> SUFFICES ASSUME NEW u \in Uses' PROVE UseSound(u)'
  OBVIOUS
<1>2. u \in [decided : Nat, began : Nat, at : Nat]
  BY <1>1 DEF Uses, Consumed, TypeOK
<1>3. CASE u \in Uses
  BY <1>1, <1>2, <1>3, UseKept DEF ApprovalInv
<1>4. CASE u \notin Uses
  <2>1. Consume
    BY <1>1, <1>4, ConsumedFrame DEF Uses
  <2>2. u = [decided |-> draft.at, began |-> began, at |-> now]
    BY <1>1, <1>4, <2>1 DEF Consume, MarkConsumed, Uses, Consumed, TypeOK
  <2>3. UseSound(u)
    BY <1>1, <2>1, <2>2, FreshUseSound DEF Consume, ApprovalInv
  <2> QED
    BY <1>1, <1>2, <2>3, UseKept
<1> QED
  BY <1>3, <1>4

-----------------------------------------------------------------------------
(* Safety *)

LEMMA ApprovalInit == Init => ApprovalInv
<1> SUFFICES ASSUME Init PROVE ApprovalInv
  OBVIOUS
<1>1. TypeOK
  BY TypeInit
<1>2. began <= now /\ ScanSound /\ ClickSound /\ \A s \in Signals : SignalSound(s)
  BY DEF Init, NoDecision, ScanSound, ClickSound, SignalSound, ScanSteps, OkSteps,
         AfterVerdict
<1>3. \A d \in Held : d = NoDecision
  BY DEF Init, Held
<1>4. \A d \in Held : DecisionSound(d)
  BY <1>3 DEF NoDecision, DecisionSound
<1>5. Uses = {}
  BY DEF Init, Uses, Consumed
<1> QED
  BY <1>1, <1>2, <1>4, <1>5 DEF ApprovalInv

\* The inductive invariant of the approval flow: what holds of the handler, of
\* every row and of every decision at every step.
THEOREM ApprovalInductive == Spec => []ApprovalInv
<1>1. ApprovalInv /\ [Next]_vars => ApprovalInv'
  BY TypeStep, StructureStep, DecisionsStep, UsesStep DEF ApprovalInv, Structure
<1> QED
  BY <1>1, ApprovalInit, PTL DEF Spec

\* The approval flow keeps its types, and its counters their bounds.
THEOREM ApprovalTypeCorrect == Spec => []TypeOK
<1>1. ApprovalInv => TypeOK
  BY DEF ApprovalInv
<1> QED
  BY <1>1, ApprovalInductive, PTL

\* Only signals whose latest decision approves them, and that the AI did not
\* reject, are offered or consumed, whatever fails (notify.py, signals.py).
THEOREM OfferedAreVetted == Spec => OfferedIsVetted
<1> DEFINE Vetted(s) == latest[s].ok /\ verdict[s] \in {"approve", "crash"}
<1>1. ASSUME ApprovalInv, Next
      PROVE  \A s \in Signals :
               \/ s \in offered' \ offered
               \/ status[s] # "consumed" /\ status'[s] = "consumed"
               => Vetted(s)
  <2>1. CASE Notify
    BY <1>1, <2>1 DEF Notify, ApprovalInv, ScanSound, AfterVerdict, ScanSteps, rowVars
  <2>2. CASE Consume
    <3>1. latest[cur].ok /\ cur \in offered
      BY <1>1, <2>2 DEF Consume, ApprovalInv, ClickSound, OkSteps
    <3>2. cur \in Signals
      BY <1>1, <3>1 DEF ApprovalInv, TypeOK
    <3>3. Vetted(cur)
      BY <1>1, <3>1, <3>2 DEF ApprovalInv, SignalSound
    <3>4. UNCHANGED offered /\ status' = [status EXCEPT ![cur] = "consumed"]
      BY <2>2 DEF Consume, MarkConsumed
    <3> QED BY <1>1, <3>2, <3>3, <3>4 DEF ApprovalInv, TypeOK
  <2>3. CASE ~Notify /\ ~Consume
    <3>1. UNCHANGED offered
      BY <1>1, <2>3, Zenon DEF Next, ScanStep, ClickStep, FaultStep, Add, Validate, AiReject,
         Evaluate, Append, ReadLatest, Reevaluate, AppendAgain, Refuse, ConsumeLate, Spawn,
         Cancel, AddFault, AiRejectFault, EvaluateFault, ReevaluateFault, ClickFault,
         ExpireFault, Scan, Click, Stop, GoLive, ListExpired, Expire, Tick, Crash
    <3>2. \A s \in Signals : status'[s] = "consumed" => status[s] = "consumed"
      <4> USE DEF rowVars
      <4>1. CASE UNCHANGED status
        BY <4>1
      <4>2. CASE Add \/ AddFault \/ AiReject \/ Cancel \/ ClickFault \/ Expire
        BY <1>1, <4>2 DEF ApprovalInv, TypeOK, Add, AddFault, AiReject, Cancel, ClickFault,
           Expire, Transition
      <4>3. UNCHANGED status \/ Add \/ AddFault \/ AiReject \/ Cancel \/ ClickFault \/ Expire
        BY <1>1, <2>3, Zenon DEF Next, ScanStep, ClickStep, FaultStep, Validate, Evaluate,
           Append, Notify, ReadLatest, Reevaluate, AppendAgain, Refuse, ConsumeLate, Spawn,
           AiRejectFault, EvaluateFault, ReevaluateFault, ExpireFault, Scan, Click, Stop,
           GoLive, ListExpired, Tick, Crash
      <4> QED BY <4>1, <4>2, <4>3
    <3> QED BY <3>1, <3>2
  <2> QED BY <2>1, <2>2, <2>3
<1>2. ApprovalInv /\ [Next]_vars =>
        [\A s \in Signals :
           \/ s \in offered' \ offered
           \/ status[s] # "consumed" /\ status'[s] = "consumed"
           => latest[s].ok /\ verdict[s] \in {"approve", "crash"}]_vars
  BY <1>1
<1> QED
  BY <1>2, ApprovalInductive, PTL DEF Spec, OfferedIsVetted

\* Every consumption rests on a decision that was within the cap on positions
\* and the hourly rate when it was taken (max_concurrent.py,
\* signals_rate_limit.py).
THEOREM CapsHold == Spec => []CapsHeldAtDecision
<1>1. ApprovalInv => CapsHeldAtDecision
  BY DEF ApprovalInv, CapsHeldAtDecision, Uses, UseSound
<1> QED
  BY <1>1, ApprovalInductive, PTL

\* A kill switch is outrun by clicks for no longer than the staleness limit
\* (signals.py, kill_switch.py).
THEOREM LateApprovalsRefused == Spec => []LateApprovalRefused
<1>1. ApprovalInv => LateApprovalRefused
  BY DEF ApprovalInv, LateApprovalRefused, Uses, UseSound
<1> QED
  BY <1>1, ApprovalInductive, PTL

-----------------------------------------------------------------------------
(* Refinement *)

Settled == {"consumed", "cancelled", "expired", "ai_rejected"}

\* The steps of the rows: a signal is stored, or settled, or its task starts.
Stored(q)  == status[q] = "none" /\ status' = [status EXCEPT ![q] = "pending"]
Settles(q) ==
  status[q] = "pending" /\ \E x \in Settled : status' = [status EXCEPT ![q] = x]

LEMMA RowStep ==
  ASSUME TypeOK, Structure, [Next]_vars
  PROVE  \/ UNCHANGED <<status, started>>
         \/ UNCHANGED started /\ \E q \in Signals : Stored(q) \/ Settles(q)
         \/ Spawn
<1> USE DEF TypeOK, rowVars, restVars
<1>1. CASE Add \/ AddFault
  <2>1. cur \in Signals /\ status[cur] = "none" /\ UNCHANGED started
    BY <1>1 DEF Add, AddFault, Structure, ScanSound, ScanSteps
  <2>2. UNCHANGED status \/ Stored(cur)
    BY <1>1, <2>1 DEF Add, AddFault, Stored
  <2> QED
    BY <2>1, <2>2
<1>2. CASE AiReject \/ Cancel \/ ClickFault
  <2>1. cur \in Signals /\ UNCHANGED started
    BY <1>2 DEF AiReject, Cancel, ClickFault
  <2>2. UNCHANGED status \/ Settles(cur)
    BY <1>2, <2>1 DEF AiReject, Cancel, ClickFault, Transition, Settles, Settled
  <2> QED
    BY <2>1, <2>2
<1>3. CASE Consume
  <2>1. cur \in Signals /\ UNCHANGED started
    BY <1>3 DEF Consume
  <2>2. Settles(cur)
    BY <1>3, <2>1 DEF Consume, MarkConsumed, Settles, Settled
  <2> QED
    BY <2>1, <2>2
<1>4. CASE Expire
  <2>1. PICK q \in cand : Transition(q, "expired") /\ UNCHANGED started
    BY <1>4 DEF Expire
  <2>2. q \in Signals /\ (UNCHANGED status \/ Settles(q))
    BY <2>1 DEF Transition, Settles, Settled
  <2> QED
    BY <2>1, <2>2
<1>5. CASE \/ Scan \/ Validate \/ AiRejectFault \/ Evaluate \/ Append \/ EvaluateFault
           \/ Notify \/ Click \/ ReadLatest \/ Reevaluate \/ AppendAgain
           \/ ReevaluateFault \/ Refuse \/ ConsumeLate \/ Stop \/ GoLive \/ ListExpired
           \/ ExpireFault \/ Tick \/ Crash \/ UNCHANGED vars
  BY <1>5 DEF Scan, Validate, AiRejectFault, Evaluate, Append, EvaluateFault, Notify,
       Click, ReadLatest, Reevaluate, AppendAgain, ReevaluateFault, Refuse,
       ConsumeLate, Stop, GoLive, ListExpired, ExpireFault, Tick, Crash, vars
<1> QED
  BY <1>1, <1>2, <1>3, <1>4, <1>5 DEF Next, ScanStep, ClickStep, FaultStep

\* A signal has one outcome and at most one executor task, whatever is clicked,
\* expires, fails or is lost: the approval flow implements SignalOutcome.
THEOREM ImplementsOutcome == Spec => RefinesOutcome
<1> DEFINE O == [s \in Signals |-> OutcomeOf(status[s])]
<1>1. Init => Outcome!OutcomeInit
  BY DEF Init, Outcome!OutcomeInit, OutcomeOf
<1>2. ApprovalInv /\ [Next]_vars => [Outcome!OutcomeNext]_(Outcome!outcomeVars)
  <2> SUFFICES ASSUME ApprovalInv, [Next]_vars
               PROVE  Outcome!OutcomeNext \/ UNCHANGED Outcome!outcomeVars
    OBVIOUS
  <2>1. TypeOK /\ Structure
    BY DEF ApprovalInv, Structure
  <2>2. CASE UNCHANGED <<status, started>>
    BY <2>2 DEF Outcome!outcomeVars
  <2>3. ASSUME NEW q \in Signals, UNCHANGED started, Stored(q)
        PROVE  Outcome!OutcomeNext
    <3>1. O[q] = "none" /\ O' = [O EXCEPT ![q] = "offered"]
      BY <2>1, <2>3 DEF Stored, OutcomeOf, TypeOK
    <3> QED
      BY <2>3, <3>1 DEF Outcome!OutcomeNext, Outcome!Offer
  <2>4. ASSUME NEW q \in Signals, UNCHANGED started, Settles(q)
        PROVE  Outcome!OutcomeNext
    <3>1. O[q] = "offered" /\ \E o \in {"taken", "dropped"} : O' = [O EXCEPT ![q] = o]
      BY <2>1, <2>4 DEF Settles, Settled, OutcomeOf, TypeOK
    <3> QED
      BY <2>4, <3>1 DEF Outcome!OutcomeNext, Outcome!Settle
  <2>5. CASE Spawn
    <3>1. cur \in Signals /\ O[cur] = "taken" /\ started[cur] = 0 /\ O' = O
      BY <2>1, <2>5 DEF Spawn, Structure, ClickSound, OutcomeOf, TypeOK, rowVars
    <3>2. started' = started \/ started' = [started EXCEPT ![cur] = 1]
      BY <2>1, <2>5, <3>1 DEF Spawn, TypeOK
    <3> QED
      BY <3>1, <3>2 DEF Outcome!OutcomeNext, Outcome!Start, Outcome!outcomeVars
  <2> QED
    BY <2>1, <2>2, <2>3, <2>4, <2>5, RowStep
<1> QED
  BY <1>1, <1>2, ApprovalInductive, PTL DEF Spec, RefinesOutcome, Outcome!OutcomeSpec

=============================================================================
