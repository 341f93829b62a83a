-------------------------- MODULE MCOrderExecution --------------------------
(***************************************************************************)
(* What TLC checks of OrderExecution: the instances are in the .cfg files, *)
(* this module adds a statement the code is found not to satisfy.          *)
(***************************************************************************)
EXTENDS OrderExecutionInv

\* stop_placer.py:23-24, a transient failure triggers a retry: a placer that
\* has used its attempts on transient failures has sent the stop each time.
RetriesReachExchange ==
  \A s \in Signals :
    /\ pc[s] = "stop_failed" /\ attempt[s] = StopAttempts
    /\ ord[<<s, "stop_market">>] = "failed"
    => sends[<<s, "stop_market">>] = StopAttempts

=============================================================================
