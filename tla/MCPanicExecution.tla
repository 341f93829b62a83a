-------------------------- MODULE MCPanicExecution --------------------------
(***************************************************************************)
(* What TLC checks of PanicExecution: the execution layer with a panic     *)
(* running through it.                                                     *)
(***************************************************************************)
EXTENDS PanicExecution

=============================================================================
