-------------------------- MODULE MCSignalApproval --------------------------
(***************************************************************************)
(* What TLC checks of SignalApproval: the instances are in the .cfg files. *)
(***************************************************************************)
EXTENDS SignalApprovalInv, TLC

\* The signals are interchangeable.
Symmetry == Permutations(Signals)

=============================================================================
