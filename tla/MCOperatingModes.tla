-------------------------- MODULE MCOperatingModes --------------------------
(***************************************************************************)
(* What TLC checks of OperatingModes: the value of MinStay and the         *)
(* symmetry of the operators.                                              *)
(***************************************************************************)
EXTENDS OperatingModesInv, TLC

Symmetry == Permutations(Actors)

ShortStays == [shadow |-> 1, paper |-> 1, semi_auto |-> 1]

=============================================================================
