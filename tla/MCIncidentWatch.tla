--------------------------- MODULE MCIncidentWatch ---------------------------
(***************************************************************************)
(* What TLC checks of IncidentWatch.  The reconcile job and the breakers   *)
(* share nothing but the incidents table, so a behaviour is followed while *)
(* only one of the two has acted: together they only multiply the states.  *)
(* For the same reason the operator of a behaviour either makes passes or  *)
(* registers incidents, there with no failed insert, and a restart and a   *)
(* failed insert are two of at most two mishaps.                           *)
(***************************************************************************)
EXTENDS IncidentWatchInv, TLC

Symmetry == Permutations(Breakers)

OnlyBreakers == ticked = Never /\ lastRun = NoRun
OnlyPasses   == check = NoCheck /\ \A b \in Breakers : opened[b] = Never

Registered == \E i \in 1 .. Len(incidents) : incidents[i].type # "reconcile_failed"

OneWatcher ==
  /\ crashes + faults <= 2
  /\ \/ OnlyBreakers
     \/ OnlyPasses /\ (Registered => lastRun.by # "operator" /\ faults = 0)

=============================================================================
