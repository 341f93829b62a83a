---------------------------- MODULE TradeContract ----------------------------
(***************************************************************************)
(* What the execution layer promises about the trade of a signal, without  *)
(* orders, tasks, tables or reconcile passes (trading/trades.py, and the   *)
(* module comments of trading/executor.py and trading/stop_placer.py):     *)
(*                                                                         *)
(*   - a trade is pending until it is open or failed, and then stays so;   *)
(*   - the entry may fill, little by little, from then on at any time,     *)
(*     even after the executor has given the trade up;                     *)
(*   - the protective stop reaches the exchange only for a whole position  *)
(*     and only while the trade is pending;                                *)
(*   - the trade opens only when the stop is there.                        *)
(***************************************************************************)
EXTENDS Naturals

CONSTANTS Signals, Lot

VARIABLES
  phase,     \* trades.status of each signal's trade
  position,  \* how much of its entry has filled at the exchange
  covered    \* its stop was accepted by the exchange

contractVars == <<phase, position, covered>>

ContractInit ==
  /\ phase    = [s \in Signals |-> "none"]
  /\ position = [s \in Signals |-> 0]
  /\ covered  = [s \in Signals |-> FALSE]

Begin(s) ==
  /\ phase[s] = "none"
  /\ phase' = [phase EXCEPT ![s] = "pending"]
  /\ UNCHANGED <<position, covered>>

Fill(s) ==
  /\ phase[s] # "none"
  /\ position[s] < Lot
  /\ position' = [position EXCEPT ![s] = @ + 1]
  /\ UNCHANGED <<phase, covered>>

Cover(s) ==
  /\ phase[s] = "pending"
  /\ position[s] = Lot
  /\ covered' = [covered EXCEPT ![s] = TRUE]
  /\ UNCHANGED <<phase, position>>

Open(s) ==
  /\ phase[s] = "pending"
  /\ covered[s]
  /\ phase' = [phase EXCEPT ![s] = "open"]
  /\ UNCHANGED <<position, covered>>

GiveUp(s) ==
  /\ phase[s] = "pending"
  /\ phase' = [phase EXCEPT ![s] = "failed"]
  /\ UNCHANGED <<position, covered>>

ContractNext ==
  \E s \in Signals : Begin(s) \/ Fill(s) \/ Cover(s) \/ Open(s) \/ GiveUp(s)

ContractSpec == ContractInit /\ [][ContractNext]_contractVars

=============================================================================
