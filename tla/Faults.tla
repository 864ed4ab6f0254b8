-------------------------------- MODULE Faults --------------------------------
(* What goes wrong in a behaviour is counted, so that it can be bounded and  *)
(* a property can say what holds as long as little does.                     *)
EXTENDS Naturals

CONSTANT MaxFaults

ASSUME FaultsAssumption == MaxFaults \in Nat

VARIABLE faults   \* history: number of faults so far

Fault == faults < MaxFaults /\ faults' = faults + 1
=============================================================================
