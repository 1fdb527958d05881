------------------------------- MODULE Faults -------------------------------
(***************************************************************************)
(* The faults of a campaign, counted so that they are finitely many: a     *)
(* process killed, a provider's quota exhausted, a round or an episode     *)
(* that fails.                                                             *)
(***************************************************************************)
EXTENDS Integers

CONSTANT MaxFaults   \* bound: faults in all

ASSUME FaultsAssumption == MaxFaults \in Nat

VARIABLE faults      \* faults so far

FaultStrikes == faults < MaxFaults /\ faults' = faults + 1
=============================================================================
