-------------------------- MODULE MCOrchestrator --------------------------
(* A two-stage curriculum, the second stage below the first. *)
EXTENDS Orchestrator

CONSTANTS s0, s1

TwoStages == {s0, s1}
ChainParents == [t \in TwoStages |-> IF t = s1 THEN {s0} ELSE {}]
AutoOnly == {None}
AutoOrPinned == {None, s1}
=============================================================================
