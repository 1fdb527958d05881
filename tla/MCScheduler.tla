---------------------------- MODULE MCScheduler ----------------------------
(* A first stage, one that builds on it, and one that builds on both. *)
EXTENDS Scheduler, TLC

CONSTANTS s0, s1, s2

ThreeStages == {s0, s1, s2}
JoinParents == (s0 :> {}) @@ (s1 :> {s0}) @@ (s2 :> {s0, s1})
=============================================================================
