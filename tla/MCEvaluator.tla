---------------------------- MODULE MCEvaluator ----------------------------
(* Episodes that differ in nothing but their name. *)
EXTENDS Evaluator, TLC

Interchangeable == Permutations(Episodes)
=============================================================================
