---------------------------- MODULE MCFullReact ----------------------------
(* One goal of each family, plans of up to three goals.                     *)
EXTENDS FullReact

MCGoals == {"move", "stack", "open"}
MCSkill == [move |-> "transport", stack |-> "stack", open |-> "state"]
=============================================================================
