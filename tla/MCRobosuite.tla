----------------------------- MODULE MCRobosuite -----------------------------
(***************************************************************************)
(* Robosuite with numbered episodes and processes.                         *)
(***************************************************************************)
EXTENDS Robosuite
=============================================================================
