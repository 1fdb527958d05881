-------------------------- MODULE MCManipulation --------------------------
(* A strip of four places, 4 cm apart, with the twin at its far end. *)
EXTENDS Manipulation

Strip == 0..3

\* In the last call a skill reads only its own part of the state: the fixture matters to
\* articulate and actuate_control, the bodies' places to the others.
View ==
    IF calls < MaxCalls THEN <<vars, fixture>>
    ELSE IF skill = "none" THEN <<held, report, hook, disturbed, opened, handled>>
    ELSE IF skill \in {"articulate", "actuate"}
    THEN <<skill, pc, held, goalLock, rung, report, disturbed, opened, fixture>>
    ELSE vars
=============================================================================
