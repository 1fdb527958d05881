---------------------------- MODULE MCTransport ----------------------------
(* The transport agent on an ordinary support, on the object nearest to a   *)
(* plate, on a broad container and on a bounded opening.                    *)
EXTENDS TransportReact

Goal(requires, supports, selector, first, kind) ==
    [requires |-> requires, supports |-> supports, selector |-> selector, first |-> first, kind |-> kind]

MCGoals == {Goal(FALSE, FALSE, "none", "pickplace", "surface"),
            Goal(FALSE, FALSE, "nearest", "model", "surface"),
            Goal(FALSE, TRUE, "none", "model", "container"),
            Goal(TRUE, TRUE, "suffix", "model", "container")}
=============================================================================
