----------------------------- MODULE MCCampaign -----------------------------
(***************************************************************************)
(* States that differ only in what nothing reads any more are one state:   *)
(* the development once its artifact is sealed, what a runner held in its  *)
(* memory once it is gone, and the starts of children of which neither a   *)
(* directory nor an orphan is left.                                        *)
(***************************************************************************)
EXTENDS Campaign

Remembered ==
    {s \in outlived : \/ s.start \in dir[s.method][s.job].tries
                      \/ \E o \in orphans : o.start = s.start /\ o.job = s.job /\ o.method = s.method}

Held == IF runner = "run" THEN <<method, before, result, seen, stop>>
        ELSE IF runner = "down" THEN <<>> ELSE <<method, before>>

Seen == IF sealed
        THEN <<SealedIsWhole, diskvars, runner, services, work, orphans, Remembered, source, mutated,
               Held, faults, cvars>>
        ELSE vars
=============================================================================
