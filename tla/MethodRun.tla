----------------------------- MODULE MethodRun -----------------------------
(***************************************************************************)
(* One launch after another of a measured method (run_libero.py): the lock *)
(* and the manifest, the archive of interrupted episodes, the shared       *)
(* services on fixed ports, the workers with their children, the stop      *)
(* event, quota, the watchdog, the evidence gate and the method's verdict. *)
(* A runner that is killed leaves its services and its children running:   *)
(* the children lead sessions of their own, and end when they have run     *)
(* their episode or failed in it.                                          *)
(***************************************************************************)
EXTENDS Faults, FiniteSets

CONSTANTS
    Jobs,        \* the registered episodes, a set of numbers: the queue's order
    Workers,     \* --workers
    MaxEdits     \* bound: edits of the registered sources between launches

ASSUME MethodAssumption == Jobs \subseteq Nat /\ Workers \in Nat \ {0} /\ MaxEdits \in Nat

Methods == {"capx", "rats"}

VARIABLES
    dir,        \* an episode's directory
    launched,   \* how often an episode's child was started
    lib,        \* run_manifest.json: the sources it binds, 0 when absent
    torn,       \* the methods whose run_manifest.json was written half
    registered, \* the migrations somebody registered
    markers,    \* ABORTED.json, FAILURES.json, COMPLETE.json of a method
    runner,     \* where the runner process is; "down" when there is none
    method,     \* the method it runs
    services,   \* the comparison ports answer
    work,       \* a job's child
    orphans,    \* children whose runner was killed
    outlived,   \* the starts whose child was ever one of them
    result,     \* what _rats_job or _capx_job returned
    seen,       \* jobs whose result the main thread has processed
    stop,       \* the stop event
    source,     \* the registered sources as they are now
    mutated,    \* the frozen RATS artifact differs from its seal
    before      \* it did when the runner began to measure

diskvars == <<dir, launched, lib, torn, registered, markers>>
orphanvars == <<orphans, outlived>>
artifactvars == <<mutated, before>>
mvars == <<diskvars, runner, method, services, work, orphanvars, result, seen, stop, source,
           artifactvars>>

Empty == [tries |-> {}, resets |-> 0, ended |-> FALSE, complete |-> FALSE, quota |-> FALSE,
          source |-> 0]
Idle  == [j \in Jobs |-> "idle"]

MethodInit ==
    /\ dir = [m \in Methods |-> [j \in Jobs |-> Empty]]
    /\ launched = [m \in Methods |-> [j \in Jobs |-> 0]]
    /\ lib = [m \in Methods |-> 0] /\ torn = {} /\ registered = {}
    /\ markers = [m \in Methods |-> {}]
    /\ runner = "down" /\ method = "capx" /\ services = FALSE
    /\ work = Idle /\ orphans = {} /\ outlived = {}
    /\ result = [j \in Jobs |-> "none"] /\ seen = {} /\ stop = FALSE
    /\ source = 1 /\ mutated = FALSE /\ before = FALSE

Complete(m)   == {j \in Jobs : dir[m][j].complete}
Incomplete(m) == Jobs \ Complete(m)
Running       == {j \in Jobs : work[j] \in {"started", "reset", "ended"}}

-----------------------------------------------------------------------------
\* ---- before the first episode ----

\* An exact, registered migration of a manifest to the present sources that
\* names the very episodes completed so far.
Migration(m) == [method |-> m, from |-> lib[m], to |-> source, done |-> Complete(m)]

\* mutant: any manifest is overwritten
ResumeAnyway(m) == m \notin torn

\* mutant: migrations are not looked for
NeverMigrated(m) == m \notin torn /\ lib[m] \in {0, source}

\* The run manifest: absent, matched, or migrated.  One that does not parse
\* ends every launch.
MayResume(m) == m \notin torn /\ (lib[m] \in {0, source} \/ Migration(m) \in registered)

\* The RATS artifact must still verify against its seal.
MayStart(m) == MayResume(m) /\ (m = "rats" => ~mutated)

\* The runner starts: nobody else holds the method's lock, and the manifest
\* lets it resume.
StartRunner(m) ==
    /\ runner = "down" /\ MayStart(m) /\ lib' = [lib EXCEPT ![m] = source]
    /\ runner' = "archive" /\ method' = m
    /\ UNCHANGED <<dir, launched, torn, registered, markers, services, work, orphanvars, result,
                   seen, stop, source, artifactvars, faults>>

\* Killed while it writes the manifest, the first one or a migrated one.
KilledWriting(m) ==
    /\ runner = "down" /\ MayStart(m) /\ lib[m] # source /\ FaultStrikes
    /\ torn' = torn \cup {m}
    /\ UNCHANGED <<dir, launched, lib, registered, markers, runner, method, services, work,
                   orphanvars, result, seen, stop, source, artifactvars>>

\* _archive_incomplete_generated_resume_state moves the non-empty incomplete
\* directories and the method's verdicts out of measured/, and nothing once
\* every episode is complete.
Cleared(m, js) == [j \in Jobs |-> IF j \in js THEN Empty ELSE dir[m][j]]
\* mutant: the next launch reuses the directory
Reused(m) == markers' = [markers EXCEPT ![m] = @ \ {"ABORTED", "FAILURES"}] /\ UNCHANGED dir

Archived(m) ==
    /\ dir' = [dir EXCEPT ![m] = Cleared(m, Incomplete(m))]
    /\ markers' = [markers EXCEPT ![m] = IF Incomplete(m) = {} THEN @
                                         ELSE @ \ {"ABORTED", "FAILURES"}]

Archive ==
    /\ runner = "archive" /\ runner' = "ports" /\ Archived(method) /\ before' = mutated
    /\ UNCHANGED <<launched, lib, torn, registered, method, services, work, orphanvars, result,
                   seen, stop, source, mutated, faults>>

\* Killed between two of its renames; an exception would undo them.
KilledArchiving ==
    /\ runner = "archive" /\ FaultStrikes /\ runner' = "down"
    /\ \E moved \in SUBSET Incomplete(method) : dir' = [dir EXCEPT ![method] = Cleared(method, moved)]
    /\ UNCHANGED <<launched, lib, torn, registered, markers, method, services, work, orphanvars,
                   result, seen, stop, source, artifactvars>>

\* Services of somebody else on the ports: refuse.
StartServices ==
    /\ runner = "ports" /\ ~services
    /\ services' = TRUE /\ runner' = "run" /\ stop' = FALSE /\ seen' = {}
    /\ work' = [j \in Jobs |-> "queued"] /\ result' = [j \in Jobs |-> "none"]
    /\ UNCHANGED <<diskvars, method, orphanvars, source, artifactvars, faults>>

-----------------------------------------------------------------------------
\* ---- the workers ----

NextQueued(j) == work[j] = "queued" /\ \A i \in Jobs : work[i] = "queued" => j <= i

Tried(j, n) ==
    [dir[method][j] EXCEPT !.tries = @ \cup {n}, !.source = lib[method]]

\* A worker takes the next job: stopped, already complete, or a new child.
Take(j) ==
    /\ runner = "run" /\ NextQueued(j) /\ Cardinality(Running) < Workers
    /\ IF stop \/ dir[method][j].complete
       THEN /\ result' = [result EXCEPT ![j] = IF stop THEN "fail" ELSE "ok"]
            /\ work' = [work EXCEPT ![j] = "gone"] /\ UNCHANGED <<dir, launched>>
       ELSE /\ work' = [work EXCEPT ![j] = "started"]
            /\ launched' = [launched EXCEPT ![method][j] = @ + 1]
            /\ dir' = [dir EXCEPT ![method][j] = Tried(j, launched'[method][j])]
            /\ UNCHANGED result
    /\ UNCHANGED <<lib, torn, registered, markers, runner, method, services, orphanvars, seen,
                   stop, source, artifactvars, faults>>

\* A child resets the simulator, then runs the episode to its end.
WasReset(d, n) == [d EXCEPT !.tries = @ \cup {n}, !.resets = @ + 1]
WasRun(d, n)   == [d EXCEPT !.tries = @ \cup {n}, !.ended = TRUE]

ChildRuns(j) ==
    /\ LET d == dir[method][j]
           n == launched[method][j]
       IN  \/ /\ work[j] = "started" /\ work' = [work EXCEPT ![j] = "reset"]
              /\ dir' = [dir EXCEPT ![method][j] = WasReset(d, n)]
           \/ /\ work[j] = "reset" /\ work' = [work EXCEPT ![j] = "ended"]
              /\ dir' = [dir EXCEPT ![method][j] = WasRun(d, n)]
    /\ UNCHANGED <<launched, lib, torn, registered, markers, runner, method, services, orphanvars,
                   result, seen, stop, source, artifactvars, faults>>

\* A child whose runner is dead does the same: its telemetry recreates a
\* directory that was moved away, whatever is there by now.  Or it fails, for
\* want of the services say.
OrphanRuns(o) ==
    /\ LET d == dir[o.method][o.job] IN
       \/ /\ o.at = "started" /\ orphans' = (orphans \ {o}) \cup {[o EXCEPT !.at = "reset"]}
          /\ dir' = [dir EXCEPT ![o.method][o.job] = WasReset(d, o.start)]
       \/ /\ o.at = "reset" /\ orphans' = orphans \ {o}
          /\ dir' = [dir EXCEPT ![o.method][o.job] = WasRun(d, o.start)]
       \/ orphans' = orphans \ {o} /\ UNCHANGED dir
    /\ UNCHANGED <<launched, lib, torn, registered, markers, runner, method, services, work,
                   outlived, result, seen, stop, source, artifactvars, faults>>

\* The evidence gate: one registered reset and the terminal files.
Evident(d) == d.ended /\ d.resets = 1

\* A child that counts as having returned 0 is complete if its evidence is.
Ended(j) == [dir[method][j] EXCEPT !.ended = TRUE]
Judged(j, quota) ==
    [Ended(j) EXCEPT !.complete = Evident(Ended(j)), !.quota = quota /\ Evident(Ended(j))]

Gate(j, quota) ==
    LET d == Judged(j, quota) IN
    /\ dir' = [dir EXCEPT ![method][j] = d]
    /\ result' = [result EXCEPT ![j] = CASE d.quota -> "scored_quota"
                                         [] d.complete /\ ~d.quota -> "ok"
                                         [] ~d.complete -> "fail"]

Leaves(j) ==
    /\ runner = "run" /\ work' = [work EXCEPT ![j] = "gone"]
    /\ UNCHANGED <<launched, lib, torn, registered, markers, runner, method, services, orphanvars,
                   seen, source, artifactvars>>

Finishes(j) ==
    /\ work[j] = "ended" /\ Leaves(j) /\ Gate(j, FALSE)
    /\ UNCHANGED <<stop, faults>>

\* The watchdog of a RATS episode: the child is killed, the terminal files are
\* materialised, and the episode is judged.  (A child that hangs before its
\* reset is a fault.)
TimesOut(j) ==
    /\ j \in Running /\ method = "rats" /\ Leaves(j) /\ Gate(j, FALSE)
    /\ IF work[j] = "started" THEN FaultStrikes ELSE UNCHANGED faults
    /\ UNCHANGED stop

\* A provider's quota marker in the child's log, at its end at the latest,
\* stops the grid ...
Quota(j) ==
    /\ j \in Running /\ FaultStrikes
    /\ Leaves(j) /\ stop' = TRUE
    /\ result' = [result EXCEPT ![j] = "quota"] /\ UNCHANGED dir

\* ... also when the watchdog fires on the same episode.
QuotaTimesOut(j) ==
    /\ j \in Running /\ method = "rats" /\ FaultStrikes
    /\ Leaves(j) /\ stop' = TRUE /\ Gate(j, TRUE)

\* The child exits nonzero, or a file the gate wants is missing.
ChildFails(j) ==
    /\ j \in Running /\ FaultStrikes
    /\ Leaves(j) /\ result' = [result EXCEPT ![j] = "fail"] /\ UNCHANGED <<dir, stop>>

\* The stop event kills the peers' children.
Stopped(j) ==
    /\ j \in Running /\ stop /\ Leaves(j)
    /\ result' = [result EXCEPT ![j] = "fail"] /\ UNCHANGED <<dir, stop, faults>>

\* as_completed: the main thread sees a result, and stops the grid if it is
\* not a zero.
See(j) ==
    /\ runner = "run" /\ result[j] # "none" /\ j \notin seen
    /\ seen' = seen \cup {j} /\ stop' = (stop \/ result[j] \in {"fail", "quota"})
    /\ UNCHANGED <<diskvars, runner, method, services, work, orphanvars, result, source,
                   artifactvars, faults>>

\* The verdict: an artifact that changed under the runner before quota before
\* failures before completion.
Verdict ==
    IF method = "rats" /\ mutated # before THEN "FAILURES"
    ELSE IF \E j \in Jobs : result[j] \in {"quota", "scored_quota"} THEN "ABORTED"
    ELSE IF \E j \in Jobs : result[j] = "fail" THEN "FAILURES" ELSE "COMPLETE"

Report ==
    /\ runner = "run" /\ seen = Jobs
    /\ markers' = [markers EXCEPT ![method] = @ \cup {Verdict}]
    /\ services' = FALSE /\ work' = Idle /\ runner' = "down"
    /\ UNCHANGED <<dir, launched, lib, torn, registered, method, orphanvars, result, seen, stop,
                   source, artifactvars, faults>>

-----------------------------------------------------------------------------
\* ---- the end of a runner, and what the operator does between launches ----

\* SIGTERM unwinds: children and services are stopped, no verdict is written.
Interrupted ==
    /\ runner # "down" /\ FaultStrikes
    /\ runner' = "down" /\ services' = (services /\ runner # "run") /\ work' = Idle
    /\ UNCHANGED <<diskvars, method, orphanvars, result, seen, stop, source, artifactvars>>

\* SIGKILL does not: children, in sessions of their own, and services stay.
Orphaned == {[method |-> method, job |-> j, start |-> launched[method][j], at |-> work[j]] :
                 j \in {i \in Jobs : work[i] \in {"started", "reset"}}}

Killed ==
    /\ runner \in {"ports", "run"} /\ FaultStrikes
    /\ runner' = "down" /\ work' = Idle
    /\ orphans' = orphans \cup Orphaned
    /\ outlived' = outlived \cup {[method |-> method, job |-> j, start |-> launched[method][j]] :
                                       j \in Running}
    /\ UNCHANGED <<diskvars, method, services, result, seen, stop, source, artifactvars>>

\* The operator frees the ports a killed runner left taken.
FreePorts ==
    /\ runner # "run" /\ services /\ services' = FALSE
    /\ UNCHANGED <<diskvars, runner, method, work, orphanvars, result, seen, stop, source,
                   artifactvars, faults>>

\* The registered sources change, and somebody registers a migration of a
\* method's manifest to them.
Edit ==
    /\ runner = "down" /\ source <= MaxEdits /\ source' = source + 1
    /\ UNCHANGED <<diskvars, runner, method, services, work, orphanvars, result, seen, stop,
                   artifactvars, faults>>

Register(m) ==
    /\ lib[m] \notin {0, source} /\ runner = "down"
    /\ registered' = registered \cup {Migration(m)}
    /\ UNCHANGED <<dir, launched, lib, torn, markers, runner, method, services, work, orphanvars,
                   result, seen, stop, source, artifactvars, faults>>

\* Somebody changes the frozen artifact in spite of its permissions.
Mutate ==
    /\ ~mutated /\ FaultStrikes /\ mutated' = TRUE
    /\ UNCHANGED <<diskvars, runner, method, services, work, orphanvars, result, seen, stop, source,
                   before>>

-----------------------------------------------------------------------------

\* The attempts whose data an episode's directory holds, without those whose
\* child outlived a killed runner.
Attended(m, j) ==
    {n \in dir[m][j].tries : [method |-> m, job |-> j, start |-> n] \notin outlived}

(* A complete episode holds the data of one attempt that ended under its   *)
(* runner, and beside it at most what the orphans of a killed runner wrote *)
(* (_archive_incomplete_generated_resume_state).                           *)
OneAttended == \A m \in Methods : \A j \in Complete(m) : Cardinality(Attended(m, j)) = 1

(* Every complete episode was measured under the sources its method's      *)
(* manifest binds, or somebody registered the migration of that very       *)
(* episode away from the sources it was measured under.                    *)
MeasuredAsRegistered ==
    \A m \in Methods : \A j \in Complete(m) :
        \/ dir[m][j].source = lib[m]
        \/ \E r \in registered : r.method = m /\ r.from = dir[m][j].source /\ j \in r.done

(* An episode whose calls ran out of quota is never scored: "A quota or    *)
(* unavailable-route error pauses the run ... It is not counted as a       *)
(* policy failure."                                                        *)
QuotaNeverScored == \A m \in Methods : \A j \in Complete(m) : ~dir[m][j].quota
=============================================================================
