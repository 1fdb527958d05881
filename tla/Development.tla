---------------------------- MODULE Development ----------------------------
(***************************************************************************)
(* The development of the RATS artifact (run_rats_development.py): a child *)
(* runs rounds that add lessons to a skill file and to a failure memory,   *)
(* commits each round as an iteration file and a snapshot, and may be      *)
(* killed, run out of quota or of simulator resets at any point; the       *)
(* wrapper restores the last snapshot, freezes the result, and a           *)
(* supervisor (supervise_after_development.py) seals it for evaluation.    *)
(* The child is the vendored loop (third_party/rats, lifelong_loop.py): of *)
(* a round it shows the resets, what is learned and the commit.  A lesson  *)
(* is named by the execution of a round that taught it.                    *)
(***************************************************************************)
EXTENDS Integers, FiniteSets, FiniteSetsExt

CONSTANTS
    Rounds,        \* --rounds
    ResetBudget,   \* --episode-budget, in simulator resets
    MaxMishaps     \* bound: kills, quota outages and failed rounds of the development

ASSUME DevelopmentAssumption == Rounds \in Nat \ {0} /\ {ResetBudget, MaxMishaps} \subseteq Nat

Iterations == 1..Rounds
Runs       == 1..ResetBudget
None       == 0
NoContent  == [skills |-> {0}, memory |-> {0}]

VARIABLES
    dev,         \* the wrapper's position; "down" when it does not run
    next,        \* the round being run
    run,         \* executions of rounds so far: the newest one's name
    iteration,   \* iteration_NNN.json: the execution it records, None if absent
    errored,     \* iterations whose file carries an error
    snap,        \* snapshots/iterNNN
    live,        \* skills.json and failure_memory as the child sees them
    committed,   \* live, as the round that an iteration records left it
    cut,         \* iterations a copy of whose snapshot was broken off
    resets,      \* lines of sim_episodes.jsonl
    aborted,     \* the child of this launch met its quota or ended with an error
    exhausted,   \* this launch's log says the reset budget is reached
    termination, \* checkpoint.json
    frozen,      \* the frozen artifact's skills and memory
    manifest,    \* artifact_manifest.json is written
    reopened,    \* the wrapper was launched again after that
    sup,         \* the supervisor's position
    mishaps,     \* kills, outages and failed rounds so far
    sealed       \* seal_manifest.json holds and the artifact is read-only

dvars == <<dev, next, run, iteration, errored, snap, live, committed, cut, resets,
           aborted, exhausted, termination, frozen, manifest, reopened, sup, sealed, mishaps>>
childvars == <<iteration, errored, snap, committed, cut>>
freezevars == <<frozen, manifest, reopened, sup, sealed>>

DevInit ==
    /\ dev = "down" /\ next = 1 /\ run = 0
    /\ iteration = [i \in Iterations |-> None] /\ errored = {}
    /\ snap = [i \in Iterations |-> NoContent]
    /\ live = [skills |-> {}, memory |-> {}]
    /\ committed = [i \in Iterations |-> NoContent] /\ cut = {}
    /\ resets = 0 /\ aborted = FALSE /\ exhausted = FALSE /\ termination = "none"
    /\ frozen = NoContent /\ manifest = FALSE /\ reopened = FALSE
    /\ sup = "idle" /\ sealed = FALSE /\ mishaps = 0

Mishap == mishaps < MaxMishaps /\ mishaps' = mishaps + 1

-----------------------------------------------------------------------------
\* ---- the wrapper ----

Valid(files, bad) == {i \in Iterations \ bad : files[i] # None}

\* _restore_latest_completed_snapshot: the state of the highest completed
\* iteration, or nothing to restore when its snapshot has no skill file.  A
\* snapshot without a memory restores an empty one.
Restorable(files, bad) ==
    LET done == Valid(files, bad)
    IN  done # {} /\ snap[Max(done)].skills # NoContent.skills

Snapshot(i) == [snap[i] EXCEPT !.memory = @ \ NoContent.memory]

Restored(files, bad) ==
    IF Restorable(files, bad) THEN Snapshot(Max(Valid(files, bad))) ELSE live

\* Errored iterations are renamed out of the way.
Quarantined == [i \in Iterations |-> IF i \in errored THEN None ELSE iteration[i]]

\* A launch: quarantine, put the old abort aside, restore.  Nobody launches
\* the wrapper while the supervisor works (it waits for the wrapper's end), or
\* on an artifact that is sealed read-only.
Relaunch ==
    /\ dev = "down" /\ sup = "idle" /\ ~sealed
    /\ iteration' = Quarantined /\ errored' = {}
    /\ aborted' = FALSE /\ exhausted' = FALSE
    /\ reopened' = (reopened \/ manifest)

Launch ==
    /\ Relaunch
    /\ live' = Restored(Quarantined, {})
    /\ next' = 1 /\ dev' = "loop"
    /\ UNCHANGED <<run, snap, committed, cut, resets, termination, frozen, manifest, sup,
                   sealed, mishaps>>

\* Killed between the skill file and the end of the memory's tree: part of the
\* old tree is still there, or part of the new one.
KilledRestoring ==
    /\ Relaunch /\ Mishap
    /\ LET to == Restored(Quarantined, {}) IN
       /\ live # to
       /\ \E memory \in (SUBSET live.memory) \cup (SUBSET to.memory) :
              live' = [skills |-> to.skills, memory |-> memory]
    /\ UNCHANGED <<dev, next, run, snap, committed, cut, resets, termination, frozen,
                   manifest, sup, sealed>>

\* What follows the child: the budget boundary, the checkpoint, the return code.
AfterChild ==
    /\ dev = "after"
    /\ LET complete == Cardinality(Valid(iteration, errored)) = Rounds
           stranded == exhausted /\ ~Restorable(iteration, errored)
       IN  /\ live' = IF exhausted THEN Restored(iteration, errored) ELSE live
           /\ termination' = CASE stranded -> "budget_without_snapshot"
                               [] complete /\ ~exhausted /\ ~aborted -> "round_budget"
                               [] exhausted /\ ~stranded -> "simulator_reset_budget"
                               [] OTHER -> "interrupted"
           /\ dev' = IF aborted \/ stranded \/ ~(complete \/ exhausted) THEN "down" ELSE "skills"
    /\ UNCHANGED <<next, run, childvars, resets, aborted, exhausted, freezevars, mishaps>>

FreezeSkills ==
    /\ dev = "skills"
    /\ frozen' = [frozen EXCEPT !.skills = live.skills] /\ dev' = "memory"
    /\ UNCHANGED <<next, run, childvars, live, resets, aborted, exhausted, termination,
                   manifest, reopened, sup, sealed, mishaps>>

\* mutant: whatever memory is there is kept
FreezeIfAbsent ==
    /\ dev = "memory" /\ dev' = "manifest"
    /\ IF frozen.memory = NoContent.memory
       THEN frozen' = [frozen EXCEPT !.memory = live.memory] ELSE UNCHANGED frozen
    /\ UNCHANGED <<next, run, childvars, live, resets, aborted, exhausted, termination,
                   manifest, reopened, sup, sealed, mishaps>>

\* A frozen memory that differs is never overwritten: the launch ends.
FreezeMemory ==
    /\ dev = "memory"
    /\ IF frozen.memory \in {NoContent.memory, live.memory}
       THEN frozen' = [frozen EXCEPT !.memory = live.memory] /\ dev' = "manifest"
       ELSE dev' = "down" /\ UNCHANGED frozen
    /\ UNCHANGED <<next, run, childvars, live, resets, aborted, exhausted, termination,
                   manifest, reopened, sup, sealed, mishaps>>

\* The copy of the memory is not atomic.
KilledFreezing ==
    /\ dev = "memory" /\ frozen.memory = NoContent.memory /\ Mishap
    /\ \E part \in SUBSET live.memory : frozen' = [frozen EXCEPT !.memory = part]
    /\ dev' = "down"
    /\ UNCHANGED <<next, run, childvars, live, resets, aborted, exhausted, termination,
                   manifest, reopened, sup, sealed>>

WriteManifest ==
    /\ dev = "manifest" /\ manifest' = TRUE /\ dev' = "down"
    /\ UNCHANGED <<next, run, childvars, live, resets, aborted, exhausted, termination,
                   frozen, reopened, sup, sealed, mishaps>>

-----------------------------------------------------------------------------
\* ---- the child's rounds (LifelongLoop.run) ----

\* Every reset looks at the budget first; reaching it ends the child.
BudgetReached == exhausted' = TRUE /\ dev' = "after" /\ UNCHANGED <<resets, run>>

BeginRound ==
    /\ dev = "loop" /\ next <= Rounds /\ iteration[next] = None
    /\ IF resets < ResetBudget
       THEN resets' = resets + 1 /\ run' = run + 1 /\ dev' = "round" /\ UNCHANGED exhausted
       ELSE BudgetReached
    /\ UNCHANGED <<next, childvars, live, aborted, termination, freezevars, mishaps>>

SkipCompleted ==
    /\ dev = "loop"
    /\ IF next > Rounds THEN dev' = "after" /\ UNCHANGED next
       ELSE iteration[next] # None /\ next' = next + 1 /\ UNCHANGED dev
    /\ UNCHANGED <<run, childvars, live, resets, aborted, exhausted, termination, freezevars, mishaps>>

\* A failure is remembered, or a helper retained, before the round commits.
Learn ==
    /\ dev = "round"
    /\ \/ run \notin live.memory /\ live' = [live EXCEPT !.memory = @ \cup {run}]
       \/ run \notin live.skills /\ live' = [live EXCEPT !.skills = @ \cup {run}]
    /\ UNCHANGED <<dev, next, run, childvars, resets, aborted, exhausted, termination,
                   freezevars, mishaps>>

\* Another attempt of the round resets the simulator again.
Reattempt ==
    /\ dev = "round"
    /\ IF resets < ResetBudget THEN resets' = resets + 1 /\ UNCHANGED <<dev, run, exhausted>>
       ELSE BudgetReached
    /\ UNCHANGED <<next, childvars, live, aborted, termination, freezevars, mishaps>>

\* _save_iteration_result, then _maybe_snapshot: the skill file, then the tree
\* of the memory, unless there is one.
CommitRound ==
    /\ dev = "round"
    /\ iteration' = [iteration EXCEPT ![next] = run]
    /\ committed' = [committed EXCEPT ![next] = live] /\ dev' = "snapshot"
    /\ UNCHANGED <<next, run, errored, snap, cut, live, resets, aborted, exhausted,
                   termination, freezevars, mishaps>>

SnapshotSkills ==
    /\ dev = "snapshot" /\ dev' = "copying"
    /\ snap' = [snap EXCEPT ![next].skills = live.skills]
    /\ UNCHANGED <<next, run, iteration, errored, committed, cut, live, resets, aborted,
                   exhausted, termination, freezevars, mishaps>>

SnapshotMemory ==
    /\ dev = "copying" /\ dev' = "loop" /\ next' = next + 1
    /\ IF snap[next].memory = NoContent.memory
       THEN snap' = [snap EXCEPT ![next].memory = live.memory] ELSE UNCHANGED snap
    /\ UNCHANGED <<run, iteration, errored, committed, cut, live, resets, aborted,
                   exhausted, termination, freezevars, mishaps>>

\* What is there of the snapshot when its copy is broken off.
CopyBroken ==
    IF dev # "copying" THEN UNCHANGED <<snap, cut>>
    ELSE /\ cut' = cut \cup {next}
         /\ \/ UNCHANGED snap
            \/ /\ snap[next].memory = NoContent.memory
               /\ \E part \in SUBSET live.memory : snap' = [snap EXCEPT ![next].memory = part]

\* An exception ends the round, not the loop, and its record replaces the
\* iteration file, also when it is the commit that failed.
RoundFails ==
    /\ dev \in {"round", "snapshot", "copying"} /\ Mishap /\ CopyBroken
    /\ iteration' = [iteration EXCEPT ![next] = run]
    /\ errored' = errored \cup {next} /\ next' = next + 1 /\ dev' = "loop"
    /\ UNCHANGED <<run, committed, live, resets, aborted, exhausted, termination, freezevars>>

\* Quota exhaustion ends the child, or it dies.
ChildDies ==
    /\ dev \in {"loop", "round", "snapshot", "copying"} /\ Mishap /\ CopyBroken
    /\ aborted' = TRUE /\ dev' = "after"
    /\ UNCHANGED <<next, run, iteration, errored, committed, live, resets, exhausted,
                   termination, freezevars>>

\* The machine stops, or somebody kills the wrapper and its child.
Kill ==
    /\ dev # "down" /\ Mishap /\ CopyBroken
    /\ dev' = "down"
    /\ UNCHANGED <<next, run, iteration, errored, committed, live, resets, aborted,
                   exhausted, termination, freezevars>>

-----------------------------------------------------------------------------
\* ---- the supervisor ----

\* The watched process is gone; without a frozen skill file there is nothing
\* to do.
Supervise ==
    /\ sup = "idle" /\ ~sealed /\ dev = "down" /\ frozen.skills # NoContent.skills
    /\ sup' = "finalize"
    /\ UNCHANGED <<dev, next, run, childvars, live, resets, aborted, exhausted, termination,
                   frozen, manifest, reopened, sealed, mishaps>>

\* _finalize_budget_boundary and _bind_development_provenance; an error
\* leaves the artifact unsealed.
Finalize ==
    /\ sup = "finalize"
    /\ LET atBudget == termination = "simulator_reset_budget"
           ready == manifest /\ (atBudget => Restorable(iteration, errored))
       IN  /\ sup' = IF ready THEN "seal" ELSE "idle"
           /\ IF ready /\ atBudget
              THEN live' = Restored(iteration, errored) /\ frozen' = live'
              ELSE UNCHANGED <<live, frozen>>
    /\ UNCHANGED <<dev, next, run, childvars, resets, aborted, exhausted, termination,
                   manifest, reopened, sealed, mishaps>>

\* Killed while it replaces the frozen files, or before the seal is written.
KilledSealing ==
    /\ sup \in {"finalize", "seal"} /\ Mishap
    /\ sup' = "idle"
    /\ IF sup = "finalize" /\ manifest /\ termination = "simulator_reset_budget"
       THEN \E part \in SUBSET live.memory : frozen' = [skills |-> live.skills, memory |-> part]
       ELSE UNCHANGED frozen
    /\ UNCHANGED <<dev, next, run, childvars, live, resets, aborted, exhausted, termination,
                   manifest, reopened, sealed>>

Seal ==
    /\ sup = "seal" /\ sealed' = TRUE /\ sup' = "idle"
    /\ UNCHANGED <<dev, next, run, childvars, live, resets, aborted, exhausted, termination,
                   frozen, manifest, reopened, mishaps>>

DevStep ==
    \/ Launch \/ AfterChild \/ FreezeSkills \/ FreezeMemory \/ WriteManifest
    \/ BeginRound \/ SkipCompleted \/ Learn \/ Reattempt \/ CommitRound
    \/ SnapshotSkills \/ SnapshotMemory \/ Supervise \/ Finalize \/ Seal
    \/ KilledRestoring \/ KilledFreezing \/ KilledSealing \/ RoundFails \/ ChildDies \/ Kill

-----------------------------------------------------------------------------

(* The sealed artifact is one whole state: its skills and its memory are   *)
(* what one committed round left, never a mixture, a torn copy or the      *)
(* state of a round that was cut off.  Two ways round it that the program   *)
(* does not close are left out: the artifact is what a snapshot holds      *)
(* whose own copy was broken off, or the wrapper was launched again after  *)
(* it had finished.                                                        *)
Whole(i) == frozen = committed[i] \/ (i \in cut /\ frozen = Snapshot(i))

SealedIsWhole ==
    sealed /\ ~reopened => \E i \in Valid(iteration, errored) : Whole(i)
=============================================================================
