------------------------------ MODULE Robosuite ------------------------------
(***************************************************************************)
(* One Robosuite evaluation from its first launch to COMPLETE.json         *)
(* (scripts/eval_robosuite_agent.py, evolution/harness/robosuite.py): the  *)
(* validity of what is on disk, the archive of invalid attempts, a pool of *)
(* processes that run episodes whose controllers may swallow a failed      *)
(* model call, the pause after the first invalid row, and the relaunch.    *)
(***************************************************************************)
EXTENDS ModelAccess

CONSTANTS
    Episodes,    \* the registered task x seed product
    Calls        \* bound: model calls of one episode

VARIABLES
    main,        \* the evaluator: "down", "archive", "pool", "closing"
    job,         \* an episode of this launch: "done" | "queued" | "running" | "row" | "cancelled"
    worker,      \* the episode a process runs, and how far
    unanswered,  \* a process' present episode met a call that got no answer
    record,      \* raw/<task>/<seed>/record.json
    manifest,    \* run_manifest.json: "absent", "whole", or "torn" by a kill
    edited,      \* what a launch would write there differs from what it holds
    offence,     \* the first invalid row this launch has seen
    markers,     \* COMPLETE.json, ABORTED.json, FAILED.json
    outcome      \* what evaluate returned or raised last

mainvars == <<manifest, edited, offence, markers, outcome>>
evalvars == <<main, job, worker, unanswered, record, mainvars>>
vars == <<accessvars, evalvars, faults>>

Idle     == [at |-> "idle", episode |-> 0, calls |-> 0]
NoRecord == [written |-> FALSE, abort |-> "", infra |-> FALSE, clean |-> TRUE]
NoJob    == [e \in Episodes |-> "done"]
Free     == [p \in Callers |-> Idle]

Init ==
    /\ AccessInit /\ faults = 0
    /\ main = "down" /\ job = NoJob /\ worker = Free
    /\ unanswered = [p \in Callers |-> FALSE]
    /\ record = [e \in Episodes |-> NoRecord]
    /\ manifest = "absent" /\ edited = FALSE
    /\ offence = "" /\ markers = {} /\ outcome = "none"

-----------------------------------------------------------------------------
\* ---- the launch ----

\* _completed: rows that are read, carry no abort and no infrastructure error.
Valid(row) == row.written /\ row.abort = "" /\ ~row.infra
Completed  == {e \in Episodes : Valid(record[e])}

\* evaluate launches the evaluator, with --resume once its directory exists.
\* The manifest is written once, and compared by every later launch.
Launch ==
    /\ main = "down" /\ outcome # "complete" /\ manifest # "torn" /\ ~edited
    /\ manifest' = "whole" /\ main' = "archive"
    /\ UNCHANGED <<accessvars, job, worker, unanswered, record, edited, offence, markers,
                   outcome, faults>>

\* One that does not parse, or differs, ends the launch.
Rejected ==
    /\ main = "down" /\ outcome # "complete" /\ (manifest = "torn" \/ edited)
    /\ outcome' = "raised"
    /\ UNCHANGED <<accessvars, main, job, worker, unanswered, record, manifest, edited,
                   offence, markers, faults>>

\* Killed while it writes the first one.
KilledWriting ==
    /\ main = "down" /\ manifest = "absent" /\ FaultStrikes
    /\ manifest' = "torn" /\ outcome' = "raised"
    /\ UNCHANGED <<accessvars, main, job, worker, unanswered, record, edited, offence, markers>>

\* Between two launches the candidate's tree or an argument is changed, or
\* changed back.
Edit ==
    /\ main = "down" /\ manifest = "whole"
    /\ edited' = ~edited /\ (IF edited THEN UNCHANGED faults ELSE FaultStrikes)
    /\ UNCHANGED <<accessvars, main, job, worker, unanswered, record, manifest, offence,
                   markers, outcome>>

\* _archive_invalid_episode_attempts moves the raw directory of every episode
\* that is not complete, recorded or not; then a COMPLETE that lost an episode
\* is moved away with its ABORTED.json.
Invalid     == Episodes \ Completed
Cleared(es) == [e \in Episodes |-> IF e \in es THEN NoRecord ELSE record[e]]
Stale       == IF Invalid # {} /\ "COMPLETE" \in markers THEN {"COMPLETE", "ABORTED"} ELSE {}

Archive ==
    /\ main = "archive"
    /\ record' = Cleared(Invalid) /\ markers' = markers \ Stale
    /\ job' = [e \in Episodes |-> IF e \in Completed THEN "done" ELSE "queued"]
    /\ main' = "pool" /\ worker' = Free /\ offence' = ""
    /\ ask' = [p \in Callers |-> NoCall]
    /\ terminal' = [p \in Callers |-> FALSE] /\ quota' = [p \in Callers |-> FALSE]
    /\ unanswered' = [p \in Callers |-> FALSE]
    /\ UNCHANGED <<cache, manifest, edited, outcome, faults>>

\* Killed between two of its renames.
KilledArchiving ==
    /\ main = "archive" /\ FaultStrikes
    /\ \/ \E moved \in SUBSET Invalid : record' = Cleared(moved) /\ UNCHANGED markers
       \/ record' = Cleared(Invalid) /\ markers' = markers \ (Stale \cap {"COMPLETE"})
    /\ main' = "down" /\ outcome' = "raised"
    /\ UNCHANGED <<accessvars, job, worker, unanswered, manifest, edited, offence>>

-----------------------------------------------------------------------------
\* ---- an episode ----

\* A process takes a job.  Its counters still are those of the episode it ran
\* before.
Take(p, e) ==
    /\ worker[p].at = "idle" /\ job[e] = "queued"
    /\ job' = [job EXCEPT ![e] = "running"]
    /\ worker' = [worker EXCEPT ![p] = [at |-> "reset", episode |-> e, calls |-> 0]]
    /\ unanswered' = [unanswered EXCEPT ![p] = FALSE]
    /\ UNCHANGED <<accessvars, main, record, mainvars, faults>>

\* The simulator is up and the counters are reset.
Begin(p) ==
    /\ worker[p].at = "reset" /\ worker' = [worker EXCEPT ![p].at = "policy"]
    /\ ResetStats(p)
    /\ UNCHANGED <<ask, cache, main, job, unanswered, record, mainvars,
                   faults>>

\* The policy asks the model.
Query(p) ==
    /\ worker[p].at = "policy" /\ worker[p].calls < Calls
    /\ Ask(p, <<worker[p].episode, worker[p].calls>>)
    /\ worker' = [worker EXCEPT ![p].calls = @ + 1]
    /\ UNCHANGED <<main, job, unanswered, record, mainvars, faults>>

\* The policy goes on, with the answer or with a failure it swallows.
GoOn(p) ==
    /\ ask[p].at \in Unanswered \cup {"answered"}
    /\ ask' = [ask EXCEPT ![p] = NoCall]
    /\ unanswered' = [unanswered EXCEPT ![p] = @ \/ ask[p].at \in Unanswered]
    /\ UNCHANGED <<cache, terminal, quota, main, job, worker, record,
                   mainvars, faults>>

\* mutant: only what the controller says counts
RowAsSaid(p, infra, said) ==
    [written |-> TRUE, abort |-> said, infra |-> infra,
     clean |-> ~unanswered[p] /\ ask[p].at \notin Unanswered]

\* The worker's row: an abort reason from the exception, from the counters or
\* from the text the controller stopped with; otherwise a terminal failure is
\* an infrastructure error.
Row(p, infra, said) ==
    LET abort == CASE said # "" -> said [] quota[p] -> "quota" [] OTHER -> ""
    IN  [written |-> TRUE, abort |-> abort,
         infra |-> infra \/ (abort = "" /\ terminal[p]),
         clean |-> ~unanswered[p] /\ ask[p].at \notin Unanswered]

Close(p, row) ==
    /\ record' = [record EXCEPT ![worker[p].episode] = row]
    /\ job' = [job EXCEPT ![worker[p].episode] = "row"]
    /\ worker' = [worker EXCEPT ![p] = Idle] /\ ask' = [ask EXCEPT ![p] = NoCall]
    /\ UNCHANGED <<cache, terminal, quota, main, unanswered, mainvars>>

\* The simulator does not come up: never a policy failure.
ResetFails(p) ==
    /\ worker[p].at = "reset" /\ FaultStrikes /\ Close(p, Row(p, TRUE, ""))

\* The controller returns, perhaps naming the missing route, ...
Finish(p) ==
    /\ worker[p].at = "policy" /\ ask[p].at = "none" /\ UNCHANGED faults
    /\ \E said \in {""} \cup (IF terminal[p] /\ ~quota[p] THEN {"unavailable"} ELSE {}) :
           Close(p, Row(p, FALSE, said))

\* ... or lets an exception of its own or of a call out, ...
Raise(p) ==
    /\ worker[p].at = "policy" /\ ask[p].at \in Unanswered \cup {"none"}
    /\ \E said \in {""} \cup ({ask[p].at} \cap {"quota", "unavailable"}) :
           Close(p, Row(p, FALSE, said))
    /\ UNCHANGED faults

\* ... or runs into the wall-clock deadline anywhere, inside a call too.
Deadline(p) ==
    /\ worker[p].at = "policy" /\ FaultStrikes /\ Close(p, Row(p, FALSE, ""))

-----------------------------------------------------------------------------
\* ---- the main process ----

Offends(row) == row.abort # "" \/ row.infra

\* as_completed: the first invalid row cancels what is not yet on its way to
\* a process, and the rows that follow are not looked at.
See(e) ==
    /\ main = "pool" /\ job[e] = "row"
    /\ IF Offends(record[e])
       THEN /\ offence' = (IF record[e].abort # "" THEN "abort" ELSE "infra")
            /\ main' = "closing"
            /\ \E kept \in SUBSET {f \in Episodes : job[f] = "queued"} :
                /\ Cardinality(kept) <= Cardinality(Callers) + 1
                /\ job' = [f \in Episodes |->
                              CASE f = e -> "done"
                                [] job[f] = "queued" /\ f \notin kept -> "cancelled"
                                [] OTHER -> job[f]]
       ELSE job' = [job EXCEPT ![e] = "done"] /\ UNCHANGED <<offence, main>>
    /\ UNCHANGED <<accessvars, worker, unanswered, record, manifest, edited, markers, outcome,
                   faults>>

\* mutant: an ABORTED.json of an earlier launch still counts
VerdictOfMarkers ==
    CASE offence = "abort" \/ "ABORTED" \in markers -> "paused" [] offence = "infra" -> "failed"
      [] Completed = Episodes -> "complete" [] OTHER -> "incomplete"

Settled == \A e \in Episodes : job[e] \notin {"queued", "running"}

\* The pool has closed: pause, fail or complete, from what is on disk.
Verdict ==
    CASE offence = "abort" -> "paused" [] offence = "infra" -> "failed"
      [] Completed = Episodes -> "complete" [] OTHER -> "incomplete"
Marker == [paused |-> {"ABORTED"}, failed |-> {"FAILED"}, complete |-> {"COMPLETE"}, incomplete |-> {}]

Conclude ==
    /\ Settled
    /\ \/ main = "closing"
       \/ main = "pool" /\ \A e \in Episodes : job[e] = "done"
    /\ outcome' = Verdict /\ markers' = markers \cup Marker[Verdict]
    /\ main' = "down" /\ worker' = Free
    /\ UNCHANGED <<accessvars, job, unanswered, record, manifest, edited, offence, faults>>

\* The evaluator and its pool are killed, or a process dies and the pool with
\* it; a record being written is torn.
Kill ==
    /\ main \in {"pool", "closing"} /\ FaultStrikes
    /\ main' = "down" /\ worker' = Free /\ job' = NoJob /\ outcome' = "raised"
    /\ ask' = [p \in Callers |-> NoCall]
    /\ UNCHANGED <<cache, terminal, quota, unanswered, record, manifest, edited, offence, markers>>

-----------------------------------------------------------------------------

Elsewhere == UNCHANGED evalvars
CallStep(p) == Acquire(p) \/ Reply(p)
EpisodeStep(p) == Begin(p) \/ Query(p) \/ GoOn(p) \/ Finish(p) \/ Raise(p)

Next ==
    \/ Launch \/ Rejected \/ Archive \/ Conclude \/ Edit
    \/ KilledWriting \/ KilledArchiving \/ Kill
    \/ \E e \in Episodes : See(e) \/ \E p \in Callers : Take(p, e)
    \/ \E p \in Callers : EpisodeStep(p) \/ ResetFails(p) \/ Deadline(p)
    \/ \E p \in Callers : Elsewhere /\ (CallStep(p) \/ Transient(p) \/ Refuse(p))

Spec == Init /\ [][Next]_vars

\* Whoever wants the evaluation calls it again until it returns.
FairSpec ==
    /\ Spec /\ WF_vars(Launch) /\ WF_vars(Archive) /\ WF_vars(Conclude)
    /\ \A e \in Episodes : WF_vars(See(e)) /\ WF_vars(\E p \in Callers : Take(p, e))
    /\ \A p \in Callers : WF_vars(EpisodeStep(p)) /\ WF_vars(Reply(p) /\ Elsewhere)
    /\ \A p \in Callers : SF_vars(Acquire(p) /\ Elsewhere)

-----------------------------------------------------------------------------

TypeOK ==
    /\ main \in {"down", "archive", "pool", "closing"}
    /\ manifest \in {"absent", "whole", "torn"} /\ edited \in BOOLEAN
    /\ job \in [Episodes -> {"done", "queued", "running", "row", "cancelled"}]
    /\ record \in [Episodes -> [written : BOOLEAN, abort : {"", "quota", "unavailable"},
                                infra : BOOLEAN, clean : BOOLEAN]]
    /\ outcome \in {"none", "raised", "paused", "failed", "complete", "incomplete"}
    /\ offence \in {"", "abort", "infra"} /\ markers \subseteq {"COMPLETE", "ABORTED", "FAILED"}

(* An episode one of whose model calls ended without an answer is never    *)
(* scored, even when its controller swallowed the failure and finished     *)
(* (_outcome_abort_reason, _terminal_model_failure).  A call that the      *)
(* episode's deadline cuts off has not ended: that episode counts as one   *)
(* whose time was up.                                                      *)
ScoredClean == \A e \in Completed : record[e].clean

(* However often it is paused or killed, an evaluation that is called      *)
(* again and again completes, unless a kill tore its manifest, or what it  *)
(* evaluates stays different from the manifest: no launch gets past that.  *)
EvaluationEnds == <>(outcome = "complete") \/ <>[](manifest = "torn" \/ edited)
=============================================================================
