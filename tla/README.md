# RACaP: formal models of the agents, their skills and the experiments

RACaP runs language-model agents that solve manipulation tasks in simulators,
evolves the agents' program, and compares the result with other methods. An agent
decides one tool call per turn, a safety controller rewrites it, a skill grounds
what it names and moves an arm. The experiments last for days on rented model
providers, so a quota outage, a killed process or a restart between two writes is
normal operation. Most of what can go wrong is in none of these steps alone. This
directory models them in TLA+, checks the models with TLC and proves their
central results with TLAPS.

Paths below are relative to the repository, which the project files call `src/`.

## 1. Inventory

| Component | State it keeps | Operations | What is hard |
|---|---|---|---|
| Evolution orchestrator (`evolution/harness/orchestrator.py`, `cli.py`) | `state.json`, worktrees, rollouts; locals of `run` | `run`, `_baseline`, `_discover_pending_candidate`, `_materialize_candidate`, `_finish_candidate` | a crash between any two writes, evidence of an old champion |
| Checkpoint, workspace, runner (`events.py`, `schema.py`, `workspace.py`, `runner.py`, `evidence.py`) | files, Git refs, `rollouts/<tag>` | `save_state`, `create_candidate`, `commit_candidate`, `promote`, `evaluate` | order of writes |
| Curriculum scheduler (`scheduler.py`, `curriculum.py`) | one record per stage | `observe_baseline`, `observe_attempt`, `choose` | starvation, stale evidence |
| Selection, memory, coder, critic, guards | lessons and proposals on disk | `compare`, `record_candidate`, `propose`, `repair`, `critique` | outages in any call |
| Episode evaluator (`scripts/eval_full_agent.py`) | worker lanes, `records.jsonl`, `ABORTED.json`, `summary.json`, worker processes | `main`, `run_batch`, `_queue_worker`, `_worker` | concurrent workers, kills, resume |
| Full agent (`racap/agent/full_react.py`) | plan, attempted goals, results, turn budget | `plan_instruction`, `run_full_episode`, `_run_state_goal`, `_run_stack_goal` | continuations, retries, steps without evidence |
| Transport agent (`racap/agent/react.py`) | last check, aliases, budgets, queued call | `run_episode` | a chain of rules that override the model, each reading what earlier reports left |
| Session and tools (`racap/agent/tools.py`) | steps, locks on source and destination, joint memory | `run`, `_do_*`, `_go_home_after_motion` | locks that go stale, reports that are lost |
| Skills (`racap/policy_api/*`) | report of the call; the scene, the hand | `pickplace`, `insert`, `stack`, `push`, `articulate`, `actuate_control` | every primitive may raise, every grounding may be another body |
| Runtime (`racap/backends/libero.py`) | simulator, camera, gripper | `localize`, `track_target`, `verify_grasp`, `move_to`, ... | perception that errs |
| Model access (`racap/backends/llm.py`, `vlm.py`) | reply cache, abort sentinel, network slots, counters | `ask` | slots shared by processes, failures a caller swallows |
| Robosuite evaluator (`scripts/eval_robosuite_agent.py`, `evolution/harness/robosuite.py`) | episode records, markers | `main`, `_episode_worker`, `evaluate` | pause, relaunch, invalid attempts |
| RATS development (`run_rats_development.py`, `supervise_after_development.py`, the child's loop in `third_party/rats/rats/loop/lifelong_loop.py`) | skills, failure memory, iterations, snapshots, frozen artifact, seal | restore, rounds, snapshot, freeze, bind, seal | a round or a copy that is cut off |
| Comparison runners (`run_libero.py`, `run_all.py`) | episode directories, manifests, markers, phase history | archive, services, grid of children, evidence gate, phases | orphans, changed sources, lost history |
| Robosuite evolution and campaign, one-shot and long-horizon runners | result directories | sequential launches | variants of the above |
| Task registry, environments, analysis, frozen policies | | tables, statistics, data | no protocol state |

How they interact. The orchestrator runs `eval_full_agent.py` as a child and reads
its exit status and summary. The evaluator starts a process per worker; they share
a queue, a lane file each and the sentinel `ABORTED.json`, which every model call
reads. A worker runs an episode of the full agent, which plans goals and executes
them on one shared session: transport goals by the transport agent, state and
stack goals itself. Agents call tools, a tool calls a skill, a skill calls the
runtime, and the session's clean-up runs behind each call. `run_all` calls
`run_libero` for each method; that starts shared services and one child per
episode. Model access is below all of them.

What makes each part correct:

* **Orchestrator.** A candidate is compared only with evidence of the present
  champion on its stage; the champion changes only to a strictly better commit; a
  restart finds the pending candidate intact; what is evaluated is a tree that was
  accepted.
* **Scheduler.** Prerequisites come first, no stage starves, evidence that a
  promotion made stale is asked for again.
* **Evaluator.** A summary holds each episode once with a scorable record, nothing
  recorded is lost or run again, what was published does not change, and a resumed
  campaign is published.
* **Agents.** Success rests on a state decision that is newer than every motion, a
  placed object is left alone, names stay bound to the object meant, a failure or
  an outage is never turned into a success, and the episode ends.
* **Skills.** A report tells the truth of the scene and the hand; retries and
  later calls stay with the same object and the same handle.
* **Robosuite evaluator and model access.** An episode with an unanswered model
  call is not scored, and the evaluation completes unless its manifest blocks it.
* **Comparison.** What is sealed is one committed state; a complete episode is one
  attempt of its runner under registered sources; reports are about complete methods.

## 2. The modules

| Module | What it is |
|---|---|
| `PairedEvolution` | abstract specification: the champion is replaced only by a strictly better commit of the same stage |
| `Orchestrator`, `MCOrchestrator`, `OrchestratorProofs` | the evolution loop, one action per durable write; refines `PairedEvolution` |
| `Scheduler`, `MCScheduler`, `SchedulerProofs` | `CurriculumScheduler` over sessions that end anywhere |
| `Evaluator`, `MCEvaluator`, `EvaluatorProofs` | the evaluation supervisor, its workers and the directory they share |
| `Session` | locks and the check of `tools.py`, as functions from evidence to report |
| `TransportReact`, `MCTransport`, `TransportProofs` | the transport agent on a session |
| `FullReact`, `MCFullReact`, `FullReactProofs` | the full-task agent |
| `Robot` | the scene, the hand, the runtime's primitives and the frame of a skill call |
| `GraspSkills` | `pickplace`, `insert`, `stack` on a scene with a look-alike |
| `Articulate`, `ContactSkills` | `articulate`; `push` and `actuate_control` |
| `Manipulation`, `MCManipulation`, `ManipulationProofs` | a session of calls of all six skills on one scene |
| `ModelAccess` | `llm.ask` of several processes |
| `Robosuite`, `MCRobosuite`, `RobosuiteProofs` | the Robosuite evaluator, whose episodes call `ModelAccess` |
| `Faults` | the bound on faults that composed modules share |
| `Development` | development, freeze and seal of the RATS artifact |
| `MethodRun` | the launches of a generated method, their children and orphans |
| `Campaign`, `MCCampaign`, `CampaignProofs` | `run_all` over `Development` and `MethodRun`; the proofs are about all three |

Modules that share state are composed by `EXTENDS`: `Manipulation` of the skill
modules, `Robosuite` of `ModelAccess`, `Campaign` of `Development` and `MethodRun`,
`TransportReact` of `Session`. The others meet at narrow interfaces. The
orchestrator takes any exit status of the evaluator and any eligible stage of the
scheduler. A transport goal of `FullReact` is one step that ends after 1 to 21 turns
with a success, a failure or an outage, which is what `run_episode` returns. A report
that `TransportReact` reads is any of those the skills make (`PickPlaceReports`,
`InsertReports`, `PushReports`, `LookReports`); `Manipulation` says what a skill does
to the scene before it makes one.

### Orchestrator and the code

Durable variables stand for files. `saved` is `state.json`; `championRef` is
`refs/heads/champion`; `worktrees` gives the commit at the head of `worktrees/<name>`;
`commits` is what Git remembers of each commit (its ancestors and whether its diff is
substantive); `proposals` holds the iterations with a `proposals/<label>/proposal.json`,
and `guards` the candidates whose acceptance a `guards.json` records; `started` and
`rollouts` are the rollout directories that exist and the complete evidence in them;
`ledger` counts the memory records of each candidate. The other variables are `run`'s
locals, and `pc` its position. `st` is the in-memory `ExperimentState`; an action that
calls `store.save_state` assigns `saved' = st'`.

| Code | Actions |
|---|---|
| `cli.main`, head of `run` | `Launch` |
| `_baseline`, `_reuse_baseline` | `ReuseBaseline`, `EvaluateBaseline`, `BaselineFails` |
| `_discover_pending_candidate`, `run` | `PendingKnown`, `NothingPending`, `RecoverPending`, `PendingStageMismatch`, `MarkInvalid`, `InvalidatePending`, `ResumePending` |
| main loop of `run` | `LoopEnds`, `LoopContinues`, `SkipOccupiedLabel`, `Propose`, `ProposalBlocked`, `ProposalFails` |
| `_materialize_candidate` | `ApplyFails`, `ApplyAndGuard`, `SmokePasses`, `SmokeFails`, `SmokeOutage`, `GiveUp`, `Repair`, `RepairBlocked`, `RepairFails`, `RecordFailure` |
| `run`, `EvaluationRunner.evaluate` | `WriteGuards`, `CheckpointPending`, `RefuseReusedTag`, `ProbeFails`, `StartRollout`, `RolloutCompletes`, `RolloutFails` |
| `_finish_candidate` | `ScoreCandidate`, `Promote`, `SaveSelection` |
| the host | `Crash` |

A crash, and every exception that leaves `run`, is the operator `Gone`: the
locals disappear and the durable variables keep what the last finished write left.
`Launch` may follow at any time, with or without a pinned stage.

Abstractions. A commit is named by its worktree, `<<iteration, repair>>`. An
evaluation yields a number of native successes and one number for the cost tuple.
What the coder writes, what the guards find and what a critic says is one
nondeterministic outcome each. `CurriculumScheduler.choose` may pick any eligible
stage: the orchestrator's properties hold whatever the scheduler's scores are.
`InitLegacy` is a checkpoint of a release that had no substantive-change test,
which is the only way `run`'s branch for empty pending candidates is reached.

### Evaluator and the code

| Variable | File or object |
|---|---|
| `lanes` | `records.worker*.jsonl`: the rows in it, and whether its last line is torn |
| `consolidated` | `records.jsonl` |
| `sentinel` | the reason in `ABORTED.json` |
| `summary`, `status` | `summary.json`, the exit status of the last session |
| `sup`, `retry`, `loaded`, `unlinked` | where `main` is, its retry counter, the records it consolidates, the lanes it has removed |
| `proc`, `queue` | worker processes and payload queues, of the present session and of a supervisor that was killed alone |
| `resets` | how often the simulator was reset for an episode; it tells the rows of two executions apart |
| `structural`, `cut` | observed only: an init-state violation occurred in this session; `records.jsonl` of a published campaign was left half written |

| Code | Actions |
|---|---|
| `_queue_worker` | `LeaveQueue`, `TakePayload` |
| `_worker` | `DropPayload`, `StartEpisode`, `FinishEpisode`, `SwallowFailure`, `ReportOutage`, `ReportInvalidResponse`, `AbortOnOutage`, `AbortOnInitState`, `AppendRow` |
| `main`, `run_batch` | `Launch`, `RunPending`, `Join`, `Abort`, `RetryMissing`, `GiveUp` |
| consolidation in `main` | `LoadRecords`, `RefuseConflict`, `TruncateRecords`, `WriteRecords`, `UnlinkLane`, `Publish` |
| the system | `WorkerDies`, `HostDies`, `SupervisorDies` |

The sentinel is read twice, by `_queue_worker` and again by `_worker`, and again
by every model call (`racap.backends.llm.ask`); between these reads another
worker may write it. A call that fails, from the provider or by the sentinel, ends
an episode in one of four ways: an agent loop swallows it, a tool reports it, a
controller lets it through, or a reply without visual evidence is reported. They
differ in the row that is recorded (`Kinds`) and in whether the sentinel is written.

Abstractions. What an episode does is how it ends. The queue is a set, without
the pipe and the feeder thread of `multiprocessing.Queue`, and a worker is not
killed while it holds the queue's lock. `ABORTED.json` and `summary.json` are
written in one step; `records.jsonl` is not. `checkpoint.json` is written and never
read. The manifest and argument checks that precede `Launch` are left out: a torn
`run_manifest.json` would refuse every later session. There is
one batch of orphans at a time. In the evolution loop `evidence.py` refuses a
rollout with swallowed failures; a campaign that is resumed has no such gate.

### Scheduler and the code

`progress` is `stage_states`: of each stage its status, visits, stored baseline,
no-gain streak, whether the last delta was positive and the last attempt brought
a new failure cluster, and its revisit requests. `champion`, `iteration` and
`next` are the other parts of the checkpoint that matter, `at`, `pinned` and
`stage` the session. `EvaluateBaseline` is `_baseline` with `observe_baseline`;
`ReuseBaseline` is `_reuse_baseline`; `FinishCandidate` is `_finish_candidate`
with `observe_attempt`, the adoption of the new baseline, the revalidation
requests and `choose`; `RejectCandidate` is the path of a failed proposal or
implementation. Each of them ends in the `save_state` of the code, so a crash
anywhere is `SessionEnds`: it loses the session and nothing of the checkpoint.

Abstractions. `latest_native` is the native count of the stored baseline in every
state, so only that is kept: a positive delta is added to it exactly when
`compare` promotes the candidate, whose metrics then become the baseline. The
score keeps the factor that can make it zero, the gap: `Choices` allows every
stage with a gap before any without. This assumes a positive
`--stage-exploration` (0.45 unless changed). Whether an attempt shows a new cluster
and which other stages its critics name is nondeterministic.

### Agents and the code

`TransportReact` keeps `run_episode`'s local variables in one record, `ep`; `session`
is what the tool session remembers. A turn is `Decide`, in which a proposed call
passes the rules of `run_episode` in their order (`Rules`: `InScope`, `OpeningFirst`,
`MeasureFirst`, `EndorsedDone`, `InsertBudgetSpent`, `BoundedOpening`,
`CanonicalCheck`, `InsertRule`, `PushRule`, `PickPlaceRule`), and then one action
for the tool that runs and for everything the loop does with its report.

| Code | Definitions |
|---|---|
| rules of `run_episode` (`react.py` 963-1183) | `Rules` and its parts |
| follow-up of a report (1227-1855) | `LookLoop`, `AfterInsert`, `AfterPickPlace`, `AfterPush`, `AfterCheck`, `AfterLook` |
| reflection (1856-2069) | `Reflected`, `AfterMotion` |
| `Session._do_check` | `CheckReport` and the tests it is made of: `Prior`, `WeakIdentity`, `GeometryReliable`, `Landed`, `Placed`, `PreserveState` |
| locks | `RememberPick`, `PopOnRelease`, `KeepOrInvalidate` |
| `run_full_episode` | `FirstPlan`, `PlanFails`, `StartGoal`, `SkipGoal`, `NoTurnsLeft`, `EndGoal`, `EndOfPlan`, `Replan`, `ReplanFails`, `Conclude` |
| `_run_state_goal`, `_run_stack_goal` | `Precheck`, `Motion`, `Verify`, `StateDecision`; `Stack`, `StackCheck` |

Abstractions. A label is the goal's `own` one, a verified appearance with its selector
(`alias`) or without it (`bare`), or any other phrase (`free`); a goal says which form
its selector has ("bowl at the front", "front bowl", "bowl nearest to the plate", "bowl
to the left of the plate"), since `_qualified_visual_alias` keeps only the first two.
Geometry in centimetres is the tests the code makes on it; what the model proposes, what
a reflection advises and what a tool reports is any member of a small set, and the sets
contain every combination that the code can produce. Experience cards and prompts are
left out. `verdict`, `outage` and `runs` are history variables that no action reads;
`verdict` is kept by `VerdictAfter` and `VerdictOf` from the motions and the reports
alone, never from `last_check_ok`.

### Skills and the code

A call is `Begin`, the steps of the skill, and `EndCall`, the session's frame. The
steps end where the code branches on what it perceives or where a primitive may
raise; `Raised` and `Recover` are the handlers there. `pc` is the position in the
skill, `pick` and `anchor` the grounding in use and the first one, `rung` the place
in the grasp ladder, `report` the part of the report that the agents and the
session read.

| Code | Definitions |
|---|---|
| `libero.py` | `Located`, `FedBack`, `Tracked`, `Identities`, `Readings`, `Open`, `Recover`, `Closed` |
| `tools.py` `run`, `_go_home_after_motion`, `_remember_pick` | `Begin`, `Raised`, `EndCall`, `GoHomeAfterMotion`, `RememberPick` |
| grounding and identity in `pickplace_api.py` | `Candidates`, `Order`, `Confirmed`, `GroundedPick`, `FindObject`, `FindGoal`; `NoFit` of `insert`, `NoSupport` of `stack` |
| the ladder of grasps | `Contact`, `Missed`, `Refresh`, `StillTheSame`, `Judged`, `FalseHold`, `NothingHeld` |
| transport and release | `Carry`, `Release`; `Present`, `Enter` for `insert` |
| `articulate_api.py` | `GroundPart`, `Plan`, `FaceContact`, `HandleContact`, `Pull`, `Path`, `Measure` |
| `push_api.py`, `actuate_control_api.py` | `PlanPush`, `Push`; `JudgeControl`, `Press`, `Grip`, `Turn`, `MeasureControl` |

Abstractions. Places are 4 cm apart on a line, with two look-alike bodies on it. The
ladder of `pickplace` and `stack` is cut at `Rungs` as in the code; that of `insert` is
not cut there, so `InsertRungs` is a bound of the model. The fixture has two parts, whose
`Layout` is stacked (they differ in height), or side by side, close or far. A grounding
may fall on either look-alike and on either part. Where the code computes a number and
compares it with a gate, the model compares places or parts with the gate (`StepReach`,
`AnchorReach`, `SameHeight`, `WithinCommand`) or leaves the outcome open: two handles of one
height pass the height gate, whichever part they are on. `Transient` says whether the
label names its object by its place, `Thin` whether the fingers can feel it. The skills'
geometry itself, from point clouds to trajectories, is not modelled. The runs take a
stacked fixture; the theorems hold for every layout, except `OneHandleAlways`, which
assumes the stacked one.

### Robosuite evaluator and the code

`ask`, `terminal` and `quota` are `llm.ask`'s call and the counters of the process
(`_CALL_STATS`); `worker` is a pool process and its episode, `record` the raw
records, `job` the futures of this launch, `manifest` the state of `run_manifest.json`.
`Launch` compares it or writes it, `Rejected` is the launch that cannot parse it or
finds it different, `KilledWriting` a kill in the middle of the write, `Edit` a change of
what is evaluated. `Archive` is `_archive_invalid_episode_attempts`, and
`KilledArchiving` a kill between two of its renames. `Take`, `Begin`, `Query`, `GoOn`,
`Finish`, `Raise`, `Deadline` and `ResetFails` are `_episode_worker`; `See` and
`Conclude` are `main` with the runner that calls it again. Controllers may swallow any
failure (`GoOn`). A launch is killed with its pool.

### Comparison campaign and the code

| Code | Definitions |
|---|---|
| `run_rats_development.py` | `Launch`, `KilledRestoring`, `AfterChild`, `FreezeSkills`, `FreezeMemory`, `KilledFreezing`, `WriteManifest`, `Kill` |
| `LifelongLoop` in `third_party/rats` | `BeginRound`, `SkipCompleted`, `Learn`, `Reattempt`, `CommitRound`, `SnapshotSkills`, `SnapshotMemory`, `CopyBroken`, `RoundFails`, `ChildDies` |
| `supervise_after_development.py` | `Supervise`, `Finalize`, `Seal`, `KilledSealing` |
| `run_libero.py`, the runner | `StartRunner`, `KilledWriting`, `Archive`, `KilledArchiving`, `StartServices`, `See`, `Report`, `Interrupted`, `Killed` |
| `run_libero.py`, an episode and its child | `Take`, `ChildRuns`, `OrphanRuns`, `Finishes`, `Gate`, `TimesOut`, `Quota`, `QuotaTimesOut`, `ChildFails`, `Stopped` |
| `run_all.py` | `Begin`, `Skip`, `Attest`, `Measure`, `Refused`, `KilledStarting`, `Analyse`, `KilledAll` |
| `audit_method_results.py` | `Audit`, `Sound`, `Flaw`, `AuditLost` |
| whoever operates it | `FreePorts`, `Edit`, `Register`, `Mutate` |

A lesson is named by the execution of a round that taught it, an attempt by the
launch of the child that made it, so mixtures are visible: `tries` collects the
attempts whose files are in an episode's directory. A snapshot is written as the code
writes it: the skill file, then the tree of the memory unless there is one already; each
may be broken off, and `cut` records that it was. A killed runner leaves its services
and its children, which run in sessions of their own: each goes on (`OrphanRuns`) into
whatever directory is there by then, or fails, also after the ports are freed and while
the next runner measures. `outlived` records their starts. `run_manifest.json` may be
torn by a kill (`torn`), the audit may find complete episodes it does not pass (`flawed`),
and a frozen artifact that changes while a runner measures makes its verdict `FAILURES`.

Assumed: the operator does not relaunch the development while the supervisor works or
when the artifact is sealed (a relaunch behind the manifest is possible, and marked
`reopened`), and frees the ports sooner or later if launch after launch finds them taken;
a kill of the development wrapper ends its child; an iteration file that a kill tore
counts as one with an error, which is how the wrapper reads it; the development's
`run_manifest.json`, its skill file and `seal_manifest.json` are each one write. Left out
are the analysis phases besides the report, RACaP's own method (it runs the episode
evaluator) and the content of evidence files.

## 3. What TLC checks

All bounds are constants that the guards name. `MaxFaults` bounds what may go
wrong: a crash, an outage, a failed evaluation, a malformed candidate, a kill.
`MaxMishaps` bounds the same for the development.

| Run | Distinct states | Checks | Shows |
|---|---|---|---|
| `orchestrator` | 2.4 million | `BaselinesMeasured`, `StaleBaselinesMarked`, `PairedComparison`, `ChampionEvolves` | selection is paired and monotone, with automatic and pinned relaunches |
| `orchestrator_live` | 490,000 | `AcceptedOnly`, `OnlyPendingRunsAhead`, `PendingIntact`, `RepairsCumulative`, `SessionEnds`, `UnstartedPendingResumes` | restarts find consistent state and evaluate only accepted trees, sessions end, an unstarted candidate is picked up |
| `scheduler` | 5.8 million | `StaleRequested`, `BoundedStay`, `ParentsFirst` | no stage keeps the search from another, stale evidence is asked for again, prerequisites come first |
| `evaluator` | 2.2 million | `SummaryComplete`, `RecordedKept`, `PublicationFinal` | nothing recorded is lost and nothing published changes, also when orphaned workers write beside a resumed session |
| `evaluator_live` | 90,000 | `OneReset`, `PauseLeavesWork`, `EventuallyPublished` | a resumed campaign is published and repeats no recorded episode |
| `transport` | 710,000 | `PlacementKept`, `SuccessEndorsed`, `QualifierKept`, `OpeningKept` | no sequence of replies, reports and retries makes the controller move a placed object, claim an unendorsed success, rename the object or drop an opening |
| `full_react` | 250,000 | `OutageNeverSuccess`, `NoGoalRepeated`, `FailClosed`, `EpisodeEnds` | goals, retries and continuations never turn a failure or an outage into a success, and end |
| `manipulation` | 4.9 million | `PreflightUntouched`, `NeverHijacked`, `ReleaseTruthful`, `OneHandle` | what skills report is what happened, and retries and later calls stay with their object and handle |
| `insert_refit` | | `FitProved` (violated) | finding 1 |
| `campaign` | 480,000 | `SealedIsWhole`, `OneAttended`, `MeasuredAsRegistered`, `ReportMeasured`, `CampaignEnds` | from development to report: one state is sealed, a complete episode has one attempt of its runner, sources are registered, reports are about complete methods, the campaign ends or is blocked |
| `campaign_quota` | | `QuotaNeverScored` (violated) | finding 2 |
| `robosuite` | 280,000 | `ScoredClean`, `EvaluationEnds` | swallowed failures are never scored, and the evaluation completes or its manifest blocks it |

Some properties name exceptions, because the program does not close these ways:

* `SealedIsWhole` leaves out what a broken-off snapshot holds, and an artifact whose
  wrapper was launched again after it had finished.
* `OneAttended` leaves out what a child that outlived its runner wrote.
* `PublicationFinal` ends where a supervisor died while it rewrote a published
  `records.jsonl`.
* `CampaignEnds` lets a campaign stay `Blocked`: the seal is broken, a
  `run_manifest.json` is torn, a complete episode does not pass the audit or was reset
  again by an orphan, or the sources of a method that was not yet measured and audited
  were edited and nobody registered the migration.
* `EvaluationEnds` lets an evaluation stop at a torn manifest or one that stays different.
* `ScoredClean` takes an episode whose running call the deadline cut off as one whose
  time was up, as the code does.

Bounds, and why they are enough.

* *Orchestrator*: with two labels the second iteration meets every artifact,
  baseline and promotion the first can leave; two stages are what a switch, a stale
  baseline and a revalidation need; two faults are a crash and another during its
  recovery. Repairs are in `orchestrator_live`: one repair gives a failed tree and
  one that builds on it. `OutOfLabels`, which ends a session that has no label left,
  is an artefact of the bound.
* *Scheduler*: five iterations exceed the longest stay without a fault that one gain,
  a patience of two and a minimum of one allow, which is four. Three stages are a
  current one, one that waits and one whose evidence may be stale.
* *Evaluator*: two workers interfere, one retry is a second batch, two faults are an
  outage or a kill followed by one in the session that repairs it. The supervisor may
  die alone in `evaluator`, and only with the host in `evaluator_live`: orphans may
  repeat an episode and make a consolidation refuse, so `OneReset` and
  `EventuallyPublished` are about the other failures.
* *Transport*: six turns hold two motions with a look or a check around each; the
  goals are an open support, an object whose selector its alias drops, a broad container,
  and a bounded opening for an object whose selector its alias keeps (the theorems cover
  all goals); each on a fresh session and on one in which an earlier goal released
  something.
* *Full agent*: one goal of each family, plans of three that may list a goal twice,
  two continuations, a budget of eight turns that goals can exhaust at any point.
* *Manipulation*: three calls are one that leaves something behind (a lock, a joint,
  a held body), one that uses it and one more. A step of a retry reaches one place, the
  gate from the anchor two, and the twin stands three places away. A ladder of
  `InsertRungs` = 4 is long enough for single steps to arrive there: without the test
  against the anchor (`StepOnly`) TLC finds the fingers at the twin.
* *Campaign*: two rounds and three resets give one round that can be repeated or cut
  off; two mishaps are a kill and another in the launch that repairs it; two jobs on two
  workers stop each other; one fault in the measurement is enough for an orphan, a torn
  manifest, a flaw or a lost history (the proofs cover any number for the safety
  properties; `CampaignEnds` is checked for one); one edit of the sources separates old
  episodes from new ones. The view of `MCCampaign` identifies states that differ in what
  nothing reads any more: the development behind the seal, the memory of a runner that is
  gone, starts of which no trace is left. That of `MCManipulation` drops, in the last call,
  what the skill at hand does not read.
* *Robosuite*: two episodes on two processes with one slot compete for it; three
  faults use up the attempts of a call and hit the relaunch.

Fairness. *Orchestrator*: weak fairness of what the process does by itself (`run` is
sequential and waits for nothing but calls that return or raise) and of `Launch`: an
operator or the campaign script starts the program again. *Evaluator*: of the
supervisor, of each worker's own steps (an episode has a deadline, and `_worker` a
handler for each exception) and of `Launch`. *Full agent*: of `Next`; it is one process
whose calls have timeouts. *Robosuite*: of the launcher, the pool and each process, and
strong fairness of `Acquire`, since a slot that is free again and again is polled by
every process that waits. *Campaign*: of the phases and of the runner's and the
children's steps, and strong fairness of `FreePorts`: an operator who finds the ports
taken launch after launch frees them. Nothing is assumed of orphans. Faults are never
fair. The scheduler has no liveness property: a stage is left after boundedly many
evaluated candidates (`BoundedStay`), but malformed ones are not counted.

Deadlock is checked where a process that is down can always be launched. A session
of calls, a finished campaign and a completed evaluation do stop, so `MCManipulation`,
`MCCampaign` and `MCRobosuite` turn the check off; liveness properties say that the
last two stop only when they have finished or are blocked as described above.

## 4. What is proved

All theorems hold for every value of the constants, from the named assumptions of
the modules (`StagesAssumption`, `BudgetAssumption`, `CurriculumAssumption`,
`MethodAssumption`, `AccessAssumption`, ...).

**`OrchestratorProofs`**: `TypeCorrect` (`[]TypeOK`), `BaselinesAreMeasured`,
`ComparisonsArePaired`, and `ImplementsPairedEvolution` (`Spec => ChampionEvolves`,
the refinement). `TypeOK` is not inductive: `ScoreCandidate` uses locals that are
evidence only at some positions. `LocalsOK` says what each local holds where,
`CommitsExist` that every name names a commit that was made. `PairedComparison` needs
to know where `champ` came from: `EvidenceInv` adds `BaselinesMeasured`,
`SidesMeasured` and `CheckpointLags`. The last relates the champion in memory to the
saved one: they differ only between `Promote` and `SaveSelection`, and then the new
one won against evidence of the saved one. The abstract champion is the one in
`state.json`, so the promotion takes effect two steps after the comparison and a
crash between maps to a stutter.

The second part of the module is about restarts: `PendingSurvives`,
`CheckpointLagsByOne`, `RepairsAccumulate`, `OnlyAcceptedRun`, `StaleStagesStayMarked`.
The first four share `RecoveryInv`, which is about the durable state first, because that
is all a crash leaves. `Labelled` says that nothing carries a label beyond the next one,
so an iteration that is consumed makes every claim about open trees vacuous; `Rooted`,
that open trees descend from the checkpointed champion; `Resumable`, that of the trees
of a label with a `guards.json` only the accepted one is left, which a resume may take;
`Ahead`, that ledger and champion ref know only candidates that were started and change
something, which is why neither the refusal of a used tag nor the invalidation of an
empty tree can lose one. `InStep`, `Attempt` and `Evaluation` tie the process to it.
`Attempt` carries the argument for repairs: the base of the next attempt contains every
committed one before it, whether the failed tree was committed or not, and that no older
tree of the label and no older acceptance is left, which is what `OnlyAcceptedRun` needs
of a recovery by label. The stale baselines need `MarksInv`: the scheduler overwrites
the status of the stage it leaves, which is sound because that stage's baseline is
current.

**`SchedulerProofs`**: `StaleEvidenceRequested`, `ParentsComeFirst`, `StaysAreBounded`,
`SchedulerTypeCorrect` (`[]TypeOK`). `StaleRequested` fails after a choice if the stage
that is left could have stale evidence itself: `SessionInv` says that an attempt has the
present champion's evidence of its stage. `ParentsFirst` needs `NextInv`: the stage in
the checkpoint is the first one or eligible, which a pinned session keeps because it
writes its stage only together with a baseline. `StaysAreBounded` counts visits against
what can still come: `StayInv` says that while an eligible stage is unobserved the
scheduled one has at most `MinVisits` visits, one patience for each native success of
its stored baseline and each one that a lost baseline took back, and its present streak.
A gain raises the baseline and resets the streak, a miss raises the streak, and a streak
of `Patience` makes `choose` leave.

**`FullReactProofs`**: `OutagesNeverSucceed`, `GoalsStartOnce`, `FailsClosed`,
`EpisodesRunDown`, `FullReactTypeCorrect` (`[]TypeOK`). The code has no list of goals
beside the list of results, so the argument counts: `Accounted` says that every
attempted goal has its result, except the one that is executing, and its induction is a
lemma on cardinalities for a goal that is attempted for the first time. `StartedOnce`
ties the number of starts to the attempted set, which is why continuations cannot repeat
a goal. `Honest` says that an outage has already left a negative result, before anything
can conclude, and that a dependent task with a negative result is over.
`EpisodesRunDown` is the part of termination that is a safety property: `Remaining`
weighs the turns, the continuations and the rest of the plan so that every step takes
from it, whichever branch it goes through, and it starts at no more than `4 *
EpisodeTurns + (MaxReplans + 1) * (3 * MaxPlan + 5)`. That an unfinished episode always
has a next step, and takes it, stays with TLC's deadlock check and `EpisodeEnds`.

**`RobosuiteProofs`**: `ScoredCleanAlways`, `RobosuiteTypeCorrect` (`[]TypeOK`). The
obligation is that a counter of the process still shows the failure when the row is
written, although a controller swallowed the exception and other episodes ran in the
same process before. `Marked` says that only a running policy has a call and that an
unanswered one has left its mark, which stays until the next episode is set up; `Busy`,
that no two processes run one episode, so that a row is written by the process that made
its calls.

**`EvaluatorProofs`**: `SummariesComplete`, `PublicationsAreFinal`, `RecordsKept`,
`EvaluatorTypeCorrect` (`[]TypeOK`), and, from the assumption `SupervisorDiesAlone =
FALSE`, `EpisodesResetOnce` and `PausesLeaveWork`. The first four hold with orphans too.
`Consolidating` says that what a consolidation has loaded has one scorable row for each
episode, and is what `records.jsonl` holds once lanes are unlinked; orphans write to
lanes only. `Final` is what makes a publication final: between two writes of any later
session the file and the rows in hand equal the published summary, so another outcome
that an orphan recorded meets its rival in the file and the session refuses. It fails
only where a supervisor dies between truncating and writing (`cut`). The last two fail
with orphans, which is why they have the assumption. `Alone` says that only a supervisor
that joins has processes; `Apart`, that an episode is recorded, queued or with one
process; `Stranded`, that beside a sentinel there is an episode that no process of this
session can record any more, because its holder gave it up or keeps it as a diagnostic
row.

**`CampaignProofs`**: `OneAttendedAlways`, `SourcesRegistered`, `ReportsAreMeasured`.
The hard case is the orphan: a runner dies, its child goes on, the next runner
archives, and the child recreates the directory and writes beside the next attempt.
`Known` says that every such child's start is remembered and that no later start can be
taken for one; `Fresh`, that of the others an incomplete directory is empty when a runner
has archived it, and holds the present start while its child runs; `Alone`, that only
a runner has running episodes. `Single` then follows for every complete episode.
`Bound` and `MeasuredAsRegistered` follow the manifest through migrations. That no step
makes a complete episode incomplete is `Kept`, from which `ReportMeasured` follows
through the audits (`Passed`). The steps of the development and of `run_all` leave these
variables alone.

The module's second part, `SealsAreWhole`, is about the development (`DevInv`). While a
round is being run what the child sees belongs to no commit, so wholeness is not
inductive. `Copied` says what is in a snapshot at every write of its copy, unless one
was broken off: nothing, the skill file of the round being committed, or all of it.
`Works` is what counts as whole: the committed states, and what broken-off snapshots
hold. `Developed` says that once every round counts no round can begin, and that what
the child then sees is whole or, after a kill in the middle of a restoration, will be
restored; `Sealing`, that behind a manifest nothing runs until the wrapper is launched
again, and that what is frozen is whole unless the finalisation of a spent budget will
replace it. The newest counting round is a maximum, which exists by the well-foundedness
of the naturals.

**`TransportProofs`**: `PlacementsAreKept`, `SuccessesAreEndorsed`, `QualifiersAreKept`,
`OpeningsAreKept`, `BudgetsAreKept`, `ChecksGiveOneOrder`, `TransportTypeCorrect`
(`[]TypeOK`). The first four speak of a motion in progress, but what forbids it was
decided in earlier turns, in any of a dozen local variables. `Bound` says what a verdict
leaves for the next turn: after "placed" the controller has queued `done` and owes no
check; after an unmeasured release it has queued a look or a check and no recovery is
decided. `Admissible` says what the chain of rules makes of any proposal.
`RoutedCalls`, `RuledCalls` and `DueCalls` follow a call through the rules in their
order (a rule that runs later may undo an earlier one), and one outcome lemma for each
handler shows that its bookkeeping establishes `Bound` again. `BudgetsAreKept` needs the
same route: handlers queue motions without looking at every budget, and only the rules,
which a queued call passes too, keep it (`RulesAfford`). `ChecksGiveOneOrder` is about the
report of `_do_check`, a function of the evidence and the view: the flags on which
`run_episode` branches do not contradict each other. Its proof also shows that two of the
three grounds for `preserve_state` are never needed (section 5).

**`ManipulationProofs`**: `TypesAlways` (`[]TypeOK`), `PreflightsMoveNothing`,
`RetriesStayNear`, `ReleasesAreTrue`, `OneHandleAlways`. One invariant serves all six
skills. `Control` says which skill can be at which step; `Honest`, what a report may say
there, so that the dozens of early returns need one argument; `Near`, that the grounding in
use stays within `AnchorReach` of the first one and that every body outside stands beyond
it still, which is why a refresh after a failed grasp cannot reach the look-alike however
long the ladder is; `FixtureOK`, that a handle resolved from the memory of heights stands at
the remembered one, which on a stacked fixture means that it is the same. `Settled` is
what the end of a call guarantees about its release, and is proved of every step that ends
a call from the invariant before it.

Every invariant and every safety property of a step that a run finds to hold is proved,
and so is the refinement. So is the type invariant of each component module that has
one. Only model-checked: `SessionEnds`, `UnstartedPendingResumes`,
`EventuallyPublished`, `EpisodeEnds`, `EvaluationEnds` and `CampaignEnds`, which are
liveness under fairness and outside the proof system's reach. `FitProved` and
`QuotaNeverScored` do not hold.

## 5. Findings

1. **insert releases without a proved fit** (`insert_refit`). The docstring says that
   an object is inserted "only after proving a collision-free planar fit". A failed
   grasp may turn the object; the refresh measures it again, and the rotation planned
   for its old lie is kept. Only an optional measurement of the held object can correct it.
2. **An episode that met a quota error is scored** (`campaign_quota`). The comparison's
   README says a quota error "is not counted as a policy failure". When the hard-wall
   watchdog fires on the same RATS episode, the timeout path completes it.

Seen in the source while modelling, and not checked as runs of their own:

* *Evolution.* A rollout that was interrupted after its directory exists leaves the
  pending candidate unresolvable: every resume uses the same tag and
  `EvaluationRunner.evaluate` refuses it (`runner.py:74`). A pinned session overwrites the
  stage in the checkpoint, so a pending candidate of another stage may stay blocked;
  `UnstartedPendingResumes` is checked without pins. An outage in a smoke rollout
  is an `EvaluationError` and enters the repair loop (`orchestrator.py:267`). Pinned
  sessions may leave a stage with stale evidence and no revisit request, so
  `StaleRequested` is stated for experiments without them.
* *Evaluator.* A failure that an agent swallows while planning or deciding is recorded as
  an outcome (`full_react.py:884`, `react.py:940`). A worker that is stopped by an
  `infrastructure_invariant` sentinel overwrites the reason with a quota error
  (`eval_full_agent.py:409`). A retry appends its first record to a torn line
  (`eval_full_agent.py:493`). Consolidation of a complete campaign truncates the only
  copy of its records first; `RecordedKept` and `PublicationFinal` exclude exactly that
  step.
* *Transport.* `_qualified_visual_alias` (`react.py:382`) keeps a selector that is a suffix
  or a leading word and drops "nearest to" and "to the left of": after a failed grounding
  such an object is moved under a phrase that its look-alikes share. `QualifierKept` allows
  that one alias. An unreliable check is the only case in which `preserve_state` is set:
  its second and third ground require an unclear identity, which already makes the check
  unreliable (`tools.py:1540`, `tools.py:1570`).
* *Skills.* On a fixture with parts side by side, the handle of a close neighbour passes
  `prismatic_measurement_within_command` and the height gate (`articulate_api.py:530`), so
  an opening of the one may be reported from the other. When perception fails after a pull,
  the report and the remembered handle are lost (`articulate_api.py:1680`); `OneHandle` is
  about the calls that kept their report. `articulate` keeps `preflight_only` until after
  the approach, so an approach that raises is reported as preflight;
  `PreflightUntouched` leaves that mode out. A success report of an opening is still
  used after a later closing. `verify_grasp` that raises in the clean-up counts as an
  empty hand.
* *Development.* A snapshot is two writes (`lifelong_loop.py:9300-9316`), where the
  comparison's README says that each round is snapshotted transactionally (item 16): a child
  killed between them leaves a skill file with a part of the memory or none, a later launch restores it
  over the complete state, and it may be frozen and sealed. The wrapper launched again
  after it had finished overwrites the frozen skill file and then refuses a memory that
  differs (`run_rats_development.py:515-525`), which leaves a mixture behind a manifest.
  A round that errored and is run again can be dropped when a newer
  snapshot is restored. A freeze that is killed while it copies makes every relaunch fail.
* *Comparison.* Children are started in sessions of their own (`run_libero.py:1349-1356`), so
  a runner killed by SIGKILL leaves services and children behind; such a child writes into
  the directory of the next attempt, and an episode may complete with the data of two.
  `run_manifest.json` is written in place and parsed without a guard (`run_libero.py:569`,
  `run_libero.py:2188`): a kill in between blocks every relaunch of the method. `run_all`
  loses its history when it is killed while writing it.
* *Robosuite.* The same holds of its manifest (`eval_robosuite_agent.py:441-448`). An
  unreachable provider that the controller swallows ends in `FAILED` instead of a pause,
  and markers of earlier launches stay beside `COMPLETE.json`.

## 6. Not modelled, and what could follow

* The geometry of the skills, the simulators and the prompts: floating-point
  computation and text. The models let each gate go either way within what it admits.
* Experience memory's retrieval and lesson merging: which text a prompt quotes.
* Initialisation of the evolution repository as separate writes; the multiprocessing
  queue and its feeder thread; `summary.json` as several writes.
* Robosuite's evolution and campaign launchers, the one-shot and long-horizon
  runners, RACaP's own path in `run_libero`: variants of the loops modelled here.
* Analysis scripts, task tables, frozen policies: batch computation and data.

What could follow: an abstract campaign of records that `Evaluator` and `MethodRun`
both refine; a model of the repository's initialisation.
