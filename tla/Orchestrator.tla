---------------------------- MODULE Orchestrator ----------------------------
(***************************************************************************)
(* The evolution loop of evolution/harness/orchestrator.py, with the parts *)
(* of workspace.py, events.py, runner.py and selection.py that its         *)
(* decisions depend on.                                                    *)
(*                                                                         *)
(* One process (re)started any number of times works on durable state: the *)
(* checkpoint state.json, the Git repository with one worktree per         *)
(* candidate, and the proposals/, rollouts/ and experience/ directories.   *)
(* A crash, or an exception that leaves run(), erases the process and      *)
(* keeps the durable state exactly as the last finished write left it, so  *)
(* an operation of the code is one action per durable write it makes.      *)
(*                                                                         *)
(* Data are abstracted to what decides control.  A commit is the name of   *)
(* the worktree it was made in, <<iteration, repair index>>; an evaluation *)
(* yields a native success count and one number for the cost tuple; the    *)
(* stage that CurriculumScheduler.choose picks is any stage it may pick    *)
(* (module Scheduler models how it picks).                                 *)
(***************************************************************************)
EXTENDS Integers, Sequences, FiniteSets

CONSTANTS
  Stages,           \* curriculum stage identifiers
  Parents,          \* StageSpec.parents: [Stages -> SUBSET Stages]
  StartStage,       \* --start-stage
  Pins,             \* --stage of a launch: stages, or None for "auto"
  Repairs,          \* --implementation-repairs
  SmokeEpisodes,    \* --smoke-episodes
  RuntimeBudget,    \* --runtime-candidates, or None
  IterationBudget,  \* --iterations
  MaxNative,        \* native successes an evaluation can report: 0..MaxNative
  MaxCost,          \* bound: execution costs an evaluation can report
  MaxIteration,     \* bound: iteration labels the model has
  MaxFaults,        \* bound: crashes, outages and failed evaluations
  None              \* Python's None

Seed == <<0, 0>>
Names == (1..MaxIteration) \X (0..Repairs)
Commits == Names \cup {Seed}
Evidence == [commit: Commits, stage: Stages, native: 0..MaxNative, cost: 0..MaxCost]

ASSUME StagesAssumption ==
  /\ StartStage \in Stages
  /\ Parents \in [Stages -> SUBSET Stages]
  /\ Pins \subseteq Stages \cup {None}
ASSUME BudgetAssumption ==
  /\ Repairs \in Nat /\ SmokeEpisodes \in Nat /\ IterationBudget \in Nat
  /\ RuntimeBudget \in Nat \cup {None}
  /\ MaxNative \in Nat /\ MaxCost \in Nat
  /\ MaxIteration \in Nat /\ MaxFaults \in Nat

VARIABLES
  (* durable *)
  saved,        \* lineage/state.json, None before the first save_state
  championRef,  \* refs/heads/champion
  worktrees,    \* HEAD of worktrees/<name>, None where there is no worktree
  commits,      \* the commits made so far: ancestry and substantive changes
  proposals,    \* iterations with proposals/<label>/proposal.json
  guards,       \* candidates whose acceptance a proposals/<label>/guards.json records
  rollouts,     \* evidence in complete rollout directories
  started,      \* candidates whose rollouts/<tag> directory exists
  ledger,       \* how often experience memory recorded each candidate
  (* volatile *)
  pc,           \* where the process is, "down" when there is none
  st,           \* the in-memory ExperimentState
  pinned,       \* the launch's --stage
  stage,        \* the prepared stage
  champ,        \* champion_metrics on that stage
  cand,         \* the candidate being implemented or evaluated
  repairBase,   \* repair_base_commit
  failure,      \* what stopped the implementation attempt
  result,       \* the candidate's EvaluationResult
  attempted,    \* attempted_iterations
  (* bound *)
  faults        \* faults so far

git == <<championRef, worktrees, commits>>
artifacts == <<proposals, guards, rollouts, started, ledger>>
durable == <<saved, git, artifacts>>
volatile == <<pc, st, pinned, stage, champ, cand, repairBase, failure, result, attempted>>
vars == <<durable, volatile, faults>>

Statuses == {"unseen", "active", "productive", "dormant", "revisit", "implementation_blocked"}
Outcomes == {"proposal_failed", "implementation_failed", "infrastructure_invalidated",
             "capability_promoted", "efficiency_recorded", "retained_not_promoted"}
Scored == {"capability_promoted", "efficiency_recorded", "retained_not_promoted"}
HistoryRecord == [iteration: 1..MaxIteration, candidate: Names \cup {None}, status: Outcomes]
Pending == [candidate: Names, stage: Stages, parent: Commits]
State == [iteration: 0..MaxIteration, champion: Commits, next: Stages,
          runtimeCandidates: Nat, pending: Pending \cup {None},
          history: Seq(HistoryRecord),
          base: [Stages -> Evidence \cup {None}], status: [Stages -> Statuses]]
CommitRecord == [ancestors: SUBSET Commits, substantive: BOOLEAN]

(* Python's None is none of the values it stands in for. *)
ASSUME NoneAssumption ==
  None \notin Stages \cup Commits \cup Nat \cup Evidence \cup State \cup Pending \cup CommitRecord

(* ExperimentState of an experiment without a checkpoint. *)
FreshState ==
  [iteration |-> 0, champion |-> Seed, next |-> StartStage, runtimeCandidates |-> 0,
   pending |-> None, history |-> <<>>,
   base |-> [s \in Stages |-> None], status |-> [s \in Stages |-> "unseen"]]
-----------------------------------------------------------------------------
(* Helpers on the in-memory state. *)

(* CurriculumScheduler._eligible: observed stages and those whose parents are. *)
Eligible(s) ==
  LET visited == {t \in Stages: s.base[t] # None}
  IN  visited \cup {t \in Stages: Parents[t] \subseteq visited}

(* The statuses choose() leaves when it moves from prev to next. *)
StatusAfterChoice(status, prev, next) ==
  LET left == IF next # prev /\ status[prev] # "unseen"
              THEN [status EXCEPT ![prev] = "dormant"] ELSE status
  IN  CASE left[next] = "unseen" -> [left EXCEPT ![next] = "active"]
        [] left[next] # "unseen" /\ next # prev -> [left EXCEPT ![next] = "revisit"]
        [] next = prev /\ left[next] = "implementation_blocked" -> [left EXCEPT ![next] = "active"]
        [] OTHER -> left

(* _schedule_next: the states it may leave. *)
Scheduled(s) ==
  IF pinned # None
  THEN {[s EXCEPT !.next = stage]}
  ELSE {[s EXCEPT !.next = t, !.status = StatusAfterChoice(s.status, stage, t)]:
          t \in Eligible(s) \cup {stage}}

(* An iteration that ends without a runtime candidate: a history record, an   *)
(* implementation_blocked stage, the iteration consumed.                      *)
Rejected(s, i, name, outcome) ==
  [s EXCEPT !.iteration = i,
            !.history = Append(@, [iteration |-> i, candidate |-> name, status |-> outcome]),
            !.status[stage] = "implementation_blocked"]

NothingRevalidated(s, commit) == s.status  \* mutant

(* _request_cross_stage_revalidation after stage was promoted to commit. *)
Revalidated(s, commit) ==
  [t \in Stages |->
     IF t # stage /\ s.base[t] # None /\ s.base[t].commit # commit
     THEN "revisit" ELSE s.status[t]]

WorktreesOf(i) == {n \in Names: n[1] = i /\ worktrees[n] # None}

(* Some artifact of an earlier process already carries the label of i. *)
Occupied(i) ==
  \/ WorktreesOf(i) # {}
  \/ i \in proposals
  \/ \E n \in started: n[1] = i

RepairFromChampion == st.champion        \* mutant
TagNeverTaken == FALSE                   \* mutant

(* The next repair starts from the failed tree when that was committed. *)
NextRepairBase == IF worktrees[cand] = cand THEN cand ELSE repairBase
RepairsLeft == cand[2] < Repairs

(* EvaluationRunner.evaluate: the output directory of the tag exists. *)
TagTaken == cand \in started

BudgetSpent ==
  IF RuntimeBudget # None
  THEN st.runtimeCandidates >= RuntimeBudget
  ELSE attempted >= IterationBudget

(* The process is gone: run() returned or raised, or the host failed. *)
Gone ==
  /\ pc' = "down"
  /\ st' = None /\ pinned' = None /\ stage' = None /\ champ' = None /\ cand' = None
  /\ repairBase' = None /\ failure' = None /\ result' = None /\ attempted' = 0

Fault == faults < MaxFaults /\ faults' = faults + 1
-----------------------------------------------------------------------------
(* Launching the process, and preparing the champion's baseline. *)

(* cli.main and the head of run(): the checkpoint, or a fresh state, with the *)
(* stage this launch asks for.                                                *)
Launch ==
  /\ pc = "down"
  /\ \E p \in Pins:
       LET s      == IF saved = None THEN FreshState ELSE saved
           active == IF p = None THEN s.next ELSE p
       IN  /\ pinned' = p
           /\ stage' = active
           /\ st' = [s EXCEPT !.next = active]
  /\ pc' = "resume_baseline"
  /\ UNCHANGED <<durable, champ, cand, repairBase, failure, result, attempted, faults>>

AfterBaseline == IF pc = "resume_baseline" THEN "discover" ELSE "label"

ReuseAnyBaseline == st.base[stage] # None  \* mutant

BaselineReusable == st.base[stage] # None /\ st.base[stage].commit = st.champion

(* _reuse_baseline: the stored evidence still belongs to the champion. *)
ReuseBaseline ==
  /\ pc \in {"resume_baseline", "switch_baseline"}
  /\ BaselineReusable
  /\ champ' = st.base[stage]
  /\ saved' = st
  /\ pc' = AfterBaseline
  /\ UNCHANGED <<git, artifacts, st, pinned, stage, cand, repairBase, failure, result,
                 attempted, faults>>

(* _reuse_baseline returns None: nothing of this champion is stored, or       *)
(* load_metrics rejects what is.                                              *)
MustMeasure ==
  \/ ~BaselineReusable /\ UNCHANGED faults
  \/ BaselineReusable /\ Fault

(* _baseline: evaluate the champion under a tag no other rollout has. *)
EvaluateBaseline ==
  /\ pc \in {"resume_baseline", "switch_baseline"}
  /\ MustMeasure
  /\ \E n \in 0..MaxNative, k \in 0..MaxCost:
       LET e == [commit |-> st.champion, stage |-> stage, native |-> n, cost |-> k]
           s == [st EXCEPT !.base[stage] = e, !.status[stage] = "active"]
       IN  /\ rollouts' = rollouts \cup {e}
           /\ champ' = e
           /\ st' = s
           /\ saved' = s
  /\ pc' = AfterBaseline
  /\ UNCHANGED <<git, proposals, guards, started, ledger, pinned, stage, cand, repairBase,
                 failure, result, attempted>>

BaselineFails ==
  /\ pc \in {"resume_baseline", "switch_baseline"}
  /\ ~BaselineReusable
  /\ Fault
  /\ Gone
  /\ UNCHANGED durable
-----------------------------------------------------------------------------
(* A candidate that an earlier process left behind. *)

PendingWithRepairParent(n) ==  \* mutant
  [candidate |-> n, stage |-> stage,
   parent |-> IF repairBase # None THEN repairBase ELSE st.champion]
PendingAtStart(n) == [candidate |-> n, stage |-> StartStage, parent |-> st.champion]  \* mutant

PendingOf(n) == [candidate |-> n, stage |-> stage, parent |-> st.champion]

RecoverUnguarded ==  \* mutant
  {i \in proposals: i > st.iteration /\ WorktreesOf(i) # {}}

(* The labels whose guards.json reads "passed". *)
GuardedLabels == {n[1]: n \in guards}

Recoverable == {i \in GuardedLabels \cap proposals: i > st.iteration /\ WorktreesOf(i) # {}}

(* _discover_pending_candidate when the checkpoint names a pending candidate. *)
PendingKnown ==
  /\ pc = "discover"
  /\ st.pending # None
  /\ pc' = "pending"
  /\ UNCHANGED <<durable, st, pinned, stage, champ, cand, repairBase, failure, result,
                 attempted, faults>>

(* _discover_pending_candidate, no candidate on disk either. *)
NothingPending ==
  /\ pc = "discover"
  /\ st.pending = None
  /\ Recoverable = {}
  /\ pc' = "loop"
  /\ UNCHANGED <<durable, st, pinned, stage, champ, cand, repairBase, failure, result,
                 attempted, faults>>

(* _discover_pending_candidate: the newest worktree of the highest label. *)
RecoverPending ==
  /\ pc = "discover"
  /\ st.pending = None
  /\ \E i \in Recoverable, n \in Names:
       /\ \A j \in Recoverable: j <= i
       /\ n \in WorktreesOf(i)
       /\ \A m \in WorktreesOf(i): m[2] <= n[2]
       /\ st' = [st EXCEPT !.pending = PendingOf(n)]
  /\ saved' = st'
  /\ pc' = "pending"
  /\ UNCHANGED <<git, artifacts, pinned, stage, champ, cand, repairBase, failure, result,
                 attempted, faults>>

PendingForStage == st.pending.stage = stage

(* run(): RuntimeError, the pending candidate was made for another stage. *)
PendingStageMismatch ==
  /\ pc = "pending"
  /\ ~PendingForStage
  /\ Gone
  /\ UNCHANGED <<durable, faults>>

PendingPresent == worktrees[st.pending.candidate] = st.pending.candidate

(* run(): a pending tree without a substantive change is never simulated; its *)
(* rollout directory gets INFRASTRUCTURE_INVALID.json.                        *)
MarkInvalid ==
  /\ pc = "pending"
  /\ PendingForStage
  /\ PendingPresent
  /\ ~commits[st.pending.candidate].substantive
  /\ started' = started \cup {st.pending.candidate}
  /\ pc' = "invalid"
  /\ UNCHANGED <<saved, git, proposals, guards, rollouts, ledger, st, pinned, stage, champ,
                 cand, repairBase, failure, result, attempted, faults>>

(* run(): the invalidation enters the history and the checkpoint. *)
InvalidatePending ==
  /\ pc = "invalid"
  /\ LET n == st.pending.candidate
         r == [Rejected(st, n[1], n, "infrastructure_invalidated") EXCEPT !.pending = None]
     IN  \E s \in Scheduled(r): st' = s /\ saved' = s
  /\ pc' = "loop"
  /\ UNCHANGED <<git, artifacts, pinned, stage, champ, cand, repairBase, failure, result,
                 attempted, faults>>

(* run(): the checkpointed commit goes to its evaluation. *)
ResumePending ==
  /\ pc = "pending"
  /\ PendingForStage
  /\ PendingPresent
  /\ commits[st.pending.candidate].substantive
  /\ cand' = st.pending.candidate
  /\ pc' = "evaluate"
  /\ UNCHANGED <<durable, st, pinned, stage, champ, repairBase, failure, result, attempted,
                 faults>>
-----------------------------------------------------------------------------
(* The main loop: budget, stage switch, label, proposal. *)

LoopEnds ==
  /\ pc = "loop"
  /\ BudgetSpent
  /\ Gone
  /\ UNCHANGED <<durable, faults>>

(* MaxIteration: the model has no further label. *)
OutOfLabels ==
  /\ pc = "label" \/ (pc = "loop" /\ ~BudgetSpent)
  /\ st.iteration = MaxIteration
  /\ Gone
  /\ UNCHANGED <<durable, faults>>

LoopContinues ==
  /\ pc = "loop"
  /\ ~BudgetSpent
  /\ st.iteration < MaxIteration
  /\ attempted' = attempted + 1
  /\ stage' = st.next
  /\ pc' = IF st.next # stage THEN "switch_baseline" ELSE "label"
  /\ UNCHANGED <<durable, st, pinned, champ, cand, repairBase, failure, result, faults>>

Label == st.iteration + 1

SkippedInPlace == st  \* mutant
Skipped == [st EXCEPT !.iteration = Label]

(* interrupted_candidate_preserved: an occupied label is passed over. *)
SkipOccupiedLabel ==
  /\ pc = "label"
  /\ st.iteration < MaxIteration
  /\ Occupied(Label)
  /\ st' = Skipped
  /\ saved' = st'
  /\ UNCHANGED <<git, artifacts, pc, pinned, stage, champ, cand, repairBase, failure, result,
                 attempted, faults>>

LabelChosen == pc = "label" /\ st.iteration < MaxIteration /\ ~Occupied(Label)

(* _propose and _proposal_artifacts. *)
Propose ==
  /\ LabelChosen
  /\ proposals' = proposals \cup {Label}
  /\ cand' = <<Label, 0>>
  /\ repairBase' = st.champion
  /\ pc' = "implement"
  /\ UNCHANGED <<saved, git, guards, rollouts, started, ledger, st, pinned, stage, champ,
                 failure, result, attempted, faults>>

(* LLMQuotaError or LLMProviderUnavailableError: _checkpoint_external_block. *)
ProposalBlocked ==
  /\ LabelChosen
  /\ Fault
  /\ saved' = st
  /\ Gone
  /\ UNCHANGED <<git, artifacts>>

(* Any other exception of the coder consumes the iteration. *)
ProposalFails ==
  /\ LabelChosen
  /\ \E s \in Scheduled(Rejected(st, Label, None, "proposal_failed")):
       st' = s /\ saved' = s
  /\ pc' = "loop"
  /\ UNCHANGED <<git, artifacts, pinned, stage, champ, cand, repairBase, failure, result,
                 attempted, faults>>
-----------------------------------------------------------------------------
(* _materialize_candidate: apply, commit, guard, smoke, repair. *)

(* The attempt ends in the mechanical-failure branch; why is its cause. *)
AttemptFails(why) ==
  /\ failure' = why
  /\ pc' = "failed"

(* create_candidate, then apply_proposal or commit_candidate raises. *)
ApplyFails ==
  /\ pc = "implement"
  /\ worktrees[cand] = None
  /\ worktrees' = [worktrees EXCEPT ![cand] = repairBase]
  /\ AttemptFails("mechanical")
  /\ UNCHANGED <<saved, championRef, commits, artifacts, st, pinned, stage, champ, cand,
                 repairBase, result, attempted, faults>>

(* The tree that commit_candidate records on top of repairBase. *)
CommitOf(substantive) ==
  [ancestors |-> commits[repairBase].ancestors \cup {cand}, substantive |-> substantive]

(* create_candidate, apply_proposal, commit_candidate, check_candidate. *)
ApplyAndGuard ==
  /\ pc = "implement"
  /\ worktrees[cand] = None
  /\ worktrees' = [worktrees EXCEPT ![cand] = cand]
  /\ \E substantive, guardPassed \in BOOLEAN:
       /\ commits' = [commits EXCEPT ![cand] = CommitOf(substantive)]
       /\ IF substantive /\ guardPassed
          THEN /\ pc' = IF SmokeEpisodes > 0 THEN "smoke" ELSE "accepted"
               /\ UNCHANGED failure
          ELSE AttemptFails("mechanical")
  /\ UNCHANGED <<saved, championRef, artifacts, st, pinned, stage, champ, cand, repairBase,
                 result, attempted, faults>>

SmokePasses ==
  /\ pc = "smoke"
  /\ pc' = "accepted"
  /\ UNCHANGED <<durable, st, pinned, stage, champ, cand, repairBase, failure, result,
                 attempted, faults>>

(* A runtime_error row of _smoke_failures, or an EvaluationError of the candidate. *)
SmokeFails ==
  /\ pc = "smoke"
  /\ AttemptFails("mechanical")
  /\ UNCHANGED <<durable, st, pinned, stage, champ, cand, repairBase, result, attempted, faults>>

(* The provider is down: EvaluationRunner.evaluate reports it, like every     *)
(* failure of its probe and of its child process, as an EvaluationError.      *)
SmokeOutage ==
  /\ pc = "smoke"
  /\ Fault
  /\ AttemptFails("outage")
  /\ UNCHANGED <<durable, st, pinned, stage, champ, cand, repairBase, result, attempted>>

(* The last attempt: discard the worktree and raise. *)
GiveUp ==
  /\ pc = "failed"
  /\ ~RepairsLeft
  /\ worktrees' = [worktrees EXCEPT ![cand] = None]
  /\ pc' = "abandoned"
  /\ UNCHANGED <<saved, championRef, commits, artifacts, st, pinned, stage, champ, cand,
                 repairBase, failure, result, attempted, faults>>

(* coder.repair, whose next tree starts from the failed commit. *)
Repair ==
  /\ pc = "failed"
  /\ RepairsLeft
  /\ repairBase' = NextRepairBase
  /\ worktrees' = [worktrees EXCEPT ![cand] = None]
  /\ cand' = <<cand[1], cand[2] + 1>>
  /\ failure' = None
  /\ pc' = "implement"
  /\ UNCHANGED <<saved, championRef, commits, artifacts, st, pinned, stage, champ, result,
                 attempted, faults>>

(* coder.repair meets an outage: the tree stays, the checkpoint is saved. *)
RepairBlocked ==
  /\ pc = "failed"
  /\ RepairsLeft
  /\ Fault
  /\ saved' = st
  /\ Gone
  /\ UNCHANGED <<git, artifacts>>

(* coder.repair raises anything else: the tree stays. *)
RepairFails ==
  /\ pc = "failed"
  /\ RepairsLeft
  /\ pc' = "abandoned"
  /\ UNCHANGED <<durable, st, pinned, stage, champ, cand, repairBase, failure, result,
                 attempted, faults>>

(* run(): the exception of _materialize_candidate, as implementation_failed. *)
RecordFailure ==
  /\ pc = "abandoned"
  /\ \E s \in Scheduled(Rejected(st, cand[1], None, "implementation_failed")):
       st' = s /\ saved' = s
  /\ cand' = None /\ repairBase' = None /\ failure' = None
  /\ pc' = "loop"
  /\ UNCHANGED <<git, artifacts, pinned, stage, champ, result, attempted, faults>>
-----------------------------------------------------------------------------
(* The accepted candidate: checkpoint, evaluation, selection. *)

(* run(): committed.diff and guards.json, over what the label had before. *)
WriteGuards ==
  /\ pc = "accepted"
  /\ guards' = {n \in guards: n[1] # cand[1]} \cup {cand}
  /\ pc' = "checkpoint"
  /\ UNCHANGED <<saved, git, proposals, rollouts, started, ledger, st, pinned, stage, champ,
                 cand, repairBase, failure, result, attempted, faults>>

(* run(): candidate_runtime_checkpointed. *)
CheckpointPending ==
  /\ pc = "checkpoint"
  /\ st' = [st EXCEPT !.pending = PendingOf(cand)]
  /\ saved' = st'
  /\ repairBase' = None
  /\ pc' = "evaluate"
  /\ UNCHANGED <<git, artifacts, pinned, stage, champ, cand, failure, result, attempted, faults>>

(* EvaluationRunner.evaluate: a rollout tag is never reused. *)
RefuseReusedTag ==
  /\ pc = "evaluate"
  /\ TagTaken
  /\ Gone
  /\ UNCHANGED <<durable, faults>>

(* EvaluationRunner.evaluate: the health probe fails, nothing is created. *)
ProbeFails ==
  /\ pc = "evaluate"
  /\ ~TagTaken
  /\ Fault
  /\ Gone
  /\ UNCHANGED durable

(* eval_full_agent.py creates the output directory of the tag. *)
StartRollout ==
  /\ pc = "evaluate"
  /\ ~TagTaken
  /\ started' = started \cup {cand}
  /\ pc' = "running"
  /\ UNCHANGED <<saved, git, proposals, guards, rollouts, ledger, st, pinned, stage, champ,
                 cand, repairBase, failure, result, attempted, faults>>

(* Exit status 0 and complete, scorable evidence. *)
RolloutCompletes ==
  /\ pc = "running"
  /\ \E n \in 0..MaxNative, k \in 0..MaxCost:
       LET e == [commit |-> cand, stage |-> stage, native |-> n, cost |-> k]
       IN  rollouts' = rollouts \cup {e} /\ result' = e
  /\ pc' = "finish"
  /\ UNCHANGED <<saved, git, proposals, guards, started, ledger, st, pinned, stage, champ,
                 cand, repairBase, failure, attempted, faults>>

(* A nonzero exit status or evidence load_metrics rejects: EvaluationError. *)
RolloutFails ==
  /\ pc = "running"
  /\ Fault
  /\ Gone
  /\ UNCHANGED durable

PromoteTies(old, new) == new.native >= old.native  \* mutant

(* selection.compare. *)
PromoteCapability(old, new) == new.native > old.native
PromoteEfficiency(old, new) == new.native = old.native /\ new.cost < old.cost

Outcome ==
  IF PromoteCapability(champ, result) THEN "capability_promoted"
  ELSE IF PromoteEfficiency(champ, result) THEN "efficiency_recorded"
  ELSE "retained_not_promoted"

(* _finish_candidate up to memory.record_candidate. *)
ScoreCandidate ==
  /\ pc = "finish"
  /\ ledger' = [ledger EXCEPT ![cand] = @ + 1]
  /\ st' = [st EXCEPT
              !.runtimeCandidates = @ + 1,
              !.history = Append(@, [iteration |-> cand[1], candidate |-> cand,
                                     status |-> Outcome]),
              !.status[stage] = IF result.native > champ.native THEN "productive" ELSE "active"]
  /\ pc' = IF PromoteCapability(champ, result) THEN "promote" ELSE "save"
  /\ UNCHANGED <<saved, git, proposals, guards, rollouts, started, pinned, stage, champ, cand,
                 repairBase, failure, result, attempted, faults>>

AdoptedEverywhere ==  \* mutant
  [st EXCEPT !.champion = cand,
             !.base = [t \in Stages |-> IF @[t] = None THEN None ELSE result]]

(* _adopt_stage_baseline for the new champion. *)
Adopted == [st EXCEPT !.champion = cand, !.base[stage] = result]

(* WorkspaceManager.promote, _adopt_stage_baseline, _request_cross_stage_revalidation. *)
Promote ==
  /\ pc = "promote"
  /\ championRef' = cand
  /\ st' = [Adopted EXCEPT !.status = Revalidated(Adopted, cand)]
  /\ champ' = result
  /\ pc' = "save"
  /\ UNCHANGED <<saved, worktrees, commits, artifacts, pinned, stage, cand, repairBase, failure,
                 result, attempted, faults>>

(* The tail of _finish_candidate. *)
SaveSelection ==
  /\ pc = "save"
  /\ \E s \in Scheduled([st EXCEPT !.pending = None, !.iteration = cand[1]]):
       st' = s /\ saved' = s
  /\ cand' = None /\ result' = None
  /\ pc' = "loop"
  /\ UNCHANGED <<git, artifacts, pinned, stage, champ, repairBase, failure, attempted, faults>>
-----------------------------------------------------------------------------
(* The host, or an exception none of the handlers above names. *)
Crash ==
  /\ pc # "down"
  /\ Fault
  /\ Gone
  /\ UNCHANGED durable

InitFresh ==
  /\ saved = None
  /\ worktrees = [n \in Names |-> None]
  /\ commits = [c \in Commits |-> IF c = Seed
                                  THEN [ancestors |-> {Seed}, substantive |-> FALSE] ELSE None]
  /\ proposals = {} /\ guards = {} /\ rollouts = {} /\ started = {}

(* A checkpoint of a release without the substantive-change test: a pending   *)
(* tree that only adds empty files, its rollout perhaps interrupted.          *)
InitLegacy ==
  LET n == <<1, 0>>
      e == [commit |-> Seed, stage |-> StartStage, native |-> 0, cost |-> 0]
  IN  /\ MaxIteration > 0
      /\ saved = [FreshState EXCEPT
                    !.base[StartStage] = e, !.status[StartStage] = "active",
                    !.pending = [candidate |-> n, stage |-> StartStage, parent |-> Seed]]
      /\ worktrees = [m \in Names |-> IF m = n THEN n ELSE None]
      /\ commits = [c \in Commits |->
                      CASE c = Seed -> [ancestors |-> {Seed}, substantive |-> FALSE]
                        [] c = n -> [ancestors |-> {Seed, n}, substantive |-> FALSE]
                        [] OTHER -> None]
      /\ proposals = {1} /\ guards = {n} /\ rollouts = {e}
      /\ started \in {{}, {n}}

Init ==
  /\ InitFresh \/ InitLegacy
  /\ championRef = Seed
  /\ ledger = [n \in Names |-> 0]
  /\ pc = "down"
  /\ st = None /\ pinned = None /\ stage = None /\ champ = None /\ cand = None
  /\ repairBase = None /\ failure = None /\ result = None /\ attempted = 0
  /\ faults = 0

Prepare == ReuseBaseline \/ EvaluateBaseline
Resume == PendingKnown \/ NothingPending \/ RecoverPending \/ PendingStageMismatch
          \/ MarkInvalid \/ InvalidatePending \/ ResumePending
Iterate == LoopEnds \/ OutOfLabels \/ LoopContinues \/ SkipOccupiedLabel
           \/ Propose \/ ProposalFails
Materialize == ApplyFails \/ ApplyAndGuard \/ SmokePasses \/ SmokeFails
               \/ GiveUp \/ Repair \/ RepairFails \/ RecordFailure
Evaluate == WriteGuards \/ CheckpointPending \/ RefuseReusedTag \/ StartRollout
            \/ RolloutCompletes \/ ScoreCandidate \/ Promote \/ SaveSelection
Disturb == BaselineFails \/ ProposalBlocked \/ SmokeOutage \/ RepairBlocked \/ ProbeFails
           \/ RolloutFails \/ Crash

(* What the process does by itself. *)
Step == Prepare \/ Resume \/ Iterate \/ Materialize \/ Evaluate

Next == Launch \/ Step \/ Disturb

Spec == Init /\ [][Next]_vars

(* run() is sequential code that keeps going; an operator relaunches it.      *)
FairSpec == Spec /\ WF_vars(Step) /\ WF_vars(Launch)
-----------------------------------------------------------------------------
(* Type invariant. *)
TypeOK ==
  /\ saved \in State \cup {None}
  /\ championRef \in Commits
  /\ worktrees \in [Names -> Commits \cup {None}]
  /\ commits \in [Commits -> CommitRecord \cup {None}]
  /\ proposals \subseteq 1..MaxIteration /\ guards \subseteq Names
  /\ rollouts \subseteq Evidence
  /\ started \subseteq Names
  /\ ledger \in [Names -> Nat]
  /\ st \in State \cup {None}
  /\ pinned \in Stages \cup {None} /\ stage \in Stages \cup {None}
  /\ champ \in Evidence \cup {None} /\ result \in Evidence \cup {None}
  /\ cand \in Names \cup {None} /\ repairBase \in Commits \cup {None}
  /\ failure \in {"mechanical", "outage", None}
  /\ attempted \in Nat /\ faults \in 0..MaxFaults
  /\ pc \in {"down", "resume_baseline", "switch_baseline", "discover", "pending", "invalid",
             "loop", "label", "implement", "smoke", "failed", "abandoned", "accepted",
             "checkpoint", "evaluate", "running", "finish", "promote", "save"}
-----------------------------------------------------------------------------
(* Safety. *)

SavedPending ==
  IF saved = None \/ saved.pending = None THEN {} ELSE {saved.pending.candidate}

ScoredIn(s) == {s.history[k].candidate: k \in {j \in DOMAIN s.history: s.history[j].status \in Scored}}

(* A candidate is compared only with evidence of the present champion on the  *)
(* stage it ran on, and both are complete rollouts on disk: docs/EVOLUTION.md *)
(* step 6 across restarts, stage switches and reused baselines.               *)
PairedComparison ==
  pc = "finish" =>
    /\ {champ, result} \subseteq rollouts
    /\ champ.commit = st.champion /\ champ.stage = stage
    /\ result.commit = cand /\ result.stage = stage

(* Whatever baseline a checkpoint or the process holds for a stage was        *)
(* measured on that stage in a rollout on disk, so _reuse_baseline can never  *)
(* compare a candidate with numbers of another cohort.                        *)
BaselinesMeasured ==
  \A s \in {saved, st} \ {None}: \A t \in Stages:
    s.base[t] # None => s.base[t] \in rollouts /\ s.base[t].stage = t

(* Wherever a process dies between the writes of _finish_candidate, the       *)
(* checkpoint lags the champion ref and the experience ledger by at most the  *)
(* pending candidate, and no candidate enters the ledger twice.               *)
OnlyPendingRunsAhead ==
  /\ \A n \in Names: ledger[n] <= 1
  /\ saved # None =>
       /\ {n \in Names: ledger[n] > 0} \ ScoredIn(saved) \subseteq SavedPending
       /\ championRef # saved.champion => championRef \in SavedPending

(* A resume finds the pending candidate it checkpointed: the worktree at its  *)
(* commit, made from the present champion, for an iteration not yet consumed. *)
(* It is what keeps run()'s "worktree or commit is missing" unreachable.      *)
PendingIntact ==
  \A n \in SavedPending:
    /\ worktrees[n] = n
    /\ saved.pending.parent = saved.champion
    /\ saved.champion \in commits[n].ancestors
    /\ n[1] > saved.iteration

(* The tree that reaches the simulator contains every committed attempt of    *)
(* its iteration: repairs never drop the mechanism they repair.               *)
RepairsCumulative ==
  pc \in {"accepted", "checkpoint", "evaluate", "running", "finish"} =>
    \A r \in 0..cand[2]:
      commits[<<cand[1], r>>] # None => <<cand[1], r>> \in commits[cand].ancestors

(* After a promotion every observed stage whose baseline belongs to an older  *)
(* champion stays marked for revisiting until it is measured again.           *)
StaleBaselinesMarked ==
  saved # None =>
    \A t \in Stages:
      saved.base[t] # None /\ saved.base[t].commit # saved.champion
        => saved.status[t] = "revisit"

(* What reaches the measured evaluation is a tree whose own guards and smoke  *)
(* test passed.  A restart has only directory names to go by: it takes the    *)
(* newest tree of a label with a guards.json, so a label used twice, a tree   *)
(* left by a failed repair or a recovery by proposal alone would hand it a    *)
(* tree nobody accepted.                                                      *)
AcceptedOnly ==
  pc \in {"evaluate", "running", "finish", "promote", "save"} => cand \in guards

(* The checkpointed champion evolves as PairedEvolution says: it changes only *)
(* to a commit with strictly more native successes on the same stage.         *)
Abstract == INSTANCE PairedEvolution WITH
  Natives  <- 0..MaxNative,
  Costs    <- 0..MaxCost,
  champion <- IF saved = None THEN Seed ELSE saved.champion,
  evidence <- rollouts

ChampionEvolves == Abstract!Spec
-----------------------------------------------------------------------------
(* Liveness, under FairSpec. *)

(* With an iteration budget run() always comes to an end: neither the repair  *)
(* loop, nor the label loop, nor stage switching runs for ever.               *)
SessionEnds == pc # "down" ~> pc = "down"

(* A candidate checkpointed before its first simulator call is not lost: some *)
(* later process evaluates or invalidates it, or at least begins to.          *)
UnstartedPendingResumes ==
  \A n \in Names: SavedPending = {n} ~> (SavedPending = {} \/ n \in started)
=============================================================================
