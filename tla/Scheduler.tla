----------------------------- MODULE Scheduler -----------------------------
(***************************************************************************)
(* evolution/harness/scheduler.py, driven as orchestrator.py drives it:    *)
(* measure the champion on a stage, attempt improvements there, choose the *)
(* next stage.  Sessions end and start again at any point and an operator  *)
(* may pin one of them to a stage.                                         *)
(*                                                                         *)
(* latest_native is always the native count of the stored baseline, so the *)
(* model keeps only that one.  Of recent_deltas choose() reads whether the *)
(* last one was positive, of the clusters whether the last attempt brought *)
(* a new one.  _score is abstracted to the factor that can make it zero:   *)
(* a stage without a gap never has the highest score while another has     *)
(* one, provided --stage-exploration is positive.                          *)
(***************************************************************************)
EXTENDS Integers

CONSTANTS
  Stages, Parents, StartStage,
  Expected,      \* episodes of a stage
  MinVisits,     \* SchedulerConfig.min_visits
  Patience,      \* SchedulerConfig.patience
  MaxIteration,  \* bound: iterations
  MaxFaults,     \* bound: malformed candidates and baselines that cannot be loaded
  MaxPins,       \* bound: sessions pinned with --stage
  None

ASSUME CurriculumAssumption ==
  /\ StartStage \in Stages
  /\ Parents \in [Stages -> SUBSET Stages]
ASSUME ConfigAssumption ==
  /\ Expected \in Nat \ {0}
  /\ MinVisits \in Nat
  /\ Patience \in Nat
  /\ MaxIteration \in Nat
  /\ MaxFaults \in Nat
  /\ MaxPins \in Nat

Baseline == [commit: Nat, native: 0..Expected]
Statuses == {"unseen", "active", "productive", "dormant", "revisit", "implementation_blocked"}
StageState ==
  [status: Statuses, visits: Nat, base: Baseline \cup {None}, streak: Nat,
   gained: BOOLEAN, novel: BOOLEAN, requests: Nat]

ASSUME NoneAssumption == None \notin Baseline

VARIABLES
  (* the checkpoint *)
  progress,   \* stage_states
  champion,   \* the champion commit: how many promotions made it
  iteration,  \* state.iteration
  next,       \* state.next_stage_id
  (* the session *)
  at,         \* "down", "baseline" or "attempt"
  pinned,     \* mode is "fixed"
  stage,      \* the stage it prepares or works on
  (* bounds *)
  faults,
  pins

checkpoint == <<progress, champion, iteration, next>>
session == <<at, pinned, stage>>
vars == <<checkpoint, session, faults, pins>>

Fault == faults < MaxFaults /\ faults' = faults + 1
NoFault == UNCHANGED faults
-----------------------------------------------------------------------------
(* new_stage_state *)
NewStageState ==
  [status |-> "unseen", visits |-> 0, base |-> None, streak |-> 0,
   gained |-> FALSE, novel |-> FALSE, requests |-> 0]

Observed(p) == {s \in Stages: p[s].base # None}

EligibleByAnyParent(p) ==  \* mutant
  Observed(p) \cup {s \in Stages: Parents[s] = {} \/ Parents[s] \cap Observed(p) # {}}

(* _eligible.  A curriculum has a stage without parents, so this is not empty. *)
Eligible(p) == Observed(p) \cup {s \in Stages: Parents[s] \subseteq Observed(p)}

Solved(p, s) == p[s].base # None /\ p[s].base.native = Expected

(* observe_baseline *)
WithBaseline(p, s, n) ==
  [p EXCEPT ![s] = [@ EXCEPT !.status = "active",
                             !.base = [commit |-> champion, native |-> n]]]

(* observe_attempt with valid_runtime = False *)
Blocked(p, s) == [p EXCEPT ![s].status = "implementation_blocked"]

(* observe_attempt; related are the observed stages that                     *)
(* _request_related_revisits finds in the critics' words.                    *)
Attempted(p, s, gain, novel, related) ==
  [t \in Stages |->
     IF t = s
     THEN [p[s] EXCEPT !.visits = @ + 1,
                       !.streak = IF gain THEN 0 ELSE @ + 1,
                       !.status = IF gain THEN "productive" ELSE "active",
                       !.gained = gain,
                       !.novel = novel]
     ELSE IF t \in related THEN [p[t] EXCEPT !.requests = @ + 1] ELSE p[t]]

AdoptedOnly(p, s, commit, n) ==  \* mutant
  [p EXCEPT ![s].base = [commit |-> commit, native |-> n]]

(* _adopt_stage_baseline and _request_cross_stage_revalidation for a new     *)
(* champion commit that scored n on stage s.                                 *)
Adopted(p, s, commit, n) ==
  [t \in Stages |->
     IF t = s
     THEN [p[s] EXCEPT !.base = [commit |-> commit, native |-> n]]
     ELSE IF p[t].base # None /\ p[t].base.commit # commit
          THEN [p[t] EXCEPT !.status = "revisit", !.requests = @ + 1]
          ELSE p[t]]

(* The conditions under which choose() stays. *)
Stays(p, s) ==
  \/ p[s].visits < MinVisits
  \/ p[s].gained
  \/ p[s].streak < Patience /\ p[s].novel

Unseen(p, s) == (Eligible(p) \cup {s}) \ Observed(p)

PatientChoices(p, s) ==  \* mutant
  IF Stays(p, s) \/ p[s].novel THEN {s}
  ELSE IF Unseen(p, s) # {} THEN Unseen(p, s) ELSE Eligible(p) \cup {s}

(* The stages choose() may select when s is the current one. *)
Choices(p, s) ==
  LET eligible == Eligible(p) \cup {s}
      unsolved == {t \in eligible: ~Solved(p, t)}
  IN  IF Stays(p, s) THEN {s}
      ELSE IF Unseen(p, s) # {} THEN Unseen(p, s)
      ELSE IF unsolved # {} THEN unsolved
      ELSE eligible

Decremented(n) == IF n = 0 THEN 0 ELSE n - 1

(* What choose() writes when it moves from stage s to another stage t. *)
Moved(p, s, t) ==
  [u \in Stages |->
     CASE u = s /\ p[s].status # "unseen" -> [p[s] EXCEPT !.status = "dormant"]
       [] u = t /\ p[t].status = "unseen" -> [p[t] EXCEPT !.status = "active"]
       [] u = t /\ p[t].status # "unseen" ->
            [p[t] EXCEPT !.status = "revisit", !.requests = Decremented(@)]
       [] OTHER -> p[u]]

(* What it writes when it stays on s. *)
Kept(p, s) ==
  IF p[s].status \in {"unseen", "implementation_blocked"}
  THEN [p EXCEPT ![s].status = "active"] ELSE p

(* _schedule_next and save_state after an attempt that left p; run then      *)
(* prepares the baseline of the stage if it is a new one.                    *)
ScheduleNext(p) ==
  \E t \in IF pinned THEN {stage} ELSE Choices(p, stage):
    /\ progress' = IF pinned THEN p
                   ELSE IF t = stage THEN Kept(p, stage) ELSE Moved(p, stage, t)
    /\ next' = t
    /\ stage' = t
    /\ at' = IF t = stage THEN "attempt" ELSE "baseline"
-----------------------------------------------------------------------------
(* run: an automatic session takes the stage of the checkpoint. *)
LaunchAuto ==
  /\ at = "down"
  /\ stage' = next /\ pinned' = FALSE /\ at' = "baseline"
  /\ UNCHANGED <<checkpoint, faults, pins>>

(* A pinned session takes the operator's. *)
LaunchPinned ==
  /\ at = "down"
  /\ pins < MaxPins /\ pins' = pins + 1
  /\ stage' \in Stages /\ pinned' = TRUE /\ at' = "baseline"
  /\ UNCHANGED <<checkpoint, faults>>

BaselineStored == progress[stage].base # None /\ progress[stage].base.commit = champion

(* _reuse_baseline, and the checkpoint it writes. *)
ReuseBaseline ==
  /\ at = "baseline"
  /\ BaselineStored
  /\ next' = stage
  /\ at' = "attempt"
  /\ UNCHANGED <<progress, champion, iteration, pinned, stage, faults, pins>>

(* _baseline: there is none of this champion, or its files do not load. *)
EvaluateBaseline ==
  /\ at = "baseline"
  /\ (~BaselineStored /\ NoFault) \/ (BaselineStored /\ Fault)
  /\ \E n \in 0..Expected: progress' = WithBaseline(progress, stage, n)
  /\ next' = stage
  /\ at' = "attempt"
  /\ UNCHANGED <<champion, iteration, pinned, stage, pins>>

StartIteration ==
  /\ at = "attempt"
  /\ iteration < MaxIteration
  /\ iteration' = iteration + 1
  /\ UNCHANGED <<pinned, pins>>

(* _finish_candidate: an evaluated candidate.  compare() promotes it exactly *)
(* when its native delta is positive.                                        *)
FinishCandidate ==
  /\ StartIteration
  /\ \E n \in 0..Expected, novel \in BOOLEAN, related \in SUBSET (Observed(progress) \ {stage}):
       LET gain == n > progress[stage].base.native
           p == Attempted(progress, stage, gain, novel, related)
       IN  IF gain
           THEN /\ champion' = champion + 1
                /\ ScheduleNext(Adopted(p, stage, champion + 1, n))
           ELSE /\ UNCHANGED champion
                /\ ScheduleNext(p)
  /\ UNCHANGED faults

(* A proposal or implementation failed. *)
RejectCandidate ==
  /\ StartIteration
  /\ Fault
  /\ ScheduleNext(Blocked(progress, stage))
  /\ UNCHANGED champion

(* The iteration budget is used up, an exception leaves run, or the process  *)
(* dies: the checkpoint has everything up to the last finished step.         *)
SessionEnds ==
  /\ at # "down"
  /\ at' = "down"
  /\ UNCHANGED <<checkpoint, pinned, stage, faults, pins>>

Prepare == ReuseBaseline \/ EvaluateBaseline
Attempt == FinishCandidate \/ RejectCandidate
-----------------------------------------------------------------------------
Init ==
  /\ progress = [s \in Stages |-> NewStageState]
  /\ champion = 0 /\ iteration = 0 /\ next = StartStage
  /\ at = "down" /\ pinned = FALSE /\ stage = StartStage
  /\ faults = 0 /\ pins = 0

Next == LaunchAuto \/ LaunchPinned \/ Prepare \/ Attempt \/ SessionEnds

Spec == Init /\ [][Next]_vars
-----------------------------------------------------------------------------
TypeOK ==
  /\ progress \in [Stages -> StageState]
  /\ champion \in Nat
  /\ iteration \in 0..MaxIteration
  /\ next \in Stages
  /\ at \in {"down", "baseline", "attempt"}
  /\ pinned \in BOOLEAN
  /\ stage \in Stages
  /\ faults \in 0..MaxFaults
  /\ pins \in 0..MaxPins

(* "Parents need only have been observed once": an automatic session measures *)
(* a stage for the first time only after each of its parents was measured, in *)
(* whatever order sessions ended, promotions moved the search and an operator *)
(* pinned other sessions to stages further down.                              *)
ParentsFirst ==
  [][\A s \in Observed(progress)' \ Observed(progress):
       pinned \/ s = StartStage \/ Parents[s] \subseteq Observed(progress)]_vars

(* "A global code change makes other cohorts informative again": evidence of *)
(* an older champion is not forgotten.  Its stage has a revisit request    *)
(* or is the scheduled one, although each revisit uses up a request, and a   *)
(* session may end between the choice of a stage and its evaluation; as long *)
(* as no session is pinned to another stage there.                           *)
StaleRequested ==
  pins = 0 =>
    \A s \in Observed(progress) \ {next}:
      progress[s].base.commit # champion => progress[s].requests > 0

(* How many evaluated candidates a stage may have had while choose() stays   *)
(* there and others wait: the minimum, the gains that are possible, and short *)
(* of patience before and after each of them.                                 *)
StayBound ==
  LET gains == Expected * (faults + 1)
      patience == IF Patience > 1 THEN Patience ELSE 1
  IN  MinVisits + gains + (gains + 1) * (patience - 1)

(* "A shallow high-gap stage can repeatedly outscore every deeper node":     *)
(* never while an eligible stage was not observed.  The stay is bounded      *)
(* whatever the evaluations, the critics and the interruptions are, if no    *)
(* session is pinned.                                                        *)
BoundedStay ==
  pins = 0 /\ Unseen(progress, next) # {} => progress[next].visits <= StayBound
=============================================================================
