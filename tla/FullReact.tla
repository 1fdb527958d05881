----------------------------- MODULE FullReact -----------------------------
(***************************************************************************)
(* racap/agent/full_react.py: the full-task agent.  It plans the semantic  *)
(* goals of an instruction, executes them in order on one shared tool      *)
(* session and, when the task allows it, plans again for what is left.     *)
(*                                                                         *)
(* A state goal (open, close, on, off) and a stack goal are executed here  *)
(* step by step.  A transport goal is an episode of module TransportReact, *)
(* taken as one step: it ends after 1..min(remaining, SubTurns) turns with *)
(* an endorsed success, a failure or a provider outage.                    *)
(***************************************************************************)
EXTENDS Integers, Sequences, FiniteSets

CONSTANTS
    Goals,          \* goal signatures (skill and labels)
    Skill,          \* the skill of each goal
    EpisodeTurns,   \* episode.turns
    SubTurns,       \* the turns a transport episode may use at most (21)
    MaxState,       \* episode.max_state_calls
    MaxStack,       \* episode.max_stack_calls
    MaxReplans,     \* episode.max_replans
    MaxPlan,        \* goals the planner may return (4)
    Contacts,       \* the contact strategies of the recovery ladder
    Mechanism,      \* "prismatic", "revolute" or "control": what state goals move
    Anytime         \* the values of continue_after_subgoal_failure to consider

ASSUME FullAssumption ==
    /\ Skill \in [Goals -> {"transport", "stack", "state"}]
    /\ {EpisodeTurns, SubTurns, MaxState, MaxStack, MaxReplans, MaxPlan} \subseteq Nat
    /\ SubTurns > 0 /\ IsFiniteSet(Contacts) /\ Anytime \subseteq BOOLEAN
    /\ Mechanism \in {"prismatic", "revolute", "control"}

VARIABLES
    continues,  \* continue_after_subgoal_failure
    phase,      \* what run_full_episode does next
    plan,       \* pending_goals from the current one on
    attempted,  \* attempted_signatures
    completed,  \* the results of the attempted goals
    turns,      \* outcome.turns
    round,      \* planning_round
    attempt,    \* attempts used on the current goal
    contacts,   \* attempted_contacts of the current state goal
    motions,    \* what the motion reports of the current state goal add up to
    success,    \* outcome.success
    stopped,    \* the kind of outcome.stopped
    outage,     \* history: a recorded step reported an infrastructure failure
    runs        \* history: how often each goal was started

vars == <<continues, phase, plan, attempted, completed, turns, round, attempt, contacts, motions,
          success, stopped, outage, runs>>
inner == <<attempt, contacts, motions>>
outer == <<continues, plan, attempted, round>>
result == <<success, stopped>>
past == <<outage, runs>>

Least(a, b) == IF a < b THEN a ELSE b

\* The history of a goal whose mechanism was not moved yet.
NoMotion == [claimed |-> FALSE, stalled |-> FALSE, went |-> 0]

Plans == UNION {[1..n -> Goals] : n \in 0..MaxPlan}

\* plan_instruction: a plan with semantic warnings is reviewed once; the review
\* replaces the plan unless it holds no valid goal.
PlanOf(first, second) == IF second # <<>> THEN second ELSE first

Init ==
    /\ continues \in Anytime
    /\ phase = "plan" /\ plan = <<>> /\ attempted = {} /\ completed = <<>>
    /\ turns = 0 /\ round = 0 /\ attempt = 0 /\ contacts = {} /\ motions = NoMotion
    /\ success = FALSE /\ stopped = "" /\ outage = FALSE
    /\ runs = [g \in Goals |-> 0]

-----------------------------------------------------------------------------
(* Planning.                                                               *)

Positive(results) == \A i \in 1..Len(results) : results[i]

ConcludeOnLast(results) ==  \* mutant: the last goal decides
    /\ success' = (results # <<>> /\ results[Len(results)])
    /\ stopped' = IF success' THEN "verified" ELSE "results"
    /\ phase' = "over"

Conclude(results) ==
    /\ success' = (results # <<>> /\ Positive(results))
    /\ stopped' = IF success' THEN "verified" ELSE "results"
    /\ phase' = "over"

\* The planner did not answer, or answered without a valid goal.
PlanFails ==
    /\ phase = "plan" /\ round = 0
    /\ phase' = "over" /\ stopped' = "planner"
    /\ UNCHANGED <<outer, completed, turns, inner, success, past>>

FirstPlan ==
    /\ phase = "plan" /\ round = 0
    /\ \E first \in Plans, second \in {<<>>} \cup {<<g>> : g \in Goals} :
         /\ PlanOf(first, second) # <<>>
         /\ plan' = PlanOf(first, second)
    /\ phase' = "goal"
    /\ UNCHANGED <<continues, attempted, completed, turns, round, inner, result, past>>

\* A continuation keeps only goals that were never attempted: of an arbitrary
\* answer, any plan of such goals may be left.
Replan ==
    /\ phase = "plan" /\ round > 0
    /\ \E fresh \in Plans :
         /\ \A i \in DOMAIN fresh : fresh[i] \notin attempted
         /\ IF fresh = <<>>
            THEN Conclude(completed) /\ UNCHANGED plan
            ELSE plan' = fresh /\ phase' = "goal" /\ UNCHANGED result
    /\ UNCHANGED <<continues, attempted, completed, turns, round, inner, past>>

-----------------------------------------------------------------------------
(* The loop over the goals.                                                *)

AnyGoal == plan # <<>>  \* mutant

\* A goal that was attempted before, in this plan or an earlier one, is skipped.
NewGoal == plan # <<>> /\ Head(plan) \notin attempted

Requeued == Append(Tail(plan), Head(plan))  \* mutant

\* What is left of the plan once its first goal is dealt with.
Rest == Tail(plan)

SkipGoal ==
    /\ phase = "goal" /\ plan # <<>> /\ ~NewGoal
    /\ plan' = Rest
    /\ UNCHANGED <<continues, phase, attempted, completed, turns, round, inner, result, past>>

NoTurnsLeft ==
    /\ phase = "goal" /\ NewGoal /\ turns >= EpisodeTurns
    /\ attempted' = attempted \cup {Head(plan)}
    /\ completed' = Append(completed, FALSE)
    /\ Conclude(completed')
    /\ UNCHANGED <<continues, plan, turns, round, inner, past>>

StartGoal ==
    /\ phase = "goal" /\ NewGoal /\ turns < EpisodeTurns
    /\ attempted' = attempted \cup {Head(plan)}
    /\ runs' = [runs EXCEPT ![Head(plan)] = @ + 1]
    /\ phase' = CASE Skill[Head(plan)] = "transport" -> "transport"
                  [] Skill[Head(plan)] = "stack" -> "stack"
                  [] Skill[Head(plan)] = "state" -> "precheck"
    /\ attempt' = 0 /\ contacts' = {} /\ motions' = NoMotion
    /\ UNCHANGED <<continues, plan, completed, turns, round, result, outage>>

GoOn(verdict) == TRUE  \* mutant

\* Dependency-ordered tasks stop behind a failed goal.
MayGoOn(verdict) == verdict \/ continues

\* The goal ended with this verdict: fail closed unless the task is anytime.
EndGoal(verdict) ==
    /\ completed' = Append(completed, verdict)
    /\ plan' = Rest
    /\ IF MayGoOn(verdict)
       THEN phase' = "goal" /\ UNCHANGED result
       ELSE Conclude(completed')
    /\ UNCHANGED <<continues, attempted, round>>

\* The plan is used up: an anytime task plans again while turns and rounds last.
EndOfPlan ==
    /\ phase = "goal" /\ plan = <<>>
    /\ IF continues /\ turns < EpisodeTurns /\ round < MaxReplans
       THEN phase' = "plan" /\ round' = round + 1 /\ UNCHANGED result
       ELSE Conclude(completed) /\ UNCHANGED round
    /\ UNCHANGED <<continues, plan, attempted, completed, turns, inner, past>>

\* The continuation planner did not answer: the results so far stand.
ReplanFails ==
    /\ phase = "plan" /\ round > 0
    /\ Conclude(completed)
    /\ UNCHANGED <<outer, completed, turns, inner, past>>

-----------------------------------------------------------------------------
(* Transport goals.                                                        *)

Transport ==
    /\ phase = "transport"
    /\ \E used \in 1..Least(EpisodeTurns - turns, SubTurns),
          end \in {"success", "stopped", "inconclusive"} :
         /\ turns' = turns + used
         /\ outage' = (outage \/ end = "inconclusive")
         /\ EndGoal(end = "success")
    /\ UNCHANGED <<inner, runs>>

-----------------------------------------------------------------------------
(* Tool steps of state and stack goals.                                    *)

\* A recorded step costs a turn; one that reports an outage fails the goal.
StepFails ==
    /\ phase \in {"precheck", "motion", "verify", "stack", "stackcheck"} /\ turns < EpisodeTurns
    /\ turns' = turns + 1 /\ outage' = TRUE
    /\ EndGoal(FALSE)
    /\ UNCHANGED <<inner, runs>>

\* The goal's loop finds no turn left.
GoalOutOfTurns ==
    /\ phase \in {"motion", "stack"} /\ turns >= EpisodeTurns
    /\ EndGoal(FALSE)
    /\ UNCHANGED <<turns, inner, past>>

Stay(next) ==
    /\ phase' = next
    /\ UNCHANGED <<outer, completed, result>>

-----------------------------------------------------------------------------
(* State goals.                                                            *)

\* A motion reports whether it met its own goal and how far it went: nothing
\* reliable, a stall on contact, a part of the stroke or angle, all of it.
MotionReports == [match : BOOLEAN, travel : {"unknown", "stall", "part", "full"}]

AddMotion(history, rep) ==
    [claimed |-> rep.match, stalled |-> rep.travel = "stall",
     went |-> CASE rep.travel = "full" -> 2
                [] rep.travel = "part" -> Least(history.went + 1, 2)
                [] rep.travel \in {"unknown", "stall"} -> history.went]

\* _do_check_state: what the motion history says of the requested state.  The
\* last report may claim the goal; a drawer that moved and then stalled on
\* contact is at its stop; a door's partial rotations add up.
MotionSupports(history) ==
    \/ history.claimed
    \/ Mechanism = "prismatic" /\ history.stalled /\ history.went > 0
    \/ Mechanism = "revolute" /\ history.went = 2

\* check_state before any motion, then the visual decision whether to move at
\* all; without a decision the (still empty) motion history stands in for it.
Precheck ==
    /\ phase = "precheck"
    /\ turns' = turns + 1
    /\ \E satisfied \in BOOLEAN : IF satisfied THEN EndGoal(TRUE) ELSE Stay("motion")
    /\ UNCHANGED <<inner, past>>

\* A last-turn motion is judged by its own report.
Motion ==
    /\ phase = "motion" /\ turns < EpisodeTurns
    /\ turns' = turns + 1
    /\ \E rep \in MotionReports, used \in SUBSET Contacts :
         /\ Cardinality(used) <= 1
         /\ contacts' = contacts \cup used
         /\ motions' = AddMotion(motions, rep)
         /\ IF turns' >= EpisodeTurns
            THEN EndGoal(rep.match) ELSE Stay("verify")
    /\ UNCHANGED <<attempt, outage, runs>>

Verify ==
    /\ phase = "verify" /\ turns < EpisodeTurns
    /\ turns' = turns + 1
    /\ Stay("decide")
    /\ UNCHANGED <<inner, past>>

\* What the visual agent answers; without an answer the motion history decides.
Decisions == {"satisfied", "retry", "give up"}
Unanswered == IF MotionSupports(motions) THEN "satisfied" ELSE "retry"

\* A drawer or door is pulled again only with a strategy that was not tried; a
\* control falls back to the last rung of its ladder.
ContactLeft == Mechanism = "control" \/ contacts # Contacts

\* The visual agent owns the state decision.  A retry needs another attempt
\* and a contact strategy that was not tried.
StateDecision ==
    /\ phase = "decide"
    /\ attempt' = attempt + 1
    /\ \E answer \in Decisions \cup {"none"} :
         LET decision == IF answer = "none" THEN Unanswered ELSE answer IN
         CASE decision = "satisfied" -> EndGoal(TRUE)
           [] decision = "retry" /\ attempt' < MaxState /\ ContactLeft -> Stay("motion")
           [] decision = "give up" \/ (decision = "retry" /\ ~(attempt' < MaxState /\ ContactLeft)) ->
                  EndGoal(FALSE)
    /\ UNCHANGED <<turns, contacts, motions, past>>

-----------------------------------------------------------------------------
(* Stack goals.                                                            *)

\* stack declined before contact, or moved; the last turn again has no check.
Stack ==
    /\ phase = "stack" /\ turns < EpisodeTurns
    /\ turns' = turns + 1
    /\ \E rep \in {"preflight", "moved", "failed"} :
         /\ IF rep = "preflight" THEN EndGoal(FALSE)
            ELSE IF turns' >= EpisodeTurns
            THEN EndGoal(rep = "moved")
            ELSE Stay("stackcheck")
    /\ UNCHANGED <<inner, outage, runs>>

\* Only a reliable miss of distinguishable objects is stacked again.
StackCheck ==
    /\ phase = "stackcheck" /\ turns < EpisodeTurns
    /\ turns' = turns + 1 /\ attempt' = attempt + 1
    /\ \E check \in {"placed", "miss", "unreliable", "vessel"} :
         CASE check = "placed" -> EndGoal(TRUE)
           [] check = "miss" /\ attempt' < MaxStack -> Stay("stack")
           [] check \in {"unreliable", "vessel"} \/ (check = "miss" /\ attempt' >= MaxStack) -> EndGoal(FALSE)
    /\ UNCHANGED <<contacts, motions, past>>

Over == phase = "over" /\ UNCHANGED vars

Next ==
    \/ PlanFails \/ FirstPlan \/ Replan \/ ReplanFails \/ EndOfPlan
    \/ SkipGoal \/ NoTurnsLeft \/ StartGoal \/ Transport
    \/ StepFails \/ GoalOutOfTurns
    \/ Precheck \/ Motion \/ Verify \/ StateDecision
    \/ Stack \/ StackCheck \/ Over

Spec == Init /\ [][Next]_vars

\* The agent is one sequential program whose calls all return.
FairSpec == Spec /\ WF_vars(Next)

-----------------------------------------------------------------------------
TypeOK ==
    /\ continues \in BOOLEAN /\ plan \in Seq(Goals) /\ attempted \subseteq Goals
    /\ phase \in {"plan", "goal", "transport", "precheck", "motion", "verify", "decide",
                  "stack", "stackcheck", "over"}
    /\ completed \in Seq(BOOLEAN) /\ turns \in 0..EpisodeTurns /\ round \in 0..MaxReplans
    /\ attempt \in Nat /\ contacts \subseteq Contacts /\ motions \in [claimed : BOOLEAN, stalled : BOOLEAN, went : 0..2]
    /\ success \in BOOLEAN /\ stopped \in {"", "planner", "verified", "results"}
    /\ outage \in BOOLEAN /\ runs \in [Goals -> Nat]

\* An episode in which a step had no visual evidence is never a success,
\* however many goals and replans follow it.
OutageNeverSuccess == outage => ~success

\* No goal is started twice in an episode: not by a plan that lists it twice,
\* not by a continuation.
NoGoalRepeated == \A g \in Goals : runs[g] <= 1

\* Success needs a result for every goal that was started, all of them positive,
\* and a dependency-ordered task starts no goal behind a failed one.
FailClosed ==
    /\ success => Len(completed) = Cardinality(attempted) /\ Positive(completed)
    /\ ~continues /\ phase \notin {"over", "plan"} => Positive(completed)

\* Every episode ends: goals, retries and continuations share one turn budget.
EpisodeEnds == <>(phase = "over")
=============================================================================
