--------------------------- MODULE FullReactProofs ---------------------------
(***************************************************************************)
(* What holds of a full-task episode for any goals, budgets and planner:   *)
(* an outage is never a success, no goal runs twice, success has a verdict *)
(* for every goal.                                                         *)
(***************************************************************************)
EXTENDS FullReact, FiniteSetTheorems, TLAPS

\* A goal is being executed.
Executing == phase \in {"transport", "precheck", "motion", "verify", "decide",
                        "stack", "stackcheck"}

\* What the argument needs of the types.
Shape ==
    /\ continues \in BOOLEAN /\ outage \in BOOLEAN /\ success \in BOOLEAN
    /\ plan \in Seq(Goals) /\ completed \in Seq(BOOLEAN)
    /\ attempted \subseteq Goals /\ IsFiniteSet(attempted)
    /\ runs \in [Goals -> Nat] /\ round \in Nat /\ attempt \in Nat
    /\ Executing \/ phase \in {"plan", "goal", "over"}

\* Every attempted goal has its result, except the one that is executing.
Accounted ==
    /\ Executing => Cardinality(attempted) = Len(completed) + 1 /\ plan # <<>>
    /\ ~Executing => Cardinality(attempted) = Len(completed)

\* A goal was started at most once, and only if it was attempted.
StartedOnce ==
    /\ \A g \in Goals : runs[g] <= 1
    /\ \A g \in Goals \ attempted : runs[g] = 0

\* What stands between the results and a success.
Honest ==
    /\ success => phase = "over" /\ Positive(completed)
    /\ outage => ~Positive(completed)
    /\ ~continues /\ phase # "over" => Positive(completed)

Inv == Shape /\ Accounted /\ StartedOnce /\ Honest

-----------------------------------------------------------------------------
\* ---- lists of results ----

LEMMA OneMoreResult ==
  ASSUME NEW s \in Seq(BOOLEAN), NEW v \in BOOLEAN
  PROVE  /\ Append(s, v) \in Seq(BOOLEAN)
         /\ Len(Append(s, v)) = Len(s) + 1
         /\ Positive(Append(s, v)) <=> Positive(s) /\ v
<1>1. /\ Append(s, v) \in Seq(BOOLEAN)
      /\ Len(Append(s, v)) = Len(s) + 1 /\ Len(s) \in Nat
      /\ \A i \in 1..Len(s) : Append(s, v)[i] = s[i]
      /\ Append(s, v)[Len(s) + 1] = v
  OBVIOUS
<1>2. 1..(Len(s) + 1) = (1..Len(s)) \cup {Len(s) + 1}
  BY <1>1
<1>3. Positive(Append(s, v)) <=> \A i \in (1..Len(s)) \cup {Len(s) + 1} : Append(s, v)[i]
  BY <1>1, <1>2 DEF Positive
<1>4. @ <=> (\A i \in 1..Len(s) : s[i]) /\ v
  BY <1>1
<1> QED
  BY <1>1, <1>3, <1>4 DEF Positive

LEMMA NoResults == Positive(<<>>) /\ Len(<<>>) = 0
  BY DEF Positive

LEMMA FirstGoal ==
  ASSUME Shape, plan # <<>>
  PROVE  Head(plan) \in Goals /\ Tail(plan) \in Seq(Goals)
  BY DEF Shape

LEMMA OneMoreGoal ==
  ASSUME Inv, NewGoal
  PROVE  /\ Head(plan) \in Goals
         /\ attempted \cup {Head(plan)} \subseteq Goals
         /\ IsFiniteSet(attempted \cup {Head(plan)})
         /\ Cardinality(attempted \cup {Head(plan)}) = Cardinality(attempted) + 1
  BY FirstGoal, FS_AddElement DEF Inv, Shape, NewGoal

-----------------------------------------------------------------------------
\* ---- how a goal ends and goes on ----

LEMMA Concluding ==
  ASSUME NEW s, Conclude(s)
  PROVE  success' \in BOOLEAN /\ (success' => Positive(s)) /\ phase' = "over"
  BY DEF Conclude

\* Ending a goal adds its verdict; a failed goal ends a dependent task.
LEMMA Ending ==
  ASSUME Inv, Executing, NEW verdict \in BOOLEAN, EndGoal(verdict),
         runs' = runs, attempt' \in Nat, outage' \in BOOLEAN, outage' => outage \/ ~verdict
  PROVE  Inv'
<1>1. /\ completed' \in Seq(BOOLEAN) /\ Len(completed') = Len(completed) + 1
      /\ Positive(completed') <=> Positive(completed) /\ verdict
  BY OneMoreResult DEF Inv, Shape, EndGoal
<1>2. /\ phase' \in {"goal", "over"} /\ ~Executing'
      /\ success' \in BOOLEAN
      /\ success' => phase' = "over" /\ Positive(completed')
      /\ phase' = "goal" => verdict \/ continues
  <2>1. CASE MayGoOn(verdict)
    <3>1. phase' = "goal" /\ success' = success
      BY <2>1 DEF EndGoal, result
    <3>2. success \in BOOLEAN /\ ~success
      BY DEF Executing, Inv, Shape, Honest
    <3>3. verdict \/ continues
      BY <2>1 DEF MayGoOn
    <3> QED
      BY <3>1, <3>2, <3>3 DEF Executing
  <2>2. CASE ~MayGoOn(verdict)
    <3>1. Conclude(completed')
      BY <2>2 DEF EndGoal
    <3> QED
      BY <3>1, Concluding DEF Executing
  <2> QED
    BY <2>1, <2>2
<1>3. plan' \in Seq(Goals)
  BY FirstGoal DEF EndGoal, Rest, Inv, Accounted
<1>4. Shape'
  BY <1>1, <1>2, <1>3 DEF Inv, Shape, EndGoal
<1>5. Accounted'
  BY <1>1, <1>2 DEF Inv, Accounted, EndGoal
<1>6. StartedOnce'
  BY DEF Inv, StartedOnce, EndGoal
<1>7. Honest'
  <2>1. phase # "over"
    BY DEF Executing
  <2> QED
    BY <1>1, <1>2, <2>1 DEF Inv, Honest, EndGoal
<1> QED
  BY <1>4, <1>5, <1>6, <1>7 DEF Inv

LEMMA Staying ==
  ASSUME Inv, Executing,
         NEW next \in {"transport", "precheck", "motion", "verify", "decide", "stack", "stackcheck"},
         Stay(next), runs' = runs, attempt' \in Nat, outage' = outage
  PROVE  Inv'
<1>1. phase # "over" /\ phase' # "over" /\ Executing'
  BY DEF Executing, Stay
<1>2. Shape'
  BY <1>1 DEF Inv, Shape, Stay, outer, result
<1>3. Accounted' /\ StartedOnce'
  BY <1>1 DEF Inv, Accounted, StartedOnce, Stay, outer
<1>4. Honest'
  BY <1>1 DEF Inv, Honest, Stay, outer, result
<1> QED
  BY <1>2, <1>3, <1>4 DEF Inv

\* A step of a goal either goes on or ends the goal.
LEMMA GoalSteps ==
  ASSUME Inv, Transport \/ StepFails \/ GoalOutOfTurns \/ Precheck \/ Motion \/ Verify
              \/ StateDecision \/ Stack \/ StackCheck
  PROVE  Inv'
<1>1. Executing /\ attempt \in Nat /\ outage \in BOOLEAN
  BY DEF Executing, Transport, StepFails, GoalOutOfTurns, Precheck, Motion, Verify,
         StateDecision, Stack, StackCheck, Inv, Shape
<1>2. CASE Transport
  BY <1>1, <1>2, Ending DEF Transport, inner
<1>3. CASE StepFails
  BY <1>1, <1>3, Ending DEF StepFails, inner
<1>4. CASE GoalOutOfTurns
  BY <1>1, <1>4, Ending DEF GoalOutOfTurns, inner, past
<1>5. CASE Precheck
  BY <1>1, <1>5, Ending, Staying DEF Precheck, inner, past
<1>6. CASE Motion
  <2>1. PICK rep \in MotionReports : EndGoal(rep.match) \/ Stay("verify")
    BY <1>6 DEF Motion
  <2>2. rep.match \in BOOLEAN
    BY DEF MotionReports
  <2> QED
    BY <1>1, <1>6, <2>1, <2>2, Ending, Staying DEF Motion, inner
<1>7. CASE Verify
  BY <1>1, <1>7, Staying DEF Verify, inner, past
<1>8. CASE StateDecision
  <2>1. PICK answer \in Decisions \cup {"none"} :
          LET decision == IF answer = "none" THEN Unanswered ELSE answer IN
          CASE decision = "satisfied" -> EndGoal(TRUE)
            [] decision = "retry" /\ attempt' < MaxState /\ ContactLeft -> Stay("motion")
            [] decision = "give up" \/ (decision = "retry" /\ ~(attempt' < MaxState /\ ContactLeft)) ->
                   EndGoal(FALSE)
    BY <1>8 DEF StateDecision
  <2>2. (IF answer = "none" THEN Unanswered ELSE answer) \in Decisions
    BY DEF Decisions, Unanswered
  <2>3. EndGoal(TRUE) \/ Stay("motion") \/ EndGoal(FALSE)
    BY <2>1, <2>2 DEF Decisions
  <2>4. attempt' \in Nat /\ runs' = runs /\ outage' = outage
    <3>1. attempt' = attempt + 1 /\ UNCHANGED <<turns, contacts, motions, past>>
      BY <1>8, Zenon DEF StateDecision
    <3> QED
      BY <1>1, <3>1 DEF past
  <2> QED
    BY <1>1, <2>3, <2>4, Ending, Staying
<1>9. CASE Stack
  BY <1>1, <1>9, Ending, Staying DEF Stack, inner
<1>10. CASE StackCheck
  <2>1. EndGoal(TRUE) \/ Stay("stack") \/ EndGoal(FALSE)
    <3>1. PICK check \in {"placed", "miss", "unreliable", "vessel"} :
            CASE check = "placed" -> EndGoal(TRUE)
              [] check = "miss" /\ attempt' < MaxStack -> Stay("stack")
              [] check \in {"unreliable", "vessel"} \/ (check = "miss" /\ attempt' >= MaxStack) -> EndGoal(FALSE)
      BY <1>10 DEF StackCheck
    <3>2. attempt' < MaxStack \/ attempt' >= MaxStack
      BY <1>10, FullAssumption DEF FullAssumption, StackCheck, Inv, Shape
    <3> QED
      BY <3>1, <3>2
  <2>2. attempt' \in Nat /\ runs' = runs /\ outage' = outage
    BY <1>1, <1>10 DEF StackCheck, past
  <2> QED
    BY <1>1, <2>1, <2>2, Ending, Staying
<1> QED
  BY <1>2, <1>3, <1>4, <1>5, <1>6, <1>7, <1>8, <1>9, <1>10

-----------------------------------------------------------------------------
\* ---- planning and the loop over the goals ----

LEMMA Initially == Init => Inv
<1> SUFFICES ASSUME Init PROVE Inv
  OBVIOUS
<1>1. Shape
  <2>1. continues \in BOOLEAN
    BY FullAssumption DEF Init, FullAssumption
  <2>2. runs \in [Goals -> Nat]
    BY DEF Init
  <2>3. plan \in Seq(Goals) /\ completed \in Seq(BOOLEAN)
    <3>1. plan = <<>> /\ completed = <<>>
      BY DEF Init
    <3> QED
      BY <3>1
  <2>4. attempted \subseteq Goals /\ IsFiniteSet(attempted)
    BY FS_EmptySet DEF Init
  <2> QED
    BY <2>1, <2>2, <2>3, <2>4 DEF Init, Shape
<1>2. Accounted
  BY FS_EmptySet, NoResults DEF Init, Accounted, Executing
<1>3. StartedOnce
  <2>1. \A g \in Goals : runs[g] = 0
    BY DEF Init
  <2> QED
    BY <2>1 DEF StartedOnce
<1>4. Honest
  BY NoResults DEF Init, Honest
<1> QED
  BY <1>1, <1>2, <1>3, <1>4 DEF Inv

\* A step between two goals leaves the results alone; only Conclude decides.
LEMMA Between ==
  ASSUME Inv, ~Executing, ~Executing', phase' \in {"plan", "goal", "over"},
         plan' \in Seq(Goals), round' \in Nat, phase # "over" \/ phase' = "over",
         success' \in BOOLEAN, success' => phase' = "over" /\ Positive(completed'),
         UNCHANGED <<continues, attempted, completed, attempt, outage, runs>>
  PROVE  Inv'
<1>1. Shape'
  BY DEF Inv, Shape
<1>2. Accounted' /\ StartedOnce'
  BY DEF Inv, Accounted, StartedOnce
<1>3. Honest'
  BY DEF Inv, Honest
<1> QED
  BY <1>1, <1>2, <1>3 DEF Inv

LEMMA PlansTyped == \A p \in Plans : p \in Seq(Goals)
  BY FullAssumption DEF Plans, FullAssumption

LEMMA PlanningSteps ==
  ASSUME Inv, PlanFails \/ FirstPlan \/ Replan \/ ReplanFails \/ EndOfPlan \/ SkipGoal
  PROVE  Inv'
<1>1. CASE PlanFails
  BY <1>1, Between DEF PlanFails, inner, outer, past, Executing, Inv, Shape, Honest
<1>2. CASE FirstPlan
  <2>1. plan' \in Seq(Goals)
    <3>1. PICK first \in Plans, second \in {<<>>} \cup {<<g>> : g \in Goals} :
            plan' = PlanOf(first, second)
      BY <1>2 DEF FirstPlan
    <3>2. second \in Seq(Goals)
      <4>1. <<>> \in Seq(Goals) /\ \A g \in Goals : <<g>> \in Seq(Goals)
        OBVIOUS
      <4> QED
        BY <4>1, Zenon
    <3> QED
      BY <3>1, <3>2, PlansTyped DEF PlanOf
  <2> QED
    BY <1>2, <2>1, Between DEF FirstPlan, inner, result, past, Executing, Inv, Shape, Honest
<1>3. CASE Replan
  <2>1. plan' \in Seq(Goals)
    BY <1>3, PlansTyped DEF Replan, Inv, Shape
  <2> QED
    BY <1>3, <2>1, Between DEF Replan, inner, Conclude, result, past, Executing, Inv, Shape, Honest
<1>4. CASE ReplanFails
  BY <1>4, Between DEF ReplanFails, inner, Conclude, outer, past, Executing, Inv, Shape
<1>5. CASE EndOfPlan
  <2>1. CASE continues /\ turns < EpisodeTurns /\ round < MaxReplans
    BY <1>5, <2>1, Between DEF EndOfPlan, inner, result, past, Executing, Inv, Shape, Honest
  <2>2. CASE ~(continues /\ turns < EpisodeTurns /\ round < MaxReplans)
    <3>1. Conclude(completed) /\ UNCHANGED <<continues, plan, attempted, completed, round, attempt, outage, runs>>
      BY <1>5, <2>2 DEF EndOfPlan, past, inner
    <3>2. phase = "goal"
      BY <1>5 DEF EndOfPlan
    <3> QED
      BY <3>1, <3>2, Concluding, Between DEF Executing, Inv, Shape
  <2> QED
    BY <2>1, <2>2
<1>6. CASE SkipGoal
  <2>1. plan' \in Seq(Goals)
    BY <1>6, FirstGoal DEF SkipGoal, Rest, Inv
  <2> QED
    BY <1>6, <2>1, Between DEF SkipGoal, inner, result, past, Executing, Inv, Shape, Honest
<1> QED
  BY <1>1, <1>2, <1>3, <1>4, <1>5, <1>6

\* A new goal is attempted for the first time, with or without turns left.
LEMMA Starting == ASSUME Inv, StartGoal PROVE Inv'
<1>1. /\ phase = "goal" /\ ~Executing /\ Executing' /\ phase' # "over"
      /\ plan # <<>> /\ UNCHANGED <<continues, plan, completed, round, success, outage>>
  <2>1. Skill[Head(plan)] \in {"transport", "stack", "state"}
    BY OneMoreGoal, FullAssumption DEF FullAssumption, StartGoal
  <2>2. phase' \in {"transport", "stack", "precheck"}
    BY <2>1 DEF StartGoal
  <2> QED
    BY <2>2 DEF StartGoal, NewGoal, Executing, result
<1>2. runs' \in [Goals -> Nat]
  BY OneMoreGoal DEF StartGoal, Inv, Shape
<1>3. Shape'
  BY <1>1, <1>2, OneMoreGoal DEF StartGoal, Inv, Shape, Executing
<1>4. Accounted'
  BY <1>1, OneMoreGoal DEF StartGoal, Inv, Accounted
<1>5. StartedOnce'
  BY OneMoreGoal DEF StartGoal, NewGoal, Inv, Shape, StartedOnce
<1>6. Honest'
  BY <1>1 DEF Inv, Honest
<1> QED
  BY <1>3, <1>4, <1>5, <1>6 DEF Inv

LEMMA OutOfTurns == ASSUME Inv, NoTurnsLeft PROVE Inv'
<1>1. /\ completed' \in Seq(BOOLEAN) /\ Len(completed') = Len(completed) + 1
      /\ ~Positive(completed')
  BY OneMoreResult DEF NoTurnsLeft, Inv, Shape
<1>2. ~Executing /\ ~Executing' /\ phase' = "over" /\ success' = FALSE
  <2>1. Conclude(completed')
    BY DEF NoTurnsLeft
  <2> QED
    BY <1>1, <2>1, Concluding DEF NoTurnsLeft, Executing
<1>3. Shape'
  BY <1>1, <1>2, OneMoreGoal DEF NoTurnsLeft, Inv, Shape, past, inner
<1>4. Accounted'
  BY <1>1, <1>2, OneMoreGoal DEF NoTurnsLeft, Inv, Accounted
<1>5. StartedOnce'
  BY OneMoreGoal DEF NoTurnsLeft, Inv, StartedOnce, past
<1>6. Honest'
  BY <1>1, <1>2 DEF Honest
<1> QED
  BY <1>3, <1>4, <1>5, <1>6 DEF Inv

-----------------------------------------------------------------------------
\* ---- types, and how an episode runs down ----

MotionType == [claimed : BOOLEAN, stalled : BOOLEAN, went : 0..2]

\* The steps that the code takes without looking at the turns find one left.
TurnLeft == phase \in {"transport", "precheck", "verify", "stackcheck"} => turns < EpisodeTurns

\* A plan is one that the planner returned, or the single goal of its review.
Typed == TypeOK /\ TurnLeft /\ Len(plan) <= MaxPlan + 1

\* The budgets as numbers.
LEMMA BudgetsAreNumbers ==
    /\ EpisodeTurns \in Nat /\ SubTurns \in Nat /\ SubTurns > 0 /\ MaxState \in Nat
    /\ MaxStack \in Nat /\ MaxReplans \in Nat /\ MaxPlan \in Nat
  BY FullAssumption DEF FullAssumption

\* A report is added to a history of reports.
LEMMA MotionAdded ==
  ASSUME NEW h \in MotionType, NEW rep \in MotionReports
  PROVE  AddMotion(h, rep) \in MotionType
<1>1. rep.match \in BOOLEAN /\ rep.travel \in {"unknown", "stall", "part", "full"}
  BY DEF MotionReports
<1>2. h.went \in 0..2 /\ Least(h.went + 1, 2) \in 0..2
  BY DEF MotionType, Least
<1>3. (CASE rep.travel = "full" -> 2
         [] rep.travel = "part" -> Least(h.went + 1, 2)
         [] rep.travel \in {"unknown", "stall"} -> h.went) \in 0..2
  BY <1>1, <1>2
<1>4. (rep.travel = "stall") \in BOOLEAN
  OBVIOUS
<1> QED
  BY <1>1, <1>3, <1>4, Zenon DEF AddMotion, MotionType

\* What a step of the current goal does to the turns, the attempts and the history.
GoalBooks ==
    /\ turns' \in 0..EpisodeTurns /\ turns' >= turns /\ attempt' \in Nat
    /\ contacts' \subseteq Contacts /\ motions' \in MotionType
    /\ outage' \in BOOLEAN /\ runs' = runs

\* The weight of a phase: what is left of the plan, and where in a goal it is.
RoundWeight == 3 * MaxPlan + 5
Weight ==
    CASE phase = "plan" -> RoundWeight
      [] phase = "goal" -> 3 * Len(plan) + 1
      [] phase \in {"precheck", "decide"} -> 3 * Len(plan)
      [] phase \in {"transport", "motion", "verify", "stack", "stackcheck"} -> 3 * Len(plan) - 1
      [] phase = "over" -> 0

\* What an episode has left: turns, continuations, and its place in the plan.
Remaining == 4 * (EpisodeTurns - turns) + (MaxReplans - round) * RoundWeight + Weight

\* The numbers of a state.
LEMMA Numbers ==
  ASSUME Typed
  PROVE  /\ turns \in Nat /\ turns <= EpisodeTurns /\ round \in Nat /\ round <= MaxReplans
         /\ attempt \in Nat /\ Len(plan) <= MaxPlan + 1
         /\ phase \in {"plan", "goal", "transport", "precheck", "motion", "verify", "decide",
                       "stack", "stackcheck", "over"}
<1>1. turns \in 0..EpisodeTurns /\ round \in 0..MaxReplans
  BY Zenon DEF Typed, TypeOK
<1>2. attempt \in Nat /\ Len(plan) <= MaxPlan + 1
      /\ phase \in {"plan", "goal", "transport", "precheck", "motion", "verify", "decide",
                    "stack", "stackcheck", "over"}
  BY Zenon DEF Typed, TypeOK
<1> QED
  BY <1>1, <1>2, BudgetsAreNumbers

\* A state has a number of steps left, and none only when the episode is over.
LEMMA WeightsAreNumbers ==
  Inv /\ Typed => Weight \in Nat /\ Remaining \in Nat /\ (phase # "over" => Weight > 0)
<1> SUFFICES ASSUME Inv, Typed
             PROVE  Weight \in Nat /\ Remaining \in Nat /\ (phase # "over" => Weight > 0)
  OBVIOUS
<1>1. Len(plan) \in Nat /\ (Executing => Len(plan) > 0)
  BY DEF Inv, Shape, Accounted
<1>2. Weight \in Nat /\ (phase # "over" => Weight > 0)
  BY <1>1, BudgetsAreNumbers, Numbers DEF Weight, RoundWeight, Executing
<1>3. RoundWeight \in Nat
  BY BudgetsAreNumbers DEF RoundWeight
<1>4. \A r \in Nat : r * RoundWeight \in Nat
  BY <1>3
<1>5. MaxReplans - round \in Nat /\ EpisodeTurns - turns \in Nat
  BY BudgetsAreNumbers, Numbers
<1>6. (MaxReplans - round) * RoundWeight \in Nat
  BY <1>4, <1>5
<1> QED
  BY <1>2, <1>5, <1>6 DEF Remaining

LEMMA Less ==
  ASSUME NEW e \in Nat, NEW q \in Nat, NEW t \in Nat, NEW t1 \in Nat, NEW w \in Nat, NEW w1 \in Nat,
         4 * t + w1 < 4 * t1 + w
  PROVE  4 * (e - t1) + q + w1 < 4 * (e - t) + q + w
  OBVIOUS

\* With the continuations unchanged, turns and weight decide.
LEMMA SameRound ==
  ASSUME Inv, Typed, Inv', Typed', round' = round, turns' \in Nat,
         4 * turns + Weight' < 4 * turns' + Weight
  PROVE  Remaining' < Remaining
<1>1. RoundWeight' = RoundWeight
  BY DEF RoundWeight
<1>2. PICK q \in Nat : q = (MaxReplans - round) * RoundWeight
  <2>1. RoundWeight \in Nat /\ MaxReplans - round \in Nat
    BY BudgetsAreNumbers, Numbers DEF RoundWeight
  <2>2. \A a, b \in Nat : a * b \in Nat
    OBVIOUS
  <2> QED
    BY <2>1, <2>2
<1>3. Weight \in Nat /\ Weight' \in Nat /\ turns \in Nat /\ EpisodeTurns \in Nat
  <2>1. Weight \in Nat
    BY WeightsAreNumbers
  <2>2. (Weight \in Nat)'
    BY WeightsAreNumbers, PTL
  <2> QED
    BY <2>1, <2>2, BudgetsAreNumbers, Numbers
<1>4. Remaining = 4 * (EpisodeTurns - turns) + q + Weight
  BY <1>2 DEF Remaining
<1>5. Remaining' = 4 * (EpisodeTurns - turns') + q + Weight'
  <2> DEFINE w == Weight'
             t == turns'
  <2>1. Remaining' = 4 * (EpisodeTurns - t) + (MaxReplans - round) * RoundWeight + w
    BY <1>1 DEF Remaining
  <2> QED
    BY <1>2, <2>1
<1>6. 4 * (EpisodeTurns - turns') + q + Weight' < 4 * (EpisodeTurns - turns) + q + Weight
  BY <1>3, Less
<1> QED
  BY <1>4, <1>5, <1>6

\* The variables of a step of a goal, typed one by one.
LEMMA StillTyped ==
  ASSUME Typed, GoalBooks, plan' \in Seq(Goals), Len(plan') <= MaxPlan + 1,
         phase' \in {"goal", "transport", "precheck", "motion", "verify", "decide", "stack",
                     "stackcheck", "over"},
         completed' \in Seq(BOOLEAN), success' \in BOOLEAN,
         stopped' \in {"", "planner", "verified", "results"},
         UNCHANGED <<continues, attempted, round>>, TurnLeft'
  PROVE  Typed'
<1>1. runs' \in [Goals -> Nat] /\ continues' \in BOOLEAN /\ attempted' \subseteq Goals
      /\ round' \in 0..MaxReplans
  BY Zenon DEF Typed, TypeOK, GoalBooks
<1>2. phase' \in {"plan", "goal", "transport", "precheck", "motion", "verify", "decide",
                  "stack", "stackcheck", "over"}
  OBVIOUS
<1>3. TypeOK'
  BY <1>1, <1>2, Zenon DEF TypeOK, GoalBooks, MotionType
<1> QED
  BY <1>3 DEF Typed

LEMMA Drops ==
  ASSUME NEW l \in Nat, NEW t \in Nat, NEW t1 \in Nat, NEW w \in Nat, NEW w1 \in Nat, t1 >= t
  PROVE  /\ w >= 3 * l - 1 /\ w1 <= 3 * l - 2 => 4 * t + w1 < 4 * t1 + w
         /\ w >= 3 * l - 1 /\ w1 <= 3 * l /\ t1 > t => 4 * t + w1 < 4 * t1 + w
         /\ w = 3 * l /\ w1 = 3 * l - 1 => 4 * t + w1 < 4 * t1 + w
  OBVIOUS

\* The end of a goal brings an episode nearer to its end, a turn or not.
LEMMA GoalEnds ==
  ASSUME Inv, Inv', Typed, Executing, GoalBooks, NEW v \in BOOLEAN, EndGoal(v)
  PROVE  Typed' /\ Remaining' < Remaining
<1>1. /\ plan \in Seq(Goals) /\ plan # <<>> /\ plan' = Tail(plan) /\ plan' \in Seq(Goals)
      /\ Len(plan') = Len(plan) - 1 /\ Len(plan) \in Nat /\ Len(plan) > 0
  BY FirstGoal DEF Inv, Shape, Accounted, EndGoal, Rest
<1>2. completed' \in Seq(BOOLEAN) /\ success' \in BOOLEAN
  BY Zenon DEF Inv, Shape
<1>3. phase' \in {"goal", "over"} /\ stopped' \in {"", "planner", "verified", "results"}
  <2>1. CASE MayGoOn(v)
    <3>1. phase' = "goal" /\ stopped' = stopped
      BY <2>1 DEF EndGoal, result
    <3>2. stopped \in {"", "planner", "verified", "results"}
      BY Zenon DEF Typed, TypeOK
    <3> QED
      BY <3>1, <3>2
  <2>2. CASE ~MayGoOn(v)
    BY <2>2 DEF EndGoal, Conclude
  <2> QED
    BY <2>1, <2>2
<1>4. UNCHANGED <<continues, attempted, round>>
  BY DEF EndGoal
<1>5. Typed'
  <2>1. TurnLeft'
    BY <1>3 DEF TurnLeft
  <2>2. Len(plan') <= MaxPlan + 1
    BY <1>1, Numbers, BudgetsAreNumbers
  <2> QED
    BY <1>1, <1>2, <1>3, <1>4, <2>1, <2>2, StillTyped
<1>6. Weight >= 3 * Len(plan) - 1
  BY <1>1 DEF Weight, Executing
<1>7. Weight' <= 3 * Len(plan) - 2
  <2>1. CASE phase' = "goal"
    <3>1. Weight' = 3 * Len(plan') + 1
      BY <2>1 DEF Weight
    <3> QED
      BY <1>1, <3>1
  <2>2. CASE phase' = "over"
    BY <1>1, <2>2 DEF Weight
  <2> QED
    BY <1>3, <2>1, <2>2
<1>8. turns' \in Nat /\ turns' >= turns
  <2>1. turns' \in 0..EpisodeTurns /\ turns' >= turns
    BY Zenon DEF GoalBooks
  <2> QED
    BY <2>1, BudgetsAreNumbers
<1>9. Weight \in Nat /\ Weight' \in Nat /\ turns \in Nat
  <2>1. (Weight \in Nat)'
    BY <1>5, WeightsAreNumbers, PTL
  <2> QED
    BY <2>1, WeightsAreNumbers, Numbers
<1>10. 4 * turns + Weight' < 4 * turns' + Weight
  BY <1>1, <1>6, <1>7, <1>8, <1>9, Drops
<1> QED
  BY <1>1, <1>5, <1>4, <1>8, <1>10, SameRound

\* Within a goal a step costs a turn, or is the decision to move again.
LEMMA GoalStays ==
  ASSUME Inv, Inv', Typed, Executing, GoalBooks,
         NEW next \in {"motion", "verify", "decide", "stack", "stackcheck"}, Stay(next),
         next \in {"verify", "stackcheck"} => turns' < EpisodeTurns,
         turns' > turns \/ (phase = "decide" /\ next = "motion")
  PROVE  Typed' /\ Remaining' < Remaining
<1>1. /\ plan' = plan /\ plan \in Seq(Goals) /\ Len(plan) \in Nat /\ Len(plan) > 0
      /\ phase' = next /\ UNCHANGED <<continues, attempted, round, success, stopped>>
  BY DEF Inv, Shape, Accounted, Stay, outer, result
<1>2. completed' \in Seq(BOOLEAN) /\ success' \in BOOLEAN
  BY Zenon DEF Inv, Shape
<1>3. stopped' \in {"", "planner", "verified", "results"}
  BY <1>1, Zenon DEF Typed, TypeOK
<1>4. Typed'
  <2>1. TurnLeft'
    BY <1>1 DEF TurnLeft
  <2> QED
    BY <1>1, <1>2, <1>3, <2>1, Numbers, StillTyped
<1>5. Weight \in {3 * Len(plan) - 1, 3 * Len(plan)} /\ (phase = "decide" => Weight = 3 * Len(plan))
  BY <1>1 DEF Weight, Executing
<1>6. /\ Weight' \in {3 * Len(plan) - 1, 3 * Len(plan)}
      /\ next = "motion" => Weight' = 3 * Len(plan) - 1
  BY <1>1 DEF Weight
<1>7. turns' \in Nat /\ turns' >= turns
  <2>1. turns' \in 0..EpisodeTurns /\ turns' >= turns
    BY Zenon DEF GoalBooks
  <2> QED
    BY <2>1, BudgetsAreNumbers
<1>8. Weight \in Nat /\ Weight' \in Nat /\ turns \in Nat
  <2>1. (Weight \in Nat)'
    BY <1>4, WeightsAreNumbers, PTL
  <2> QED
    BY <2>1, WeightsAreNumbers, Numbers
<1>9. 4 * turns + Weight' < 4 * turns' + Weight
  <2>1. CASE turns' > turns
    <3>1. Weight >= 3 * Len(plan) - 1 /\ Weight' <= 3 * Len(plan)
      <4>1. \A w \in {3 * Len(plan) - 1, 3 * Len(plan)} :
              w >= 3 * Len(plan) - 1 /\ w <= 3 * Len(plan)
        BY <1>1
      <4> QED
        BY <1>5, <1>6, <4>1, Zenon
    <3> QED
      BY <1>1, <1>7, <1>8, <2>1, <3>1, Drops
  <2>2. CASE phase = "decide" /\ next = "motion"
    BY <1>1, <1>5, <1>6, <1>7, <1>8, <2>2, Drops
  <2> QED
    BY <2>1, <2>2
<1> QED
  BY <1>1, <1>4, <1>7, <1>9, SameRound

\* Every step of a goal ends it, costs a turn, or decides to move again.
LEMMA GoalStepsRunDown ==
  ASSUME Inv, Inv', Typed,
         Transport \/ StepFails \/ GoalOutOfTurns \/ Precheck \/ Motion \/ Verify
              \/ StateDecision \/ Stack \/ StackCheck
  PROVE  Typed' /\ Remaining' < Remaining
<1>1. Executing
  BY DEF Executing, Transport, StepFails, GoalOutOfTurns, Precheck, Motion, Verify,
         StateDecision, Stack, StackCheck
<1>2. /\ contacts \subseteq Contacts /\ motions \in MotionType /\ outage \in BOOLEAN
      /\ turns \in 0..EpisodeTurns
  BY Zenon DEF Typed, TypeOK, MotionType
<1>3. turns \in Nat /\ attempt \in Nat /\ turns <= EpisodeTurns /\ EpisodeTurns \in Nat
  BY Numbers, BudgetsAreNumbers
\* A turn more, within the budget.
<1>4. turns < EpisodeTurns /\ turns' = turns + 1 =>
        turns' \in 0..EpisodeTurns /\ turns' > turns /\ turns' >= turns /\ turns' \in Nat
  BY <1>3
<1>5. CASE Transport
  <2>1. PICK used \in 1..Least(EpisodeTurns - turns, SubTurns),
             end \in {"success", "stopped", "inconclusive"} :
          /\ turns' = turns + used
          /\ outage' = (outage \/ end = "inconclusive")
          /\ EndGoal(end = "success")
    BY <1>5, Zenon DEF Transport
  <2>2. turns' \in 0..EpisodeTurns /\ turns' >= turns
    <3>1. used \in Nat /\ used <= EpisodeTurns - turns
      BY <1>3, <2>1, BudgetsAreNumbers DEF Least
    <3> QED
      BY <1>3, <2>1, <3>1
  <2>3. outage' \in BOOLEAN /\ (end = "success") \in BOOLEAN
    BY <2>1, Zenon
  <2>4. UNCHANGED <<attempt, contacts, motions, runs>>
    BY <1>5 DEF Transport, inner
  <2>5. GoalBooks
    BY <1>2, <1>3, <2>2, <2>3, <2>4 DEF GoalBooks
  <2> QED
    BY <1>1, <2>1, <2>3, <2>5, GoalEnds
<1>6. CASE StepFails
  <2>1. GoalBooks
    BY <1>2, <1>3, <1>4, <1>6 DEF StepFails, GoalBooks, inner
  <2> QED
    BY <1>1, <1>6, <2>1, GoalEnds DEF StepFails
<1>7. CASE GoalOutOfTurns
  <2>1. GoalBooks
    BY <1>2, <1>3, <1>7 DEF GoalOutOfTurns, GoalBooks, inner, past
  <2> QED
    BY <1>1, <1>7, <2>1, GoalEnds DEF GoalOutOfTurns
<1>8. CASE Precheck
  <2>1. turns < EpisodeTurns /\ turns' = turns + 1
    BY <1>8 DEF Precheck, Typed, TurnLeft
  <2>2. GoalBooks
    BY <1>2, <1>3, <1>4, <1>8, <2>1 DEF Precheck, GoalBooks, inner, past
  <2>3. EndGoal(TRUE) \/ Stay("motion")
    BY <1>8 DEF Precheck
  <2> QED
    BY <1>1, <1>4, <2>1, <2>2, <2>3, GoalEnds, GoalStays
<1>9. CASE Motion
  <2>1. PICK rep \in MotionReports, used \in SUBSET Contacts :
          /\ contacts' = contacts \cup used /\ motions' = AddMotion(motions, rep)
          /\ IF turns' >= EpisodeTurns THEN EndGoal(rep.match) ELSE Stay("verify")
    BY <1>9 DEF Motion
  <2>2. rep.match \in BOOLEAN
    BY DEF MotionReports
  <2>3. GoalBooks
    BY <1>2, <1>3, <1>4, <1>9, <2>1, MotionAdded DEF Motion, GoalBooks
  <2>4. turns' > turns /\ turns' \in Nat
    BY <1>4, <1>9 DEF Motion
  <2>5. turns' >= EpisodeTurns \/ turns' < EpisodeTurns
    BY <1>3, <2>4
  <2> QED
    BY <1>1, <2>1, <2>2, <2>3, <2>4, <2>5, GoalEnds, GoalStays
<1>10. CASE Verify
  <2>1. GoalBooks
    BY <1>2, <1>3, <1>4, <1>10 DEF Verify, GoalBooks, inner, past
  <2> QED
    BY <1>1, <1>4, <1>10, <2>1, GoalStays DEF Verify
<1>11. CASE StateDecision
  <2>1. PICK answer \in Decisions \cup {"none"} :
          LET decision == IF answer = "none" THEN Unanswered ELSE answer IN
          CASE decision = "satisfied" -> EndGoal(TRUE)
            [] decision = "retry" /\ attempt' < MaxState /\ ContactLeft -> Stay("motion")
            [] decision = "give up" \/ (decision = "retry" /\ ~(attempt' < MaxState /\ ContactLeft)) ->
                   EndGoal(FALSE)
    BY <1>11 DEF StateDecision
  <2>2. (IF answer = "none" THEN Unanswered ELSE answer) \in Decisions
    BY DEF Decisions, Unanswered
  <2>3. EndGoal(TRUE) \/ Stay("motion") \/ EndGoal(FALSE)
    BY <2>1, <2>2 DEF Decisions
  <2>4. phase = "decide" /\ attempt' = attempt + 1 /\ UNCHANGED <<turns, contacts, motions, outage, runs>>
    BY <1>11, Zenon DEF StateDecision, past
  <2>5. GoalBooks
    BY <1>2, <1>3, <2>4 DEF GoalBooks
  <2> QED
    BY <1>1, <2>3, <2>4, <2>5, GoalEnds, GoalStays
<1>12. CASE Stack
  <2>1. PICK rep \in {"preflight", "moved", "failed"} :
          IF rep = "preflight" THEN EndGoal(FALSE)
          ELSE IF turns' >= EpisodeTurns THEN EndGoal(rep = "moved") ELSE Stay("stackcheck")
    BY <1>12 DEF Stack
  <2>2. GoalBooks
    BY <1>2, <1>3, <1>4, <1>12 DEF Stack, GoalBooks, inner
  <2>3. turns' > turns /\ turns' \in Nat
    BY <1>4, <1>12 DEF Stack
  <2>4. turns' >= EpisodeTurns \/ turns' < EpisodeTurns
    BY <1>3, <2>3
  <2> QED
    BY <1>1, <2>1, <2>2, <2>3, <2>4, GoalEnds, GoalStays
<1>13. CASE StackCheck
  <2>1. EndGoal(TRUE) \/ Stay("stack") \/ EndGoal(FALSE)
    <3>1. PICK check \in {"placed", "miss", "unreliable", "vessel"} :
            CASE check = "placed" -> EndGoal(TRUE)
              [] check = "miss" /\ attempt' < MaxStack -> Stay("stack")
              [] check \in {"unreliable", "vessel"} \/ (check = "miss" /\ attempt' >= MaxStack) -> EndGoal(FALSE)
      BY <1>13 DEF StackCheck
    <3>2. attempt' < MaxStack \/ attempt' >= MaxStack
      BY <1>3, <1>13, BudgetsAreNumbers DEF StackCheck
    <3> QED
      BY <3>1, <3>2
  <2>2. GoalBooks
    BY <1>2, <1>3, <1>4, <1>13 DEF StackCheck, GoalBooks, past
  <2> QED
    BY <1>1, <1>4, <1>13, <2>1, <2>2, GoalEnds, GoalStays DEF StackCheck
<1> QED
  BY <1>5, <1>6, <1>7, <1>8, <1>9, <1>10, <1>11, <1>12, <1>13

\* Between two goals the turns do not change.
LEMMA LoopTyped ==
  ASSUME Typed, Inv', turns' = turns, Len(plan') <= MaxPlan + 1, round' \in 0..MaxReplans,
         contacts' \subseteq Contacts, motions' \in MotionType,
         phase' \in {"plan", "goal", "transport", "precheck", "stack", "over"},
         stopped' \in {"", "planner", "verified", "results"}, TurnLeft'
  PROVE  Typed'
<1>1. /\ continues' \in BOOLEAN /\ outage' \in BOOLEAN /\ success' \in BOOLEAN
      /\ plan' \in Seq(Goals) /\ completed' \in Seq(BOOLEAN) /\ attempted' \subseteq Goals
      /\ runs' \in [Goals -> Nat] /\ attempt' \in Nat
  BY Zenon DEF Inv, Shape
<1>2. turns' \in 0..EpisodeTurns
  BY Zenon DEF Typed, TypeOK
<1>3. phase' \in {"plan", "goal", "transport", "precheck", "motion", "verify", "decide",
                  "stack", "stackcheck", "over"}
  OBVIOUS
<1>4. TypeOK'
  BY <1>1, <1>2, <1>3, Zenon DEF TypeOK, MotionType
<1> QED
  BY <1>4 DEF Typed

LEMMA PlanLength == Inv => Len(plan) \in Nat
  BY DEF Inv, Shape

\* So the weight decides.
LEMMA Lighter ==
  ASSUME Inv, Typed, Inv', Typed', round' = round, turns' = turns,
         \/ phase' = "over" /\ phase # "over"
         \/ phase' = "goal" /\ phase = "plan"
         \/ phase' = "goal" /\ phase = "goal" /\ Len(plan') < Len(plan)
         \/ phase' \in {"transport", "precheck", "stack"} /\ phase = "goal" /\ plan' = plan
  PROVE  Remaining' < Remaining
<1>1. Weight \in Nat /\ (phase # "over" => Weight > 0) /\ turns \in Nat
  BY WeightsAreNumbers, Numbers
<1>2. (Weight \in Nat)'
  BY WeightsAreNumbers, PTL
<1>3. Len(plan) \in Nat /\ (Len(plan) \in Nat)'
  <2>1. (Len(plan) \in Nat)'
    BY PlanLength, PTL
  <2> QED
    BY <2>1, PlanLength
<1>4. Len(plan') <= MaxPlan + 1
  BY DEF Typed
<1>5. Weight' < Weight
  <2>1. CASE phase' = "over" /\ phase # "over"
    <3>1. Weight' = 0
      BY <2>1 DEF Weight
    <3> QED
      BY <1>1, <2>1, <3>1
  <2>2. CASE phase' = "goal" /\ phase = "plan"
    <3>1. Weight' = 3 * Len(plan') + 1 /\ Weight = 3 * MaxPlan + 5
      BY <2>2 DEF Weight, RoundWeight
    <3> QED
      BY <1>3, <1>4, <3>1, BudgetsAreNumbers
  <2>3. CASE phase' = "goal" /\ phase = "goal" /\ Len(plan') < Len(plan)
    <3>1. Weight' = 3 * Len(plan') + 1 /\ Weight = 3 * Len(plan) + 1
      BY <2>3 DEF Weight
    <3> QED
      BY <1>3, <2>3, <3>1
  <2>4. CASE phase' \in {"transport", "precheck", "stack"} /\ phase = "goal" /\ plan' = plan
    <3>1. Weight = 3 * Len(plan) + 1
      BY <2>4 DEF Weight
    <3>2. Weight' = 3 * Len(plan) \/ Weight' = 3 * Len(plan) - 1
      BY <2>4 DEF Weight
    <3> QED
      BY <1>3, <3>1, <3>2
  <2> QED
    BY <2>1, <2>2, <2>3, <2>4
<1>6. 4 * turns + Weight' < 4 * turns' + Weight
  <2>1. \A t, w, w1 \in Nat : w1 < w => 4 * t + w1 < 4 * t + w
    OBVIOUS
  <2> QED
    BY <1>1, <1>2, <1>5, <2>1
<1> QED
  BY <1>1, <1>6, SameRound

\* A continuation is worth more than the plan it may bring.
LEMMA AnotherRound ==
  ASSUME Inv, Typed, EndOfPlan, round < MaxReplans, round' = round + 1, phase' = "plan"
  PROVE  Remaining' < Remaining
<1>1. Weight = 1
  <2>1. phase = "goal" /\ Len(plan) = 0
    BY DEF EndOfPlan
  <2> QED
    BY <2>1 DEF Weight
<1>2. Weight' = RoundWeight /\ RoundWeight' = RoundWeight /\ turns' = turns
  BY DEF Weight, RoundWeight, EndOfPlan
<1>3. PICK k \in Nat : MaxReplans - round = k + 1 /\ MaxReplans - (round + 1) = k
  <2>1. MaxReplans - (round + 1) \in Nat
    BY Numbers, BudgetsAreNumbers
  <2> QED
    BY <2>1, Numbers, BudgetsAreNumbers
<1>4. RoundWeight \in Nat /\ 4 * (EpisodeTurns - turns) \in Nat
  BY Numbers, BudgetsAreNumbers DEF RoundWeight
<1>5. \A a, b \in Nat : (a + 1) * b = a * b + b /\ a * b \in Nat
  OBVIOUS
<1>6. Remaining = 4 * (EpisodeTurns - turns) + (k * RoundWeight + RoundWeight) + 1
  BY <1>1, <1>3, <1>4, <1>5 DEF Remaining
<1>7. Remaining' = 4 * (EpisodeTurns - turns) + k * RoundWeight + RoundWeight
  <2>1. Remaining' = 4 * (EpisodeTurns - turns') + (MaxReplans - round') * RoundWeight' + Weight'
    BY DEF Remaining
  <2> QED
    BY <1>2, <1>3, <2>1
<1>8. \A a, b, c \in Nat : a + b + c < a + (b + c) + 1
  OBVIOUS
<1> QED
  BY <1>4, <1>5, <1>6, <1>7, <1>8

\* What the planner may return is short.
LEMMA PlanLengths == \A p \in Plans : Len(p) <= MaxPlan + 1
<1>1. \A p \in Plans : \E n \in 0..MaxPlan : p \in [1..n -> Goals]
  BY DEF Plans
<1>2. ASSUME NEW n \in 0..MaxPlan, NEW p \in [1..n -> Goals] PROVE Len(p) <= MaxPlan + 1
  <2>1. n \in Nat /\ n <= MaxPlan + 1
    BY BudgetsAreNumbers
  <2>2. Len(p) = n
    BY <2>1
  <2> QED
    BY <2>1, <2>2
<1> QED
  BY <1>1, <1>2

\* Every step between goals starts one, drops one, spends a continuation or ends the episode.
LEMMA LoopRunsDown ==
  ASSUME Inv, Inv', Typed,
         PlanFails \/ FirstPlan \/ Replan \/ ReplanFails \/ EndOfPlan \/ SkipGoal
           \/ NoTurnsLeft \/ StartGoal
  PROVE  Typed' /\ Remaining' < Remaining
<1>1. /\ contacts \subseteq Contacts /\ motions \in MotionType
      /\ stopped \in {"", "planner", "verified", "results"}
      /\ round \in 0..MaxReplans
  BY Zenon DEF Typed, TypeOK, MotionType
<1>2. /\ Len(plan) \in Nat /\ Len(plan) <= MaxPlan + 1 /\ MaxPlan \in Nat
      /\ round \in Nat /\ MaxReplans \in Nat
  BY PlanLength, Numbers, BudgetsAreNumbers
<1>3. ASSUME NEW s, Conclude(s)
      PROVE  phase' = "over" /\ stopped' \in {"", "planner", "verified", "results"}
  BY <1>3 DEF Conclude
<1>4. CASE PlanFails
  <2>1. phase' = "over" /\ phase = "plan" /\ stopped' = "planner"
        /\ UNCHANGED <<plan, round, turns, contacts, motions>>
    BY <1>4 DEF PlanFails, outer, inner
  <2>2. Typed'
    BY <1>1, <1>2, <2>1, LoopTyped DEF TurnLeft
  <2> QED
    BY <2>1, <2>2, Lighter
<1>5. CASE FirstPlan
  <2>1. phase' = "goal" /\ phase = "plan" /\ UNCHANGED <<round, turns, contacts, motions, stopped>>
    BY <1>5 DEF FirstPlan, inner, result
  <2>2. Len(plan') <= MaxPlan + 1
    <3>1. PICK first \in Plans, second \in {<<>>} \cup {<<g>> : g \in Goals} :
            plan' = PlanOf(first, second)
      BY <1>5 DEF FirstPlan
    <3>2. Len(second) <= MaxPlan + 1
      <4>1. Len(<<>>) = 0 /\ \A g \in Goals : Len(<<g>>) = 1
        OBVIOUS
      <4>2. Len(second) = 0 \/ Len(second) = 1
        BY <4>1, Zenon
      <4>3. 0 <= MaxPlan + 1 /\ 1 <= MaxPlan + 1
        BY <1>2
      <4> QED
        BY <4>2, <4>3, Zenon
    <3>3. Len(first) <= MaxPlan + 1
      BY PlanLengths
    <3> QED
      BY <3>1, <3>2, <3>3 DEF PlanOf
  <2>3. Typed'
    BY <1>1, <2>1, <2>2, LoopTyped DEF TurnLeft
  <2> QED
    BY <2>1, <2>3, Lighter
<1>6. CASE Replan
  <2>1. phase = "plan" /\ UNCHANGED <<round, turns, contacts, motions>>
    BY <1>6 DEF Replan, inner
  <2>2. PICK fresh \in Plans :
          IF fresh = <<>>
          THEN Conclude(completed) /\ UNCHANGED plan
          ELSE plan' = fresh /\ phase' = "goal" /\ UNCHANGED result
    BY <1>6 DEF Replan
  <2>3. CASE fresh = <<>>
    <3>1. plan' = plan /\ phase' = "over" /\ stopped' \in {"", "planner", "verified", "results"}
      BY <1>3, <2>2, <2>3
    <3>2. Typed'
      BY <1>1, <1>2, <2>1, <3>1, LoopTyped DEF TurnLeft
    <3> QED
      BY <2>1, <3>1, <3>2, Lighter
  <2>4. CASE fresh # <<>>
    <3>1. phase' = "goal" /\ Len(plan') <= MaxPlan + 1 /\ stopped' = stopped
      BY <2>2, <2>4, PlanLengths DEF result
    <3>2. Typed'
      BY <1>1, <2>1, <3>1, LoopTyped DEF TurnLeft
    <3> QED
      BY <2>1, <3>1, <3>2, Lighter
  <2> QED
    BY <2>3, <2>4
<1>7. CASE ReplanFails
  <2>1. /\ phase = "plan" /\ UNCHANGED <<plan, round, turns, contacts, motions>>
        /\ phase' = "over" /\ stopped' \in {"", "planner", "verified", "results"}
    BY <1>3, <1>7 DEF ReplanFails, outer, inner
  <2>2. Typed'
    BY <1>1, <1>2, <2>1, LoopTyped DEF TurnLeft
  <2> QED
    BY <2>1, <2>2, Lighter
<1>8. CASE EndOfPlan
  <2>1. phase = "goal" /\ UNCHANGED <<plan, turns, contacts, motions>>
    BY <1>8 DEF EndOfPlan, inner
  <2>2. CASE continues /\ turns < EpisodeTurns /\ round < MaxReplans
    <3>1. phase' = "plan" /\ round' = round + 1 /\ stopped' = stopped
      BY <1>8, <2>2 DEF EndOfPlan, result
    <3>2. round' \in 0..MaxReplans
      BY <1>2, <2>2, <3>1
    <3>3. Typed'
      BY <1>1, <1>2, <2>1, <3>1, <3>2, LoopTyped DEF TurnLeft
    <3> QED
      BY <1>8, <2>2, <3>1, <3>3, AnotherRound
  <2>3. CASE ~(continues /\ turns < EpisodeTurns /\ round < MaxReplans)
    <3>1. round' = round /\ phase' = "over" /\ stopped' \in {"", "planner", "verified", "results"}
      BY <1>3, <1>8, <2>3 DEF EndOfPlan
    <3>2. Typed'
      BY <1>1, <1>2, <2>1, <3>1, LoopTyped DEF TurnLeft
    <3> QED
      BY <2>1, <3>1, <3>2, Lighter
  <2> QED
    BY <2>2, <2>3
<1>9. CASE SkipGoal
  <2>1. phase = "goal" /\ phase' = "goal" /\ UNCHANGED <<round, turns, contacts, motions, stopped>>
    BY <1>9 DEF SkipGoal, inner, result
  <2>2. Len(plan') = Len(plan) - 1
    BY <1>9 DEF SkipGoal, Rest, Inv, Shape
  <2>3. Typed'
    <3>1. Len(plan') <= MaxPlan + 1
      BY <1>2, <2>2
    <3> QED
      BY <1>1, <2>1, <3>1, LoopTyped DEF TurnLeft
  <2> QED
    BY <1>2, <2>1, <2>2, <2>3, Lighter
<1>10. CASE NoTurnsLeft
  <2>1. /\ phase = "goal" /\ UNCHANGED <<plan, round, turns, contacts, motions>>
        /\ phase' = "over" /\ stopped' \in {"", "planner", "verified", "results"}
    BY <1>3, <1>10 DEF NoTurnsLeft, inner
  <2>2. Typed'
    BY <1>1, <1>2, <2>1, LoopTyped DEF TurnLeft
  <2> QED
    BY <2>1, <2>2, Lighter
<1>11. CASE StartGoal
  <2>1. /\ phase = "goal" /\ turns < EpisodeTurns /\ contacts' = {} /\ motions' = NoMotion
        /\ UNCHANGED <<plan, round, turns, stopped>>
    BY <1>11 DEF StartGoal, result
  <2>2. phase' \in {"transport", "stack", "precheck"}
    <3>1. Skill[Head(plan)] \in {"transport", "stack", "state"}
      BY <1>11, OneMoreGoal, FullAssumption DEF FullAssumption, StartGoal
    <3> QED
      BY <1>11, <3>1 DEF StartGoal
  <2>3. NoMotion \in MotionType
    <3>1. FALSE \in BOOLEAN /\ 0 \in 0..2
      OBVIOUS
    <3> QED
      BY <3>1, Zenon DEF NoMotion, MotionType
  <2>4. Typed'
    <3>1. contacts' \subseteq Contacts /\ motions' \in MotionType /\ TurnLeft'
      BY <2>1, <2>3 DEF TurnLeft
    <3> QED
      BY <1>1, <1>2, <2>1, <2>2, <3>1, LoopTyped
  <2> QED
    BY <2>1, <2>2, <2>4, Lighter
<1> QED
  BY <1>4, <1>5, <1>6, <1>7, <1>8, <1>9, <1>10, <1>11

-----------------------------------------------------------------------------
\* ---- the theorems ----

LEMMA Stepwise == ASSUME Inv, [Next]_vars PROVE Inv'
<1>1. CASE UNCHANGED vars
  BY <1>1 DEF vars, Inv, Shape, Accounted, StartedOnce, Honest, Executing
<1>2. CASE Over
  BY <1>1, <1>2 DEF Over
<1> QED
  BY <1>1, <1>2, GoalSteps, PlanningSteps, Starting, OutOfTurns DEF Next

LEMMA Invariant == Spec => []Inv
  BY Initially, Stepwise, PTL DEF Spec

(* For every task, budget and planner: an episode in which a recorded step *)
(* had no visual evidence is not a success.                                *)
THEOREM OutagesNeverSucceed == Spec => []OutageNeverSuccess
<1>1. Inv => OutageNeverSuccess
  BY DEF Inv, Honest, OutageNeverSuccess
<1> QED
  BY Invariant, <1>1, PTL

(* For every planner, however often it names a goal: it is started once.   *)
THEOREM GoalsStartOnce == Spec => []NoGoalRepeated
<1>1. Inv => NoGoalRepeated
  BY DEF Inv, StartedOnce, NoGoalRepeated
<1> QED
  BY Invariant, <1>1, PTL

(* For every task: a success holds a positive verdict of every attempted   *)
(* goal, and a dependency-ordered task goes no further than its first      *)
(* failed goal.                                                            *)
THEOREM FailsClosed == Spec => []FailClosed
<1>1. Inv => FailClosed
  BY DEF Inv, Accounted, Honest, FailClosed, Executing
<1> QED
  BY Invariant, <1>1, PTL

LEMMA FirstTyped == Init => Typed
<1> SUFFICES ASSUME Init PROVE Typed
  OBVIOUS
<1>1. Inv
  BY Initially
<1>2. /\ continues \in BOOLEAN /\ plan \in Seq(Goals) /\ attempted \subseteq Goals
      /\ completed \in Seq(BOOLEAN) /\ runs \in [Goals -> Nat]
  BY <1>1, Zenon DEF Inv, Shape
<1>3. /\ phase = "plan" /\ turns = 0 /\ round = 0 /\ attempt = 0 /\ contacts = {}
      /\ motions = NoMotion /\ success = FALSE /\ stopped = "" /\ outage = FALSE /\ plan = <<>>
  BY DEF Init
<1>4. NoMotion \in MotionType
  <2>1. FALSE \in BOOLEAN /\ 0 \in 0..2
    OBVIOUS
  <2> QED
    BY <2>1, Zenon DEF NoMotion, MotionType
<1>5. turns \in 0..EpisodeTurns /\ round \in 0..MaxReplans /\ attempt \in Nat /\ Len(plan) <= MaxPlan + 1
  <2>1. Len(plan) = 0
    BY <1>3
  <2>2. 0 <= MaxPlan + 1 /\ 0 \in 0..EpisodeTurns /\ 0 \in 0..MaxReplans
    BY BudgetsAreNumbers
  <2> QED
    BY <1>3, <2>1, <2>2
<1>6. TypeOK
  <2>1. success \in BOOLEAN /\ outage \in BOOLEAN /\ contacts \subseteq Contacts
        /\ stopped \in {"", "planner", "verified", "results"} /\ motions \in MotionType
        /\ phase \in {"plan", "goal", "transport", "precheck", "motion", "verify", "decide",
                      "stack", "stackcheck", "over"}
    BY <1>3, <1>4
  <2> QED
    BY <1>2, <1>5, <2>1, Zenon DEF TypeOK, MotionType
<1> QED
  BY <1>3, <1>5, <1>6 DEF Typed, TurnLeft

LEMMA StepRunsDown ==
  Inv /\ Inv' /\ Typed /\ [Next]_vars => Typed' /\ (Remaining' < Remaining \/ UNCHANGED vars)
<1> SUFFICES ASSUME Inv, Inv', Typed, [Next]_vars
             PROVE  Typed' /\ (Remaining' < Remaining \/ UNCHANGED vars)
  OBVIOUS
<1>1. CASE UNCHANGED vars
  BY <1>1 DEF vars, Typed, TypeOK, TurnLeft
<1>2. CASE Next
  BY <1>1, <1>2, GoalStepsRunDown, LoopRunsDown DEF Next, Over
<1> QED
  BY <1>1, <1>2

LEMMA TypedAlways == Spec => []Typed
<1>1. Spec => []Inv
  BY Invariant
<1> QED
  BY <1>1, FirstTyped, StepRunsDown, PTL DEF Spec

(* Every variable of an episode stays typed: the turns, the continuations  *)
(* and the results are within their budgets for every task and planner.    *)
THEOREM FullReactTypeCorrect == Spec => []TypeOK
<1>1. Typed => TypeOK
  BY DEF Typed
<1> QED
  BY TypedAlways, <1>1, PTL

(* An episode has a number of steps left, and every step takes from it:    *)
(* however the planner, the tools and the checks answer, skipped goals,    *)
(* refused retries and continuations cannot keep the loops of              *)
(* run_full_episode going.  At the start the number is at most             *)
(* 4 * EpisodeTurns + (MaxReplans + 1) * RoundWeight.                      *)
THEOREM EpisodesRunDown ==
  Spec => [](Remaining \in Nat) /\ [][Remaining' < Remaining]_vars
<1>1. Inv /\ Typed => Remaining \in Nat
  BY WeightsAreNumbers
<1>2. Inv /\ Inv' /\ Typed /\ [Next]_vars => [Remaining' < Remaining]_vars
  BY StepRunsDown
<1> QED
  BY Invariant, TypedAlways, <1>1, <1>2, PTL DEF Spec
=============================================================================
