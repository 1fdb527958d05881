---------------------------- MODULE GraspSkills ----------------------------
(***************************************************************************)
(* The skills that carry an object: pickplace, insert and stack of         *)
(* racap/policy_api.  They ground the object and the destination, climb a  *)
(* ladder of grasps, carry what the fingers hold and open    *)
(* over the destination; insert plans a fit first and turns the object in  *)
(* front of the opening, stack delegates to pickplace with fixed targets.  *)
(* Every call of the runtime may raise.                                    *)
(***************************************************************************)
EXTENDS Robot

CONSTANTS
    Rungs,      \* MAX_GRASP_ATTEMPTS_PER_CALL
    InsertRungs, \* bound: the longest ladder of an insertion, which the code does not cut
    TwinHigher, \* whether the twin stands more than 2 cm above the target's support
    Transient   \* whether the label names the object by its place (front, left, ...)

ASSUME GraspAssumption ==
    Rungs \in Nat \ {0} /\ InsertRungs \in Nat \ {0} /\ {TwinHigher, Transient} \subseteq BOOLEAN

Grasping == skill \in {"pickplace", "insert", "stack"}

-----------------------------------------------------------------------------
(* Grounding.                                                              *)

\* Kinds of destination a phrase can resolve to, per way of resolving it.
Beside == {"spot"}
UpperSurface == {"surface"}
CavityRegion == {"opening"}
InsideOf == {"opening", "spot"} \cap (CavityRegion \cup Beside)

\* The detectors a reading of the phrase admits.
Order(mode) == CASE mode = "object" -> {"object"}
                 [] mode \in {"region", "inside"} -> {"region"}
                 [] OTHER -> {"object", "region"}

Candidates(source, mode) ==
    IF source = "region" /\ mode = "inside" THEN InsideOf \cup {"region"}
    ELSE IF source = "region" THEN InsideOf \cup {"region"} ELSE {"object"}

\* _ground_destination: relations, then top surfaces, then the detectors.
DestinationKinds(mode) ==
    (IF mode \in {"auto", "relation"} THEN Beside ELSE {})
    \cup (IF mode \in {"auto", "top"} THEN UpperSurface ELSE {})
    \cup UNION {Candidates(source, mode) : source \in Order(mode)}

\* _confirm_identity: only the explicit answer that it is something else vetoes.
Confirmed(answer) == answer \in {"match", "unclear"}

\* _ground_verified_pick: up to three proposals, each judged by the identity crop or in
\* the marked scene; a rejected place is excluded from the next proposal.
GroundedPick ==
    {g \in Located : \E rejected \in SUBSET {at[b] : b \in Bodies}, answer \in Identities :
                       g \in FedBack(rejected) /\ Confirmed(answer)}

Ground(g) ==
    /\ pick' = g /\ anchor' = g
    /\ around' = {b \in Bodies : Away(at[b], g.place) <= AnchorReach \/ held = b}

\* A locked object is taken as it was first seen; otherwise it is looked for.
FindObject ==
    /\ pc = "pick" /\ Grasping
    /\ \/ /\ Locking /\ pickLock # NoTarget
          /\ Ground(pickLock) /\ pc' = "goal" /\ UNCHANGED report
       \/ /\ ~(Locking /\ pickLock # NoTarget)
          /\ \/ \E g \in GroundedPick : Ground(g) /\ pc' = "goal" /\ UNCHANGED report
             \/ Fail("not_grounded") /\ Finish /\ UNCHANGED <<pick, anchor, around>>
             \/ Raised("perception_unavailable") /\ UNCHANGED <<pick, anchor, around>>
    /\ UNCHANGED <<scene, session, skill, rung, plan, hook, calls, disturbed, touched, opened, fit>>

\* feasible_placement: only an opening with a polygon can be inserted into.
MayFit(kind) == kind = "opening"

\* pickplace, for stack too, cuts its ladder; insert keeps the attempts that do not change
\* how the object lies in the hand, of which there may be none.
LadderLengths == IF skill = "insert" THEN 0..InsertRungs ELSE 1..Rungs

PhraseReadings == {"auto", "object", "region", "inside", "top", "relation"}

\* A locked destination answers for the readings that would look for it again.
GoalKnown(mode) ==
    Locking /\ goalLock /\ (skill = "insert" \/ mode \in {"auto", "region", "inside"})

\* insert measures the object before it looks for the opening, and plans a fit in it.
NoFit ==
    /\ skill = "insert"
    /\ report' \in {[report EXCEPT !.mode = "infeasible"]}
                  \cup {[report EXCEPT !.mode = m, !.aimed = TRUE] :
                           m \in {"infeasible", "broad_container_fit"}}

\* stack_plan: no stable region on the support.
NoSupport == skill = "stack" /\ Fail("infeasible")

\* The destination is grounded and, for insert and stack, a place in it is planned
\* before anything moves.
FindGoal ==
    /\ pc = "goal"
    /\ \E mode \in CASE skill = "pickplace" -> PhraseReadings
                      [] skill = "insert" -> {"inside"}
                      [] OTHER -> {"object"} :
         \/ /\ skill = "insert" => \E kind \in DestinationKinds(mode) : MayFit(kind)
            /\ rung' \in LadderLengths /\ plan' = turn
            /\ report' = [report EXCEPT !.preflight = FALSE, !.posed = TRUE, !.aimed = TRUE]
            /\ pc' = "contact"
         \/ /\ ~GoalKnown(mode)
            /\ Fail("not_grounded") \/ Raised("perception_unavailable")
            /\ Finish /\ UNCHANGED <<rung, plan>>
         \/ (NoFit \/ NoSupport) /\ Finish /\ UNCHANGED <<rung, plan>>
    /\ UNCHANGED <<scene, session, skill, pick, anchor, hook, calls, past>>

-----------------------------------------------------------------------------
(* The ladder of grasps.                                                   *)

StepOnly(g) == Away(g.place, pick.place) <= StepReach  \* mutant: no anchor

\* A retry aims at what was found again only near the last aim and the first one.
StillTheSame(g) ==
    Away(g.place, pick.place) <= StepReach /\ Away(g.place, anchor.place) <= AnchorReach

\* One attempt: the fingers open and close at the aim.  It raises before or after the
\* contact and the next rung follows, or the opening is read.
Contact ==
    /\ pc = "contact" /\ rung > 0
    /\ disturbed' = TRUE
    /\ \/ /\ Closed(pick.place)
          /\ \E reading \in Readings(held') : pc' = IF reading THEN "sensed" ELSE "missed"
          /\ UNCHANGED <<rung, report>>
       \/ /\ Closed(pick.place) \/ (UNCHANGED <<at, held, turn, touched>>)
          /\ \/ rung' = rung - 1 /\ UNCHANGED <<pc, report>>
             \/ Raised("raised") /\ UNCHANGED rung
    /\ UNCHANGED <<session, skill, pick, anchor, plan, hook, calls, around, opened, fit>>

\* Every rung is one attempt.
NextRung == rung' = rung - 1

\* _refresh_pick_after_contact: tracked from where it was, or else by its label.
FoundAgain(b) == Tracked(b) \cup GroundedPick

\* The fingers open, the arm clears the camera and the object is looked for again.
Refresh ==
    /\ \/ TryOpen(Nudged(pick.place)) /\ UNCHANGED pick
       \/ /\ Open(Nudged(pick.place))
          /\ \E b \in {pick.body} : \E g \in FoundAgain(b)' :
               pick' = IF StillTheSame(g) THEN g ELSE pick
    /\ NextRung /\ pc' = "contact"

Missed ==
    /\ pc = "missed"
    /\ Refresh
    /\ UNCHANGED <<turn, session, skill, anchor, plan, report, hook, calls, past>>

\* scene_verdict: one that is higher than the object was has risen, a twin on a higher
\* support too; one that still lies near the object's place has not, unless the label
\* names the object by its place.
SceneVerdict(b) ==
    IF held = b \/ (b = Twin /\ TwinHigher) THEN "risen"
    ELSE IF Away(at[b], pick.place) <= 1 /\ ~Transient THEN "left behind"
    ELSE "unclear"

\* The wrist's view: a body near the hand and raised.
WristVerdicts == IF held # "none" THEN BOOLEAN ELSE {FALSE}

\* _held_object_left_the_table: the tracked instance, then what answers to the label in
\* the scene, then the wrist's view.
Verdicts ==
    (IF Transient /\ held = pick.body THEN {TRUE} ELSE {})
    \cup {SceneVerdict(b) = "risen" : b \in {c \in Bodies : SceneVerdict(c) # "unclear"}}
    \cup WristVerdicts

Judged ==
    /\ pc = "sensed" /\ TRUE \in Verdicts
    /\ pc' = "carry"
    /\ UNCHANGED <<scene, session, call, report, hook, calls, past>>

\* Something not judged to be the object is put back where it was met (insert drops
\* it and looks again); a failed return falls back to recover.
FalseHold ==
    /\ pc = "sensed" /\ FALSE \in Verdicts
    /\ IF skill = "insert" THEN Refresh
       ELSE /\ TryOpen(Nudged(pick.place))
            /\ NextRung /\ pc' = "contact" /\ UNCHANGED pick
    /\ UNCHANGED <<turn, session, skill, anchor, plan, report, hook, calls, past>>

NotEmptied == report' = [report EXCEPT !.mode = "empty_grasp"]  \* mutant

\* The session is told to empty the fingers again.
EmptyGrasp == report' = [report EXCEPT !.mode = "empty_grasp", !.empty = TRUE]

NothingHeld ==
    /\ pc = "contact" /\ rung = 0
    /\ EmptyGrasp /\ Finish
    /\ UNCHANGED <<scene, session, call, hook, calls, past>>

-----------------------------------------------------------------------------
(* Transport and release.                                                  *)

\* What is carried may slip out of the fingers on the way.
MaySlip == UNCHANGED <<at, held>> \/ Open(Places)

\* _place_carefully up to the release height: straight up, level, across, centre, down.
Carry ==
    /\ pc = "carry" /\ skill \in {"pickplace", "stack"}
    /\ MaySlip
    /\ \/ pc' = "release" /\ UNCHANGED report
       \/ Fail("placement_failed") /\ Finish
    /\ UNCHANGED <<turn, session, call, hook, calls, past>>

\* The fingers open over the destination; only the retreat after it completes the
\* report of the release.
Release ==
    /\ pc = "release" /\ skill \in {"pickplace", "stack"}
    /\ \/ /\ Open({Goal} \cup Places) /\ opened' = TRUE
          /\ report' \in {[report EXCEPT !.release = TRUE, !.success = TRUE],
                          [report EXCEPT !.mode = "placement_failed"]}
       \/ Fail("placement_failed") /\ UNCHANGED <<at, held, opened>>
    /\ Finish
    /\ UNCHANGED <<turn, session, call, hook, calls, disturbed, touched, around, fit>>

\* insert's approach: over the opening, turned, and corrected by looking at the held
\* object when it can be measured and the correction converges; if not, the plan made
\* before the grasp stands.
Present ==
    /\ pc = "carry" /\ skill = "insert"
    /\ \/ /\ MaySlip /\ pc' = "enter"
          /\ \E measured \in BOOLEAN : fit' = (measured \/ plan = turn)
          /\ UNCHANGED report
       \/ /\ Recover(Places \cup {Goal})
          /\ Fail("insertion_failed") /\ Finish /\ UNCHANGED fit
    /\ UNCHANGED <<turn, session, call, hook, calls, disturbed, touched, around, opened>>

\* Down into the opening, open, out, clear; then the placement is looked at.
Enter ==
    /\ pc = "enter"
    /\ \/ /\ Open({Goal} \cup Places) /\ opened' = TRUE
          /\ report' \in {[report EXCEPT !.release = TRUE, !.success = TRUE],
                          [report EXCEPT !.release = TRUE, !.mode = "verification_inconclusive"],
                          [report EXCEPT !.mode = "insertion_failed"]}
       \/ /\ Recover(Places \cup {Goal})
          /\ Fail("insertion_failed") /\ UNCHANGED opened
    /\ Finish
    /\ UNCHANGED <<turn, session, call, hook, calls, disturbed, touched, around, fit>>

BeginGrasp ==
    \/ Begin("pickplace", FALSE)
    \/ Begin("insert", TRUE)
    \/ Begin("stack", TRUE)

GraspStep == \/ FindObject \/ FindGoal \/ Contact \/ Missed \/ Judged \/ FalseHold
             \/ NothingHeld \/ Carry \/ Release \/ Present \/ Enter
=============================================================================
