--------------------------- MODULE ContactSkills ---------------------------
(***************************************************************************)
(* The other skills that touch without carrying: push (push_api.py) and    *)
(* actuate_control for buttons and knobs (actuate_control_api.py), beside  *)
(* articulate.  Poses are places and a turned knob has turned or has not.  *)
(***************************************************************************)
EXTENDS Articulate

-----------------------------------------------------------------------------
(* push.                                                                   *)

\* The nudge, the grounding against the last reliable check and the shape of the object
\* are judged first.
PlanPush ==
    /\ pc = "pick" /\ skill = "push"
    /\ \/ \E g \in Located : pick' = g /\ pc' = "push" /\ UNCHANGED report
       \/ /\ Fail("unsafe_push") \/ Fail("not_grounded") \/ Raised("perception_unavailable")
          /\ Finish /\ UNCHANGED pick
    /\ UNCHANGED <<scene, session, skill, anchor, rung, plan, hook, calls, past, fixture>>

\* The closed fingers sweep the object one place aside, or miss it; then the arm
\* recovers and the object is looked for again.
Push ==
    /\ pc = "push"
    /\ disturbed' = TRUE
    /\ LET there == {b \in Bodies : at[b] = pick.place} IN
       /\ touched' = touched \cup there
       /\ \E moved \in {at} \cup {[at EXCEPT ![b] = q] : b \in there, q \in Nudged(pick.place)} :
            /\ Cardinality({moved[b] : b \in Bodies}) = Cardinality(Bodies)
            /\ \/ at' = moved /\ UNCHANGED held
               \/ /\ held # "none" /\ held' = "none"
                  /\ \E q \in Free(held) \ {moved[b] : b \in Bodies} : at' = [moved EXCEPT ![held] = q]
    /\ \/ report' = [report EXCEPT !.success = TRUE]
       \/ \E mode \in {"push_failed", "verification_inconclusive", "no_motion", "wrong_direction"} :
            Fail(mode)
    /\ Finish
    /\ UNCHANGED <<turn, session, call, hook, calls, around, opened, fit, fixture>>

-----------------------------------------------------------------------------
(* actuate_control.                                                        *)

Actuating == skill = "actuate"

StillPreflight == report  \* mutant: the flag is kept while the arm approaches

\* The report stops calling the call a preflight before the first motion.
Admitted == Early

\* A compact control near the fixture (_ground_control), or none.
GroundControl ==
    /\ pc = "part" /\ Actuating
    /\ \/ pc' = "plan" /\ UNCHANGED report
       \/ (Fail("not_grounded") \/ Raised("perception_unavailable")) /\ Finish
    /\ UNCHANGED <<scene, session, call, hook, calls, past, fixture>>

\* _refine_control_contact: the raised band of the control, when its cloud has one; a band
\* thinner than the opening sensor resolves counts as held.
RaisedBand == BOOLEAN

\* The state and the kind of control are read; a button that already shows the wanted
\* state is not pressed, it might toggle back.  A knob is tried at one depth or two.
JudgeControl ==
    /\ pc = "plan" /\ Actuating
    /\ \/ \E seen \in {"wanted", "other", "unread"}, press \in BOOLEAN, band \in RaisedBand :
            /\ job' = [job EXCEPT !.seen = seen, !.press = press, !.band = band]
            /\ IF press /\ seen = "wanted"
               THEN report' = [report EXCEPT !.success = TRUE] /\ Finish /\ UNCHANGED rung
               ELSE report' = Admitted /\ pc' = "reach" /\ rung' \in {1, 2}
       \/ Raised("perception_unavailable") /\ UNCHANGED <<job, rung>>
    /\ UNCHANGED <<scene, session, skill, pick, anchor, plan, hook, calls, past, joint, known, handled>>

Botched == Recover(Places) /\ Fail("actuation_failed") /\ Finish

\* Open, above the button, closed fingers down by the press depth, up, open.
Press ==
    /\ pc = "reach" /\ Actuating /\ job.press
    /\ disturbed' = TRUE
    /\ \/ TryOpen(Places) /\ pc' = "measure" /\ UNCHANGED report
       \/ Botched
    /\ UNCHANGED <<turn, session, call, hook, calls, touched, around, opened, fit, fixture>>

\* Contacts with a knob at lower and lower depths (_lowered_control) until one is held.
Grip ==
    /\ pc = "reach" /\ Actuating /\ ~job.press
    /\ disturbed' = TRUE
    /\ \/ TryOpen(Places) /\ pc' = "turn" /\ UNCHANGED <<report, rung>>
       \/ /\ ~job.band /\ TryOpen(Places) /\ rung' = rung - 1
          /\ IF rung > 1 THEN UNCHANGED <<pc, report>> ELSE Fail("contact_failed") /\ Finish
       \/ Botched /\ UNCHANGED rung
    /\ UNCHANGED <<turn, session, skill, pick, anchor, plan, hook, calls, touched, around, opened,
                   fit, fixture>>

\* The wrist turns in five steps, the fingers open and the arm rises.
Turn ==
    /\ pc = "turn"
    /\ \/ TryOpen(Places) /\ pc' = "measure" /\ UNCHANGED report
       \/ Botched
    /\ UNCHANGED <<turn, session, call, hook, calls, past, fixture>>

\* Success needs the wanted state in a fresh view and evidence of the motion: a turn of
\* the axis, or a button that showed the opposite before.
MeasureControl ==
    /\ pc = "measure" /\ Actuating
    /\ \/ \E wanted \in BOOLEAN, turned \in BOOLEAN :
            IF wanted /\ IF job.press THEN job.seen = "other" ELSE turned
            THEN report' = [report EXCEPT !.success = TRUE] ELSE Fail("no_motion")
       \/ Raised("perception_unavailable")
    /\ Finish
    /\ UNCHANGED <<scene, session, call, hook, calls, past, fixture>>

-----------------------------------------------------------------------------

BeginContact ==
    \/ BeginArticulate
    \/ /\ Begin("push", FALSE) \/ Begin("actuate", TRUE)
       /\ job' = NoJob /\ UNCHANGED <<joint, known, handled>>

ContactStep ==
    \/ PlanPush \/ Push
    \/ GroundFixture \/ ArticulateStep
    \/ GroundControl \/ JudgeControl \/ Press \/ Grip \/ Turn \/ MeasureControl
=============================================================================
