---------------------------- MODULE Articulate ----------------------------
(***************************************************************************)
(* articulate (racap/policy_api/articulate_api.py): open or close a drawer *)
(* or a door, and what the session remembers of its kinematics             *)
(* (racap/agent/tools.py, _do_articulate).                                 *)
(*                                                                         *)
(* The fixture has two movable parts, the one the caller means and its     *)
(* neighbour: a grounding of "the handle" may land on either.  They are    *)
(* stacked, their handles at heights that a tolerance tells apart, or side *)
(* by side, close (within the reach of one stroke) or far.  A part stands  *)
(* at 0 (closed), 1 (ajar) or 2 (open); places of handles follow, so the   *)
(* travel of a handle is the travel of its part.                           *)
(***************************************************************************)
EXTENDS Robot

CONSTANT Layout  \* how the two parts are arranged

ASSUME LayoutAssumption == Layout \in {"stacked", "close", "far"}

Parts == {"asked", "neighbour"}
FullTravel == 2

\* The height of a part's handle, told by the part at that height.
Level(p) == IF Layout = "stacked" THEN p ELSE "asked"

VARIABLES
    joint,  \* how far each part stands open
    known,  \* _articulation_kinematics of the label
    job,    \* what the running, or the last, call on a fixture found and planned
    handled \* history: the parts touched by the handle in calls that kept their report

fixture == <<joint, known, job, handled>>

\* handle_z (told by whose height it is), panel_label, axis and hinge_source.
Kinematics == [height : Parts \cup {"none", "panel"}, panel : BOOLEAN, axis : BOOLEAN,
               hinge : {"none", "footprint", "panel"}]

\* goal, the grounded part and its height, moving_panel_contact, whether the contact is a
\* protruding band, the mechanism, the source of its axis or hinge, handle_retained and
\* where the part stood; for a control what was seen of it and whether it is a button.
Jobs == [goal : {"open", "closed"}, part : Parts \cup {"none"},
         height : Parts \cup {"none", "panel"}, panel : BOOLEAN, band : BOOLEAN,
         sliding : BOOLEAN, source : {"none", "memory", "boundary", "footprint", "line", "panel"},
         retained : BOOLEAN, was : 0..FullTravel,
         seen : {"wanted", "other", "unread"}, press : BOOLEAN]

NoJob == [goal |-> "open", part |-> "none", height |-> "none", panel |-> FALSE, band |-> FALSE,
          sliding |-> FALSE, source |-> "none", retained |-> FALSE, was |-> 0,
          seen |-> "unread", press |-> FALSE]

Articulating == skill = "articulate"
Opens == job.goal = "open"

-----------------------------------------------------------------------------
(* Grounding and planning: nothing moves.                                  *)

\* _ground, _usable: a target within reach with enough points, from the first view or
\* another one; None otherwise; an outage of perception is raised.
GroundFixture ==
    /\ pc = "pick" /\ skill \in {"articulate", "actuate"}
    /\ \/ pc' = "part" /\ UNCHANGED report
       \/ (Fail("not_grounded") \/ Raised("perception_unavailable")) /\ Finish
    /\ UNCHANGED <<scene, session, call, hook, calls, past, fixture>>

\* _ground_handle: a compact grounding within half a metre of the fixture.
HandleContacts == {[part |-> p, panel |-> FALSE] : p \in Parts}

\* _ground_moving_panel: a broad face near the fixture.
PanelContacts == {[part |-> p, panel |-> TRUE] : p \in Parts}

\* Closing pushes a face, the remembered panel before any other, and falls back to a
\* handle; opening always needs the handle.
Contacts == IF Opens THEN HandleContacts ELSE PanelContacts \cup HandleContacts

\* The centre of a panel may lie at another height than its handle.
Heights(c) == {Level(c.part)} \cup (IF c.panel THEN {"panel"} ELSE {})

AnyHeight(c, height) == TRUE  \* mutant: the remembered height is not compared

\* The handle must stand at the height remembered for the label; a panel need not.
RememberedHeight(c, height) == c.panel \/ known.height \in {"none", height}

\* protruding_contact: the points standing out of the fixture's face form a bar, or not.
ProtrudingBand == BOOLEAN

\* _refine_handle_contact: only a handle is refined to its band.
Bands(c) == IF c.panel THEN {FALSE} ELSE ProtrudingBand

\* The part is grounded, its contact refined, and its height compared with the remembered
\* one.
GroundPart ==
    /\ pc = "part" /\ Articulating
    /\ \/ \E c \in Contacts : \E height \in Heights(c), band \in Bands(c) :
            IF RememberedHeight(c, height)
            THEN /\ job' = [job EXCEPT !.part = c.part, !.panel = c.panel, !.height = height,
                                       !.band = band, !.was = joint[c.part]]
                 /\ pc' = "plan" /\ UNCHANGED report
            ELSE Fail("not_grounded") /\ Finish /\ UNCHANGED job
       \/ (Fail("not_grounded") \/ Raised("perception_unavailable")) /\ Finish /\ UNCHANGED job
    /\ UNCHANGED <<scene, session, call, hook, calls, past, joint, known, handled>>

\* _mechanism: the words, the distance of the handle, or a look at the fixture.
Mechanisms == BOOLEAN

\* prismatic_axis_from_opening_boundary needs the opening kept by an earlier transport.
BoundaryAxis == IF goalLock THEN {"boundary"} ELSE {}

\* prismatic_axis_from_footprint, when the fixture's cloud has a short side.
FootprintAxis == {"footprint"}

\* linear_waypoints: along the axis, or from the fixture's centre to the handle; none
\* when the two coincide.
LineAxis == {"line", "none"}

\* The remembered axis is taken before any other, then the first fit that succeeds.
AxisSources == IF known.axis THEN {"memory"} ELSE BoundaryAxis \cup FootprintAxis \cup LineAxis

\* hinge_from_moving_panel: half a panel from its centre towards the fixture.
PanelHinge == IF job.panel THEN {"panel"} ELSE {}

\* _hinge_from_vision: the fixture's edge opposite the handle; it always answers, but the
\* handle may be too close to it for an arc (hinge_waypoints).
FootprintHinge == {"footprint", "none"}

\* A remembered hinge must explain the handle's radius.
HingeSources == (IF known.hinge # "none" THEN {"memory"} ELSE {}) \cup PanelHinge \cup FootprintHinge

Plan ==
    /\ pc = "plan" /\ Articulating
    /\ \/ \E sliding \in Mechanisms :
          \E source \in IF sliding THEN AxisSources ELSE HingeSources :
            /\ job' = [job EXCEPT !.sliding = sliding, !.source = source]
            /\ IF source = "none" THEN Fail("no_motion_axis") /\ Finish
               ELSE pc' = "reach" /\ UNCHANGED report
       \/ Raised("perception_unavailable") /\ UNCHANGED job
    /\ UNCHANGED <<scene, session, call, hook, calls, past, joint, known, handled>>

-----------------------------------------------------------------------------
(* Motions.  Whatever raises in them ends in recover and a failed report.  *)

Early == [report EXCEPT !.preflight = FALSE]

Broken(r) == Recover(Places) /\ report' = [r EXCEPT !.mode = "articulation_failed"] /\ Finish

\* A sliding part is closed by its outer face (closing_face_push_points), a hinged one by
\* its panel.
PushesFace == ~Opens /\ (job.sliding \/ job.panel)

\* The closed fingers go to the outside of the face: three moves before the report stops
\* calling the call a preflight.  Without a normal of the face, or a tangent of the arc,
\* the call ends unmoved.
FaceContact ==
    /\ pc = "reach" /\ Articulating /\ PushesFace
    /\ \/ /\ disturbed' = TRUE
          /\ \/ /\ report' = [Early EXCEPT !.empty = TRUE] /\ pc' = "path" /\ UNCHANGED <<at, held>>
             \/ Broken(report)
       \/ Fail("no_motion_axis") /\ Finish /\ UNCHANGED <<at, held, disturbed>>
    /\ UNCHANGED <<turn, session, call, hook, calls, touched, around, opened, fit, fixture>>

\* verify_grasp or a learned contact that reached its pose; fingertips that reached a thin
\* bar from above (top_down_fingertip_contact) are no retention.
Retentions == BOOLEAN

\* Otherwise the fingers open and close on the handle (contact_grasp), or, when a hook was
\* asked for and the bar is thin, only open.
HandleContact ==
    /\ pc = "reach" /\ Articulating /\ ~PushesFace
    /\ disturbed' = TRUE
    /\ \/ \E retained \in Retentions :
            /\ TryOpen(Places) /\ report' = Early /\ pc' = "pull"
            /\ job' = [job EXCEPT !.retained = retained]
       \/ Broken(report) /\ UNCHANGED job
    /\ UNCHANGED <<turn, session, call, hook, calls, touched, around, opened, fit, joint, known, handled>>

\* Opening without a hold: a hinged handle is given up, behind a drawer's bar the closed
\* fingers become a hook.
Pull ==
    /\ pc = "pull" /\ Articulating
    /\ IF Opens /\ ~job.retained /\ ~job.sliding
       THEN TryOpen(Places) /\ Fail("contact_failed") /\ Finish
       ELSE IF Opens /\ ~job.retained
       THEN \/ TryOpen(Places) /\ pc' = "path" /\ UNCHANGED report
            \/ Broken(report)
       ELSE pc' = "path" /\ UNCHANGED <<at, held, report>>
    /\ UNCHANGED <<turn, session, call, hook, calls, past, fixture>>

\* hinge_waypoints and linear_waypoints command the whole travel: the part follows them,
\* slips, or is pressed the other way.
Driven == 0..FullTravel

\* The path is driven, then the fingers open and retreat.
Path ==
    /\ pc = "path" /\ Articulating
    /\ \E q \in Driven : joint' = [joint EXCEPT ![job.part] = q]
    /\ \/ TryOpen(Places) /\ pc' = "measure" /\ UNCHANGED report
       \/ Broken(report)
    /\ UNCHANGED <<turn, session, call, hook, calls, past, known, job, handled>>

-----------------------------------------------------------------------------
(* Measuring.                                                              *)

\* relative_planar_progress, signed_planar_angle_deg: from where the touched handle was to
\* where the mask taken for it is now, counted in the direction of the goal.
Progress(seen) == IF Opens THEN joint[seen] - job.was ELSE job.was - joint[seen]

\* What is measured must stand where the touched part stood, up to a tolerance in height.
SameHeight(seen) == job.height \in Heights([part |-> seen, panel |-> job.panel])

\* prismatic_measurement_within_command: what slides is no further from where the handle
\* was than the stroke commanded, or a close neighbour is.
WithinCommand(seen) == seen = job.part \/ Layout # "far"

\* The fixture's reference is its pose before the contact, so that fixture_refresh_gate is
\* met.
Reliable(seen) == SameHeight(seen) /\ (job.sliding => WithinCommand(seen))

\* Most of the stroke: 0.8 of it, or the least turn of a hinge.
GoalMatched(seen) == Reliable(seen) /\ Progress(seen) = FullTravel

\* _reground_visible takes the label's mask wherever it now lies.
Regrounded == Parts

\* The mask is on the part, on its neighbour, or nowhere usable.  An outage is raised,
\* past the report.
Measure ==
    /\ pc = "measure" /\ Articulating
    /\ \/ \E seen \in Regrounded :
            IF GoalMatched(seen) THEN report' = [report EXCEPT !.success = TRUE]
            ELSE Fail("verification_inconclusive")
       \/ Fail("verification_inconclusive")
       \/ Raised("perception_unavailable")
    /\ Finish
    /\ UNCHANGED <<scene, session, call, hook, calls, past, fixture>>

-----------------------------------------------------------------------------
(* What is remembered.                                                     *)

\* A hinge found from the moving panel replaces one found from the footprint.
BetterHinge(old, new) == IF new = "memory" \/ old = "panel" \/ (old = "footprint" /\ new # "panel")
                         THEN old ELSE new

\* A call that raised leaves no report.
Forgotten == report.mode \in {"raised", "perception_unavailable"}

\* The first height and the first axis are kept, the panel is marked; nothing is
\* remembered of a call that raised or grounded no part.
Remembered ==
    IF job.height = "none" \/ Forgotten THEN known
    ELSE [height |-> IF known.height = "none" THEN job.height ELSE known.height,
          panel |-> known.panel \/ job.panel,
          axis |-> known.axis \/ (job.sliding /\ job.source # "none"),
          hinge |-> IF job.sliding \/ job.source = "none" THEN known.hinge
                    ELSE BetterHinge(known.hinge, job.source)]

EndArticulate ==
    /\ known' = IF Articulating THEN Remembered ELSE known
    /\ handled' = IF Articulating /\ disturbed /\ ~job.panel /\ ~Forgotten
                  THEN handled \cup {job.part} ELSE handled
    /\ UNCHANGED <<joint, job>>

BeginArticulate ==
    /\ Begin("articulate", TRUE)
    /\ \E goal \in {"open", "closed"} : job' = [NoJob EXCEPT !.goal = goal]
    /\ UNCHANGED <<joint, known, handled>>

ArticulateStep == GroundPart \/ Plan \/ FaceContact \/ HandleContact \/ Pull \/ Path \/ Measure

ArticulateInit ==
    /\ joint \in [Parts -> {0, FullTravel}] /\ job = NoJob /\ handled = {}
    /\ known = [height |-> "none", panel |-> FALSE, axis |-> FALSE, hinge |-> "none"]
=============================================================================
