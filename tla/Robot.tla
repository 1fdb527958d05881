------------------------------- MODULE Robot -------------------------------
(***************************************************************************)
(* What the manipulation skills of racap/policy_api act on: the scene, the *)
(* gripper and the primitives of the runtime (racap/backends/libero.py and *)
(* its robosuite twin), and the frame every skill call runs in: the        *)
(* session's locks on what was grounded and its clean-up after a motion    *)
(* (racap/agent/tools.py).                                                 *)
(*                                                                         *)
(* The scene is a strip of places 4 cm apart with two look-alike bodies,   *)
(* the one the caller means and its twin, and one destination.  Poses are  *)
(* places; a grounding is a body's place when it was seen.                 *)
(***************************************************************************)
EXTENDS Integers, FiniteSets

CONSTANTS
    Places,       \* the table's places
    TwinAt,       \* where the twin stands
    StepReach,    \* MAX_GRASP_REGROUND_STEP_M in places
    AnchorReach,  \* MAX_GRASP_REGROUND_ANCHOR_M in places
    Thin,         \* whether a held body may be too thin for the opening sensor
    MaxCalls      \* bound: skill calls in one session

Target == "target"
Twin == "twin"
Bodies == {Target, Twin}
Goal == 100   \* the place of a body on or in the destination
Aloft == 200  \* the place of a body in the hand

ASSUME RobotAssumption ==
    /\ Places \subseteq 0..99 /\ 0 \in Places /\ TwinAt \in Places \ {0}
    /\ {StepReach, AnchorReach, MaxCalls} \subseteq Nat /\ Thin \in BOOLEAN

VARIABLES
    at,         \* where each body is
    turn,       \* how the target lies: 0 as it was first seen, 1 turned
    held,       \* the body in the fingers, or "none"
    pickLock,   \* _pick_locks of the target's label
    goalLock,   \* whether _destination_locks has the destination
    skill,      \* the skill of the running call, "none" between calls
    pc,         \* what the skill does next
    pick,       \* its grounding of the object
    anchor,     \* its first grounding: pick_identity_anchor_xy
    rung,       \* grasp attempts left
    plan,       \* the lie of the object an insertion was planned for
    report,     \* the report of the running or the last call
    hook,       \* report["go_home_hook"] and report["release_cleanup"]
    calls,      \* calls so far
    disturbed,  \* history: the call moved the arm or the fingers
    touched,    \* history: bodies the call's fingers met
    around,     \* history: bodies near the object, or in the hand, when the call grounded it
    opened,     \* history: the call opened its fingers over the destination
    fit         \* history: the object lies as planned when it enters the opening

scene == <<at, turn, held>>
session == <<pickLock, goalLock>>
call == <<skill, pick, anchor, rung, plan>>
past == <<disturbed, touched, around, opened, fit>>
vars == <<scene, session, call, pc, report, hook, calls, past>>

Grounded == [body : Bodies, place : Places \cup {Goal, Aloft}]
NoTarget == [body |-> "none", place |-> 0]

Modes == {"", "not_grounded", "infeasible", "broad_container_fit", "empty_grasp",
          "placement_failed", "insertion_failed", "verification_inconclusive", "unsafe_push",
          "push_failed", "no_motion", "wrong_direction", "no_motion_axis", "contact_failed",
          "articulation_failed", "actuation_failed", "raised", "perception_unavailable"}

Reports == [mode : Modes, success : BOOLEAN, preflight : BOOLEAN, release : BOOLEAN,
            empty : BOOLEAN, posed : BOOLEAN, aimed : BOOLEAN]

\* {}: what Session.run starts from and what is left when a skill raises.
EmptyReport == [mode |-> "", success |-> FALSE, preflight |-> FALSE, release |-> FALSE,
                empty |-> FALSE, posed |-> FALSE, aimed |-> FALSE]

-----------------------------------------------------------------------------
(* Perception.                                                             *)

Away(p, q) == IF p > q THEN p - q ELSE q - p

\* localize: a mask on either look-alike, by text, by box or by point; its cloud gives the
\* true place of what it covers.
Located == {[body |-> b, place |-> at[b]] : b \in Bodies}

\* localize_with_feedback: never the places already rejected.
FedBack(rejected) == {g \in Located : g.place \notin rejected}

\* track_target: local segmentation around the last view cannot jump to the other body.
Tracked(b) == {g \in Located : g.body = b}

\* What a crop or the marked scene says of a grounding (verify_pick_grounding, inspect).
Identities == {"match", "unclear", "other"}

\* The fingers' opening: it is apart on a body unless the body is thin, and may
\* look apart on nothing after a collision with the table.
Readings(h) == IF h = "none" \/ Thin THEN BOOLEAN ELSE {TRUE}

-----------------------------------------------------------------------------
(* The gripper.                                                            *)

\* Where a body that leaves the hand may come to lie.
Free(b) == (Places \cup {Goal}) \ {at[c] : c \in Bodies \ {b}}

\* open_gripper: a held body falls to one of the spots.
Open(spots) ==
    /\ held' = "none"
    /\ IF held = "none" THEN UNCHANGED at
       ELSE \E p \in spots \cap Free(held) : at' = [at EXCEPT ![held] = p]

\* Open, or fail to with the body still in the fingers.
TryOpen(spots) == Open(spots) \/ UNCHANGED <<at, held>>

\* recover: opens and goes home, and swallows every exception of the two.
Recover(spots) == TryOpen(spots)

Nudged(p) == {q \in Places : Away(p, q) <= 1} \cup ({p} \cap {Goal})

\* The fingers open, dropping what they still hold, and close at the place p: they
\* catch one body there or none, and a target they miss may slide and turn.
Closed(p) ==
    \E base \in IF held = "none" THEN {at} ELSE {[at EXCEPT ![held] = q] : q \in Free(held)} :
      LET there == {b \in Bodies : base[b] = p} IN
      /\ touched' = touched \cup there
      /\ \/ \E b \in there :
              /\ held' = b /\ at' = [base EXCEPT ![b] = Aloft] /\ UNCHANGED turn
         \/ /\ held' = "none" /\ at' = base /\ UNCHANGED turn
         \/ /\ held' = "none" /\ Target \in there /\ turn' \in {0, 1}
            /\ \E q \in Nudged(p) \ {base[Twin]} : at' = [base EXCEPT ![Target] = q]

-----------------------------------------------------------------------------
(* The frame of a call.                                                    *)

Fail(mode) == report' = [report EXCEPT !.mode = mode]

Finish == pc' = "home"

\* A skill that raises leaves no report: Session.run swallows the exception.
Raised(mode) == report' = [EmptyReport EXCEPT !.mode = mode] /\ Finish

Begin(s, preflight) ==
    /\ skill = "none" /\ calls < MaxCalls
    /\ calls' = calls + 1 /\ skill' = s /\ pc' = "pick"
    /\ report' = [EmptyReport EXCEPT !.preflight = preflight]
    /\ pick' = NoTarget /\ anchor' = NoTarget /\ rung' = 0 /\ plan' = 0 /\ hook' = ""
    /\ disturbed' = FALSE /\ touched' = {} /\ around' = {} /\ opened' = FALSE /\ fit' = TRUE
    /\ UNCHANGED <<scene, session>>

\* The transport skills read and keep the session's locks, the others do not.
Locking == skill \in {"pickplace", "insert"}

\* _remember_pick: the first pose reported for the label is kept.
RememberPick(g) == IF pickLock = NoTarget /\ report.posed THEN g ELSE pickLock

\* Released objects lose their lock, and so does an object that a failed grasp may
\* have moved, unless its label names it by its place.
PickLockAfter(transient, g) ==
    IF report.release THEN NoTarget
    ELSE IF report.mode = "empty_grasp" /\ ~transient THEN NoTarget
    ELSE RememberPick(g)

\* _go_home_after_motion: nothing after a preflight failure; fingers known to be
\* empty open again; otherwise the arm stays where it is while it holds something.
\* A sensor that cannot be read counts as an empty hand.
GoHomeAfterMotion ==
    \/ /\ report.preflight
       /\ hook' = "skipped_preflight" /\ UNCHANGED <<at, held>>
    \/ /\ ~report.preflight /\ (report.release \/ report.empty)
       /\ \/ hook' = "reopened" /\ Open(Places)
          \/ hook' = "open_failed" /\ UNCHANGED <<at, held>>
    \/ /\ ~report.preflight /\ ~(report.release \/ report.empty)
       /\ \/ \E reading \in Readings(held) :
               hook' = IF reading THEN "skipped_holding" ELSE "completed"
          \/ hook' = "unread"
       /\ UNCHANGED <<at, held>>

EndCall(transient) ==
    /\ pc = "home"
    /\ IF Locking
       THEN /\ pickLock' = PickLockAfter(transient, IF skill = "insert" THEN pick ELSE anchor)
            /\ goalLock' = (goalLock \/ report.aimed)
       ELSE UNCHANGED session
    /\ GoHomeAfterMotion
    /\ skill' = "none" /\ pc' = "idle"
    /\ UNCHANGED <<turn, pick, anchor, rung, plan, report, calls, past>>

RobotInit ==
    /\ at = [b \in Bodies |-> IF b = Target THEN 0 ELSE TwinAt]
    /\ turn = 0 /\ held = "none"
    /\ pickLock = NoTarget /\ goalLock = FALSE
    /\ skill = "none" /\ pc = "idle" /\ pick = NoTarget /\ anchor = NoTarget /\ rung = 0 /\ plan = 0
    /\ report = EmptyReport /\ hook = "" /\ calls = 0
    /\ disturbed = FALSE /\ touched = {} /\ around = {} /\ opened = FALSE /\ fit = TRUE
=============================================================================
