---------------------------- MODULE Manipulation ----------------------------
(***************************************************************************)
(* A session of manipulation calls: the grasping and the contact skills on *)
(* one scene and one fixture, each call framed by the session.             *)
(***************************************************************************)
EXTENDS GraspSkills, ContactSkills

Init == RobotInit /\ ArticulateInit

Step ==
    \/ GraspStep /\ UNCHANGED fixture
    \/ ContactStep
    \/ EndCall(Transient) /\ EndArticulate 

Next ==
    \/ BeginGrasp /\ job' = NoJob /\ UNCHANGED <<joint, known, handled>>
    \/ BeginContact
    \/ Step

Spec == Init /\ [][Next]_<<vars, fixture>>

-----------------------------------------------------------------------------

(* Every variable has its type, and a body is in the hand exactly when it  *)
(* is held.                                                                *)
TypeOK ==
    /\ at \in [Bodies -> Places \cup {Goal, Aloft}] /\ turn \in {0, 1} /\ plan \in {0, 1}
    /\ held \in Bodies \cup {"none"}
    /\ \A b \in Bodies : at[b] = Aloft <=> held = b
    /\ pickLock \in Grounded \cup {NoTarget} /\ goalLock \in BOOLEAN
    /\ skill \in {"none", "pickplace", "insert", "stack", "push", "articulate", "actuate"}
    /\ pc \in {"idle", "pick", "goal", "contact", "sensed", "missed", "carry", "release", "enter",
               "push", "part", "plan", "reach", "pull", "path", "turn", "measure", "home"}
    /\ pick \in Grounded \cup {NoTarget} /\ anchor \in Grounded \cup {NoTarget}
    /\ rung \in 0..Rungs \cup 0..InsertRungs \cup 0..2 /\ report \in Reports /\ calls \in 0..MaxCalls
    /\ hook \in {"", "skipped_preflight", "reopened", "open_failed", "skipped_holding",
                 "completed", "unread"}
    /\ disturbed \in BOOLEAN /\ touched \subseteq Bodies /\ around \subseteq Bodies
    /\ opened \in BOOLEAN /\ fit \in BOOLEAN
    /\ joint \in [Parts -> 0..FullTravel] /\ known \in Kinematics /\ job \in Jobs
    /\ handled \subseteq Parts

(* A call of insert, stack or actuate_control that reports itself as a     *)
(* preflight failure or skip moved nothing: the agents repeat or drop such *)
(* calls as if they had not been made (insert: "preflight only; scene      *)
(* unchanged").  articulate is left out when its approach raises.          *)
PreflightUntouched ==
    pc = "idle" /\ report.preflight /\ report.mode # "articulation_failed" => ~disturbed

(* However often a grasp fails and the object is looked for again, the     *)
(* fingers of a call only ever meet bodies that stood near the object when *)
(* the call first saw it, or were in the hand: the retries never walk to   *)
(* the look-alike.                                                         *)
NeverHijacked == skill \in {"pickplace", "insert", "stack"} => touched \subseteq around

(* A call that reports a release opened its fingers over the destination   *)
(* and left them empty, and a failed grasp ends with empty fingers unless  *)
(* they could not be opened.                                               *)
ReleaseTruthful ==
    pc = "idle" =>
        /\ report.release => opened
        /\ report.release \/ report.mode = "empty_grasp" => held = "none" \/ hook = "open_failed"

(* insert opens its fingers only over an object that lies as some          *)
(* collision-free fit was proved for (insert's docstring).                 *)
FitProved == opened => fit

(* All the calls that touched a handle and kept their report touched the   *)
(* same one: "re-grounding a stacked drawer bank otherwise tends to jump   *)
(* to the neighbouring drawer after the first attempt" (_do_articulate).   *)
OneHandle == Cardinality(handled) <= 1
=============================================================================
