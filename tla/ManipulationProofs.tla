------------------------- MODULE ManipulationProofs -------------------------
(***************************************************************************)
(* What holds of a session of manipulation calls for any strip of places,  *)
(* reach of a retry, length of the ladder of grasps and number of calls:   *)
(* the retries never leave the object, a report never says less than what  *)
(* was moved nor more than what was done, and one handle is remembered.    *)
(***************************************************************************)
EXTENDS Manipulation, FiniteSetTheorems, TLAPS

\* Where a body can be, and that it is in the hand exactly when it is held.
BodiesOK ==
    /\ at \in [Bodies -> Places \cup {Goal, Aloft}] /\ turn \in {0, 1}
    /\ held \in Bodies \cup {"none"}
    /\ \A b \in Bodies : at[b] = Aloft <=> held = b

Skills == {"none", "pickplace", "insert", "stack", "push", "articulate", "actuate"}
Steps == {"idle", "pick", "goal", "contact", "sensed", "missed", "carry", "release", "enter",
          "push", "part", "plan", "reach", "pull", "path", "turn", "measure", "home"}
Hooks == {"", "skipped_preflight", "reopened", "open_failed", "skipped_holding", "completed",
          "unread"}

\* What a call keeps of its aims and of the past.
CallOK ==
    /\ pickLock \in Grounded \cup {NoTarget} /\ goalLock \in BOOLEAN
    /\ pick \in Grounded \cup {NoTarget} /\ anchor \in Grounded \cup {NoTarget}
    /\ plan \in {0, 1} /\ calls \in 0..MaxCalls
    /\ disturbed \in BOOLEAN /\ touched \subseteq Bodies /\ around \subseteq Bodies
    /\ opened \in BOOLEAN /\ fit \in BOOLEAN

\* The steps of a skill that has grounded its object, and of one that has not ended.
GraspSteps == {"goal", "contact", "sensed", "missed", "carry", "release", "enter"}
Ended == {"home", "idle"}

\* Which skill is at which step, and that a step on a rung has one.
Control ==
    /\ skill \in Skills /\ pc \in Steps /\ rung \in Nat
    /\ rung <= Rungs \/ rung <= InsertRungs \/ rung <= 2
    /\ skill = "none" <=> pc = "idle"
    /\ pc \in GraspSteps => Grasping
    /\ pc = "push" => skill = "push"
    /\ pc = "turn" => Actuating
    /\ pc \in {"pull", "path"} => Articulating
    /\ pc \in {"part", "plan", "reach", "measure"} => Articulating \/ Actuating
    /\ pc \in {"sensed", "missed"} \/ (pc = "reach" /\ Actuating) => rung > 0

\* What the report may say at each step: nothing before the call ends, a release only
\* over the destination, a preflight only while nothing has moved.
Honest ==
    /\ report \in Reports
    /\ pc \notin Ended => report.mode = "" /\ ~report.release /\ ~report.success
    /\ report.release => opened /\ ~report.preflight
    /\ report.mode = "empty_grasp" => report.empty /\ ~report.preflight
    /\ disturbed /\ report.preflight => report.mode = "articulation_failed"
    /\ skill = "push" \/ (pc = "reach" /\ Actuating) => ~report.preflight
    /\ pc \in {"contact", "sensed", "missed", "carry", "release", "enter",
               "pull", "path", "turn", "measure"} => ~report.preflight
    /\ pc \in {"pick", "goal", "part", "plan"} \/ (pc = "reach" /\ Articulating) => ~disturbed

\* The aim stays near the first one, and what stood away from it then stands there still.
Near ==
    /\ pc = "pick" => touched = {}
    /\ Grasping => touched \subseteq around
    /\ pc \in GraspSteps =>
         /\ pick \in Grounded /\ anchor \in Grounded
         /\ Away(pick.place, anchor.place) <= AnchorReach
         /\ \A b \in Bodies \ around : held # b /\ Away(at[b], anchor.place) > AnchorReach

\* The part that a call works on, and the one whose height the label remembers.
FixtureOK ==
    /\ joint \in [Parts -> 0..FullTravel] /\ known \in Kinematics /\ job \in Jobs
    /\ ~job.sliding => job.source \in {"none", "memory", "footprint", "panel"}
    /\ Articulating /\ (disturbed \/ pc \in {"plan", "reach", "pull", "path", "measure"})
         => job.part \in Parts
    /\ Articulating /\ job.part \in Parts /\ ~job.panel
         => job.height = Level(job.part) /\ known.height \in {"none", Level(job.part)}
    /\ handled \subseteq Parts
    /\ \A p \in handled : Level(p) = known.height

Inv == BodiesOK /\ CallOK /\ Control /\ Honest /\ Near /\ FixtureOK

-----------------------------------------------------------------------------
\* ---- the bodies ----

\* The places of bodies are numbers apart from the hand's.
LEMMA PlacesAreNumbers ==
    /\ Places \cup {Goal, Aloft} \subseteq Nat /\ Aloft \notin Places \cup {Goal}
    /\ 0 \in Places
  BY RobotAssumption DEF Goal, Aloft

\* What leaves the hand comes to lie on the table or at the destination.
LEMMA FreeIsOnTheTable ==
  ASSUME NEW b
  PROVE  Free(b) \subseteq Places \cup {Goal}
  BY DEF Free

\* Moving a body that is not held to a place on the table keeps the rest.
LEMMA PutDown ==
  ASSUME BodiesOK, turn' = turn, held \in Bodies, NEW p \in Places \cup {Goal},
         held' = "none", at' = [at EXCEPT ![held] = p]
  PROVE  BodiesOK' /\ \A b \in Bodies \ {held} : at'[b] = at[b]
<1>1. \A b \in Bodies : at'[b] = IF b = held THEN p ELSE at[b]
  BY DEF BodiesOK
<1>2. at' \in [Bodies -> Places \cup {Goal, Aloft}]
  BY DEF BodiesOK
<1>3. "none" \notin Bodies
  BY DEF Bodies, Target, Twin
<1> QED
  BY <1>1, <1>2, <1>3, PlacesAreNumbers DEF BodiesOK

\* What the fingers do when they open, or try to: at most the held body moves.
LEMMA Opening ==
  ASSUME BodiesOK, turn' = turn, NEW spots, TryOpen(spots)
  PROVE  /\ BodiesOK' /\ held' \in {held, "none"}
         /\ \A b \in Bodies \ {held} : at'[b] = at[b]
         /\ Open(spots) => held' = "none"
<1>1. CASE UNCHANGED <<at, held>>
  BY <1>1 DEF BodiesOK, Open
<1>2. CASE Open(spots) /\ held = "none"
  BY <1>2 DEF BodiesOK, Open
<1>3. CASE Open(spots) /\ held # "none"
  <2>1. held \in Bodies /\ held' = "none"
    BY <1>3 DEF BodiesOK, Open
  <2>2. PICK p \in spots \cap Free(held) : at' = [at EXCEPT ![held] = p]
    BY <1>3 DEF Open
  <2>3. p \in Places \cup {Goal}
    BY <2>2, FreeIsOnTheTable
  <2> QED
    BY <2>1, <2>2, <2>3, PutDown
<1> QED
  BY <1>1, <1>2, <1>3 DEF TryOpen

\* What the fingers do when they close at p: what they meet was held or stood at p, and
\* only what they meet, or held, moves or is in the hand afterwards.
LEMMA Closing ==
  ASSUME BodiesOK, NEW p, Closed(p)
  PROVE  /\ BodiesOK'
         /\ touched \subseteq touched' /\ touched' \subseteq touched \cup Bodies
         /\ \A b \in Bodies : b \in touched' \ touched => at[b] = p \/ held = b
         /\ \A b \in Bodies : b \notin touched' /\ held # b => at'[b] = at[b] /\ held' # b
<1>1. PICK base \in IF held = "none" THEN {at}
                    ELSE {[at EXCEPT ![held] = q] : q \in Free(held)} :
        LET there == {b \in Bodies : base[b] = p} IN
        /\ touched' = touched \cup there
        /\ \/ \E b \in there :
                /\ held' = b /\ at' = [base EXCEPT ![b] = Aloft] /\ UNCHANGED turn
           \/ /\ held' = "none" /\ at' = base /\ UNCHANGED turn
           \/ /\ held' = "none" /\ Target \in there /\ turn' \in {0, 1}
              /\ \E q \in Nudged(p) \ {base[Twin]} : at' = [base EXCEPT ![Target] = q]
  BY DEF Closed
<1> DEFINE there == {b \in Bodies : base[b] = p}
<1>2. /\ base \in [Bodies -> Places \cup {Goal, Aloft}]
      /\ \A b \in Bodies : base[b] \in Places \cup {Goal}
      /\ \A b \in Bodies : held # b => base[b] = at[b]
  <2>1. CASE held = "none"
    <3>1. base = at
      BY <1>1, <2>1
    <3>2. \A b \in Bodies : at[b] # Aloft
      BY <2>1 DEF BodiesOK, Bodies, Target, Twin
    <3> QED
      BY <3>1, <3>2 DEF BodiesOK
  <2>2. CASE held # "none"
    <3>1. PICK q \in Free(held) : base = [at EXCEPT ![held] = q]
      BY <1>1, <2>2
    <3>2. q \in Places \cup {Goal} /\ held \in Bodies
      BY <2>2, FreeIsOnTheTable DEF BodiesOK
    <3>3. \A b \in Bodies : base[b] = IF b = held THEN q ELSE at[b]
      BY <3>1, <3>2 DEF BodiesOK
    <3>4. \A b \in Bodies : b # held => at[b] # Aloft
      BY DEF BodiesOK
    <3> QED
      BY <3>1, <3>2, <3>3, <3>4 DEF BodiesOK
  <2> QED
    BY <2>1, <2>2
<1>3. /\ touched' = touched \cup there /\ there \subseteq Bodies
      /\ \A b \in there : b \in Bodies /\ base[b] = p /\ (at[b] = p \/ held = b)
  BY <1>1, <1>2
<1>4. "none" \notin Bodies /\ Target \in Bodies
  BY DEF Bodies, Target, Twin
<1>5. BodiesOK' /\ \A b \in Bodies \ there : at'[b] = base[b] /\ held' # b
  <2>1. ASSUME NEW b \in there, held' = b, at' = [base EXCEPT ![b] = Aloft], UNCHANGED turn
        PROVE  BodiesOK' /\ \A c \in Bodies \ there : at'[c] = base[c] /\ held' # c
    <3>1. b \in Bodies
      BY <1>3
    <3>2. \A c \in Bodies : at'[c] = IF c = b THEN Aloft ELSE base[c]
      BY <2>1, <1>2
    <3>3. at' \in [Bodies -> Places \cup {Goal, Aloft}]
      BY <2>1, <1>2
    <3>4. \A c \in Bodies : at'[c] = Aloft <=> held' = c
      BY <2>1, <3>1, <3>2, <1>2, PlacesAreNumbers
    <3>5. turn' \in {0, 1} /\ held' \in Bodies
      BY <2>1, <3>1 DEF BodiesOK
    <3>6. BodiesOK'
      BY <3>3, <3>4, <3>5 DEF BodiesOK
    <3> QED
      BY <2>1, <3>2, <3>6
  <2>2. CASE held' = "none" /\ at' = base /\ UNCHANGED turn
    BY <2>2, <1>2, <1>4, PlacesAreNumbers DEF BodiesOK
  <2>3. ASSUME held' = "none", Target \in there, turn' \in {0, 1},
               NEW q \in Nudged(p), at' = [base EXCEPT ![Target] = q]
        PROVE  BodiesOK' /\ \A c \in Bodies \ there : at'[c] = base[c] /\ held' # c
    <3>1. q \in Places \cup {Goal}
      BY <2>3, <1>2, <1>3 DEF Nudged
    <3>2. \A c \in Bodies : at'[c] = IF c = Target THEN q ELSE base[c]
      BY <2>3, <1>2
    <3>3. at' \in [Bodies -> Places \cup {Goal, Aloft}]
      BY <2>3, <3>1, <1>2
    <3>4. \A c \in Bodies : at'[c] # Aloft /\ held' # c
      BY <2>3, <3>1, <3>2, <1>2, <1>4, PlacesAreNumbers
    <3>5. BodiesOK'
      BY <2>3, <3>3, <3>4 DEF BodiesOK
    <3> QED
      BY <2>3, <3>2, <3>4, <3>5
  <2> QED
    BY <1>1, <2>1, <2>2, <2>3
<1> HIDE DEF there
<1> QED
  BY <1>2, <1>3, <1>5

\* What a push does to the bodies: it moves none into the hand, and may empty it.
LEMMA Pushing ==
  ASSUME BodiesOK, turn' = turn, NEW p,
         NEW moved \in {at} \cup
               {[at EXCEPT ![b] = q] : b \in {c \in Bodies : at[c] = p}, q \in Nudged(p)},
         \/ at' = moved /\ held' = held
         \/ /\ held # "none" /\ held' = "none"
            /\ \E q \in Free(held) : at' = [moved EXCEPT ![held] = q]
  PROVE  BodiesOK'
<1>1. /\ moved \in [Bodies -> Places \cup {Goal, Aloft}]
      /\ \A b \in Bodies : moved[b] = Aloft <=> held = b
  <2>1. CASE moved = at
    BY <2>1 DEF BodiesOK
  <2>2. ASSUME NEW b \in Bodies, at[b] = p, NEW q \in Nudged(p), moved = [at EXCEPT ![b] = q]
        PROVE  /\ moved \in [Bodies -> Places \cup {Goal, Aloft}]
               /\ \A c \in Bodies : moved[c] = Aloft <=> held = c
    <3>1. p # Aloft /\ q \in Places \cup {Goal}
      <4>1. p \in Places \cup {Goal, Aloft}
        BY <2>2 DEF BodiesOK
      <4>2. \A r \in Places : ~(Away(Aloft, r) <= 1)
        BY RobotAssumption DEF Away, Aloft
      <4>3. Aloft # Goal
        BY DEF Aloft, Goal
      <4> QED
        BY <2>2, <4>1, <4>2, <4>3 DEF Nudged
    <3>2. held # b
      BY <2>2, <3>1 DEF BodiesOK
    <3>3. \A c \in Bodies : moved[c] = IF c = b THEN q ELSE at[c]
      BY <2>2 DEF BodiesOK
    <3>4. moved \in [Bodies -> Places \cup {Goal, Aloft}]
      BY <2>2, <3>1 DEF BodiesOK
    <3> QED
      BY <3>1, <3>2, <3>3, <3>4, PlacesAreNumbers DEF BodiesOK
  <2> QED
    BY <2>1, <2>2
<1>2. CASE at' = moved /\ held' = held
  BY <1>1, <1>2 DEF BodiesOK
<1>3. ASSUME held # "none", held' = "none",
             NEW q \in Free(held), at' = [moved EXCEPT ![held] = q]
      PROVE  BodiesOK'
  <2>1. q \in Places \cup {Goal} /\ held \in Bodies
    BY <1>3, FreeIsOnTheTable DEF BodiesOK
  <2>2. \A c \in Bodies : at'[c] = IF c = held THEN q ELSE moved[c]
    BY <1>1, <1>3
  <2>3. at' \in [Bodies -> Places \cup {Goal, Aloft}]
    BY <1>1, <1>3, <2>1
  <2>4. "none" \notin Bodies
    BY DEF Bodies, Target, Twin
  <2> QED
    BY <1>1, <1>3, <2>1, <2>2, <2>3, <2>4, PlacesAreNumbers DEF BodiesOK
<1> QED
  BY <1>2, <1>3

\* What a look finds stands where it is seen.
LEMMA SeenWhereItStands ==
  ASSUME BodiesOK
  PROVE  /\ Located \subseteq Grounded /\ GroundedPick \subseteq Located
         /\ \A b \in Bodies : FoundAgain(b) \subseteq Located
<1>1. \A b \in Bodies : [body |-> b, place |-> at[b]] \in Grounded
  BY DEF BodiesOK, Grounded
<1>2. Located \subseteq Grounded
  BY <1>1 DEF Located
<1>3. GroundedPick \subseteq Located
  BY DEF GroundedPick, FedBack
<1> QED
  BY <1>2, <1>3 DEF FoundAgain, Tracked

\* The distance of two places, the hand's among them.
LEMMA DistanceOfPlaces ==
  ASSUME NEW p \in Nat, NEW q \in Nat
  PROVE  Away(p, q) \in Nat /\ Away(p, p) = 0
  BY DEF Away

\* A grounding, and the absent one, stands at a number.
LEMMA GroundedPlaces ==
  ASSUME NEW g \in Grounded \cup {NoTarget}
  PROVE  g.place \in Nat
  BY PlacesAreNumbers DEF Grounded, NoTarget

\* The fingers open and the object may be looked for again: the aim moves only to what
\* stands near the last and the first one.
LEMMA Refreshing ==
  ASSUME BodiesOK, turn' = turn, Refresh, pick \in Grounded, anchor' = anchor
  PROVE  /\ BodiesOK' /\ held' \in {held, "none"}
         /\ \A b \in Bodies \ {held} : at'[b] = at[b]
         /\ pick' \in Grounded
         /\ pick' = pick \/ Away(pick'.place, anchor.place) <= AnchorReach
<1>1. TryOpen(Nudged(pick.place))
  BY DEF Refresh, TryOpen
<1>2. /\ BodiesOK' /\ held' \in {held, "none"}
      /\ \A b \in Bodies \ {held} : at'[b] = at[b]
  BY <1>1, Opening
<1>3. Located' \subseteq Grounded
  <2>1. \A b \in Bodies : [body |-> b, place |-> at'[b]] \in Grounded
    BY <1>2 DEF BodiesOK, Grounded
  <2> QED
    BY <2>1 DEF Located
<1>4. pick' = pick \/ \E g \in Located' : pick' = g /\ StillTheSame(g)
  BY DEF Refresh, Grounded, FoundAgain, Tracked, GroundedPick, FedBack
<1> QED
  BY <1>2, <1>3, <1>4 DEF StillTheSame

-----------------------------------------------------------------------------
\* ---- the bodies, step by step ----

\* All that a step does to the bodies is to open the fingers, if anything.
OpensOnly == turn' = turn /\ (UNCHANGED <<at, held>> \/ \E spots : Open(spots))

\* Fingers that only open move at most the body they held.
LEMMA OpeningOnly ==
  ASSUME BodiesOK, OpensOnly
  PROVE  /\ BodiesOK' /\ held' \in {held, "none"}
         /\ \A b \in Bodies \ {held} : at'[b] = at[b]
<1>1. \E spots : TryOpen(spots)
  BY DEF OpensOnly, TryOpen
<1> QED
  BY <1>1, Opening DEF OpensOnly

\* Apart from a contact and a push, a step of a call opens the fingers or leaves the scene.
LEMMA HandOpens ==
  ASSUME GraspStep \/ ContactStep, ~Contact, ~Push
  PROVE  OpensOnly
<1> USE DEF OpensOnly, TryOpen, Recover, Broken, Botched, MaySlip
<1>1. FindObject => OpensOnly
  BY DEF FindObject, scene
<1>2. FindGoal => OpensOnly
  BY DEF FindGoal, scene
<1>3. Judged => OpensOnly
  BY DEF Judged, scene
<1>4. NothingHeld => OpensOnly
  BY DEF NothingHeld, scene
<1>5. Release => OpensOnly
  BY DEF Release, scene
<1>6. PlanPush => OpensOnly
  BY DEF PlanPush, scene
<1>7. GroundFixture => OpensOnly
  BY DEF GroundFixture, scene
<1>8. GroundPart => OpensOnly
  BY DEF GroundPart, scene
<1>9. Plan => OpensOnly
  BY DEF Plan, scene
<1>10. Measure => OpensOnly
  BY DEF Measure, scene
<1>11. GroundControl => OpensOnly
  BY DEF GroundControl, scene
<1>12. JudgeControl => OpensOnly
  BY DEF JudgeControl, scene
<1>13. MeasureControl => OpensOnly
  BY DEF MeasureControl, scene
<1>14. Missed => OpensOnly
  BY DEF Missed, Refresh
<1>15. FalseHold => OpensOnly
  BY DEF FalseHold, Refresh
<1>16. Carry => OpensOnly
  BY DEF Carry
<1>17. Present => OpensOnly
  BY DEF Present
<1>18. Enter => OpensOnly
  BY DEF Enter
<1>19. FaceContact => OpensOnly
  BY DEF FaceContact
<1>20. HandleContact => OpensOnly
  BY DEF HandleContact
<1>21. Pull => OpensOnly
  BY DEF Pull
<1>22. Path => OpensOnly
  BY DEF Path
<1>23. Press => OpensOnly
  BY DEF Press
<1>24. Grip => OpensOnly
  BY DEF Grip
<1>25. Turn => OpensOnly
  BY DEF Turn
<1> QED
  BY <1>1, <1>2, <1>3, <1>4, <1>5, <1>6, <1>7, <1>8, <1>9, <1>10, <1>11, <1>12, <1>13,
     <1>14, <1>15, <1>16, <1>17, <1>18, <1>19, <1>20, <1>21, <1>22, <1>23, <1>24, <1>25
     DEF GraspStep, ContactStep, ArticulateStep

\* A step of a call leaves the bodies well placed.
LEMMA BodiesStep ==
  ASSUME Inv, GraspStep \/ ContactStep
  PROVE  BodiesOK'
<1>1. CASE Contact
  BY <1>1, Closing DEF Contact, Inv, BodiesOK
<1>2. CASE Push
  <2>1. turn' = turn
    BY <1>2 DEF Push
  <2>2. PICK moved \in {at} \cup {[at EXCEPT ![b] = q] : b \in {c \in Bodies : at[c] = pick.place},
                                                     q \in Nudged(pick.place)} :
          \/ at' = moved /\ held' = held
          \/ /\ held # "none" /\ held' = "none"
             /\ \E q \in Free(held) : at' = [moved EXCEPT ![held] = q]
    BY <1>2 DEF Push
  <2> QED
    BY <2>1, <2>2, Pushing DEF Inv
<1> QED
  BY <1>1, <1>2, HandOpens, OpeningOnly DEF Inv

-----------------------------------------------------------------------------
\* ---- how a call begins ----

\* A call begins with nothing moved, met or reported.
LEMMA Beginning ==
  ASSUME Inv, NEW s \in Skills \ {"none"}, NEW f \in BOOLEAN, s = "push" => ~f, Begin(s, f)
  PROVE  /\ BodiesOK' /\ CallOK' /\ Control' /\ Honest' /\ Near'
         /\ skill' = s /\ pc' = "pick" /\ ~disturbed'
<1>1. /\ skill' = s /\ pc' = "pick" /\ rung' = 0 /\ disturbed' = FALSE /\ opened' = FALSE
      /\ report' = [EmptyReport EXCEPT !.preflight = f]
      /\ touched' = {} /\ around' = {} /\ UNCHANGED <<at, turn, held>>
  BY DEF Begin, scene
<1>2. BodiesOK'
  BY <1>1 DEF Inv, BodiesOK
<1>3. CallOK'
  <2>1. /\ pickLock' = pickLock /\ goalLock' = goalLock /\ pick' = NoTarget /\ anchor' = NoTarget
        /\ plan' = 0 /\ calls' = calls + 1 /\ calls < MaxCalls /\ fit' = TRUE
    BY DEF Begin, session
  <2>2. calls' \in 0..MaxCalls
    BY <2>1, RobotAssumption DEF Inv, CallOK
  <2> QED
    BY <1>1, <2>1, <2>2 DEF Inv, CallOK
<1>4. Control'
  BY <1>1, GraspAssumption DEF Control, Skills, Steps, GraspSteps, Grasping, Actuating, Articulating
<1>5. /\ report' \in Reports /\ report'.mode = "" /\ ~report'.release /\ ~report'.success
      /\ report'.preflight = f
  BY <1>1 DEF EmptyReport, Reports, Modes
<1>6. Honest'
  BY <1>1, <1>5 DEF Honest, Ended, Actuating, Articulating
<1>7. Near'
  BY <1>1 DEF Near, GraspSteps, Grasping
<1> QED
  BY <1>1, <1>2, <1>3, <1>4, <1>6, <1>7

\* The job of a call that has not looked at a fixture.
LEMMA NoJobFits == NoJob \in Jobs /\ NoJob.part = "none" /\ NoJob.source = "none"
  BY DEF NoJob, Jobs, FullTravel

\* Nothing of the fixture matters to a call that begins.
LEMMA BeginningAtFixture ==
  ASSUME Inv, skill' # "none", ~disturbed', pc' = "pick", UNCHANGED <<joint, known, handled>>,
         NEW goal \in {"open", "closed"}, job' = [NoJob EXCEPT !.goal = goal]
  PROVE  FixtureOK'
<1>1. job' \in Jobs /\ job'.part = "none" /\ job'.source = "none"
  BY NoJobFits DEF Jobs
<1> QED
  BY <1>1 DEF Inv, FixtureOK, Parts

\* That job asks to open, as every other call's does.
LEMMA NoJobIsOpen == NoJob = [NoJob EXCEPT !.goal = "open"]
  BY DEF NoJob

-----------------------------------------------------------------------------
\* ---- what a report becomes ----

\* A step that writes nothing into the report.
LEMMA GoingOn ==
  ASSUME Inv, report' = report, pc \notin Ended, pc' \notin Ended, skill' = skill,
         pc' \in {"contact", "sensed", "missed", "carry", "release", "enter",
                  "pull", "path", "turn", "measure"} => ~report.preflight,
         pc' = "reach" /\ Actuating => ~report.preflight,
         pc' \in {"pick", "goal", "part", "plan"} \/ (pc' = "reach" /\ Articulating) => ~disturbed',
         disturbed' => disturbed \/ ~report.preflight
  PROVE  Honest'
  BY DEF Inv, Honest, Ended, Actuating, Articulating

\* A step that ends the call with a report that says enough.
LEMMA Ending ==
  ASSUME Inv, pc' = "home", skill' = skill, report' \in Reports,
         report'.release => opened' /\ ~report'.preflight,
         report'.mode = "empty_grasp" => report'.empty /\ ~report'.preflight,
         disturbed' /\ report'.preflight => report'.mode = "articulation_failed",
         skill = "push" => ~report'.preflight
  PROVE  Honest'
  BY DEF Honest, Ended

\* The same for a failure that a step of the call reports.
LEMMA Failing ==
  ASSUME Inv, pc \notin Ended, pc' = "home", skill' = skill,
         NEW mode \in Modes \ {"empty_grasp"}, Fail(mode),
         disturbed' /\ report.preflight => mode = "articulation_failed"
  PROVE  Honest'
<1>1. /\ report' \in Reports /\ report'.mode = mode /\ ~report'.release
      /\ report'.preflight = report.preflight
  BY DEF Inv, Honest, Fail, Reports
<1> QED
  BY <1>1, Ending DEF Inv, Honest

\* And for a success.
LEMMA Succeeding ==
  ASSUME Inv, pc \notin Ended, pc' = "home", skill' = skill,
         report' = [report EXCEPT !.success = TRUE], disturbed' => ~report.preflight
  PROVE  Honest'
<1>1. /\ report' \in Reports /\ report'.mode = "" /\ ~report'.release
      /\ report'.preflight = report.preflight
  BY DEF Inv, Honest, Reports
<1> QED
  BY <1>1, Ending DEF Inv, Honest

\* A raise leaves the empty report, which claims nothing.
LEMMA RaisedSaysNothing ==
  ASSUME NEW mode \in Modes \ {"empty_grasp"}, Raised(mode)
  PROVE  /\ pc' = "home" /\ report' \in Reports /\ report'.mode = mode
         /\ ~report'.release /\ ~report'.preflight /\ ~report'.success
  BY DEF Raised, Finish, EmptyReport, Reports

\* And for a step that raises.
LEMMA Raising ==
  ASSUME Inv, skill' = skill, NEW mode \in Modes \ {"empty_grasp"}, Raised(mode)
  PROVE  Honest'
  BY RaisedSaysNothing, Ending

-----------------------------------------------------------------------------
\* ---- the report, step by step ----

\* The steps of a carrying skill report nothing before the end, and then the truth.
LEMMA GraspReports ==
  ASSUME Inv, GraspStep
  PROVE  Honest'
<1> USE DEF Finish, call, past, Ended
<1>1. CASE FindObject
  <2>1. pc = "pick" /\ skill' = skill /\ disturbed' = disturbed /\ ~disturbed
    BY <1>1 DEF FindObject, Inv, Honest
  <2>2. \/ pc' = "goal" /\ report' = report
        \/ Fail("not_grounded") /\ pc' = "home"
        \/ Raised("perception_unavailable")
    BY <1>1 DEF FindObject
  <2> QED
    BY <2>1, <2>2, GoingOn, Failing, Raising DEF Modes
<1>2. CASE FindGoal
  <2>1. pc = "goal" /\ skill' = skill /\ UNCHANGED <<disturbed, opened>> /\ ~disturbed
        /\ Grasping /\ pc' \in {"contact", "home"}
    BY <1>2 DEF FindGoal, Inv, Honest, Control, GraspSteps, Raised
  <2>2. \/ pc' = "contact" /\ report' = [report EXCEPT !.preflight = FALSE, !.posed = TRUE, !.aimed = TRUE]
        \/ pc' = "home" /\ Fail("not_grounded")
        \/ Raised("perception_unavailable")
        \/ pc' = "home" /\ report' \in {[report EXCEPT !.mode = m, !.aimed = TRUE] :
                                          m \in {"infeasible", "broad_container_fit"}}
        \/ pc' = "home" /\ Fail("infeasible")
    BY <1>2 DEF FindGoal, NoFit, NoSupport, Fail
  <2>3. CASE pc' = "contact" /\ report' = [report EXCEPT !.preflight = FALSE, !.posed = TRUE, !.aimed = TRUE]
    <3>1. /\ report' \in Reports /\ report'.mode = "" /\ ~report'.release /\ ~report'.success
          /\ ~report'.preflight
      BY <2>1, <2>3 DEF Inv, Honest, Reports
    <3> QED
      BY <2>1, <2>3, <3>1 DEF Honest, Grasping, Actuating
  <2>4. ASSUME pc' = "home", NEW m \in {"infeasible", "broad_container_fit"},
               report' = [report EXCEPT !.mode = m, !.aimed = TRUE]
        PROVE  Honest'
    <3>1. report' \in Reports /\ report'.mode = m /\ ~report'.release
      BY <2>1, <2>4 DEF Inv, Honest, Reports, Modes
    <3> QED
      BY <2>1, <2>4, <3>1, Ending DEF Inv, Control, Grasping
  <2> QED
    BY <2>1, <2>2, <2>3, <2>4, Failing, Raising DEF Modes
<1>3. CASE Contact
  <2>1. pc = "contact" /\ skill' = skill /\ ~report.preflight /\ Grasping
    BY <1>3 DEF Contact, Inv, Honest, Control, GraspSteps
  <2>2. \/ pc' \in {"sensed", "missed", "contact"} /\ report' = report
        \/ Raised("raised")
    BY <1>3 DEF Contact
  <2> QED
    BY <2>1, <2>2, GoingOn, Raising DEF Modes
<1>4. CASE Missed \/ FalseHold
  <2>1. pc \in {"missed", "sensed"} /\ pc' = "contact" /\ skill' = skill /\ report' = report
        /\ disturbed' = disturbed /\ ~report.preflight
    BY <1>4 DEF Missed, FalseHold, Refresh, Inv, Honest
  <2> QED
    BY <2>1, GoingOn
<1>5. CASE Judged
  <2>1. pc = "sensed" /\ pc' = "carry" /\ skill' = skill /\ report' = report
        /\ disturbed' = disturbed /\ ~report.preflight
    BY <1>5 DEF Judged, Inv, Honest
  <2> QED
    BY <2>1, GoingOn
<1>6. CASE NothingHeld
  <2>1. pc = "contact" /\ pc' = "home" /\ skill' = skill /\ UNCHANGED <<disturbed, opened>>
        /\ ~report.preflight /\ report' = [report EXCEPT !.mode = "empty_grasp", !.empty = TRUE]
    BY <1>6 DEF NothingHeld, EmptyGrasp, Inv, Honest
  <2>2. /\ report' \in Reports /\ report'.mode = "empty_grasp" /\ report'.empty
        /\ ~report'.release /\ ~report'.preflight
    BY <2>1 DEF Inv, Honest, Reports, Modes
  <2> QED
    BY <2>1, <2>2, Ending
<1>7. CASE Carry
  <2>1. pc = "carry" /\ skill' = skill /\ disturbed' = disturbed /\ ~report.preflight
    BY <1>7 DEF Carry, Inv, Honest
  <2>2. \/ pc' = "release" /\ report' = report
        \/ pc' = "home" /\ Fail("placement_failed")
    BY <1>7 DEF Carry
  <2> QED
    BY <2>1, <2>2, GoingOn, Failing DEF Modes
<1>8. CASE Release \/ Enter
  <2>1. pc \in {"release", "enter"} /\ pc' = "home" /\ skill' = skill /\ disturbed' = disturbed
        /\ ~report.preflight
    BY <1>8 DEF Release, Enter, Inv, Honest
  <2>2. \/ \E mode \in {"placement_failed", "insertion_failed"} : Fail(mode)
        \/ opened' = TRUE /\ report' = [report EXCEPT !.release = TRUE, !.success = TRUE]
        \/ opened' = TRUE /\ report' = [report EXCEPT !.release = TRUE, !.mode = "verification_inconclusive"]
    BY <1>8 DEF Release, Enter, Fail
  <2>3. CASE opened' = TRUE /\ report' = [report EXCEPT !.release = TRUE, !.success = TRUE]
    <3>1. report' \in Reports /\ report'.mode = "" /\ ~report'.preflight
      BY <2>1, <2>3 DEF Inv, Honest, Reports
    <3> QED
      BY <2>1, <2>3, <3>1, Ending
  <2>4. CASE opened' = TRUE /\ report' = [report EXCEPT !.release = TRUE, !.mode = "verification_inconclusive"]
    <3>1. report' \in Reports /\ report'.mode = "verification_inconclusive" /\ ~report'.preflight
      BY <2>1, <2>4 DEF Inv, Honest, Reports, Modes
    <3> QED
      BY <2>1, <2>4, <3>1, Ending
  <2> QED
    BY <2>1, <2>2, <2>3, <2>4, Failing DEF Modes
<1>9. CASE Present
  <2>1. pc = "carry" /\ skill' = skill /\ disturbed' = disturbed /\ ~report.preflight
    BY <1>9 DEF Present, Inv, Honest
  <2>2. \/ pc' = "enter" /\ report' = report
        \/ pc' = "home" /\ Fail("insertion_failed")
    BY <1>9 DEF Present
  <2> QED
    BY <2>1, <2>2, GoingOn, Failing DEF Modes
<1> QED
  BY <1>1, <1>2, <1>3, <1>4, <1>5, <1>6, <1>7, <1>8, <1>9 DEF GraspStep

\* So do the steps of the skills that push and of those that work on a fixture.
LEMMA ContactReports ==
  ASSUME Inv, ContactStep
  PROVE  Honest'
<1> USE DEF Finish, call, past, Ended, Modes
<1>1. CASE PlanPush
  <2>1. pc = "pick" /\ skill = "push" /\ skill' = skill /\ disturbed' = disturbed
        /\ ~disturbed /\ ~report.preflight
    BY <1>1 DEF PlanPush, Inv, Honest
  <2>2. \/ pc' = "push" /\ report' = report
        \/ pc' = "home" /\ (Fail("unsafe_push") \/ Fail("not_grounded"))
        \/ Raised("perception_unavailable")
    BY <1>1 DEF PlanPush
  <2> QED
    BY <2>1, <2>2, GoingOn, Failing, Raising
<1>2. CASE Push
  <2>1. pc = "push" /\ pc' = "home" /\ skill' = skill /\ ~report.preflight
    BY <1>2 DEF Push, Inv, Honest, Control
  <2>2. \/ report' = [report EXCEPT !.success = TRUE]
        \/ \E mode \in {"push_failed", "verification_inconclusive", "no_motion", "wrong_direction"} :
             Fail(mode)
    BY <1>2 DEF Push
  <2> QED
    BY <2>1, <2>2, Succeeding, Failing
<1>3. CASE GroundFixture \/ GroundControl
  <2>1. pc \in {"pick", "part"} /\ skill' = skill /\ disturbed' = disturbed /\ ~disturbed
    BY <1>3 DEF GroundFixture, GroundControl, Inv, Honest
  <2>2. \/ pc' \in {"part", "plan"} /\ report' = report
        \/ pc' = "home" /\ Fail("not_grounded")
        \/ Raised("perception_unavailable")
    BY <1>3 DEF GroundFixture, GroundControl
  <2> QED
    BY <2>1, <2>2, GoingOn, Failing, Raising
<1>4. CASE GroundPart
  <2>1. pc = "part" /\ skill' = skill /\ disturbed' = disturbed /\ ~disturbed
    BY <1>4 DEF GroundPart, Inv, Honest
  <2>2. \/ pc' = "plan" /\ report' = report
        \/ pc' = "home" /\ Fail("not_grounded")
        \/ Raised("perception_unavailable")
    BY <1>4 DEF GroundPart
  <2> QED
    BY <2>1, <2>2, GoingOn, Failing, Raising
<1>5. CASE Plan
  <2>1. pc = "plan" /\ Articulating /\ skill' = skill /\ disturbed' = disturbed /\ ~disturbed
    BY <1>5 DEF Plan, Inv, Honest
  <2>2. \/ pc' = "reach" /\ report' = report
        \/ pc' = "home" /\ Fail("no_motion_axis")
        \/ Raised("perception_unavailable")
    BY <1>5 DEF Plan
  <2> QED
    BY <2>1, <2>2, GoingOn, Failing, Raising DEF Articulating, Actuating
<1>6. CASE FaceContact
  <2>1. pc = "reach" /\ Articulating /\ skill' = skill /\ ~disturbed
    BY <1>6 DEF FaceContact, Inv, Honest
  <2>2. \/ pc' = "path" /\ report' = [Early EXCEPT !.empty = TRUE]
        \/ pc' = "home" /\ Fail("articulation_failed")
        \/ pc' = "home" /\ Fail("no_motion_axis") /\ disturbed' = disturbed
    BY <1>6 DEF FaceContact, Broken, Fail
  <2>3. CASE pc' = "path" /\ report' = [Early EXCEPT !.empty = TRUE]
    <3>1. /\ report' \in Reports /\ report'.mode = "" /\ ~report'.release /\ ~report'.success
          /\ ~report'.preflight
      BY <2>1, <2>3 DEF Inv, Honest, Reports, Early
    <3> QED
      BY <2>1, <2>3, <3>1 DEF Honest, Articulating
  <2>4. CASE pc' = "home" /\ Fail("articulation_failed")
    BY <2>1, <2>4, Failing
  <2>5. CASE pc' = "home" /\ Fail("no_motion_axis") /\ disturbed' = disturbed
    BY <2>1, <2>5, Failing
  <2> QED
    BY <2>2, <2>3, <2>4, <2>5
<1>7. CASE HandleContact
  <2>1. pc = "reach" /\ Articulating /\ skill' = skill
    BY <1>7 DEF HandleContact
  <2>2. \/ pc' = "pull" /\ report' = Early
        \/ pc' = "home" /\ Fail("articulation_failed")
    BY <1>7 DEF HandleContact, Broken, Fail
  <2>3. CASE pc' = "pull" /\ report' = Early
    <3>1. /\ report' \in Reports /\ report'.mode = "" /\ ~report'.release /\ ~report'.success
          /\ ~report'.preflight
      BY <2>1, <2>3 DEF Inv, Honest, Reports, Early
    <3> QED
      BY <2>1, <2>3, <3>1 DEF Honest, Articulating
  <2> QED
    BY <2>1, <2>2, <2>3, Failing
<1>8. CASE Pull \/ Path
  <2>1. pc \in {"pull", "path"} /\ skill' = skill /\ disturbed' = disturbed /\ ~report.preflight
    BY <1>8 DEF Pull, Path, Inv, Honest
  <2>2. \/ pc' \in {"path", "measure"} /\ report' = report
        \/ pc' = "home" /\ (Fail("articulation_failed") \/ Fail("contact_failed"))
    BY <1>8 DEF Pull, Path, Broken, Fail
  <2> QED
    BY <2>1, <2>2, GoingOn, Failing
<1>9. CASE Measure \/ MeasureControl
  <2>1. pc = "measure" /\ pc' = "home" /\ skill' = skill /\ disturbed' = disturbed /\ ~report.preflight
    BY <1>9 DEF Measure, MeasureControl, Inv, Honest
  <2>2. \/ report' = [report EXCEPT !.success = TRUE]
        \/ Fail("verification_inconclusive") \/ Fail("no_motion")
        \/ Raised("perception_unavailable")
    BY <1>9 DEF Measure, MeasureControl
  <2> QED
    BY <2>1, <2>2, Succeeding, Failing, Raising
<1>10. CASE JudgeControl
  <2>1. pc = "plan" /\ Actuating /\ skill' = skill /\ disturbed' = disturbed /\ ~disturbed
    BY <1>10 DEF JudgeControl, Inv, Honest
  <2>2. \/ pc' = "home" /\ report' = [report EXCEPT !.success = TRUE]
        \/ pc' = "reach" /\ report' = Early
        \/ Raised("perception_unavailable")
    BY <1>10 DEF JudgeControl, Admitted
  <2>3. CASE pc' = "reach" /\ report' = Early
    <3>1. /\ report' \in Reports /\ report'.mode = "" /\ ~report'.release /\ ~report'.success
          /\ ~report'.preflight
      BY <2>1, <2>3 DEF Inv, Honest, Reports, Early
    <3> QED
      BY <2>1, <2>3, <3>1 DEF Honest, Articulating, Actuating
  <2> QED
    BY <2>1, <2>2, <2>3, Succeeding, Raising
<1>11. CASE Press \/ Grip \/ Turn
  <2>1. pc \in {"reach", "turn"} /\ skill' = skill /\ ~report.preflight
        /\ (pc = "reach" => Actuating)
    BY <1>11 DEF Press, Grip, Turn, Inv, Honest
  <2>2. \/ pc' \in {"measure", "turn"} /\ report' = report
        \/ pc' = pc /\ report' = report
        \/ pc' = "home" /\ (Fail("actuation_failed") \/ Fail("contact_failed"))
    BY <1>11 DEF Press, Grip, Turn, Botched
  <2> QED
    BY <2>1, <2>2, GoingOn, Failing DEF Articulating, Actuating
<1> QED
  BY <1>1, <1>2, <1>3, <1>4, <1>5, <1>6, <1>7, <1>8, <1>9, <1>10, <1>11
     DEF ContactStep, ArticulateStep

-----------------------------------------------------------------------------
\* ---- the steps of the skills ----

\* A step of a call moves to a step of the same skill.
LEMMA ControlStep ==
  ASSUME Inv, GraspStep \/ ContactStep
  PROVE  Control'
<1> USE GraspAssumption
    DEF Inv, Control, Finish, Raised, GraspSteps, Steps, Skills, Grasping, Actuating, Articulating
<1> USE DEF call, past
<1>1. FindObject => Control'
  BY DEF FindObject
<1>2. FindGoal => Control'
  <2>1. ASSUME FindGoal
        PROVE  /\ pc = "goal" /\ skill' = skill
               /\ \/ pc' = "contact" /\ rung' \in LadderLengths
                  \/ pc' = "home" /\ rung' = rung
    BY <2>1 DEF FindGoal
  <2>2. \A n \in LadderLengths : n \in Nat /\ (n <= Rungs \/ n <= InsertRungs)
    BY DEF LadderLengths
  <2> QED
    BY <2>1, <2>2
<1>3. Contact => Control'
  BY DEF Contact
<1>4. Missed => Control'
  BY DEF Missed, Refresh, NextRung
<1>5. Judged => Control'
  BY DEF Judged
<1>6. FalseHold => Control'
  BY DEF FalseHold, Refresh, NextRung
<1>7. NothingHeld => Control'
  BY DEF NothingHeld
<1>8. Carry => Control'
  BY DEF Carry
<1>9. Release => Control'
  BY DEF Release
<1>10. Present => Control'
  BY DEF Present
<1>11. Enter => Control'
  BY DEF Enter
<1>12. PlanPush => Control'
  BY DEF PlanPush
<1>13. Push => Control'
  BY DEF Push
<1>14. GroundFixture => Control'
  BY DEF GroundFixture
<1>15. GroundPart => Control'
  BY DEF GroundPart
<1>16. Plan => Control'
  BY DEF Plan
<1>17. FaceContact => Control'
  BY DEF FaceContact, Broken
<1>18. HandleContact => Control'
  BY DEF HandleContact, Broken
<1>19. Pull => Control'
  BY DEF Pull, Broken
<1>20. Path => Control'
  BY DEF Path, Broken
<1>21. Measure => Control'
  BY DEF Measure
<1>22. GroundControl => Control'
  BY DEF GroundControl
<1>23. JudgeControl => Control'
  <2>1. ASSUME JudgeControl
        PROVE  /\ pc = "plan" /\ Actuating /\ skill' = skill
               /\ \/ pc' = "reach" /\ rung' \in {1, 2}
                  \/ pc' = "home" /\ rung' = rung
    <3>1. CASE Raised("perception_unavailable") /\ UNCHANGED <<job, rung>>
      BY <2>1, <3>1 DEF JudgeControl
    <3>2. CASE ~(Raised("perception_unavailable") /\ UNCHANGED <<job, rung>>)
      BY <2>1, <3>2 DEF JudgeControl
    <3> QED
      BY <3>1, <3>2
  <2> QED
    BY <2>1
<1>24. Press => Control'
  BY DEF Press, Botched
<1>25. Grip => Control'
  BY DEF Grip, Botched
<1>26. Turn => Control'
  BY DEF Turn, Botched
<1>27. MeasureControl => Control'
  BY DEF MeasureControl
<1> QED
  BY <1>1, <1>2, <1>3, <1>4, <1>5, <1>6, <1>7, <1>8, <1>9, <1>10, <1>11, <1>12, <1>13,
     <1>14, <1>15, <1>16, <1>17, <1>18, <1>19, <1>20, <1>21, <1>22, <1>23, <1>24, <1>25,
     <1>26, <1>27
     DEF GraspStep, ContactStep, ArticulateStep

\* The aims and the history keep their types.
LEMMA CallStep ==
  ASSUME Inv, GraspStep \/ ContactStep
  PROVE  CallOK'
<1> USE DEF Inv, CallOK
<1>1. CASE FindObject
  <2>1. UNCHANGED <<pickLock, goalLock, plan, calls, disturbed, touched, opened, fit>>
    BY <1>1 DEF FindObject, session
  <2>2. \/ UNCHANGED <<pick, anchor, around>>
        \/ \E g \in Grounded : Ground(g)
    BY <1>1, SeenWhereItStands DEF FindObject
  <2>3. around' \subseteq Bodies /\ {pick', anchor'} \subseteq Grounded \cup {NoTarget}
    BY <2>2 DEF Ground
  <2> QED
    BY <2>1, <2>3
<1>2. CASE FindGoal
  <2>1. UNCHANGED <<pickLock, goalLock, pick, anchor, calls, disturbed, touched, around, opened, fit>>
        /\ (plan' = plan \/ plan' = turn)
    BY <1>2 DEF FindGoal, session, past
  <2> QED
    BY <2>1 DEF BodiesOK
<1>3. CASE Contact
  <2>1. UNCHANGED <<pickLock, goalLock, pick, anchor, plan, calls, around, opened, fit>>
        /\ disturbed' = TRUE
    BY <1>3 DEF Contact, session
  <2>2. touched' \subseteq Bodies
    BY <1>3, Closing DEF Contact
  <2> QED
    BY <2>1, <2>2
<1>4. CASE Missed \/ FalseHold
  <2>1. UNCHANGED <<pickLock, goalLock, anchor, plan, calls, disturbed, touched, around, opened, fit>>
    BY <1>4 DEF Missed, FalseHold, session, past
  <2>2. pick' \in Grounded
    <3>1. pick \in Grounded
      BY <1>4 DEF Missed, FalseHold, Near, GraspSteps
    <3>2. turn' = turn /\ anchor' = anchor /\ (Refresh \/ pick' = pick)
      BY <1>4 DEF Missed, FalseHold
    <3> QED
      BY <3>1, <3>2, Refreshing
  <2> QED
    BY <2>1, <2>2
<1>5. CASE PlanPush
  <2>1. UNCHANGED <<pickLock, goalLock, anchor, plan, calls, disturbed, touched, around, opened, fit>>
    BY <1>5 DEF PlanPush, session, past
  <2>2. pick' \in Grounded \/ pick' = pick
    BY <1>5, SeenWhereItStands DEF PlanPush
  <2> QED
    BY <2>1, <2>2
<1>6. Judged => CallOK'
  BY DEF Judged, session, call, past
<1>7. NothingHeld => CallOK'
  BY DEF NothingHeld, session, call, past
<1>8. Carry => CallOK'
  BY DEF Carry, session, call, past
<1>9. Release => CallOK'
  BY DEF Release, session, call, past
<1>10. Present => CallOK'
  BY DEF Present, session, call, past
<1>11. Enter => CallOK'
  BY DEF Enter, session, call, past
<1>12. Push => CallOK'
  BY DEF Push, session, call, past
<1>13. GroundFixture => CallOK'
  BY DEF GroundFixture, session, call, past
<1>14. GroundPart => CallOK'
  BY DEF GroundPart, session, call, past
<1>15. Plan => CallOK'
  BY DEF Plan, session, call, past
<1>16. FaceContact => CallOK'
  BY DEF FaceContact, session, call, past
<1>17. HandleContact => CallOK'
  BY DEF HandleContact, session, call, past
<1>18. Pull => CallOK'
  BY DEF Pull, session, call, past
<1>19. Path => CallOK'
  BY DEF Path, session, call, past
<1>20. Measure => CallOK'
  BY DEF Measure, session, call, past
<1>21. GroundControl => CallOK'
  BY DEF GroundControl, session, call, past
<1>22. JudgeControl => CallOK'
  BY DEF JudgeControl, session, call, past
<1>23. Press => CallOK'
  BY DEF Press, session, call, past
<1>24. Grip => CallOK'
  BY DEF Grip, session, call, past
<1>25. Turn => CallOK'
  BY DEF Turn, session, call, past
<1>26. MeasureControl => CallOK'
  BY DEF MeasureControl, session, call, past
<1> QED
  BY <1>1, <1>2, <1>3, <1>4, <1>5, <1>6, <1>7, <1>8, <1>9, <1>10, <1>11, <1>12, <1>13,
     <1>14, <1>15, <1>16, <1>17, <1>18, <1>19, <1>20, <1>21, <1>22, <1>23, <1>24, <1>25,
     <1>26
     DEF GraspStep, ContactStep, ArticulateStep

\* A step that leaves what the fingers met, and aims near the first aim.
LEMMA StayingNear ==
  ASSUME Inv, pc \in GraspSteps, OpensOnly, pc' # "pick",
         UNCHANGED <<skill, anchor, around, touched>>,
         pick' \in Grounded, pick' = pick \/ Away(pick'.place, anchor.place) <= AnchorReach
  PROVE  Near'
<1>1. \A b \in Bodies \ around : held' # b /\ at'[b] = at[b]
  <2>1. \A b \in Bodies \ around : held # b
    BY DEF Inv, Near
  <2>2. "none" \notin Bodies
    BY DEF Bodies, Target, Twin
  <2> QED
    BY <2>1, <2>2, OpeningOnly DEF Inv
<1> QED
  BY <1>1 DEF Inv, Near, Grasping

\* Where in a call the fingers meet bodies without opening first.
LEMMA WhereTheFingersClose ==
    /\ Contact => pc = "contact" /\ rung > 0
    /\ Push => pc = "push"
  BY DEF Contact, Push

\* The skills that touch a fixture, and push, are not those that carry.
LEMMA NotGrasping ==
  ASSUME Inv, ContactStep
  PROVE  skill' = skill /\ pc' # "pick" /\ ~Grasping
<1> USE DEF Finish, Raised, Broken, Botched, call, Grasping, Actuating, Articulating
<1>1. CASE PlanPush \/ Push \/ GroundFixture
  BY <1>1 DEF PlanPush, Push, GroundFixture, Inv, Control
<1>2. CASE GroundPart \/ Plan \/ Measure
  BY <1>2 DEF GroundPart, Plan, Measure
<1>3. CASE FaceContact \/ HandleContact \/ Pull \/ Path
  BY <1>3 DEF FaceContact, HandleContact, Pull, Path
<1>4. CASE GroundControl \/ MeasureControl
  BY <1>4 DEF GroundControl, MeasureControl
<1>5. CASE JudgeControl
  BY <1>5 DEF JudgeControl
<1>6. CASE Press \/ Grip \/ Turn
  BY <1>6 DEF Press, Grip, Turn, Inv, Control
<1> QED
  BY <1>1, <1>2, <1>3, <1>4, <1>5, <1>6 DEF ContactStep, ArticulateStep

\* No step of a call lets the aim leave the object, or moves what stands away from it.
LEMMA NearStep ==
  ASSUME Inv, GraspStep \/ ContactStep
  PROVE  Near'
<1>0. Control'
  BY ControlStep
<1>1. CASE FindObject
  <2>1. /\ pc = "pick" /\ pc' # "pick" /\ touched' = touched /\ touched = {}
        /\ UNCHANGED <<at, held>>
    BY <1>1 DEF FindObject, Finish, Raised, scene, Inv, Near
  <2>2. \/ pc' \notin GraspSteps
        \/ \E g \in Grounded : Ground(g)
    BY <1>1, SeenWhereItStands DEF FindObject, Finish, Raised, GraspSteps, Inv, CallOK
  <2>3. ASSUME NEW g \in Grounded, Ground(g)
        PROVE  Near'
    <3>1. Away(g.place, g.place) <= AnchorReach
      <4>1. g.place \in Nat /\ AnchorReach \in Nat
        BY GroundedPlaces, RobotAssumption
      <4> QED
        BY <4>1, DistanceOfPlaces
    <3>2. \A b \in Bodies : Away(at[b], g.place) \in Nat
      BY GroundedPlaces, DistanceOfPlaces, PlacesAreNumbers DEF Inv, BodiesOK
    <3>3. \A b \in Bodies \ around' : held # b /\ Away(at[b], g.place) > AnchorReach
      BY <2>3, <3>2, RobotAssumption DEF Ground
    <3> QED
      BY <2>1, <2>3, <3>1, <3>3 DEF Near, Ground
  <2> QED
    BY <2>1, <2>2, <2>3 DEF Near
<1>2. CASE Contact
  <2>1. /\ pc = "contact" /\ pc' # "pick" /\ UNCHANGED <<skill, pick, anchor, around>>
    BY <1>2 DEF Contact, Raised, Finish
  <2>2. \/ Closed(pick.place)
        \/ UNCHANGED <<at, held, turn, touched>>
    BY <1>2 DEF Contact
  <2>3. /\ pick \in Grounded /\ anchor \in Grounded /\ touched \subseteq around
        /\ Away(pick.place, anchor.place) <= AnchorReach
        /\ \A b \in Bodies \ around : held # b /\ Away(at[b], anchor.place) > AnchorReach
    BY <2>1 DEF Inv, Near, Control, GraspSteps
  <2>4. ASSUME Closed(pick.place)
        PROVE  /\ touched' \subseteq around
               /\ \A b \in Bodies \ around : held' # b /\ at'[b] = at[b]
    <3>1. \A b \in Bodies \ around : ~(at[b] = pick.place) /\ held # b
      <4>1. AnchorReach \in Nat /\ Away(pick.place, anchor.place) \in Nat
        BY <2>3, GroundedPlaces, DistanceOfPlaces, RobotAssumption
      <4> QED
        BY <2>3, <4>1
    <3>2. \A b \in Bodies \ around : b \notin touched'
      BY <2>3, <2>4, <3>1, Closing DEF Inv
    <3>3. touched' \subseteq Bodies
      BY <2>4, Closing DEF Inv, CallOK
    <3> QED
      BY <2>4, <3>1, <3>2, <3>3, Closing DEF Inv
  <2> QED
    BY <2>1, <2>2, <2>3, <2>4 DEF Near
<1>3. CASE Missed \/ FalseHold
  <2>1. /\ pc \in GraspSteps /\ pc' = "contact" /\ UNCHANGED <<skill, anchor, around, touched, turn>>
        /\ Refresh \/ pick' = pick
    BY <1>3 DEF Missed, FalseHold, Refresh, GraspSteps, past
  <2>2. OpensOnly
    BY <1>3, HandOpens, WhereTheFingersClose DEF Missed, FalseHold, GraspStep
  <2>3. pick \in Grounded
    BY <2>1 DEF Inv, Near
  <2> QED
    BY <2>1, <2>2, <2>3, Refreshing, StayingNear DEF Inv
<1>4. CASE FindGoal \/ Judged \/ NothingHeld \/ Carry \/ Release \/ Present \/ Enter
  <2>1. /\ pc \in GraspSteps /\ pc' # "pick" /\ UNCHANGED <<skill, pick, anchor, around, touched>>
    BY <1>4 DEF FindGoal, Judged, NothingHeld, Carry, Release, Present, Enter, GraspSteps, call, past,
                Finish, Raised
  <2>2. ~Contact /\ ~Push
    <3>1. NothingHeld => pc = "contact" /\ rung = 0
      BY DEF NothingHeld
    <3>2. /\ FindGoal => pc = "goal"
          /\ Judged => pc = "sensed"
          /\ Carry \/ Present => pc = "carry"
          /\ Release => pc = "release"
          /\ Enter => pc = "enter"
      BY DEF FindGoal, Judged, Carry, Release, Present, Enter
    <3> QED
      BY <1>4, <3>1, <3>2, WhereTheFingersClose
  <2>3. OpensOnly
    BY <1>4, <2>2, HandOpens DEF GraspStep
  <2> QED
    BY <2>1, <2>3, StayingNear DEF Inv, Near
<1>5. CASE ContactStep
  BY <1>0, <1>5, NotGrasping DEF Near, Control, Grasping
<1> QED
  BY <1>1, <1>2, <1>3, <1>4, <1>5 DEF GraspStep

\* A step that does not touch what is known of the fixture.
LEMMA FixtureStays ==
  ASSUME Inv, UNCHANGED fixture, skill' = skill,
         Articulating => (disturbed' => disturbed \/ pc \in {"reach", "pull", "path"}),
         Articulating => (pc' \in {"plan", "reach", "pull", "path", "measure"}
                            => pc \in {"plan", "reach", "pull", "path", "measure"})
  PROVE  FixtureOK'
  BY DEF Inv, FixtureOK, fixture, Articulating, Opens

\* Each step keeps the part it grounded and what the label remembers of it.
LEMMA FixtureStep ==
  ASSUME Inv, (GraspStep /\ UNCHANGED fixture) \/ ContactStep
  PROVE  FixtureOK'
<1>1. CASE GraspStep /\ UNCHANGED fixture
  <2>1. Grasping /\ skill' = skill
    BY <1>1 DEF GraspStep, FindObject, FindGoal, Contact, Missed, Judged, FalseHold, NothingHeld, Carry,
                Release, Present, Enter, call, Inv, Control, GraspSteps
  <2> QED
    BY <1>1, <2>1, FixtureStays DEF Grasping, Articulating
<1>2. CASE PlanPush \/ Push \/ GroundControl \/ Press \/ Grip \/ Turn \/ MeasureControl
  <2>1. UNCHANGED fixture /\ skill' = skill
    BY <1>2 DEF PlanPush, Push, GroundControl, Press, Grip, Turn, MeasureControl, call
  <2>2. ~Articulating
    BY <1>2 DEF PlanPush, Push, GroundControl, Press, Grip, Turn, MeasureControl, Inv, Control,
                Articulating, Actuating
  <2> QED
    BY <2>1, <2>2, FixtureStays
<1>3. CASE GroundFixture
  BY <1>3, FixtureStays DEF GroundFixture, call, past, Finish, Raised
<1>4. CASE FaceContact \/ Pull \/ Measure
  <2>1. UNCHANGED fixture /\ skill' = skill /\ pc \in {"reach", "pull", "measure"}
        /\ (disturbed' => disturbed \/ pc = "reach")
    BY <1>4 DEF FaceContact, Pull, Measure, call, past
  <2> QED
    BY <2>1, FixtureStays
<1>5. CASE GroundPart
  <2>1. /\ pc = "part" /\ skill' = skill /\ disturbed' = disturbed /\ ~disturbed
        /\ UNCHANGED <<joint, known, handled>>
    BY <1>5 DEF GroundPart, past, Inv, Honest, call
  <2>2. \/ \E c \in Contacts : \E height \in Heights(c), band \in Bands(c) :
             /\ RememberedHeight(c, height)
             /\ job' = [job EXCEPT !.part = c.part, !.panel = c.panel, !.height = height,
                                   !.band = band, !.was = joint[c.part]]
        \/ job' = job /\ pc' = "home"
    BY <1>5 DEF GroundPart, Finish, Raised
  <2>3. ASSUME NEW c \in Contacts, NEW height \in Heights(c), NEW band \in Bands(c),
               RememberedHeight(c, height),
               job' = [job EXCEPT !.part = c.part, !.panel = c.panel, !.height = height,
                                  !.band = band, !.was = joint[c.part]]
        PROVE  FixtureOK'
    <3>1. c.part \in Parts /\ c.panel \in BOOLEAN /\ Level(c.part) \in Parts
      <4>1. \E p \in Parts, panel \in BOOLEAN : c = [part |-> p, panel |-> panel]
        BY <2>3 DEF Contacts, HandleContacts, PanelContacts
      <4> QED
        BY <4>1 DEF Parts, Level
    <3>2. /\ height \in {Level(c.part), "panel"} /\ (~c.panel => height = Level(c.part))
          /\ (~c.panel => known.height \in {"none", height})
      BY <2>3, <3>1 DEF Heights, RememberedHeight
    <3>3. band \in BOOLEAN /\ joint[c.part] \in 0..FullTravel
      BY <2>3, <3>1 DEF Bands, ProtrudingBand, Inv, FixtureOK
    <3>4. /\ job' \in Jobs /\ job'.part = c.part /\ job'.panel = c.panel /\ job'.height = height
          /\ job'.sliding = job.sliding /\ job'.source = job.source
      BY <2>3, <3>1, <3>2, <3>3 DEF Inv, FixtureOK, Jobs
    <3> QED
      BY <2>1, <3>1, <3>2, <3>4 DEF Inv, FixtureOK, Articulating
  <2>4. CASE job' = job /\ pc' = "home"
    BY <2>1, <2>4, FixtureStays DEF fixture
  <2> QED
    BY <2>2, <2>3, <2>4
<1>6. CASE Plan
  <2>1. /\ pc = "plan" /\ Articulating /\ skill' = skill /\ disturbed' = disturbed
        /\ UNCHANGED <<joint, known, handled>>
    BY <1>6 DEF Plan, past, call
  <2>2. \/ \E sliding \in BOOLEAN : \E source \in IF sliding THEN AxisSources ELSE HingeSources :
             job' = [job EXCEPT !.sliding = sliding, !.source = source]
        \/ job' = job
    BY <1>6 DEF Plan, Mechanisms
  <2>3. ASSUME NEW sliding \in BOOLEAN, NEW source \in IF sliding THEN AxisSources ELSE HingeSources,
               job' = [job EXCEPT !.sliding = sliding, !.source = source]
        PROVE  FixtureOK'
    <3>1. /\ source \in {"none", "memory", "boundary", "footprint", "line", "panel"}
          /\ ~sliding => source \in {"none", "memory", "footprint", "panel"}
      BY <2>3 DEF AxisSources, HingeSources, BoundaryAxis, FootprintAxis, LineAxis, PanelHinge,
                  FootprintHinge
    <3>2. /\ job' \in Jobs /\ job'.part = job.part /\ job'.panel = job.panel
          /\ job'.height = job.height /\ job'.sliding = sliding /\ job'.source = source
      BY <2>3, <3>1 DEF Inv, FixtureOK, Jobs
    <3> QED
      BY <2>1, <3>1, <3>2 DEF Inv, FixtureOK, Articulating
  <2>4. CASE job' = job
    BY <2>1, <2>4, FixtureStays DEF fixture
  <2> QED
    BY <2>2, <2>3, <2>4
<1>7. CASE HandleContact
  <2>1. /\ pc = "reach" /\ Articulating /\ skill' = skill /\ UNCHANGED <<joint, known, handled>>
        /\ \/ \E retained \in BOOLEAN : job' = [job EXCEPT !.retained = retained]
           \/ job' = job
    BY <1>7 DEF HandleContact, Retentions, call
  <2>2. ASSUME NEW retained \in BOOLEAN, job' = [job EXCEPT !.retained = retained]
        PROVE  FixtureOK'
    <3>1. /\ job' \in Jobs /\ job'.part = job.part /\ job'.panel = job.panel
          /\ job'.height = job.height /\ job'.sliding = job.sliding /\ job'.source = job.source
      BY <2>2 DEF Inv, FixtureOK, Jobs
    <3> QED
      BY <2>1, <3>1 DEF Inv, FixtureOK, Articulating
  <2>3. CASE job' = job
    BY <2>1, <2>3, FixtureStays DEF fixture
  <2> QED
    BY <2>1, <2>2, <2>3
<1>8. CASE Path
  <2>1. /\ pc = "path" /\ Articulating /\ skill' = skill /\ disturbed' = disturbed
        /\ UNCHANGED <<known, job, handled>>
        /\ \E q \in 0..FullTravel : joint' = [joint EXCEPT ![job.part] = q]
    BY <1>8 DEF Path, past, call, Driven
  <2>2. joint' \in [Parts -> 0..FullTravel]
    BY <2>1 DEF Inv, FixtureOK
  <2> QED
    BY <2>1, <2>2 DEF Inv, FixtureOK, Articulating
<1>9. CASE JudgeControl
  <2>1. /\ Actuating /\ skill' = skill /\ UNCHANGED <<joint, known, handled>>
        /\ \/ \E seen \in {"wanted", "other", "unread"}, press \in BOOLEAN, band \in BOOLEAN :
                job' = [job EXCEPT !.seen = seen, !.press = press, !.band = band]
           \/ job' = job
    BY <1>9 DEF JudgeControl, RaisedBand
  <2>2. ASSUME NEW seen \in {"wanted", "other", "unread"}, NEW press \in BOOLEAN, NEW band \in BOOLEAN,
               job' = [job EXCEPT !.seen = seen, !.press = press, !.band = band]
        PROVE  FixtureOK'
    <3>1. job' \in Jobs /\ job'.sliding = job.sliding /\ job'.source = job.source
      BY <2>2 DEF Inv, FixtureOK, Jobs
    <3> QED
      BY <2>1, <3>1 DEF Inv, FixtureOK, Articulating, Actuating
  <2>3. CASE job' = job
    BY <2>1, <2>3, FixtureStays DEF fixture, Articulating, Actuating
  <2> QED
    BY <2>1, <2>2, <2>3
<1> QED
  BY <1>1, <1>2, <1>3, <1>4, <1>5, <1>6, <1>7, <1>8, <1>9 DEF ContactStep, ArticulateStep

-----------------------------------------------------------------------------
\* ---- how a call ends ----

\* What a call on a fixture leaves in the memory of its label.
LEMMA RememberedKinematics ==
  ASSUME Inv
  PROVE  /\ Remembered \in Kinematics
         /\ known.height # "none" => Remembered.height = known.height
         /\ job.height # "none" /\ ~Forgotten /\ known.height = "none" => Remembered.height = job.height
<1>1. CASE job.height = "none" \/ Forgotten
  BY <1>1 DEF Remembered, Inv, FixtureOK
<1>2. CASE ~(job.height = "none" \/ Forgotten)
  <2> DEFINE height == IF known.height = "none" THEN job.height ELSE known.height
             panel == known.panel \/ job.panel
             axis == known.axis \/ (job.sliding /\ job.source # "none")
             hinge == IF job.sliding \/ job.source = "none" THEN known.hinge
                      ELSE BetterHinge(known.hinge, job.source)
  <2>1. Remembered = [height |-> height, panel |-> panel, axis |-> axis, hinge |-> hinge]
    BY <1>2 DEF Remembered
  <2>2. height \in Parts \cup {"none", "panel"}
    BY DEF Inv, FixtureOK, Kinematics, Jobs
  <2>3. panel \in BOOLEAN /\ axis \in BOOLEAN
    BY DEF Inv, FixtureOK, Kinematics, Jobs
  <2>4. hinge \in {"none", "footprint", "panel"}
    BY DEF Inv, FixtureOK, Kinematics, Jobs, BetterHinge
  <2>5. known.height # "none" => height = known.height
    OBVIOUS
  <2>6. known.height = "none" => height = job.height
    OBVIOUS
  <2> HIDE DEF height, panel, axis, hinge
  <2> QED
    BY <2>1, <2>2, <2>3, <2>4, <2>5, <2>6 DEF Kinematics
<1> QED
  BY <1>1, <1>2

\* The end of a call adds its handle only under the height that the label keeps.
LEMMA EndFixture ==
  ASSUME Inv, EndArticulate, skill' = "none"
  PROVE  FixtureOK'
<1>1. /\ joint' = joint /\ job' = job
      /\ known' = IF Articulating THEN Remembered ELSE known
      /\ handled' = IF Articulating /\ disturbed /\ ~job.panel /\ ~Forgotten
                    THEN handled \cup {job.part} ELSE handled
  BY DEF EndArticulate
<1>2. known' \in Kinematics
  BY <1>1, RememberedKinematics DEF Inv, FixtureOK
<1>3. known.height # "none" => known'.height = known.height
  BY <1>1, RememberedKinematics
<1>4. known.height = "none" => handled = {}
  BY DEF Inv, FixtureOK, Parts, Level
<1>5. handled \subseteq Parts /\ \A p \in handled : Level(p) = known'.height
  BY <1>3, <1>4 DEF Inv, FixtureOK
<1>6. Articulating /\ disturbed /\ ~job.panel /\ ~Forgotten
        => job.part \in Parts /\ Level(job.part) = known'.height
  <2>1. Articulating /\ disturbed /\ ~job.panel
          => /\ job.part \in Parts /\ job.height = Level(job.part) /\ Level(job.part) # "none"
             /\ known.height \in {"none", Level(job.part)}
    BY DEF Inv, FixtureOK, Parts, Level
  <2> QED
    BY <1>1, <1>3, <2>1, RememberedKinematics
<1>7. handled' \subseteq Parts /\ \A p \in handled' : Level(p) = known'.height
  BY <1>1, <1>5, <1>6
<1>8. ~Articulating'
  BY DEF Articulating
<1> QED
  BY <1>1, <1>2, <1>7, <1>8 DEF Inv, FixtureOK, Articulating

\* The session's clean-up empties the fingers or says why it did not.
LEMMA CleaningUp ==
  ASSUME Inv, GoHomeAfterMotion, turn' = turn
  PROVE  /\ BodiesOK' /\ hook' \in Hooks
         /\ ~report.preflight /\ (report.release \/ report.empty)
              => held' = "none" \/ hook' = "open_failed"
<1>1. CASE hook' = "skipped_preflight" /\ report.preflight /\ UNCHANGED <<at, held>>
  BY <1>1 DEF Inv, BodiesOK, Hooks
<1>2. CASE ~report.preflight /\ hook' = "reopened" /\ Open(Places)
  <2>1. TryOpen(Places)
    BY <1>2 DEF TryOpen
  <2> QED
    BY <1>2, <2>1, Opening DEF Inv, Hooks
<1>3. CASE ~report.preflight /\ hook' = "open_failed" /\ UNCHANGED <<at, held>>
  BY <1>3 DEF Inv, BodiesOK, Hooks
<1>4. CASE /\ ~report.preflight /\ ~(report.release \/ report.empty) /\ UNCHANGED <<at, held>>
           /\ \/ \E reading \in Readings(held) :
                   hook' = IF reading THEN "skipped_holding" ELSE "completed"
              \/ hook' = "unread"
  BY <1>4 DEF Inv, BodiesOK, Hooks
<1> QED
  BY <1>1, <1>2, <1>3, <1>4 DEF GoHomeAfterMotion

\* The end of a call keeps the invariant.
LEMMA EndingCall ==
  ASSUME Inv, EndCall(Transient), EndArticulate
  PROVE  Inv' /\ pc = "home" /\ pc' = "idle" /\ GoHomeAfterMotion /\ turn' = turn
         /\ UNCHANGED <<report, past>>
<1>1. /\ pc = "home" /\ pc' = "idle" /\ skill' = "none" /\ GoHomeAfterMotion
      /\ UNCHANGED <<turn, pick, anchor, rung, plan, report, calls>>
      /\ UNCHANGED <<disturbed, touched, around, opened, fit>>
  BY DEF EndCall, past
<1>2. BodiesOK'
  BY <1>1, CleaningUp
<1>3. CallOK'
  <2>1. pickLock' \in Grounded \cup {NoTarget}
    BY DEF EndCall, session, PickLockAfter, RememberPick, Inv, CallOK
  <2>2. goalLock' \in BOOLEAN
    <3>1. report.aimed \in BOOLEAN
      BY DEF Inv, Honest, Reports
    <3>2. goalLock' = (goalLock \/ report.aimed) \/ goalLock' = goalLock
      BY DEF EndCall, session
    <3> QED
      BY <3>1, <3>2 DEF Inv, CallOK
  <2> QED
    BY <1>1, <2>1, <2>2 DEF Inv, CallOK
<1>4. Control'
  BY <1>1 DEF Inv, Control, Skills, Steps, GraspSteps, Actuating
<1>5. Honest'
  BY <1>1 DEF Inv, Honest, Ended
<1>6. Near'
  BY <1>1 DEF Near, GraspSteps, Grasping
<1>7. FixtureOK'
  BY <1>1, EndFixture
<1> QED
  BY <1>1, <1>2, <1>3, <1>4, <1>5, <1>6, <1>7 DEF Inv, past

-----------------------------------------------------------------------------
\* ---- what holds between calls ----

\* A step of a call leaves it running or at its end.
LEMMA StepsOfACall ==
  ASSUME Inv, GraspStep \/ ContactStep
  PROVE  skill' = skill /\ hook' = hook /\ pc \notin Ended /\ pc' # "idle"
<1> USE DEF call, Inv, Ended
<1>1. skill' = skill /\ hook' = hook /\ pc \notin Ended
  <2>1. FindObject \/ FindGoal \/ Contact \/ Missed => skill' = skill /\ hook' = hook /\ pc \notin Ended
    BY DEF FindObject, FindGoal, Contact, Missed
  <2>2. Judged \/ FalseHold \/ NothingHeld => skill' = skill /\ hook' = hook /\ pc \notin Ended
    BY DEF Judged, FalseHold, NothingHeld
  <2>3. Carry \/ Release \/ Present \/ Enter => skill' = skill /\ hook' = hook /\ pc \notin Ended
    BY DEF Carry, Release, Present, Enter
  <2>4. PlanPush \/ Push \/ GroundFixture => skill' = skill /\ hook' = hook /\ pc \notin Ended
    BY DEF PlanPush, Push, GroundFixture
  <2>5. GroundPart \/ Plan \/ FaceContact => skill' = skill /\ hook' = hook /\ pc \notin Ended
    BY DEF GroundPart, Plan, FaceContact
  <2>6. HandleContact \/ Pull \/ Path \/ Measure => skill' = skill /\ hook' = hook /\ pc \notin Ended
    BY DEF HandleContact, Pull, Path, Measure
  <2>7. GroundControl \/ MeasureControl => skill' = skill /\ hook' = hook /\ pc \notin Ended
    BY DEF GroundControl, MeasureControl
  <2>8. JudgeControl => skill' = skill /\ hook' = hook /\ pc \notin Ended
    BY DEF JudgeControl
  <2>9. Press \/ Grip \/ Turn => skill' = skill /\ hook' = hook /\ pc \notin Ended
    BY DEF Press, Grip, Turn
  <2> QED
    BY <2>1, <2>2, <2>3, <2>4, <2>5, <2>6, <2>7, <2>8, <2>9
       DEF GraspStep, ContactStep, ArticulateStep
<1>2. Control'
  BY ControlStep
<1> QED
  BY <1>1, <1>2 DEF Control

\* What a call has settled when it has ended.
Settled == hook \in Hooks /\ ReleaseTruthful

\* The invariant holds of a fresh session.
LEMMA InvAtFirst == Init => Inv /\ Settled
<1> SUFFICES ASSUME Init PROVE Inv /\ Settled
  OBVIOUS
<1>0. /\ at = [b \in Bodies |-> IF b = Target THEN 0 ELSE TwinAt] /\ turn = 0 /\ held = "none"
      /\ pickLock = NoTarget /\ goalLock = FALSE /\ pick = NoTarget /\ anchor = NoTarget
      /\ skill = "none" /\ pc = "idle" /\ rung = 0 /\ plan = 0 /\ report = EmptyReport /\ hook = ""
      /\ calls = 0 /\ disturbed = FALSE /\ touched = {} /\ around = {} /\ opened = FALSE /\ fit = TRUE
      /\ joint \in [Parts -> {0, FullTravel}] /\ job = NoJob /\ handled = {}
      /\ known = [height |-> "none", panel |-> FALSE, axis |-> FALSE, hinge |-> "none"]
  BY DEF Init, RobotInit, ArticulateInit
<1>1. BodiesOK
  <2>1. {0, TwinAt} \subseteq Places \cup {Goal, Aloft}
    BY RobotAssumption
  <2>2. at \in [Bodies -> Places \cup {Goal, Aloft}]
    BY <1>0, <2>1
  <2>3. \A b \in Bodies : at[b] \in Places
    BY <1>0, RobotAssumption
  <2> QED
    BY <1>0, <2>2, <2>3, PlacesAreNumbers DEF BodiesOK, Bodies, Target, Twin
<1>2. CallOK
  <2>1. 0 \in 0..MaxCalls
    BY RobotAssumption
  <2> QED
    BY <1>0, <2>1 DEF CallOK
<1>3. Control
  <2>1. skill \in Skills /\ pc \in Steps
    BY <1>0 DEF Skills, Steps
  <2>2. pc \notin GraspSteps
    BY <1>0 DEF GraspSteps
  <2>3. rung = 0
    BY <1>0
  <2>4. rung \in Nat /\ rung <= 2
    BY <2>3
  <2> QED
    BY <1>0, <2>1, <2>2, <2>4 DEF Control, Actuating
<1>4. Honest
  BY <1>0 DEF Honest, Ended, EmptyReport, Reports, Modes, Actuating
<1>5. Near
  BY <1>0 DEF Near, GraspSteps, Grasping
<1>6. FixtureOK
  <2>1. joint \in [Parts -> 0..FullTravel]
    <3>1. {0, FullTravel} \subseteq 0..FullTravel
      BY DEF FullTravel
    <3> QED
      BY <1>0, <3>1
  <2>2. known \in Kinematics
    BY <1>0 DEF Kinematics
  <2> QED
    BY <1>0, <2>1, <2>2, NoJobFits DEF FixtureOK, Articulating
<1>7. Settled
  BY <1>0 DEF Settled, Hooks, ReleaseTruthful, EmptyReport
<1> QED
  BY <1>1, <1>2, <1>3, <1>4, <1>5, <1>6, <1>7 DEF Inv

\* A call that begins has nothing to settle.
LEMMA BeginningSettles ==
  ASSUME hook' = "", pc' = "pick"
  PROVE  Settled'
  BY DEF Settled, Hooks, ReleaseTruthful

\* It holds of every call that begins,
LEMMA InvBegin ==
  ASSUME Inv, \/ BeginGrasp /\ job' = NoJob /\ UNCHANGED <<joint, known, handled>>
              \/ BeginContact
  PROVE  Inv' /\ Settled'
<1>1. PICK s \in Skills \ {"none"}, f \in BOOLEAN, goal \in {"open", "closed"} :
        /\ Begin(s, f) /\ (s = "push" => ~f)
        /\ job' = [NoJob EXCEPT !.goal = goal] /\ UNCHANGED <<joint, known, handled>>
  <2>1. CASE BeginGrasp /\ job' = NoJob /\ UNCHANGED <<joint, known, handled>>
    BY <2>1, NoJobIsOpen DEF BeginGrasp, Skills
  <2>2. CASE BeginArticulate
    BY <2>2 DEF BeginArticulate, Skills
  <2>3. CASE (Begin("push", FALSE) \/ Begin("actuate", TRUE))
               /\ job' = NoJob /\ UNCHANGED <<joint, known, handled>>
    BY <2>3, NoJobIsOpen DEF Skills
  <2> QED
    BY <2>1, <2>2, <2>3 DEF BeginContact
<1>2. /\ BodiesOK' /\ CallOK' /\ Control' /\ Honest' /\ Near'
      /\ skill' = s /\ pc' = "pick" /\ ~disturbed'
  BY <1>1, Beginning
<1>3. FixtureOK'
  BY <1>1, <1>2, BeginningAtFixture
<1>4. hook' = ""
  BY <1>1 DEF Begin
<1> QED
  BY <1>2, <1>3, <1>4, BeginningSettles DEF Inv

\* through every step of a call,
LEMMA InvInCall ==
  ASSUME Inv, Settled, (GraspStep /\ UNCHANGED fixture) \/ ContactStep
  PROVE  Inv' /\ Settled'
<1>1. Inv'
  BY BodiesStep, CallStep, ControlStep, GraspReports, ContactReports, NearStep, FixtureStep DEF Inv
<1>2. skill' = skill /\ hook' = hook /\ pc \notin Ended /\ pc' # "idle"
  BY StepsOfACall
<1> QED
  BY <1>1, <1>2 DEF Settled, ReleaseTruthful

\* and at its end.
LEMMA InvEnd ==
  ASSUME Inv, EndCall(Transient), EndArticulate
  PROVE  Inv' /\ Settled'
<1>1. /\ Inv' /\ pc' = "idle" /\ GoHomeAfterMotion /\ turn' = turn
      /\ report' = report /\ opened' = opened
  BY EndingCall DEF past
<1>2. hook' \in Hooks
  BY <1>1, CleaningUp
<1>3. ReleaseTruthful'
  <2>1. /\ report.release => opened /\ ~report.preflight
        /\ report.mode = "empty_grasp" => report.empty /\ ~report.preflight
    BY DEF Inv, Honest
  <2> QED
    BY <1>1, <2>1, CleaningUp DEF ReleaseTruthful
<1> QED
  BY <1>1, <1>2, <1>3 DEF Settled

\* No step of a session breaks it.
LEMMA InvStep == Inv /\ Settled /\ [Next]_<<vars, fixture>> => Inv' /\ Settled'
<1> SUFFICES ASSUME Inv, Settled, [Next]_<<vars, fixture>>
             PROVE  Inv' /\ Settled'
  OBVIOUS
<1>1. CASE Next
  BY <1>1, InvBegin, InvInCall, InvEnd DEF Next, Step
<1>2. CASE UNCHANGED <<vars, fixture>>
  <2>1. BodiesOK' /\ CallOK' /\ Control'
    BY <1>2 DEF vars, scene, session, call, past, fixture, Inv, BodiesOK, CallOK, Control,
                Grasping, Actuating, Articulating
  <2>2. Honest' /\ Near'
    BY <1>2 DEF vars, scene, session, call, past, fixture, Inv, Honest, Near, Grasping, Actuating,
                Articulating
  <2>3. FixtureOK'
    BY <1>2 DEF vars, call, past, fixture, Inv, FixtureOK, Articulating
  <2>4. Settled'
    BY <1>2 DEF vars, scene, call, past, fixture, Settled, ReleaseTruthful
  <2> QED
    BY <2>1, <2>2, <2>3, <2>4 DEF Inv
<1> QED
  BY <1>1, <1>2

\* Every reachable state of a session satisfies the invariant.
LEMMA InvAlways == Spec => [](Inv /\ Settled)
<1>1. Init => Inv /\ Settled
  BY InvAtFirst
<1>2. Inv /\ Settled /\ [Next]_<<vars, fixture>> => (Inv /\ Settled)'
  BY InvStep
<1> QED
  BY <1>1, <1>2, PTL DEF Spec

-----------------------------------------------------------------------------
\* ---- the theorems ----

\* Every variable of a session has its type, for any strip, ladder and number of calls.
THEOREM TypesAlways == Spec => []TypeOK
<1>1. Inv /\ Settled => TypeOK
  <2> SUFFICES ASSUME Inv, Settled PROVE TypeOK
    OBVIOUS
  <2>1. rung \in 0..Rungs \cup 0..InsertRungs \cup 0..2
    BY GraspAssumption DEF Inv, Control
  <2>2. skill \in Skills /\ pc \in Steps /\ report \in Reports /\ hook \in Hooks
    BY DEF Inv, Control, Honest, Settled
  <2>3. joint \in [Parts -> 0..FullTravel] /\ known \in Kinematics /\ job \in Jobs /\ handled \subseteq Parts
    BY DEF Inv, FixtureOK
  <2> QED
    BY <2>1, <2>2, <2>3 DEF Inv, BodiesOK, CallOK, Skills, Steps, Hooks, TypeOK
<1> QED
  BY <1>1, InvAlways, PTL

\* A call that says it was a preflight moved nothing, but for an approach that raised.
THEOREM PreflightsMoveNothing == Spec => []PreflightUntouched
<1>1. Inv => PreflightUntouched
  BY DEF Inv, Honest, PreflightUntouched
<1> QED
  BY <1>1, InvAlways, PTL

\* The fingers of a call meet only what stood near the object when it was first seen.
THEOREM RetriesStayNear == Spec => []NeverHijacked
<1>1. Inv => NeverHijacked
  BY DEF Inv, Near, NeverHijacked, Grasping
<1> QED
  BY <1>1, InvAlways, PTL

\* A reported release opened the fingers, and left them empty.
THEOREM ReleasesAreTrue == Spec => []ReleaseTruthful
<1>1. Settled => ReleaseTruthful
  BY DEF Settled
<1> QED
  BY <1>1, InvAlways, PTL

\* The calls that touched a handle and kept their report touched one and the same, when
\* the handles are stacked.
THEOREM OneHandleAlways ==
  ASSUME Layout = "stacked"
  PROVE  Spec => []OneHandle
<1>1. Inv => OneHandle
  <2>1. ASSUME Inv PROVE handled \subseteq {known.height}
    BY <2>1 DEF Inv, FixtureOK, Level
  <2>2. IsFiniteSet({known.height}) /\ Cardinality({known.height}) = 1
    BY FS_Singleton
  <2>3. Inv => Cardinality(handled) <= Cardinality({known.height})
    BY <2>1, <2>2, FS_Subset
  <2> QED
    BY <2>2, <2>3 DEF OneHandle
<1> QED
  BY <1>1, InvAlways, PTL
=============================================================================
