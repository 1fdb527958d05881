--------------------------- MODULE TransportReact ---------------------------
(***************************************************************************)
(* racap/agent/react.py, run_episode: the transport agent.  A model (or    *)
(* the parent planner) proposes one tool call per turn; the controller     *)
(* rewrites it by a chain of safety rules (Decide), the session performs   *)
(* it, and the controller reads the report and may queue the next call     *)
(* (Perform).                                                              *)
(*                                                                         *)
(* `ep' holds the local variables of run_episode, `session' what the tool  *)
(* session remembers (module Session).  The three variables at the end of  *)
(* VARIABLES are history variables: no action reads them.                  *)
(***************************************************************************)
EXTENDS Session

CONSTANTS
    Turns,          \* episode.turns
    MaxPickPlace,   \* episode.max_pickplace_calls
    MaxPush,        \* episode.max_push_calls
    MaxInsert,      \* episode.max_insert_calls
    Goals,          \* the episodes to consider, see GoalType
    Inherited       \* whether an earlier goal of the session released an object

\* The spatial selectors that tell one of several identical objects from the
\* others: "bowl at the front", "front bowl", "bowl nearest to the plate",
\* "bowl to the left of the plate".
Selectors == {"suffix", "leading", "nearest", "side"}

\* requires, supports: what _requires_insert and _supports_insert say of the
\* phrases; selector: the form of the pick label; first: initial_skill; kind:
\* _destination_kind of the place.
GoalType == [requires : BOOLEAN, supports : BOOLEAN, selector : Selectors \cup {"none"},
             first : {"model", "pickplace", "insert"}, kind : Kinds]

ASSUME BudgetAssumption == Turns \in Nat /\ MaxPickPlace \in Nat /\ MaxPush \in Nat /\ MaxInsert \in Nat
ASSUME GoalAssumption == Goals \subseteq GoalType /\ Inherited \subseteq BOOLEAN

VARIABLES
    goal,       \* the episode
    ep,         \* the local variables of run_episode
    session,    \* what the tool session remembers
    phase,      \* "decide", "act" or "over"
    call,       \* the call that the rules let through
    verdict     \* history: what the last state decision said of the scene as it is

vars == <<goal, ep, session, phase, call, verdict>>

TransportActions == {"pickplace", "insert", "push", "look", "check", "done"}
Motions == {"pickplace", "insert", "push"}
Grasps == {"none", "analytic", "learned"}
NoGrasp == {"empty_grasp", "wrong_object_grasp"}
NoMotion == NoGrasp \cup {"not_grounded"}
Failures == NoMotion \cup {"", "placement_failed", "no_opening_geometry",
                           "no_feasible_insertion", "broad_container_fit"}

\* ask: what a look is asked to verify.  No call is queued: action "none".
CallType == [action : TransportActions \cup {"none", "stop", "other"}, pick : Labels,
             place : Labels, grasp : Grasps, ask : {"", "source", "destination"}]
Own(action) == [action |-> action, pick |-> "own", place |-> "own", grasp |-> "none", ask |-> ""]
LookFor(what) == [Own("look") EXCEPT !.ask = what]
Nothing == Own("none")
Stop == Own("stop")

EpType ==
    [turn : 0..Turns, pending : CallType, attempted : BOOLEAN,
     pickplaceCalls : 0..MaxPickPlace, pushCalls : 0..MaxPush, insertCalls : 0..MaxInsert,
     checkOk : BOOLEAN, checkReliable : BOOLEAN, mustCheck : BOOLEAN,
     failure : Failures, grounding : {"", "pick", "destination"},
     allowUnreliable : BOOLEAN, streak : 0..2,
     placeAliases : BOOLEAN, placeAlias : BOOLEAN, pickAlias : BOOLEAN,
     fallback : BOOLEAN, variantTried : BOOLEAN, released : BOOLEAN, empties : 0..2,
     learned : BOOLEAN, lastTransport : {"", "pickplace", "insert"},
     checked : BOOLEAN, pushable : BOOLEAN, pushBlocked : BOOLEAN,
     looks : 0..1, motion : BOOLEAN, over : {"no", "success", "stopped", "inconclusive"}]

Min2(n) == IF n < 2 THEN n ELSE 2

\* _spatially_qualified.
Qualified(g) == g.selector # "none"

\* _qualified_visual_alias: the verified appearance with the selector of the
\* episode where it is a suffix or a leading word, and without it otherwise.
VisualAlias(g) == IF g.selector \in {"nearest", "side"} THEN "bare" ELSE "alias"

\* transient_selector: whether _appearance_label takes something off the label.
Transient(g, label) == \/ label = "own" /\ g.selector \in {"suffix", "nearest"}
                       \/ label = "alias" /\ g.selector = "suffix"

\* _requires_insert and the planner's choice decide the first transport.
InitialAction(g) ==
    IF g.first = "insert" \/ (g.first # "pickplace" /\ g.requires) THEN "insert" ELSE "pickplace"

InitialEp(g) ==
    [turn |-> 0, pending |-> IF g.first = "model" THEN Nothing ELSE Own(InitialAction(g)),
     attempted |-> FALSE, pickplaceCalls |-> 0, pushCalls |-> 0, insertCalls |-> 0,
     checkOk |-> FALSE, checkReliable |-> TRUE, mustCheck |-> FALSE,
     failure |-> "", grounding |-> "", allowUnreliable |-> FALSE, streak |-> 0,
     placeAliases |-> FALSE, placeAlias |-> FALSE, pickAlias |-> FALSE,
     fallback |-> FALSE, variantTried |-> FALSE, released |-> FALSE, empties |-> 0,
     learned |-> FALSE, lastTransport |-> "",
     checked |-> FALSE, pushable |-> FALSE, pushBlocked |-> FALSE,
     looks |-> 0, motion |-> FALSE, over |-> "no"]

-----------------------------------------------------------------------------
(* The rules that rewrite a proposed call, in the order of the code.  Each  *)
(* takes the local variables and a call and returns a call; Stop ends the   *)
(* episode and passes through the remaining rules.                          *)

\* _normalise_pickplace_args, _normalise_insert_args: only admitted labels survive.
Admit(c, allowPick, allowPlace) ==
    [c EXCEPT !.pick = IF allowPick THEN @ ELSE "own", !.place = IF allowPlace THEN @ ELSE "own"]

\* An unusable model answer is replaced where the state says what to do.
Unusable(s) == IF s.checkOk THEN Own("done")
               ELSE IF ~s.attempted THEN Own("pickplace") ELSE Stop

InScope(s, c) ==
    IF c.action \in TransportActions \cup {"stop"} THEN c
    ELSE IF s.mustCheck \/ s.released THEN Own("check")
    ELSE IF ~s.attempted /\ s.insertCalls = 0 THEN Own(InitialAction(goal))
    ELSE Stop

OpeningFirst(s, c) == IF s.turn = 0 /\ goal.requires THEN Own("insert") ELSE c

MeasureFirst(s, c) == IF s.mustCheck /\ c.action # "stop" THEN Own("check") ELSE c

DoneOnMeasurement(s, c) == IF c.action = "done" /\ ~s.checked THEN Own("check") ELSE c  \* mutant

EndorsedDone(s, c) == IF c.action = "done" /\ ~s.checkOk THEN Own("check") ELSE c

InsertBudgetSpent(s) == IF s.released /\ ~s.checked THEN Own("check") ELSE Stop

OpeningUntilTried(s, c) ==  \* mutant: the insert budget opens broad transport
    IF c.action = "pickplace" /\ goal.requires /\ ~s.fallback /\ s.insertCalls < MaxInsert
    THEN [c EXCEPT !.action = "insert"] ELSE c

BoundedOpening(s, c) ==
    IF c.action # "pickplace" \/ ~goal.requires \/ s.fallback THEN c
    ELSE IF s.insertCalls < MaxInsert THEN [c EXCEPT !.action = "insert"]
    ELSE InsertBudgetSpent(s)

\* The verifier always answers the original instruction.
CanonicalCheck(s, c) == IF c.action = "check" THEN Own("check") ELSE c

WithAliases(s, c) == [c EXCEPT !.place = IF s.placeAlias THEN "alias" ELSE @,
                               !.pick = IF s.pickAlias THEN VisualAlias(goal) ELSE @]

\* The labels that may replace the instruction's.
AliasPlace(s, c) == c.place = "alias" /\ s.placeAliases
AliasPick(s, c) == c.pick = VisualAlias(goal) /\ s.pickAlias

InsertRule(s, c) ==
    IF c.action # "insert" THEN c
    ELSE IF s.checkOk /\ s.pickplaceCalls + s.insertCalls >= 1 THEN Own("done")
    ELSE IF ~s.checkReliable /\ s.released /\ ~s.allowUnreliable THEN Own("look")
    ELSE IF ~goal.supports THEN [c EXCEPT !.action = "pickplace"]
    ELSE IF s.insertCalls >= MaxInsert THEN InsertBudgetSpent(s)
    ELSE LET d == WithAliases(s, c) IN
         Admit(d, AliasPick(s, d) \/ (~Qualified(goal) /\ s.failure \in NoMotion), AliasPlace(s, d))

PushRule(s, c) ==
    IF c.action # "push" THEN c
    ELSE IF ~s.pushable \/ s.pushCalls >= MaxPush THEN Own("check") ELSE Own("push")

\* _semantic_first_call: fixed arguments for the first attempt.
SemanticFirstCall(c) == Own("pickplace")

FreeAfterFailure(s, c) ==  \* mutant: a qualifier may be dropped after a failed grasp
    IF c.action # "pickplace" THEN c
    ELSE IF s.checkOk /\ s.pickplaceCalls >= 1 THEN Own("done")
    ELSE IF ~s.checkReliable /\ s.pickplaceCalls >= 1 /\ ~s.allowUnreliable THEN Own("look")
    ELSE IF s.pickplaceCalls >= MaxPickPlace THEN Own("check")
    ELSE LET d == WithAliases(s, c) IN
         Admit(d, AliasPick(s, d) \/ s.failure \in NoMotion, AliasPlace(s, d))

PickPlaceRule(s, c) ==
    IF c.action # "pickplace" THEN c
    ELSE IF s.checkOk /\ s.pickplaceCalls >= 1 THEN Own("done")
    ELSE IF ~s.checkReliable /\ s.pickplaceCalls >= 1 /\ ~s.allowUnreliable THEN Own("look")
    ELSE IF s.pickplaceCalls >= MaxPickPlace THEN Own("check")
    ELSE IF ~s.attempted /\ ~s.fallback THEN SemanticFirstCall(c)
    ELSE LET d == WithAliases(s, c) IN
         Admit(d, AliasPick(s, d)
                  \/ (~Qualified(goal) /\ (s.failure \in NoGrasp
                                          \/ (s.failure = "not_grounded" /\ s.grounding = "pick"))),
               AliasPlace(s, d))

Rules(s, c) ==
    LET scoped == EndorsedDone(s, MeasureFirst(s, OpeningFirst(s, InScope(s, c))))
        routed == CanonicalCheck(s, BoundedOpening(s, scoped))
    IN  PickPlaceRule(s, PushRule(s, InsertRule(s, routed)))

-----------------------------------------------------------------------------
(* The reports of the manipulation primitives.                             *)

Report(failure, grounding, released, posed, preflight) ==
    [ok |-> failure = "" /\ released, failure |-> failure, grounding |-> grounding,
     released |-> released, posed |-> posed, preflight |-> preflight, infra |-> FALSE]

\* An exception inside the primitive loses its report; one of the perception
\* service is reported as such.
Raised == Report("", "", FALSE, FALSE, FALSE)
Unavailable == [Raised EXCEPT !.infra = TRUE]

\* A locked source is not grounded again.
PickNotFound(c, preflight) ==
    IF session.locks[c.pick] = "none" THEN {Report("not_grounded", "pick", FALSE, FALSE, preflight)} ELSE {}

PickPlaceReports(c) ==
    PickNotFound(c, FALSE) \cup
    {Raised, Unavailable,
     Report("not_grounded", "destination", FALSE, FALSE, FALSE),
     Report("empty_grasp", "", FALSE, TRUE, FALSE),
     Report("placement_failed", "", FALSE, TRUE, FALSE),
     Report("placement_failed", "", TRUE, TRUE, FALSE),
     Report("", "", TRUE, TRUE, FALSE)}

\* Everything insert decides before contact is a preflight: nothing moved.
InsertReports(c) ==
    PickNotFound(c, TRUE) \cup
    {Raised, Unavailable,
     Report("not_grounded", "destination", FALSE, FALSE, TRUE),
     Report("no_opening_geometry", "", FALSE, TRUE, TRUE),
     Report("no_feasible_insertion", "", FALSE, TRUE, TRUE),
     Report("broad_container_fit", "", FALSE, TRUE, TRUE),
     Report("placement_failed", "", FALSE, TRUE, TRUE),
     Report("empty_grasp", "", FALSE, TRUE, FALSE),
     Report("placement_failed", "", FALSE, TRUE, FALSE),
     Report("placement_failed", "", TRUE, TRUE, FALSE),
     Report("", "", TRUE, TRUE, FALSE)}

\* push: every failure mode but the plain ones blocks a further push.
PushReports == {[infra |-> i, blocked |-> b] : i \in BOOLEAN, b \in BOOLEAN}

\* A look lists the inventory and the aliases it was asked to verify.
LookReports(c) ==
    {[infra |-> TRUE, source |-> FALSE, destination |-> FALSE, same |-> FALSE]} \cup
    [infra : {FALSE}, source : IF c.ask = "source" THEN BOOLEAN ELSE {FALSE},
     destination : IF c.ask = "destination" THEN BOOLEAN ELSE {FALSE},
     same : IF ep.looks = 1 THEN BOOLEAN ELSE {FALSE}]

\* The set of reports of a check, by kind of destination and session evidence.
CheckReportsOf ==
    [k \in {g.kind : g \in Goals} |-> [r \in {"none", "own", "alias", "foreign"} |-> CheckReports(k, r)]]

\* A reflection on the photographs before and after a motion.  route: the
\* transport its retry asks for; pick, grasp: its retry arguments; variant:
\* the destination phrase respelled.  An unusable reply reads as "check".
Diagnoses ==
    [next : {"done", "check", "stop"}, route : {""}, pick : {"own"}, grasp : {"none"}, variant : {FALSE}]
    \cup [next : {"retry"}, route : {"", "look", "insert"}, pick : {"own", "free"},
          grasp : Grasps, variant : {FALSE}]
    \cup [next : {"retry"}, route : {""}, pick : {"own"}, grasp : {"none"}, variant : {TRUE}]

-----------------------------------------------------------------------------
(* Reading a report: from the local variables before to those after.       *)

More(s) == s.turn + 1 < Turns
Halt(s) == [s EXCEPT !.over = "stopped"]
Queue(s, c) == [s EXCEPT !.pending = c]

\* The call is taken and recorded; a provider outage ends the episode.
Taken(s, c) ==
    [s EXCEPT !.pending = Nothing,
              !.learned = @ \/ (c.action \in {"pickplace", "insert"} /\ c.grasp = "learned"),
              !.lastTransport = IF c.action \in {"pickplace", "insert"} THEN c.action ELSE @,
              !.looks = IF c.action = "look" THEN @ ELSE 0]

\* Two passive looks with one inventory stop the episode.
LookLoop(s, rep) ==
    IF rep.source \/ rep.destination THEN [s EXCEPT !.looks = 0]
    ELSE IF rep.same THEN Halt(s) ELSE [s EXCEPT !.looks = 1]

\* insert declined before contact.  The recommendation of broad transport
\* sets allow_surface_fallback; the call it queues is queued over.
InsertDeclined(s, rep) ==
    LET t == [s EXCEPT !.mustCheck = FALSE, !.fallback = @ \/ rep.failure = "broad_container_fit"] IN
    CASE rep.failure = "no_feasible_insertion" -> Halt(s)
      [] rep.failure = "not_grounded" -> Queue(t, LookFor(IF rep.grounding = "pick" THEN "source" ELSE "destination"))
      [] rep.failure \notin {"not_grounded", "no_feasible_insertion"} ->
             Queue(t, IF goal.supports THEN LookFor("destination") ELSE Own("pickplace"))

AfterInsert(s, rep) ==
    LET t == [s EXCEPT !.insertCalls = @ + 1, !.failure = rep.failure, !.grounding = rep.grounding,
                       !.released = @ \/ rep.released, !.checkOk = FALSE, !.checkReliable = TRUE,
                       !.allowUnreliable = FALSE]
    IN  IF rep.preflight THEN InsertDeclined(t, rep)
        ELSE [t EXCEPT !.empties = IF rep.failure \in NoGrasp THEN Min2(@ + 1) ELSE 0,
                       !.mustCheck = rep.released \/ rep.failure \notin NoMotion,
                       !.streak = 0, !.pushBlocked = FALSE]

AfterPickPlace(s, rep) ==
    LET t == [s EXCEPT !.attempted = TRUE, !.failure = rep.failure, !.grounding = rep.grounding,
                       !.pickplaceCalls = IF rep.failure = "not_grounded" THEN @ ELSE @ + 1,
                       !.released = @ \/ rep.released,
                       !.empties = IF rep.failure \in NoGrasp THEN Min2(@ + 1) ELSE 0]
    IN  IF t.released /\ rep.failure = "not_grounded" /\ rep.grounding = "pick" THEN Halt(t)
        ELSE [t EXCEPT !.mustCheck = rep.released \/ s.released \/ rep.failure \notin NoMotion,
                       !.checkOk = FALSE, !.checkReliable = TRUE, !.allowUnreliable = FALSE,
                       !.streak = 0, !.pushBlocked = FALSE]

AfterPush(s, rep) ==
    [s EXCEPT !.pushCalls = @ + 1, !.pushBlocked = @ \/ rep.blocked, !.mustCheck = TRUE,
              !.checkOk = FALSE, !.checkReliable = TRUE, !.allowUnreliable = FALSE]

\* A retry that the visual authority decided: the least destructive transport
\* that its route and the geometry allow.
VisualRetry(s, rep, diag) ==
    LET c == CASE diag.route = "look" -> LookFor("destination")
               [] diag.route # "look" /\ (diag.route = "insert" \/ s.lastTransport = "insert" \/ goal.requires) ->
                      [Own("insert") EXCEPT !.grasp = diag.grasp]
               [] diag.route = "" /\ s.lastTransport # "insert" /\ ~goal.requires ->
                      IF rep.push /\ ~s.pushBlocked /\ s.pushCalls < MaxPush /\ More(s)
                      THEN Own("push")
                      ELSE [Own("pickplace") EXCEPT !.grasp = diag.grasp,
                              !.pick = IF s.failure \in NoMotion THEN diag.pick ELSE "own"]
    IN  [Queue(s, c) EXCEPT !.allowUnreliable = TRUE]

\* Without a visual decision the geometry chooses the recovery.
MeasuredRecovery(s, rep) ==
    LET room == s.pickplaceCalls < MaxPickPlace /\ More(s) IN
    IF ~rep.reliable
    THEN IF (rep.visible /\ goal.kind \in {"surface", "top_region"}) \/ (rep.container /\ room)
         THEN [Queue(s, Own("pickplace")) EXCEPT !.allowUnreliable = TRUE]
         ELSE Queue(s, Own("look"))
    ELSE IF rep.push /\ ~s.pushBlocked /\ s.pushCalls < MaxPush /\ More(s) THEN Queue(s, Own("push"))
    ELSE IF s.failure # "not_grounded" /\ room THEN Queue(s, Own("pickplace"))
    ELSE IF s.pickplaceCalls >= MaxPickPlace THEN Halt(s) ELSE s

\* The reading of a check: the measurement first, then the visual authority on
\* a disagreement (or on a placement whose instance identity is not causal),
\* then the rules that keep an ambiguous scene, then the recovery.
Reviewed(s, rep) == s.motion /\ (~rep.ok \/ (Qualified(goal) /\ ~rep.causal))

ReadWithoutPreserve(s, rep, diag) ==  \* mutant: the report's preserve_state is not read
    LET next == IF Reviewed(s, rep) THEN diag.next ELSE ""
        ok   == IF Reviewed(s, rep) THEN diag.next = "done" ELSE rep.ok
        t    == [s EXCEPT !.mustCheck = FALSE, !.checked = rep.given, !.pushable = rep.push,
                          !.checkOk = ok, !.checkReliable = rep.reliable, !.motion = FALSE]
    IN  IF next = "stop" THEN Halt(t)
        ELSE IF ok THEN Queue(t, Own("done"))
        ELSE IF next = "retry" THEN VisualRetry(t, rep, diag)
        ELSE IF t.pickplaceCalls < MaxPickPlace /\ More(t)
        THEN [Queue(t, Own("pickplace")) EXCEPT !.allowUnreliable = TRUE] ELSE t

AfterCheck(s, rep, diag) ==
    LET next == IF Reviewed(s, rep) THEN diag.next ELSE ""
        ok   == IF Reviewed(s, rep) THEN diag.next = "done" ELSE rep.ok
        t    == [s EXCEPT !.mustCheck = FALSE, !.checked = rep.given, !.pushable = rep.push,
                          !.failure = IF rep.wrong THEN "wrong_object_grasp" ELSE @,
                          !.checkOk = ok, !.checkReliable = rep.reliable,
                          !.streak = IF rep.reliable THEN 0 ELSE Min2(@ + 1), !.motion = FALSE]
    IN  IF next = "stop" THEN Halt(t)
        ELSE IF ~ok /\ next # "retry" /\ rep.preserve THEN Halt(t)
        ELSE IF ~ok /\ t.streak >= 2 THEN Halt(t)
        ELSE IF ok THEN Queue(t, Own("done"))
        ELSE IF t.released /\ t.empties >= 2 THEN Halt(t)
        ELSE IF next = "retry" THEN VisualRetry(t, rep, diag)
        ELSE MeasuredRecovery(t, rep)

\* The transport that an alias is retried with.
AliasTransport(s) == IF s.lastTransport = "insert" \/ goal.requires THEN "insert" ELSE "pickplace"

SourceAlias(s, rep) ==
    IF rep.source /\ ~s.pickAlias
    THEN [Queue(s, [Own(AliasTransport(s)) EXCEPT !.pick = VisualAlias(goal),
                                                 !.place = IF s.placeAlias THEN "alias" ELSE "own"])
            EXCEPT !.pickAlias = TRUE]
    ELSE Halt(s)

\* Two semantic views without an opening admit one surface placement.
DestinationAlias(s, rep) ==
    LET t == [s EXCEPT !.placeAliases = @ \/ rep.destination]
        recovery == s.grounding = "destination" \/ s.failure = "no_opening_geometry"
        exposed == s.failure = "no_opening_geometry" /\ s.placeAlias
    IN  IF recovery /\ rep.destination /\ s.pickplaceCalls < MaxPickPlace /\ More(s)
        THEN [Queue(t, [Own(IF exposed THEN "pickplace" ELSE AliasTransport(s)) EXCEPT !.place = "alias"])
                EXCEPT !.placeAlias = TRUE, !.fallback = @ \/ exposed]
        ELSE IF recovery /\ ~rep.destination THEN Halt(t) ELSE t

\* A look that clarified an unreliable check is followed by one more check.
Remeasure(s) ==
    IF s.over = "no" /\ s.released /\ ~s.checkReliable /\ s.pending = Nothing
    THEN Queue(s, Own("check")) ELSE s

AfterLook(s, rep) ==
    LET t == LookLoop(s, rep) IN
    IF t.over # "no" THEN t
    ELSE IF s.failure = "not_grounded" /\ s.grounding = "pick" THEN SourceAlias(t, rep)
    ELSE Remeasure(IF s.failure \in {"not_grounded", "no_opening_geometry"}
                   THEN DestinationAlias(t, rep) ELSE t)

\* Empty grasps: the agent's own family first, then one learned proposal.
NextGrasp(s, diag, action, pick) ==
    LET c == [Own(action) EXCEPT !.grasp = diag.grasp, !.pick = pick] IN
    IF diag.grasp # "none" \/ s.empties < 2 THEN Queue(s, c)
    ELSE IF s.learned THEN Halt(s) ELSE Queue(s, [Own(action) EXCEPT !.grasp = "learned"])

\* A reflection on a motion that changed nothing may accept the earlier release.
Accepts(s, diag) == /\ ~s.mustCheck /\ diag.next = "done"
                    /\ s.released /\ s.checked /\ s.failure \in NoMotion

\* What is queued after a motion.  The photographs are diagnosed at once when
\* no check is due, and kept for the check otherwise.
AfterMotion(s, c, rep, diag) ==
    LET reflected == ~s.mustCheck
        t == [s EXCEPT !.motion = ~reflected]
        d == IF reflected /\ diag.next = "retry" THEN diag
             ELSE [next |-> "check", route |-> "", pick |-> "own", grasp |-> "none", variant |-> FALSE]
    IN  IF Accepts(s, diag)
        THEN [Queue(t, Own("done")) EXCEPT !.checkOk = TRUE]
        ELSE IF reflected /\ diag.next = "stop" THEN Halt(t)
        ELSE IF d.route = "look" THEN Queue(t, LookFor("destination"))
        ELSE IF c.action = "push" THEN Queue(t, Own("check"))
        ELSE IF c.action = "insert"
             THEN IF s.failure \in NoGrasp /\ ~rep.released
                  THEN NextGrasp(t, d, "insert", "own") ELSE Queue(t, Own("check"))
        ELSE IF s.failure \in NoMotion /\ s.released THEN Queue(t, Own("check"))
        ELSE IF s.failure = "not_grounded" /\ s.grounding = "destination"
             THEN IF d.variant /\ ~s.variantTried
                  THEN [Queue(t, Own("pickplace")) EXCEPT !.variantTried = TRUE]
                  ELSE Queue(t, LookFor("destination"))
        ELSE IF s.failure \in NoMotion /\ s.pickplaceCalls < MaxPickPlace
             THEN IF s.failure \in NoGrasp THEN NextGrasp(t, d, "pickplace", d.pick)
                  ELSE Queue(t, [Own("pickplace") EXCEPT !.grasp = d.grasp, !.pick = d.pick])
        ELSE Queue(t, Own("check"))

\* The reflection and its queue are skipped after a preflight, when the
\* episode is over, and on the last turn.
Reflects(s, preflight) == s.over = "no" /\ ~preflight /\ More(s)

Reflected(s, c, rep, diag, preflight) ==
    IF Reflects(s, preflight) THEN AfterMotion(s, c, rep, diag) ELSE s
-----------------------------------------------------------------------------
Init ==
    /\ goal \in Goals
    /\ ep = InitialEp(goal)
    /\ session \in {EmptySession(i) : i \in Inherited}
    /\ phase = "decide" /\ call = Nothing
    /\ verdict = "none"

\* What the model can answer: any call on any label, or nothing usable.
Proposals ==
    IF ep.pending # Nothing THEN {ep.pending}
    ELSE {Unusable(ep), Own("other")} \cup {Own(a) : a \in {"push", "check", "done"}}
         \cup {LookFor(w) : w \in {"", "source", "destination"}}
         \cup [action : {"pickplace", "insert"}, pick : Labels, place : Labels,
               grasp : {"none", "learned"}, ask : {""}]

Decide ==
    /\ phase = "decide" /\ ep.turn < Turns
    /\ \E p \in Proposals :
         /\ Rules(ep, p).action # "stop"
         /\ call' = Rules(ep, p)
         /\ ep' = Taken(ep, call')
    /\ phase' = "act"
    /\ UNCHANGED <<goal, session, verdict>>

\* A rule or the model found nothing left that is safe to do.
Refuse ==
    /\ phase = "decide" /\ ep.turn < Turns
    /\ \E p \in Proposals : Rules(ep, p).action = "stop"
    /\ ep' = Halt([ep EXCEPT !.pending = Nothing])
    /\ phase' = "over" /\ call' = Nothing
    /\ UNCHANGED <<goal, session, verdict>>

OutOfTurns ==
    /\ phase = "decide" /\ ep.turn = Turns
    /\ ep' = Halt(ep) /\ phase' = "over"
    /\ UNCHANGED <<goal, session, call, verdict>>

\* The turn ends; a set `over' is the break out of the loop.
EndTurn(s) ==
    /\ ep' = IF s.over = "no" THEN [s EXCEPT !.turn = @ + 1] ELSE s
    /\ phase' = IF s.over = "no" THEN "decide" ELSE "over"
    /\ call' = Nothing
    /\ UNCHANGED goal

Outage ==
    /\ phase = "act" /\ call.action # "done"
    /\ EndTurn([ep EXCEPT !.over = "inconclusive"])
    /\ UNCHANGED <<session, verdict>>

\* The verdict that a motion leaves, whatever the local variables still say:
\* none, unless the reflection on it accepts the earlier release.
VerdictAfter(s, diag, preflight) ==
    IF Reflects(s, preflight) /\ Accepts(s, diag) THEN "placed" ELSE "none"

PickPlace ==
    /\ phase = "act" /\ call.action = "pickplace"
    /\ \E rep \in PickPlaceReports(call), diag \in Diagnoses :
         LET s == AfterPickPlace(ep, rep) IN
         /\ ~rep.infra
         /\ EndTurn(Reflected(s, call, rep, diag, FALSE))
         /\ session' = AfterTransport(session, call, rep, Transient(goal, call.pick))
         /\ verdict' = VerdictAfter(s, diag, FALSE)

Insert ==
    /\ phase = "act" /\ call.action = "insert"
    /\ \E rep \in InsertReports(call), diag \in Diagnoses :
         LET s == AfterInsert(ep, rep) IN
         /\ ~rep.infra
         /\ EndTurn(Reflected(s, call, rep, diag, rep.preflight))
         /\ session' = AfterInsertStep(session, call, rep, Transient(goal, call.pick))
         /\ verdict' = VerdictAfter(s, diag, rep.preflight)

Push ==
    /\ phase = "act" /\ call.action = "push"
    /\ \E rep \in PushReports, diag \in Diagnoses :
         /\ ~rep.infra
         /\ EndTurn(Reflected(AfterPush(ep, rep), call, rep, diag, FALSE))
    /\ verdict' = "none"
    /\ UNCHANGED session

\* What a check leaves undecided is ambiguous: a scene that its report says to
\* keep, unless the visual review decided a retry, and an unreliable check of a
\* release that no recovery was chosen for.
VerdictOf(s, rep, retried) ==
    LET ambiguous == \/ rep.preserve /\ ~retried
                     \/ s.released /\ ~rep.reliable /\ ~s.allowUnreliable
    IN  IF s.checkOk THEN "placed" ELSE IF ambiguous THEN "ambiguous" ELSE "miss"

Check ==
    /\ phase = "act" /\ call.action = "check"
    /\ \E rep \in CheckReportsOf[goal.kind][session.release], diag \in Diagnoses :
         LET s == AfterCheck(ep, rep, diag) IN
         /\ ~rep.infra
         /\ EndTurn(s)
         /\ session' = AfterCheckStep(session, rep)
         /\ verdict' = VerdictOf(s, rep, Reviewed(ep, rep) /\ diag.next = "retry")

Look ==
    /\ phase = "act" /\ call.action = "look"
    /\ \E rep \in LookReports(call) : ~rep.infra /\ EndTurn(AfterLook(ep, rep))
    /\ UNCHANGED <<session, verdict>>

Done ==
    /\ phase = "act" /\ call.action = "done"
    /\ EndTurn([ep EXCEPT !.over = "success"])
    /\ UNCHANGED <<session, verdict>>

Over == phase = "over" /\ UNCHANGED vars

Next == Decide \/ Refuse \/ OutOfTurns \/ Outage \/ PickPlace \/ Insert \/ Push \/ Check \/ Look \/ Done \/ Over

Spec == Init /\ [][Next]_vars

-----------------------------------------------------------------------------
\* Types of the local variables and of the session.
TypeOK ==
    /\ goal \in Goals /\ ep \in EpType /\ session \in SessionType
    /\ phase \in {"decide", "act", "over"} /\ call \in CallType
    /\ verdict \in {"none", "placed", "ambiguous", "miss"}

\* The arm is about to move by a decision on the last verdict.
Moving == phase = "act" /\ call.action \in Motions

\* A scene that was judged placed, or whose release could not be measured, is
\* left alone: whatever looks, aliases and refused decisions come between,
\* the next motion never starts from such a verdict.
PlacementKept == Moving => verdict \notin {"placed", "ambiguous"}

\* Success is only ever declared on a state decision that is newer than every
\* motion: a check, or a reflection that accepts an earlier measured release.
SuccessEndorsed == ep.over = "success" => verdict = "placed"

\* A selector names one of several identical objects: no answer of the model,
\* failure or reflection renames the object of a motion.  The one other phrase
\* is the alias that an inventory crop verified after the label was not
\* grounded.  The destination is never renamed freely.
QualifierKept ==
    Moving => /\ call.place \in {"own", "alias"}
              /\ Qualified(goal) => call.pick = "own" \/ (ep.pickAlias /\ call.pick = VisualAlias(goal))

\* A bounded opening stays an insertion problem on every turn: broad transport
\* runs only after insert measured that the opening is not one.
OpeningKept == Moving /\ call.action = "pickplace" /\ goal.requires /\ goal.supports => ep.fallback
=============================================================================
