------------------------------ MODULE Session ------------------------------
(***************************************************************************)
(* racap/agent/tools.py: the tool session of one robot episode.  What it   *)
(* keeps between two tool calls is what its recorded steps can still say   *)
(* (the latest report with a release position) and the grounding locks of  *)
(* the moved object, keyed by the label that a call used.                  *)
(*                                                                         *)
(* `check' is translated as a function from the evidence of the earlier    *)
(* steps and from what the camera can show to the report that the caller   *)
(* acts on: the geometry in centimetres is abstracted to the tests that    *)
(* the code makes on it.                                                   *)
(***************************************************************************)
EXTENDS Integers

\* The ways a call can name the moved object: by the label the episode was
\* given, by an appearance an inventory crop verified, with the label's spatial
\* selector ("alias") or without it ("bare"), by any other phrase.
Labels == {"own", "alias", "bare", "free"}

\* _destination_kind: the predicate geometry that a destination phrase asks for.
Kinds == {"relation", "top_region", "container", "surface"}

\* A pick lock holds a pose of the object: "fresh" while no release happened
\* since it was measured, "stale" once one did.
LockStates == {"none", "fresh", "stale"}

\* release: the place label of the latest step that reported a release_xy,
\* "foreign" when an earlier goal of the same session made it.
SessionType == [release : {"none", "own", "alias", "foreign"},
                locks   : [Labels -> LockStates]]

EmptySession(inherited) ==
    [release |-> IF inherited THEN "foreign" ELSE "none",
     locks   |-> [l \in Labels |-> "none"]]

-----------------------------------------------------------------------------
(* What manipulation steps leave in the session.                           *)

\* _remember_pick: the first usable pose under a label is kept.
RememberPick(locks, label) ==
    IF locks[label] = "none" THEN [locks EXCEPT ![label] = "fresh"] ELSE locks

\* A release pops the lock of the label that was moved, and makes what the
\* other labels still hold a pose of before the release.
PopOnRelease(locks, label) ==
    [l \in Labels |-> IF l = label THEN "none"
                      ELSE IF locks[l] = "fresh" THEN "stale" ELSE locks[l]]

\* An empty contact invalidates the lock of a label that names the object
\* uniquely; a selector that contact can change keeps its instance.
KeepOrInvalidate(locks, label, failure, transient) ==
    IF failure \in {"empty_grasp", "wrong_object_grasp"} /\ ~transient
    THEN [locks EXCEPT ![label] = "none"] ELSE locks

\* _do_pickplace.
AfterTransport(session, call, rep, transient) ==
    IF rep.released
    THEN [release |-> call.place, locks |-> PopOnRelease(session.locks, call.pick)]
    ELSE [session EXCEPT !.locks =
            KeepOrInvalidate(IF rep.posed THEN RememberPick(@, call.pick) ELSE @,
                             call.pick, rep.failure, transient)]

\* _do_insert keeps the same books on its report.
AfterInsertStep(session, call, rep, transient) == AfterTransport(session, call, rep, transient)

-----------------------------------------------------------------------------
(* _do_check.                                                              *)

\* What the recorded steps say of the object: whether one of them released it,
\* through a guided insertion, with causal transport identity, with which
\* pre-grasp identity verdict, and whether a region polygon was measured.
Prior(released) ==
    [release : {released}, guided : IF released THEN BOOLEAN ELSE {FALSE},
     causal : BOOLEAN, pregrasp : {"match", "mismatch", "none"}, region : BOOLEAN]

\* What the cameras show: a plausible cloud, its size (fewer than 500 points,
\* fewer than 1000, more), its nearness to the commanded release, whether the
\* post-release phrase replaced the instruction's, the footprint against the
\* stored polygon, the centre and height tests, the crop of the moved object
\* and the identity of the destination.
Seen(p) ==
    [plausible : BOOLEAN, points : {"few", "some", "many"},
     near : IF p.release THEN BOOLEAN ELSE {TRUE},
     rebound : IF p.release THEN BOOLEAN ELSE {FALSE},
     footprint : IF p.region THEN {"none", "contained", "partial", "outside"} ELSE {"none"},
     central : BOOLEAN, level : BOOLEAN, crop : {"match", "mismatch", "unclear"},
     alias : BOOLEAN]

Usable(o) == o.footprint # "none"

\* The identity of the crop is asked only when the evidence for it is weak.
WeakIdentity(p, o) ==
    /\ p.release /\ p.pregrasp # "match"
    /\ o.rebound \/ o.points # "many" \/ (p.guided /\ o.footprint \in {"partial", "outside"})

ExplicitWrongIdentity(p, o) ==
    \/ p.pregrasp = "mismatch"
    \/ WeakIdentity(p, o) /\ o.crop = "mismatch" /\ ~p.causal

\* Three independent constraints stand in for a height that container walls spoil.
CausalContainer(kind, p, o) ==
    kind = "container" /\ p.causal /\ o.rebound /\ o.near /\ o.footprint = "contained"

GeometryReliable(kind, p, o) ==
    \/ o.plausible /\ o.near /\ (p.region => Usable(o))
    \/ CausalContainer(kind, p, o)

IdentityClear(kind, p, o) ==
    /\ o.plausible /\ ~ExplicitWrongIdentity(p, o)
    /\ \/ p.pregrasp = "match" \/ p.causal
       \/ WeakIdentity(p, o) /\ o.crop = "match"
       \/ ~o.rebound /\ (o.points = "many" \/ kind \notin {"surface", "top_region"})

Landed(kind, p, o) ==
    \/ CausalContainer(kind, p, o)
    \/ IF kind = "container" /\ p.guided /\ Usable(o) THEN o.footprint = "contained" ELSE o.level

Centred(o) == o.central /\ (Usable(o) => o.footprint = "contained")

\* _visibly_recoverable_miss: dense, identified and wholly outside.
VisiblyRecoverableMiss(kind, p, o) ==
    /\ IdentityClear(kind, p, o) /\ o.points # "few" /\ o.footprint = "outside"
    /\ kind = "container" \/ (kind \in {"surface", "top_region"} /\ ~Landed(kind, p, o))

Reliable(kind, p, o) == GeometryReliable(kind, p, o) /\ o.alias /\ IdentityClear(kind, p, o)

Placed(kind, p, o) == Reliable(kind, p, o) /\ Centred(o) /\ Landed(kind, p, o)

\* An unreliable check of a release must not license a re-grasp.
PreserveState(kind, p, o) ==
    /\ p.release /\ ~Placed(kind, p, o) /\ ~ExplicitWrongIdentity(p, o)
    /\ ~VisiblyRecoverableMiss(kind, p, o)
    /\ \/ ~Reliable(kind, p, o)
       \/ Centred(o) /\ Landed(kind, p, o) /\ ~IdentityClear(kind, p, o)
       \/ p.guided /\ ~IdentityClear(kind, p, o)

\* react._check_supports_push: a small reliable miss on an open support.
SupportsPush(kind, p, o) ==
    /\ Reliable(kind, p, o) /\ kind \in {"surface", "relation"}
    /\ Landed(kind, p, o) /\ ~Centred(o)

\* react.run_episode: a container miss that is re-grounded although unreliable.
ContainerMiss(kind, p, o) ==
    /\ kind = "container"
    /\ \/ o.points = "few"
       \/ o.points # "few" /\ IdentityClear(kind, p, o) /\ o.footprint \in {"partial", "outside"}

\* The report of a check that was carried out.  "lock": the continuity lock
\* of the episode's own label was renewed at the measured pose.
CheckReport(kind, p, o) ==
    [given |-> TRUE, infra |-> FALSE,
     ok |-> Placed(kind, p, o), reliable |-> Reliable(kind, p, o),
     wrong |-> ExplicitWrongIdentity(p, o), visible |-> VisiblyRecoverableMiss(kind, p, o),
     preserve |-> PreserveState(kind, p, o), push |-> SupportsPush(kind, p, o),
     container |-> ContainerMiss(kind, p, o), causal |-> p.causal,
     lock |-> p.release /\ p.causal /\ o.plausible /\ o.near /\ ~ExplicitWrongIdentity(p, o)]

\* Session.run: any exception but an infrastructure failure leaves an empty
\* report and success FALSE; every key then takes its default at the caller.
RaisedCheck == [given |-> FALSE, infra |-> FALSE, ok |-> FALSE, reliable |-> TRUE,
                wrong |-> FALSE, visible |-> FALSE, preserve |-> FALSE, push |-> FALSE,
                container |-> FALSE, causal |-> FALSE, lock |-> FALSE]
UnavailableCheck == [RaisedCheck EXCEPT !.given = TRUE, !.infra = TRUE]

\* A destination that another label or an earlier goal supplied is verified on
\* its crop, which may be refused; the episode's own label needs no crop.
CheckReports(kind, release) ==
    {RaisedCheck, UnavailableCheck} \cup
    UNION {{CheckReport(kind, p, o) : o \in {x \in Seen(p) : release \in {"none", "own"} => x.alias}}
             : p \in Prior(release # "none")}

AfterCheckStep(session, rep) ==
    IF rep.lock THEN [session EXCEPT !.locks["own"] = "fresh"] ELSE session
=============================================================================
