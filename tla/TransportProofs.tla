--------------------------- MODULE TransportProofs ---------------------------
(***************************************************************************)
(* What holds of an episode of the transport agent for any goals, budgets  *)
(* and number of turns, whatever the model proposes: a scene judged placed *)
(* or ambiguous is not moved again, success follows a measurement, and no  *)
(* retry renames the object or turns an opening into a surface.            *)
(***************************************************************************)
EXTENDS TransportReact, TLAPS

EpFields ==
    {"turn", "pending", "attempted", "pickplaceCalls", "pushCalls", "insertCalls", "checkOk",
     "checkReliable", "mustCheck", "failure", "grounding", "allowUnreliable", "streak",
     "placeAliases", "placeAlias", "pickAlias", "fallback", "variantTried", "released", "empties",
     "learned", "lastTransport", "checked", "pushable", "pushBlocked", "looks", "motion", "over"}

\* The local variables, with a call or none queued.
Ep(s) == s = [f \in EpFields |-> s[f]] /\ s.pending \in CallType

\* A release that the last check could not measure, with no recovery decided.
Unsure(s) == s.released /\ ~s.checkReliable /\ ~s.allowUnreliable /\ ~s.checkOk

\* What a verdict lets the next turn do.
Bound(s, v) ==
    /\ s.checkOk <=> v = "placed"
    /\ v = "placed" => s.pending = Own("done") /\ ~s.mustCheck
    /\ v = "ambiguous" => Unsure(s) /\ ~s.mustCheck /\ s.pending \in {Own("look"), Own("check")}

\* The labels that a motion may carry.
Named(s, c) ==
    /\ c.place \in {"own", "alias"}
    /\ Qualified(goal) => c.pick = "own" \/ (s.pickAlias /\ c.pick = VisualAlias(goal))

\* What holds of the call that is about to be carried out.
Admissible(s, v) ==
    /\ call \in CallType /\ call.action \in TransportActions
    /\ s.checkOk <=> v = "placed"
    /\ v = "placed" <=> call.action = "done"
    /\ v = "ambiguous" => Unsure(s) /\ ~s.mustCheck /\ call \in {Own("look"), Own("check")}
    /\ call.action \in Motions => Named(s, call)
    /\ call.action = "pickplace" /\ goal.requires /\ goal.supports => s.fallback

Inv ==
    /\ Ep(ep) /\ ep.turn \in Nat
    /\ phase = "decide" => ep.over = "no" /\ Bound(ep, verdict) /\ (ep.turn = 0 => verdict = "none")
    /\ phase = "act" => ep.over = "no" /\ ep.pending = Nothing /\ Admissible(ep, verdict)
    /\ ep.over = "success" => verdict = "placed"

-----------------------------------------------------------------------------
\* ---- calls ----

\* The calls that the controller queues by itself are calls.
LEMMA OwnCalls ==
    /\ \A a \in TransportActions \cup {"none", "stop", "other"} : Own(a) \in CallType /\ Own(a).action = a
    /\ \A w \in {"", "source", "destination"} : LookFor(w) \in CallType /\ LookFor(w).action = "look"
    /\ Nothing \in CallType /\ Stop \in CallType /\ Stop.action = "stop" /\ Nothing.action = "none"
<1>1. \A a \in TransportActions \cup {"none", "stop", "other"} : Own(a) \in CallType /\ Own(a).action = a
  BY DEF Own, CallType, Labels, Grasps
<1>2. \A w \in {"", "source", "destination"} : LookFor(w) \in CallType /\ LookFor(w).action = "look"
  <2>1. Own("look") \in CallType /\ Own("look").action = "look"
    BY <1>1 DEF TransportActions
  <2> QED
    BY <2>1 DEF LookFor, CallType
<1> QED
  BY <1>1, <1>2 DEF Nothing, Stop

\* So are those with arguments of their own.
LEMMA OwnCallsWith ==
  ASSUME NEW a \in {"pickplace", "insert"}, NEW g \in Grasps, NEW p \in Labels, NEW q \in Labels
  PROVE  /\ [Own(a) EXCEPT !.grasp = g] \in CallType
         /\ [Own(a) EXCEPT !.grasp = g, !.pick = p] \in CallType
         /\ [Own(a) EXCEPT !.pick = p, !.place = q] \in CallType
         /\ [Own(a) EXCEPT !.place = q] \in CallType
<1>1. Own(a) \in CallType
  BY OwnCalls DEF TransportActions
<1> QED
  BY <1>1 DEF CallType

\* A label that is not admitted is the instruction's own.
LEMMA AdmittedLabels ==
  ASSUME NEW c \in CallType, NEW p \in BOOLEAN, NEW q \in BOOLEAN
  PROVE  /\ Admit(c, p, q) \in CallType /\ Admit(c, p, q).action = c.action
         /\ Admit(c, p, q).pick = IF p THEN c.pick ELSE "own"
         /\ Admit(c, p, q).place = IF q THEN c.place ELSE "own"
  BY DEF Admit, CallType, Labels

\* A verified alias replaces a label of a call, not what it does.
LEMMA AliasedCall ==
  ASSUME NEW s, NEW c \in CallType
  PROVE  WithAliases(s, c) \in CallType /\ WithAliases(s, c).action = c.action
  BY DEF WithAliases, VisualAlias, CallType, Labels

\* What proposals may be: calls.
LEMMA ProposedCalls ==
  ASSUME Ep(ep)
  PROVE  Proposals \subseteq CallType
<1>1. Unusable(ep) \in CallType
  BY OwnCalls DEF Unusable, TransportActions
<1>2. [action : {"pickplace", "insert"}, pick : Labels, place : Labels,
       grasp : {"none", "learned"}, ask : {""}] \subseteq CallType
  BY DEF CallType, TransportActions, Grasps
<1>3. /\ {Own("other"), Own("push"), Own("check"), Own("done")} \subseteq CallType
      /\ \A w \in {"", "source", "destination"} : LookFor(w) \in CallType
  BY OwnCalls DEF TransportActions
<1> QED
  BY <1>1, <1>2, <1>3 DEF Proposals, Ep

-----------------------------------------------------------------------------
\* ---- the rules ----

\* The rules before those of the three motions, and what they leave.
Routed(s, c) == CanonicalCheck(s, BoundedOpening(s, EndorsedDone(s, MeasureFirst(s,
                  OpeningFirst(s, InScope(s, c))))))

\* They let through a call of the vocabulary or a stop, an endorsed done, and broad
\* transport into an opening only as the fallback.
LEMMA RoutedCalls ==
  ASSUME NEW s, NEW c \in CallType
  PROVE  LET r == Routed(s, c) IN
         /\ r \in CallType /\ r.action \in TransportActions \cup {"stop"}
         /\ r.action = "done" => s.checkOk
         /\ r.action = "pickplace" /\ goal.requires => s.fallback
<1> DEFINE a == InScope(s, c)
           b == OpeningFirst(s, a)
           d == MeasureFirst(s, b)
           e == EndorsedDone(s, d)
           f == BoundedOpening(s, e)
           g == CanonicalCheck(s, f)
           T == TransportActions \cup {"stop"}
<1>0. /\ Own("check") \in CallType /\ Own("check").action = "check"
      /\ Own("insert") \in CallType /\ Own("insert").action = "insert"
      /\ Own("pickplace") \in CallType /\ Own("pickplace").action = "pickplace"
      /\ Stop \in CallType /\ Stop.action = "stop"
      /\ {"check", "insert", "pickplace", "stop"} \subseteq T
  BY OwnCalls DEF TransportActions
<1>1. a \in CallType /\ a.action \in T
  BY <1>0 DEF InScope, InitialAction
<1>2. b \in CallType /\ b.action \in T
  BY <1>0, <1>1 DEF OpeningFirst
<1>3. d \in CallType /\ d.action \in T
  BY <1>0, <1>2 DEF MeasureFirst
<1>4. e \in CallType /\ e.action \in T /\ (e.action = "done" => s.checkOk)
  BY <1>0, <1>3 DEF EndorsedDone
<1>5. [e EXCEPT !.action = "insert"] \in CallType /\ [e EXCEPT !.action = "insert"].action = "insert"
  BY <1>4 DEF CallType, TransportActions
<1>6. /\ f \in CallType /\ f.action \in T /\ (f.action = "done" => s.checkOk)
      /\ f.action = "pickplace" /\ goal.requires => s.fallback
  BY <1>0, <1>4, <1>5 DEF BoundedOpening, InsertBudgetSpent
<1>7. /\ g \in CallType /\ g.action \in T /\ (g.action = "done" => s.checkOk)
      /\ g.action = "pickplace" /\ goal.requires => s.fallback
  BY <1>0, <1>6 DEF CanonicalCheck
<1> HIDE DEF a, b, d, e, f, g, T
<1>8. g = Routed(s, c)
  BY DEF g, f, e, d, b, a, Routed
<1> QED
  BY <1>7, <1>8 DEF T

\* The whole chain does, and a motion leaves it with admitted labels.
LEMMA RuledCalls ==
  ASSUME NEW s, NEW c \in CallType
  PROVE  LET r == Rules(s, c) IN
         /\ r \in CallType /\ r.action \in TransportActions \cup {"stop"}
         /\ r.action = "done" => s.checkOk
         /\ r.action \in Motions => Named(s, r)
         /\ r.action = "pickplace" /\ goal.requires /\ goal.supports => s.fallback
<1> DEFINE a == Routed(s, c)
           b == InsertRule(s, a)
           d == PushRule(s, b)
           e == PickPlaceRule(s, d)
           T == TransportActions \cup {"stop"}
           Kept(r) == Named(s, r)
<1>0. /\ \A x \in {"check", "done", "look", "push", "pickplace"} :
           Own(x) \in CallType /\ Own(x).action = x /\ x \in T /\ Kept(Own(x))
      /\ Stop \in CallType /\ Stop.action = "stop" /\ "stop" \in T
  BY OwnCalls DEF TransportActions, Own, Named
<1>1. /\ a \in CallType /\ a.action \in T /\ (a.action = "done" => s.checkOk)
      /\ a.action = "pickplace" /\ goal.requires => s.fallback
  BY RoutedCalls
<1>2. /\ b \in CallType /\ b.action \in T /\ (b.action = "done" => s.checkOk)
      /\ b.action = "insert" => Kept(b)
      /\ b.action = "pickplace" /\ goal.requires /\ goal.supports => s.fallback
  <2>1. [a EXCEPT !.action = "pickplace"] \in CallType
        /\ [a EXCEPT !.action = "pickplace"].action = "pickplace"
    BY <1>1 DEF CallType, TransportActions
  <2> DEFINE x == WithAliases(s, a)
             p == AliasPick(s, x) \/ (~Qualified(goal) /\ s.failure \in NoMotion)
  <2>2. x \in CallType /\ x.action = a.action
    BY <1>1, AliasedCall
  <2>3. /\ Admit(x, p, AliasPlace(s, x)) \in CallType
        /\ Admit(x, p, AliasPlace(s, x)).action = a.action
        /\ Kept(Admit(x, p, AliasPlace(s, x)))
    <3> HIDE DEF x
    <3> QED
      BY <2>2, AdmittedLabels DEF AliasPick, AliasPlace, Named, Qualified
  <2>4. CASE a.action # "insert"
    BY <1>1, <2>4 DEF InsertRule
  <2>5. CASE a.action = "insert"
    <3> HIDE DEF a, x, p, Kept, T
    <3>1. \/ b = Own("done") /\ s.checkOk
          \/ b = [a EXCEPT !.action = "pickplace"] /\ ~goal.supports
          \/ b \in {Own("look"), Own("check"), Stop}
          \/ b = Admit(x, p, AliasPlace(s, x))
      BY <2>5 DEF InsertRule, InsertBudgetSpent, x, p
    <3>2. CASE b = Own("done") /\ s.checkOk
      BY <1>0, <3>2
    <3>3. CASE b = [a EXCEPT !.action = "pickplace"] /\ ~goal.supports
      BY <1>0, <2>1, <3>3
    <3>4. CASE b \in {Own("look"), Own("check"), Stop}
      BY <1>0, <3>4
    <3>5. CASE b = Admit(x, p, AliasPlace(s, x))
      BY <1>1, <2>3, <2>5, <3>5
    <3> QED
      BY <3>1, <3>2, <3>3, <3>4, <3>5
  <2> QED
    BY <2>4, <2>5
<1>3. /\ d \in CallType /\ d.action \in T /\ (d.action = "done" => s.checkOk)
      /\ d.action \in {"insert", "push"} => Kept(d)
      /\ d.action = "pickplace" /\ goal.requires /\ goal.supports => s.fallback
  BY <1>0, <1>2 DEF PushRule
<1>4. /\ e \in CallType /\ e.action \in T /\ (e.action = "done" => s.checkOk)
      /\ e.action \in Motions => Kept(e)
      /\ e.action = "pickplace" /\ goal.requires /\ goal.supports => s.fallback
  <2>1. CASE d.action # "pickplace"
    BY <1>3, <2>1 DEF PickPlaceRule, Motions
  <2>2. CASE d.action = "pickplace"
    <3> DEFINE x == WithAliases(s, d)
               p == AliasPick(s, x)
                    \/ (~Qualified(goal) /\ (s.failure \in NoGrasp
                                            \/ (s.failure = "not_grounded" /\ s.grounding = "pick")))
    <3>1. x \in CallType /\ x.action = d.action
      BY <1>3, AliasedCall
    <3>2. /\ Admit(x, p, AliasPlace(s, x)) \in CallType
          /\ Admit(x, p, AliasPlace(s, x)).action = d.action
          /\ Kept(Admit(x, p, AliasPlace(s, x)))
      <4> DEFINE q == AliasPlace(s, x)
                 w == Admit(x, p, q)
      <4> HIDE DEF x, d
      <4>1. /\ p \in BOOLEAN /\ q \in BOOLEAN
            /\ p /\ Qualified(goal) => s.pickAlias /\ x.pick = VisualAlias(goal)
            /\ q => x.place = "alias"
        BY DEF AliasPick, AliasPlace, Qualified
      <4> HIDE DEF p, q
      <4>2. /\ w \in CallType /\ w.action = x.action
            /\ w.pick = IF p THEN x.pick ELSE "own"
            /\ w.place = IF q THEN x.place ELSE "own"
        BY <3>1, <4>1, AdmittedLabels
      <4> HIDE DEF w
      <4>3. Kept(w)
        BY <4>1, <4>2 DEF Named
      <4> QED
        BY <3>1, <4>2, <4>3 DEF w, q
    <3> HIDE DEF d, x, p, Kept, T
    <3>3. \/ e = Own("done") /\ s.checkOk
          \/ e \in {Own("look"), Own("check"), Own("pickplace")}
          \/ e = Admit(x, p, AliasPlace(s, x))
      BY <2>2 DEF PickPlaceRule, SemanticFirstCall, x, p
    <3>4. CASE e = Own("done") /\ s.checkOk
      BY <1>0, <3>4 DEF Motions
    <3>5. CASE e \in {Own("look"), Own("check"), Own("pickplace")}
      BY <1>0, <1>3, <2>2, <3>5 DEF Motions
    <3>6. CASE e = Admit(x, p, AliasPlace(s, x))
      BY <1>3, <2>2, <3>2, <3>6
    <3> QED
      BY <3>3, <3>4, <3>5, <3>6
  <2> QED
    BY <2>1, <2>2
<1> HIDE DEF a, b, d, e
<1>5. e = Rules(s, c)
  BY DEF e, d, b, a, Rules, Routed
<1> QED
  BY <1>4, <1>5

\* A due verdict, look or measurement passes the rules as it is.
LEMMA DueCalls ==
  ASSUME NEW s, ~s.mustCheck, s.turn # 0
  PROVE  /\ s.checkOk => Rules(s, Own("done")) = Own("done")
         /\ Rules(s, Own("look")) = Own("look")
         /\ Rules(s, Own("check")) = Own("check")
<1>1. \A a \in {"done", "look", "check"} : Own(a).action = a /\ a \in TransportActions
  BY DEF Own, TransportActions
<1>2. \A a \in {"done", "look", "check"} : InScope(s, Own(a)) = Own(a)
  BY <1>1 DEF InScope
<1>3. \A c : OpeningFirst(s, c) = c /\ MeasureFirst(s, c) = c
  BY DEF OpeningFirst, MeasureFirst
<1>4. EndorsedDone(s, Own("look")) = Own("look") /\ EndorsedDone(s, Own("check")) = Own("check")
      /\ (s.checkOk => EndorsedDone(s, Own("done")) = Own("done"))
  BY <1>1 DEF EndorsedDone
<1>5. \A a \in {"done", "look", "check"} :
        /\ BoundedOpening(s, Own(a)) = Own(a) /\ CanonicalCheck(s, Own(a)) = Own(a)
        /\ InsertRule(s, Own(a)) = Own(a) /\ PushRule(s, Own(a)) = Own(a)
        /\ PickPlaceRule(s, Own(a)) = Own(a)
  BY <1>1 DEF BoundedOpening, CanonicalCheck, InsertRule, PushRule, PickPlaceRule
<1> QED
  BY <1>2, <1>3, <1>4, <1>5 DEF Rules

-----------------------------------------------------------------------------
\* ---- the local variables ----

\* The parts of the local variables that a verdict speaks of, apart from the queue.
Kept(s, t) ==
    /\ t.turn = s.turn /\ t.over = s.over /\ t.checkOk = s.checkOk /\ t.mustCheck = s.mustCheck
    /\ t.checkReliable = s.checkReliable /\ t.allowUnreliable = s.allowUnreliable
    /\ t.released = s.released

\* Stopping keeps the turn.
LEMMA Halted ==
  ASSUME NEW s, Ep(s)
  PROVE  Ep(Halt(s)) /\ Halt(s).over = "stopped" /\ Halt(s).turn = s.turn
<1>1. Halt(s) = [f \in EpFields |-> Halt(s)[f]]
  BY Zenon DEF Ep, Halt, EpFields
<1>2. Halt(s).over = "stopped" /\ Halt(s).turn = s.turn /\ Halt(s).pending = s.pending
  BY DEF Ep, Halt, EpFields
<1> QED
  BY <1>1, <1>2 DEF Ep

\* Queueing a call changes nothing else.
LEMMA Queued ==
  ASSUME NEW s, Ep(s), NEW c \in CallType
  PROVE  Ep(Queue(s, c)) /\ Queue(s, c).pending = c /\ Kept(s, Queue(s, c))
<1>1. Queue(s, c) = [f \in EpFields |-> Queue(s, c)[f]]
  BY Zenon DEF Ep, Queue, EpFields
<1>2. Queue(s, c).pending = c
  BY DEF Ep, Queue, EpFields
<1>3. Kept(s, Queue(s, c))
  BY DEF Ep, Queue, EpFields, Kept
<1> QED
  BY <1>1, <1>2, <1>3 DEF Ep

\* Taking a call empties the queue and keeps the evidence.
LEMMA TakenCall ==
  ASSUME NEW s, Ep(s), NEW c \in CallType
  PROVE  /\ Ep(Taken(s, c)) /\ Taken(s, c).pending = Nothing /\ Kept(s, Taken(s, c))
         /\ Taken(s, c).fallback = s.fallback /\ Taken(s, c).pickAlias = s.pickAlias
<1>1. Taken(s, c) = [f \in EpFields |-> Taken(s, c)[f]]
  BY Zenon DEF Ep, Taken, EpFields
<1>2. Taken(s, c).pending = Nothing
  BY DEF Ep, Taken, EpFields
<1>3. /\ Kept(s, Taken(s, c)) /\ Taken(s, c).fallback = s.fallback
      /\ Taken(s, c).pickAlias = s.pickAlias
  BY DEF Ep, Taken, EpFields, Kept
<1>4. Nothing \in CallType
  BY OwnCalls
<1> QED
  BY <1>1, <1>2, <1>3, <1>4 DEF Ep

\* The flags that a handler sets on top of what it queued.
LEMMA Flagged ==
  ASSUME NEW s, Ep(s), NEW b
  PROVE  /\ LET t == [s EXCEPT !.allowUnreliable = b] IN
            /\ Ep(t) /\ t.pending = s.pending /\ t.turn = s.turn /\ t.over = s.over
            /\ t.checkOk = s.checkOk /\ t.mustCheck = s.mustCheck /\ t.allowUnreliable = b
         /\ LET t == [s EXCEPT !.checkOk = b] IN
            /\ Ep(t) /\ t.pending = s.pending /\ t.turn = s.turn /\ t.over = s.over
            /\ t.checkOk = b /\ t.mustCheck = s.mustCheck
         /\ LET t == [s EXCEPT !.motion = b] IN Ep(t) /\ t.pending = s.pending /\ Kept(s, t)
         /\ LET t == [s EXCEPT !.variantTried = b] IN Ep(t) /\ t.pending = s.pending /\ Kept(s, t)
         /\ LET t == [s EXCEPT !.looks = b] IN Ep(t) /\ t.pending = s.pending /\ Kept(s, t)
         /\ LET t == [s EXCEPT !.pickAlias = b] IN Ep(t) /\ t.pending = s.pending /\ Kept(s, t)
<1>1. /\ [s EXCEPT !.allowUnreliable = b] = [f \in EpFields |-> [s EXCEPT !.allowUnreliable = b][f]]
      /\ [s EXCEPT !.checkOk = b] = [f \in EpFields |-> [s EXCEPT !.checkOk = b][f]]
      /\ [s EXCEPT !.motion = b] = [f \in EpFields |-> [s EXCEPT !.motion = b][f]]
  BY Zenon DEF Ep, EpFields
<1>2. /\ [s EXCEPT !.variantTried = b] = [f \in EpFields |-> [s EXCEPT !.variantTried = b][f]]
      /\ [s EXCEPT !.looks = b] = [f \in EpFields |-> [s EXCEPT !.looks = b][f]]
      /\ [s EXCEPT !.pickAlias = b] = [f \in EpFields |-> [s EXCEPT !.pickAlias = b][f]]
  BY Zenon DEF Ep, EpFields
<1>3. LET t == [s EXCEPT !.allowUnreliable = b] IN
        /\ Ep(t) /\ t.pending = s.pending /\ t.turn = s.turn /\ t.over = s.over
        /\ t.checkOk = s.checkOk /\ t.mustCheck = s.mustCheck /\ t.allowUnreliable = b
  BY <1>1 DEF Ep, EpFields
<1>4. LET t == [s EXCEPT !.checkOk = b] IN
        /\ Ep(t) /\ t.pending = s.pending /\ t.turn = s.turn /\ t.over = s.over
        /\ t.checkOk = b /\ t.mustCheck = s.mustCheck
  BY <1>1 DEF Ep, EpFields
<1>5. LET t == [s EXCEPT !.motion = b] IN Ep(t) /\ t.pending = s.pending /\ Kept(s, t)
  BY <1>1 DEF Ep, EpFields, Kept
<1>6. LET t == [s EXCEPT !.variantTried = b] IN Ep(t) /\ t.pending = s.pending /\ Kept(s, t)
  BY <1>2 DEF Ep, EpFields, Kept
<1>7. LET t == [s EXCEPT !.looks = b] IN Ep(t) /\ t.pending = s.pending /\ Kept(s, t)
  BY <1>2 DEF Ep, EpFields, Kept
<1>8. LET t == [s EXCEPT !.pickAlias = b] IN Ep(t) /\ t.pending = s.pending /\ Kept(s, t)
  BY <1>2 DEF Ep, EpFields, Kept
<1> QED
  BY <1>3, <1>4, <1>5, <1>6, <1>7, <1>8

-----------------------------------------------------------------------------
\* ---- the handlers ----

\* What reading a report leaves: the episode stopped, or a next turn bound by the verdict.
Outcome(s, t, v) ==
    /\ Ep(t) /\ t.turn = s.turn /\ t.over \in {"no", "stopped"}
    /\ t.over = "no" => Bound(t, v)

\* Stopping is an outcome whatever the verdict.
LEMMA StoppedOutcome ==
  ASSUME NEW s, NEW u, Ep(u), u.turn = s.turn, NEW v
  PROVE  Outcome(s, Halt(u), v)
BY Halted DEF Outcome

\* A look never disturbs a verdict: an ambiguous scene is measured again or left.
LEMMA LookOutcome ==
  ASSUME NEW s, Ep(s), s.over = "no", s.pending = Nothing, ~s.checkOk,
         NEW v, v # "placed", v = "ambiguous" => Unsure(s) /\ ~s.mustCheck,
         NEW rep, v = "ambiguous" => ~rep.source /\ ~rep.destination
  PROVE  Outcome(s, AfterLook(s, rep), v)
<1> DEFINE t == LookLoop(s, rep)
           r == AfterLook(s, rep)
<1>1. \/ t = Halt(s)
      \/ Ep(t) /\ t.pending = Nothing /\ Kept(s, t)
  <2>1. t \in {Halt(s), [s EXCEPT !.looks = 0], [s EXCEPT !.looks = 1]}
    BY DEF LookLoop
  <2>2. \A n \in {0, 1} : LET u == [s EXCEPT !.looks = n] IN
          Ep(u) /\ u.pending = s.pending /\ Kept(s, u)
    BY Flagged, Zenon
  <2> HIDE DEF t
  <2> QED
    BY <2>1, <2>2, Zenon
<1>2. CASE t = Halt(s)
  <2>1. r = Halt(s)
    BY <1>2, Halted DEF AfterLook
  <2> QED
    BY <2>1, StoppedOutcome
<1>3. CASE Ep(t) /\ t.pending = Nothing /\ Kept(s, t)
  <2> HIDE DEF t
  <2>0. /\ t.turn = s.turn /\ t.over = "no" /\ ~t.checkOk
        /\ v = "ambiguous" => Unsure(t) /\ ~t.mustCheck
    BY <1>3 DEF Kept, Unsure
  <2>1. CASE s.failure = "not_grounded" /\ s.grounding = "pick"
    <3>1. r = SourceAlias(t, rep)
      BY <2>0, <2>1 DEF AfterLook, t
    <3>2. CASE ~(rep.source /\ ~t.pickAlias)
      BY <1>3, <2>0, <3>1, <3>2, StoppedOutcome DEF SourceAlias
    <3>3. CASE rep.source /\ ~t.pickAlias
      <4> DEFINE c == [Own(AliasTransport(t)) EXCEPT !.pick = VisualAlias(goal),
                                                     !.place = IF t.placeAlias THEN "alias" ELSE "own"]
      <4>1. AliasTransport(t) \in {"pickplace", "insert"}
        BY DEF AliasTransport
      <4>2. c \in CallType
        BY <4>1, OwnCallsWith DEF VisualAlias, Labels, Grasps
      <4> DEFINE u == Queue(t, c)
      <4>3. r = [u EXCEPT !.pickAlias = TRUE]
        BY <3>1, <3>3 DEF SourceAlias
      <4> HIDE DEF c
      <4>4. Ep(u) /\ Kept(t, u)
        BY <1>3, <4>2, Queued
      <4> HIDE DEF u, r
      <4>5. Ep(r) /\ Kept(u, r)
        BY <4>3, <4>4, Flagged
      <4>6. v # "ambiguous"
        BY <3>3
      <4>7. Outcome(s, r, v)
        BY <2>0, <4>4, <4>5, <4>6 DEF Kept, Outcome, Bound
      <4> QED
        BY <4>7 DEF r
    <3> QED
      BY <3>2, <3>3
  <2>2. CASE s.failure \in {"not_grounded", "no_opening_geometry"}
             /\ ~(s.failure = "not_grounded" /\ s.grounding = "pick")
    <3> DEFINE u == [t EXCEPT !.placeAliases = @ \/ rep.destination]
               d == DestinationAlias(t, rep)
               q(x) == [Queue(u, [Own(x) EXCEPT !.place = "alias"])
                          EXCEPT !.placeAlias = TRUE,
                                 !.fallback = @ \/ (t.failure = "no_opening_geometry" /\ t.placeAlias)]
    <3>1. r = Remeasure(d)
      BY <2>0, <2>2 DEF AfterLook, t
    <3>2. Ep(u) /\ u.pending = Nothing /\ Kept(t, u)
      <4>1. u = [f \in EpFields |-> u[f]]
        BY <1>3, Zenon DEF Ep, EpFields
      <4>2. u.pending = Nothing /\ Kept(t, u)
        BY <1>3 DEF Ep, EpFields, Kept
      <4>3. Nothing \in CallType
        BY OwnCalls
      <4> QED
        BY <4>1, <4>2, <4>3 DEF Ep
    <3>3. \/ d = Halt(u) \/ d = u
          \/ rep.destination /\ (d = q("pickplace") \/ d = q("insert"))
      BY DEF DestinationAlias, AliasTransport
    <3>4. \A x \in {"pickplace", "insert"} :
            Ep(q(x)) /\ Kept(u, q(x)) /\ q(x).pending # Nothing
      <4> TAKE x \in {"pickplace", "insert"}
      <4> DEFINE c == [Own(x) EXCEPT !.place = "alias"]
                 w == Queue(u, c)
                 z == [w EXCEPT !.placeAlias = TRUE,
                                !.fallback = @ \/ (t.failure = "no_opening_geometry" /\ t.placeAlias)]
      <4>1. c \in CallType
        BY OwnCallsWith DEF Labels, Grasps
      <4>2. c # Nothing
        BY DEF Nothing, Own
      <4> HIDE DEF c, u
      <4>3. Ep(w) /\ w.pending = c /\ Kept(u, w)
        BY <3>2, <4>1, Queued
      <4> HIDE DEF w
      <4>4. z = [f \in EpFields |-> z[f]]
        BY <4>3, Zenon DEF Ep, EpFields
      <4>5. z.pending = c /\ Kept(w, z)
        BY <4>3 DEF Ep, EpFields, Kept
      <4> HIDE DEF z
      <4>6. Ep(z) /\ Kept(u, z) /\ z.pending # Nothing
        BY <4>1, <4>2, <4>3, <4>4, <4>5 DEF Ep, Kept
      <4> QED
        BY <4>6 DEF z, w, c
    <3> HIDE DEF u, q, d, r
    <3>5. CASE d = Halt(u)
      <4>1. Ep(d) /\ d.over = "stopped"
        BY <3>2, <3>5, Halted
      <4>2. r = d
        BY <3>1, <4>1 DEF Remeasure
      <4>3. Outcome(s, r, v)
        BY <2>0, <3>2, <3>5, <4>2, StoppedOutcome DEF Kept
      <4> QED
        BY <4>3 DEF r
    <3>6. CASE d = u
      <4>1. Own("check") \in CallType
        BY OwnCalls DEF TransportActions
      <4>2. /\ Ep(u) /\ u.pending = Nothing /\ u.turn = s.turn /\ u.over = "no" /\ ~u.checkOk
            /\ v = "ambiguous" => Unsure(u) /\ ~u.mustCheck
        BY <2>0, <3>2 DEF Kept, Unsure
      <4>3. Ep(Queue(u, Own("check"))) /\ Queue(u, Own("check")).pending = Own("check")
            /\ Kept(u, Queue(u, Own("check")))
        BY <4>1, <4>2, Queued
      <4>4. r = Queue(u, Own("check")) \/ (r = u /\ v # "ambiguous")
        BY <3>1, <3>6, <4>2, SMTT(40) DEF Remeasure, Unsure
      <4>5. Outcome(s, r, v)
        BY <4>2, <4>3, <4>4 DEF Outcome, Bound, Kept, Unsure
      <4> QED
        BY <4>5 DEF r
    <3>7. CASE rep.destination /\ (d = q("pickplace") \/ d = q("insert"))
      <4>1. Ep(d) /\ Kept(u, d) /\ d.pending # Nothing
        BY <3>4, <3>7
      <4>2. r = d
        BY <3>1, <4>1 DEF Remeasure
      <4>3. Outcome(s, r, v)
        BY <2>0, <3>2, <3>7, <4>1, <4>2 DEF Kept, Outcome, Bound
      <4> QED
        BY <4>3 DEF r
    <3> QED
      BY <3>3, <3>5, <3>6, <3>7 DEF r
  <2>3. CASE s.failure \notin {"not_grounded", "no_opening_geometry"}
    <3>1. r = Remeasure(t)
      BY <2>0, <2>3 DEF AfterLook, t
    <3>2. Own("check") \in CallType
      BY OwnCalls DEF TransportActions
    <3>3. Ep(Queue(t, Own("check"))) /\ Queue(t, Own("check")).pending = Own("check")
          /\ Kept(t, Queue(t, Own("check")))
      BY <1>3, <3>2, Queued
    <3> HIDE DEF r
    <3>4. r = Queue(t, Own("check")) \/ (r = t /\ v # "ambiguous")
      BY <1>3, <2>0, <3>1 DEF Remeasure, Unsure
    <3>5. Outcome(s, r, v)
      BY <1>3, <2>0, <3>3, <3>4 DEF Outcome, Bound, Kept, Unsure
    <3> QED
      BY <3>5 DEF r
  <2> QED
    BY <2>1, <2>2, <2>3
<1> QED
  BY <1>1, <1>2, <1>3

\* What a reflection on the photographs can say.
LEMMA DiagnosisFields ==
  ASSUME NEW diag \in Diagnoses
  PROVE  /\ diag.next \in {"done", "check", "stop", "retry"} /\ diag.route \in {"", "look", "insert"}
         /\ diag.pick \in Labels /\ diag.grasp \in Grasps
BY DEF Diagnoses, Labels, Grasps

\* A recovery that was decided: a call is queued, and an unreliable check does not bar it.
LEMMA Recovered ==
  ASSUME NEW s, Ep(s), NEW c \in CallType
  PROVE  LET t == [Queue(s, c) EXCEPT !.allowUnreliable = TRUE] IN
         /\ Ep(t) /\ t.pending = c /\ t.turn = s.turn /\ t.over = s.over
         /\ t.checkOk = s.checkOk /\ t.mustCheck = s.mustCheck /\ t.allowUnreliable
<1> DEFINE u == Queue(s, c)
<1>1. Ep(u) /\ u.pending = c /\ Kept(s, u)
  BY Queued
<1> HIDE DEF u
<1>2. LET t == [u EXCEPT !.allowUnreliable = TRUE] IN
      /\ Ep(t) /\ t.pending = u.pending /\ t.turn = u.turn /\ t.over = u.over
      /\ t.checkOk = u.checkOk /\ t.mustCheck = u.mustCheck /\ t.allowUnreliable = TRUE
  BY <1>1, Flagged
<1>3. LET t == [u EXCEPT !.allowUnreliable = TRUE] IN
      /\ Ep(t) /\ t.pending = c /\ t.turn = s.turn /\ t.over = s.over
      /\ t.checkOk = s.checkOk /\ t.mustCheck = s.mustCheck /\ t.allowUnreliable
  BY <1>1, <1>2 DEF Kept
<1> QED
  BY <1>3 DEF u

\* The retry that the visual authority decides is such a recovery.
LEMMA RetriedVisually ==
  ASSUME NEW s, Ep(s), NEW rep, NEW diag \in Diagnoses
  PROVE  LET t == VisualRetry(s, rep, diag) IN
         /\ Ep(t) /\ t.turn = s.turn /\ t.over = s.over
         /\ t.checkOk = s.checkOk /\ t.mustCheck = s.mustCheck /\ t.allowUnreliable
<1> DEFINE t == VisualRetry(s, rep, diag)
           i == [Own("insert") EXCEPT !.grasp = diag.grasp]
           p(x) == [Own("pickplace") EXCEPT !.grasp = diag.grasp, !.pick = x]
           r(c) == [Queue(s, c) EXCEPT !.allowUnreliable = TRUE]
<1>1. /\ diag.route \in {"", "look", "insert"} /\ diag.grasp \in Grasps
      /\ (IF s.failure \in NoMotion THEN diag.pick ELSE "own") \in Labels
  BY DiagnosisFields DEF Labels
<1>2. /\ LookFor("destination") \in CallType /\ Own("push") \in CallType
      /\ i \in CallType /\ \A x \in Labels : p(x) \in CallType
  BY <1>1, OwnCalls, OwnCallsWith DEF TransportActions, Labels
<1>3. \/ t = r(LookFor("destination")) \/ t = r(Own("push")) \/ t = r(i)
      \/ \E x \in Labels : t = r(p(x))
  BY <1>1 DEF VisualRetry
<1>4. \E c \in CallType : t = r(c)
  <2> HIDE DEF r, i, p, t
  <2> QED
    BY <1>2, <1>3
<1>5. PICK c \in CallType : t = r(c)
  BY <1>4
<1> HIDE DEF t
<1>6. /\ Ep(t) /\ t.turn = s.turn /\ t.over = s.over
      /\ t.checkOk = s.checkOk /\ t.mustCheck = s.mustCheck /\ t.allowUnreliable
  BY <1>5, Recovered
<1> QED
  BY <1>6 DEF t

\* Without it the geometry recovers, or an unreliable release is looked at.
LEMMA RecoveredByMeasure ==
  ASSUME NEW s, Ep(s), s.over = "no", NEW rep
  PROVE  LET t == MeasuredRecovery(s, rep) IN
         /\ Ep(t) /\ t.turn = s.turn /\ t.over \in {"no", "stopped"}
         /\ t.over = "no" => /\ t.checkOk = s.checkOk /\ t.mustCheck = s.mustCheck
                             /\ \/ t.allowUnreliable
                                \/ rep.reliable
                                \/ Kept(s, t) /\ t.pending = Own("look")
<1> DEFINE t == MeasuredRecovery(s, rep)
           r(c) == [Queue(s, c) EXCEPT !.allowUnreliable = TRUE]
<1>1. {Own("look"), Own("push"), Own("pickplace")} \subseteq CallType
  BY OwnCalls DEF TransportActions
<1>2. \/ ~rep.reliable /\ (t = r(Own("pickplace")) \/ t = Queue(s, Own("look")))
      \/ rep.reliable /\ t \in {Queue(s, Own("push")), Queue(s, Own("pickplace")), Halt(s), s}
  BY DEF MeasuredRecovery
<1> HIDE DEF t
<1>3. CASE t = r(Own("pickplace"))
  <2>1. /\ Ep(t) /\ t.turn = s.turn /\ t.over = s.over
        /\ t.checkOk = s.checkOk /\ t.mustCheck = s.mustCheck /\ t.allowUnreliable
    BY <1>1, <1>3, Recovered
  <2> QED
    BY <2>1 DEF t
<1>4. CASE t = Queue(s, Own("look"))
  <2>1. Ep(t) /\ t.pending = Own("look") /\ Kept(s, t)
    BY <1>1, <1>4, Queued
  <2> QED
    BY <2>1 DEF t, Kept
<1>5. CASE rep.reliable /\ t \in {Queue(s, Own("push")), Queue(s, Own("pickplace"))}
  <2>1. Ep(t) /\ Kept(s, t)
    BY <1>1, <1>5, Queued
  <2> QED
    BY <1>5, <2>1 DEF t, Kept
<1>6. CASE t = Halt(s)
  <2>1. Ep(t) /\ t.over = "stopped" /\ t.turn = s.turn
    BY <1>6, Halted
  <2> QED
    BY <2>1 DEF t
<1>7. CASE rep.reliable /\ t = s
  BY <1>7 DEF t
<1> QED
  BY <1>2, <1>3, <1>4, <1>5, <1>6, <1>7

\* A check leaves a bound verdict: a placement is about to be accepted, an
\* undecided release is looked at again, and a scene to be kept ends the episode.
LEMMA CheckOutcome ==
  ASSUME NEW s, Ep(s), s.over = "no", NEW rep, NEW diag \in Diagnoses
  PROVE  LET r == AfterCheck(s, rep, diag) IN
         Outcome(s, r, VerdictOf(r, rep, Reviewed(s, rep) /\ diag.next = "retry"))
<1> DEFINE next == IF Reviewed(s, rep) THEN diag.next ELSE ""
           ok == IF Reviewed(s, rep) THEN diag.next = "done" ELSE rep.ok
           t == [s EXCEPT !.mustCheck = FALSE, !.checked = rep.given, !.pushable = rep.push,
                          !.failure = IF rep.wrong THEN "wrong_object_grasp" ELSE @,
                          !.checkOk = ok, !.checkReliable = rep.reliable,
                          !.streak = IF rep.reliable THEN 0 ELSE Min2(@ + 1), !.motion = FALSE]
           r == AfterCheck(s, rep, diag)
           retried == Reviewed(s, rep) /\ diag.next = "retry"
<1>1. Ep(t)
  <2>1. t = [f \in EpFields |-> t[f]]
    <3> HIDE DEF ok, next
    <3> QED
      BY ZenonT(60) DEF Ep, EpFields
  <2>2. t.pending = s.pending
    BY DEF Ep, EpFields
  <2> QED
    BY <2>1, <2>2 DEF Ep
<1>2. /\ t.turn = s.turn /\ t.over = "no" /\ ~t.mustCheck /\ (t.checkReliable <=> rep.reliable)
      /\ t.checkOk <=> ok
  BY DEF Ep, EpFields
<1>3. /\ retried <=> next = "retry"
      /\ next = "retry" /\ Reviewed(s, rep) => ~ok
  BY DEF Reviewed
<1>4. \/ r = Halt(t)
      \/ ok /\ r = Queue(t, Own("done"))
      \/ ~ok /\ retried /\ r = VisualRetry(t, rep, diag)
      \/ ~ok /\ ~(rep.preserve /\ ~retried) /\ r = MeasuredRecovery(t, rep)
  BY <1>3 DEF AfterCheck
<1> HIDE DEF t, r, ok, next, retried
<1>5. CASE r = Halt(t)
  BY <1>1, <1>2, <1>5, StoppedOutcome DEF r, retried
<1>6. CASE ok /\ r = Queue(t, Own("done"))
  <2>1. Own("done") \in CallType
    BY OwnCalls DEF TransportActions
  <2>2. Ep(r) /\ r.pending = Own("done") /\ Kept(t, r)
    BY <1>1, <1>6, <2>1, Queued
  <2>3. VerdictOf(r, rep, retried) = "placed"
    BY <1>2, <1>6, <2>2 DEF VerdictOf, Kept
  <2>4. Outcome(s, r, VerdictOf(r, rep, retried))
    BY <1>2, <1>6, <2>2, <2>3 DEF Outcome, Bound, Kept
  <2> QED
    BY <2>4 DEF r, retried
<1>7. CASE ~ok /\ retried /\ r = VisualRetry(t, rep, diag)
  <2>1. /\ Ep(r) /\ r.turn = t.turn /\ r.over = t.over
        /\ r.checkOk = t.checkOk /\ r.mustCheck = t.mustCheck /\ r.allowUnreliable
    BY <1>1, <1>7, RetriedVisually
  <2>2. VerdictOf(r, rep, retried) = "miss"
    BY <1>2, <1>7, <2>1 DEF VerdictOf
  <2>3. Outcome(s, r, VerdictOf(r, rep, retried))
    BY <1>2, <1>7, <2>1, <2>2 DEF Outcome, Bound
  <2> QED
    BY <2>3 DEF r, retried
<1>8. CASE ~ok /\ ~(rep.preserve /\ ~retried) /\ r = MeasuredRecovery(t, rep)
  <2>1. /\ Ep(r) /\ r.turn = t.turn /\ r.over \in {"no", "stopped"}
        /\ r.over = "no" => /\ r.checkOk = t.checkOk /\ r.mustCheck = t.mustCheck
                            /\ \/ r.allowUnreliable
                               \/ rep.reliable
                               \/ Kept(t, r) /\ r.pending = Own("look")
    BY <1>1, <1>2, <1>8, RecoveredByMeasure
  <2>2. CASE r.over # "no"
    BY <1>2, <2>1, <2>2 DEF Outcome, r, retried
  <2>3. CASE r.over = "no"
    <3>1. ~r.checkOk /\ ~r.mustCheck
      BY <1>2, <1>8, <2>1, <2>3
    <3>2. VerdictOf(r, rep, retried) \in {"miss", "ambiguous"}
      BY <3>1 DEF VerdictOf
    <3>3. VerdictOf(r, rep, retried) = "ambiguous"
             => r.released /\ ~rep.reliable /\ ~r.allowUnreliable
      BY <1>8, <3>1 DEF VerdictOf
    <3>4. VerdictOf(r, rep, retried) = "ambiguous" => Unsure(r) /\ r.pending = Own("look")
      BY <1>2, <2>1, <2>3, <3>1, <3>3 DEF Unsure, Kept
    <3>5. Outcome(s, r, VerdictOf(r, rep, retried))
      BY <1>2, <2>1, <2>3, <3>1, <3>2, <3>4 DEF Outcome, Bound
    <3> QED
      BY <3>5 DEF r, retried
  <2> QED
    BY <2>2, <2>3
<1> QED
  BY <1>4, <1>5, <1>6, <1>7, <1>8

\* What a motion queues next: only the acceptance of an earlier release sets the
\* placement flag, and only when no check is due.
LEMMA MotionOutcome ==
  ASSUME NEW s, Ep(s), s.over = "no", ~s.checkOk, NEW c, NEW rep, NEW diag \in Diagnoses
  PROVE  LET r == AfterMotion(s, c, rep, diag) IN
         /\ Ep(r) /\ r.turn = s.turn /\ r.over \in {"no", "stopped"}
         /\ r.over = "no" => (r.checkOk <=> Accepts(s, diag))
         /\ r.over = "no" /\ r.checkOk => r.pending = Own("done") /\ ~r.mustCheck /\ ~s.mustCheck
<1> DEFINE reflected == ~s.mustCheck
           t == [s EXCEPT !.motion = ~reflected]
           d == IF reflected /\ diag.next = "retry" THEN diag
                ELSE [next |-> "check", route |-> "", pick |-> "own", grasp |-> "none",
                      variant |-> FALSE]
           r == AfterMotion(s, c, rep, diag)
           accepted == [Queue(t, Own("done")) EXCEPT !.checkOk = TRUE]
           respelled == [Queue(t, Own("pickplace")) EXCEPT !.variantTried = TRUE]
           g(a, p) == [Own(a) EXCEPT !.grasp = d.grasp, !.pick = p]
           l(a) == [Own(a) EXCEPT !.grasp = "learned"]
<1>1. Ep(t) /\ Kept(s, t)
  <2>1. t = [f \in EpFields |-> t[f]]
    BY Zenon DEF Ep, EpFields
  <2>2. t.pending = s.pending /\ Kept(s, t)
    BY DEF Ep, EpFields, Kept
  <2> QED
    BY <2>1, <2>2 DEF Ep
<1>2. d.grasp \in Grasps /\ d.pick \in Labels
  BY DiagnosisFields DEF Grasps, Labels
<1>3. /\ \A a \in {"pickplace", "insert"}, p \in Labels : g(a, p) \in CallType
      /\ \A a \in {"pickplace", "insert"} : l(a) \in CallType
      /\ LookFor("destination") \in CallType
      /\ {Own("check"), Own("done"), Own("pickplace")} \subseteq CallType
  <2>1. \A a \in {"pickplace", "insert"}, p \in Labels : g(a, p) \in CallType
    BY <1>2, OwnCallsWith
  <2>2. \A a \in {"pickplace", "insert"} : l(a) \in CallType
    BY OwnCallsWith DEF Grasps, Labels
  <2> QED
    BY <2>1, <2>2, OwnCalls DEF TransportActions
<1>4. \A a \in {"pickplace", "insert"}, p \in Labels :
        \/ NextGrasp(t, d, a, p) = Halt(t)
        \/ \E x \in CallType : NextGrasp(t, d, a, p) = Queue(t, x)
  <2> TAKE a \in {"pickplace", "insert"}, p \in Labels
  <2>1. NextGrasp(t, d, a, p) \in {Halt(t), Queue(t, g(a, p)), Queue(t, l(a))}
    BY DEF NextGrasp
  <2> HIDE DEF g, l, t, d
  <2> QED
    BY <1>3, <2>1
<1>5. \/ Accepts(s, diag) /\ r = accepted
      \/ ~Accepts(s, diag) /\ r = respelled
      \/ r = Halt(t)
      \/ ~Accepts(s, diag) /\ \E x \in CallType : r = Queue(t, x)
  <2>1. "own" \in Labels
    BY DEF Labels
  <2>0. Accepts(s, diag) => r = accepted
    BY DEF AfterMotion
  <2>2. ~Accepts(s, diag) =>
        \/ r = respelled
        \/ r = Halt(t)
        \/ r \in {Queue(t, LookFor("destination")), Queue(t, Own("check"))}
        \/ r = NextGrasp(t, d, "insert", "own")
        \/ r = NextGrasp(t, d, "pickplace", d.pick)
        \/ r = Queue(t, g("pickplace", d.pick))
    BY DEF AfterMotion
  <2> HIDE DEF r, g, l, t, d, reflected, accepted, respelled
  <2>3. g("pickplace", d.pick) \in CallType
    BY <1>2, <1>3
  <2>4. \/ NextGrasp(t, d, "insert", "own") = Halt(t)
        \/ \E x \in CallType : NextGrasp(t, d, "insert", "own") = Queue(t, x)
    BY <1>4, <2>1
  <2>5. \/ NextGrasp(t, d, "pickplace", d.pick) = Halt(t)
        \/ \E x \in CallType : NextGrasp(t, d, "pickplace", d.pick) = Queue(t, x)
    BY <1>2, <1>4
  <2> QED
    BY <1>3, <2>0, <2>2, <2>3, <2>4, <2>5
<1> DEFINE u == Queue(t, Own("done"))
           w == Queue(t, Own("pickplace"))
<1>6. Ep(u) /\ u.pending = Own("done") /\ Kept(t, u) /\ Ep(w) /\ Kept(t, w)
  BY <1>1, <1>3, Queued
<1> HIDE DEF u, w
<1>7. LET y == [u EXCEPT !.checkOk = TRUE] IN
      Ep(y) /\ y.pending = u.pending /\ y.turn = u.turn /\ y.over = u.over /\ y.mustCheck = u.mustCheck
      /\ y.checkOk
  BY <1>6, Flagged
<1>8. LET y == [w EXCEPT !.variantTried = TRUE] IN Ep(y) /\ Kept(w, y)
  BY <1>6, Flagged
<1> HIDE DEF t, d, r, g, l
<1>9. CASE Accepts(s, diag) /\ r = accepted
  <2>1. /\ Ep(r) /\ r.pending = Own("done") /\ r.turn = s.turn /\ r.over = "no"
        /\ r.mustCheck = s.mustCheck /\ r.checkOk
    BY <1>1, <1>6, <1>7, <1>9 DEF u, Kept
  <2>2. ~s.mustCheck
    BY <1>9 DEF Accepts
  <2> QED
    BY <1>9, <2>1, <2>2 DEF r
<1>10. CASE ~Accepts(s, diag) /\ r = respelled
  <2>1. Ep(r) /\ Kept(w, r)
    BY <1>8, <1>10 DEF w
  <2>2. r.turn = s.turn /\ r.over = "no" /\ ~r.checkOk
    BY <1>1, <1>6, <2>1 DEF Kept
  <2> QED
    BY <1>10, <2>1, <2>2 DEF r
<1>11. CASE r = Halt(t)
  <2>1. Ep(r) /\ r.over = "stopped" /\ r.turn = s.turn
    BY <1>1, <1>11, Halted DEF Kept
  <2> QED
    BY <2>1 DEF r
<1>12. CASE ~Accepts(s, diag) /\ \E x \in CallType : r = Queue(t, x)
  <2>1. Ep(r) /\ Kept(t, r)
    BY <1>1, <1>12, Queued
  <2>2. r.turn = s.turn /\ r.over = "no" /\ ~r.checkOk
    BY <1>1, <2>1 DEF Kept
  <2> QED
    BY <1>12, <2>1, <2>2 DEF r
<1> QED
  BY <1>5, <1>9, <1>10, <1>11, <1>12

\* The reflection on a motion that is not over, from its bookkeeping.
LEMMA ReflectedOutcome ==
  ASSUME NEW s, NEW u, Ep(u), u.turn = s.turn, u.over \in {"no", "stopped"},
         u.over = "no" => ~u.checkOk,
         NEW c, NEW rep, NEW diag \in Diagnoses, NEW preflight
  PROVE  LET r == Reflected(u, c, rep, diag, preflight) IN
         /\ Outcome(s, r, VerdictAfter(u, diag, preflight))
         /\ u.mustCheck => VerdictAfter(u, diag, preflight) = "none"
<1> DEFINE r == Reflected(u, c, rep, diag, preflight)
           v == VerdictAfter(u, diag, preflight)
<1>0. u.mustCheck => v = "none"
  BY DEF VerdictAfter, Accepts
<1>1. CASE ~Reflects(u, preflight)
  <2>1. r = u /\ v = "none"
    BY <1>1 DEF Reflected, VerdictAfter
  <2>2. Outcome(s, u, "none")
    BY DEF Outcome, Bound
  <2> QED
    BY <1>0, <2>1, <2>2
<1>2. CASE Reflects(u, preflight)
  <2>1. u.over = "no" /\ r = AfterMotion(u, c, rep, diag)
    BY <1>2 DEF Reflected, Reflects
  <2>2. v = IF Accepts(u, diag) THEN "placed" ELSE "none"
    BY <1>2 DEF VerdictAfter
  <2> HIDE DEF r, v
  <2>3. /\ Ep(r) /\ r.turn = u.turn /\ r.over \in {"no", "stopped"}
        /\ r.over = "no" => (r.checkOk <=> Accepts(u, diag))
        /\ r.over = "no" /\ r.checkOk => r.pending = Own("done") /\ ~r.mustCheck /\ ~u.mustCheck
    BY <2>1, MotionOutcome
  <2>4. Outcome(s, r, v)
    BY <2>2, <2>3 DEF Outcome, Bound
  <2> QED
    BY <1>0, <2>4 DEF r, v
<1> QED
  BY <1>1, <1>2

\* The bookkeeping of a motion revokes the placement of the last check.
LEMMA PickPlaceBooks ==
  ASSUME NEW s, Ep(s), s.over = "no", NEW rep
  PROVE  LET u == AfterPickPlace(s, rep) IN
         Ep(u) /\ u.turn = s.turn /\ u.over \in {"no", "stopped"} /\ (u.over = "no" => ~u.checkOk)
<1> DEFINE t == [s EXCEPT !.attempted = TRUE, !.failure = rep.failure, !.grounding = rep.grounding,
                       !.pickplaceCalls = IF rep.failure = "not_grounded" THEN @ ELSE @ + 1,
                       !.released = @ \/ rep.released,
                       !.empties = IF rep.failure \in NoGrasp THEN Min2(@ + 1) ELSE 0]
           z == [t EXCEPT !.mustCheck = rep.released \/ s.released \/ rep.failure \notin NoMotion,
                       !.checkOk = FALSE, !.checkReliable = TRUE, !.allowUnreliable = FALSE,
                       !.streak = 0, !.pushBlocked = FALSE]
           u == AfterPickPlace(s, rep)
<1>1. Ep(t) /\ t.turn = s.turn /\ t.over = "no"
  <2>1. t = [f \in EpFields |-> t[f]]
    BY ZenonT(60) DEF Ep, EpFields
  <2>2. t.pending = s.pending /\ t.turn = s.turn /\ t.over = s.over
    BY DEF Ep, EpFields
  <2> QED
    BY <2>1, <2>2 DEF Ep
<1>2. u \in {Halt(t), z}
  BY DEF AfterPickPlace
<1> HIDE DEF t
<1>3. Ep(z) /\ z.turn = s.turn /\ z.over = "no" /\ ~z.checkOk
  <2>1. z = [f \in EpFields |-> z[f]]
    BY <1>1, ZenonT(60) DEF Ep, EpFields
  <2>2. z.pending = t.pending /\ z.turn = t.turn /\ z.over = t.over /\ ~z.checkOk
    BY <1>1 DEF Ep, EpFields
  <2> QED
    BY <1>1, <2>1, <2>2 DEF Ep
<1> HIDE DEF z, u
<1>4. Ep(u) /\ u.turn = s.turn /\ u.over \in {"no", "stopped"} /\ (u.over = "no" => ~u.checkOk)
  BY <1>1, <1>2, <1>3, Halted
<1> QED
  BY <1>4 DEF u

\* So does that of an insertion, declined or not.
LEMMA InsertBooks ==
  ASSUME NEW s, Ep(s), s.over = "no", NEW rep
  PROVE  LET u == AfterInsert(s, rep) IN
         Ep(u) /\ u.turn = s.turn /\ u.over \in {"no", "stopped"} /\ (u.over = "no" => ~u.checkOk)
<1> DEFINE t == [s EXCEPT !.insertCalls = @ + 1, !.failure = rep.failure, !.grounding = rep.grounding,
                       !.released = @ \/ rep.released, !.checkOk = FALSE, !.checkReliable = TRUE,
                       !.allowUnreliable = FALSE]
           z == [t EXCEPT !.empties = IF rep.failure \in NoGrasp THEN Min2(@ + 1) ELSE 0,
                       !.mustCheck = rep.released \/ rep.failure \notin NoMotion,
                       !.streak = 0, !.pushBlocked = FALSE]
           y == [t EXCEPT !.mustCheck = FALSE,
                          !.fallback = @ \/ rep.failure = "broad_container_fit"]
           u == AfterInsert(s, rep)
<1>1. Ep(t) /\ t.turn = s.turn /\ t.over = "no" /\ ~t.checkOk
  <2>1. t = [f \in EpFields |-> t[f]]
    BY ZenonT(60) DEF Ep, EpFields
  <2>2. t.pending = s.pending /\ t.turn = s.turn /\ t.over = s.over /\ ~t.checkOk
    BY DEF Ep, EpFields
  <2> QED
    BY <2>1, <2>2 DEF Ep
<1>2. u \in {Halt(t), z, Queue(y, LookFor("source")), Queue(y, LookFor("destination")),
             Queue(y, Own("pickplace"))}
  BY DEF AfterInsert, InsertDeclined
<1> HIDE DEF t
<1>3. Ep(z) /\ z.turn = s.turn /\ z.over = "no" /\ ~z.checkOk
  <2>1. z = [f \in EpFields |-> z[f]]
    BY <1>1, ZenonT(60) DEF Ep, EpFields
  <2>2. z.pending = t.pending /\ z.turn = t.turn /\ z.over = t.over /\ z.checkOk = t.checkOk
    BY <1>1 DEF Ep, EpFields
  <2> QED
    BY <1>1, <2>1, <2>2 DEF Ep
<1>4. Ep(y) /\ y.turn = s.turn /\ y.over = "no" /\ ~y.checkOk
  <2>1. y = [f \in EpFields |-> y[f]]
    BY <1>1, ZenonT(60) DEF Ep, EpFields
  <2>2. y.pending = t.pending /\ y.turn = t.turn /\ y.over = t.over /\ y.checkOk = t.checkOk
    BY <1>1 DEF Ep, EpFields
  <2> QED
    BY <1>1, <2>1, <2>2 DEF Ep
<1> HIDE DEF z, u, y
<1>5. LookFor("source") \in CallType /\ LookFor("destination") \in CallType /\ Own("pickplace") \in CallType
  BY OwnCalls DEF TransportActions
<1>6. CASE u \in {Queue(y, LookFor("source")), Queue(y, LookFor("destination")),
                  Queue(y, Own("pickplace"))}
  <2>1. Ep(u) /\ Kept(y, u)
    BY <1>4, <1>5, <1>6, Queued
  <2> QED
    BY <1>4, <2>1 DEF Kept, u
<1>7. CASE u \in {Halt(t), z}
  <2>1. Ep(u) /\ u.turn = s.turn /\ u.over \in {"no", "stopped"} /\ (u.over = "no" => ~u.checkOk)
    BY <1>1, <1>3, <1>7, Halted
  <2> QED
    BY <2>1 DEF u
<1> QED
  BY <1>2, <1>6, <1>7

\* A push also makes a check due.
LEMMA PushBooks ==
  ASSUME NEW s, Ep(s), s.over = "no", NEW rep
  PROVE  LET u == AfterPush(s, rep) IN
         Ep(u) /\ u.turn = s.turn /\ u.over = "no" /\ ~u.checkOk /\ u.mustCheck
<1> DEFINE u == AfterPush(s, rep)
<1>1. u = [f \in EpFields |-> u[f]]
  BY ZenonT(60) DEF Ep, EpFields, AfterPush
<1>2. u.pending = s.pending /\ u.turn = s.turn /\ u.over = s.over /\ ~u.checkOk /\ u.mustCheck
  BY DEF Ep, EpFields, AfterPush
<1> QED
  BY <1>1, <1>2 DEF Ep

-----------------------------------------------------------------------------
\* ---- the invariant ----

\* The end of a turn whose report left its outcome.
LEMMA TurnEnded ==
  ASSUME ep.turn \in Nat, NEW t, NEW v, Outcome(ep, t, v), EndTurn(t), verdict' = v
  PROVE  Inv'
<1>1. CASE t.over = "no"
  <2>1. ep' = [t EXCEPT !.turn = @ + 1] /\ phase' = "decide"
    BY <1>1 DEF EndTurn
  <2>2. Ep(t) /\ t.turn = ep.turn /\ Bound(t, v)
    BY <1>1 DEF Outcome
  <2>3. ep' = [f \in EpFields |-> ep'[f]]
    BY <2>1, <2>2, Zenon DEF Ep, EpFields
  <2>4. /\ ep'.pending = t.pending /\ ep'.turn = ep.turn + 1 /\ ep'.over = "no"
        /\ ep'.checkOk = t.checkOk /\ ep'.mustCheck = t.mustCheck /\ ep'.released = t.released
        /\ ep'.checkReliable = t.checkReliable /\ ep'.allowUnreliable = t.allowUnreliable
    BY <1>1, <2>1, <2>2 DEF Ep, EpFields
  <2>5. Ep(ep')
    BY <2>2, <2>3, <2>4 DEF Ep
  <2>6. Bound(ep', v)
    BY <2>2, <2>4 DEF Bound, Unsure
  <2>7. ep'.turn \in Nat /\ ep'.turn # 0
    BY <2>4
  <2> QED
    BY <2>1, <2>4, <2>5, <2>6, <2>7 DEF Inv
<1>2. CASE t.over # "no"
  <2>1. ep' = t /\ phase' = "over" /\ Ep(t) /\ t.turn = ep.turn /\ t.over = "stopped"
    BY <1>2 DEF EndTurn, Outcome
  <2> QED
    BY <2>1 DEF Inv
<1> QED
  BY <1>1, <1>2

\* The rules let nothing through that the last verdict forbids.
LEMMA DecideKeepsInv ==
  ASSUME Inv, Decide
  PROVE  Inv'
<1>1. /\ Ep(ep) /\ ep.turn \in Nat /\ ep.over = "no" /\ Bound(ep, verdict)
      /\ ep.turn = 0 => verdict = "none"
      /\ phase' = "act" /\ verdict' = verdict /\ goal' = goal
  BY DEF Inv, Decide
<1>2. PICK p \in Proposals : /\ Rules(ep, p).action # "stop"
                             /\ call' = Rules(ep, p) /\ ep' = Taken(ep, call')
  BY DEF Decide
<1>3. p \in CallType
  BY <1>1, <1>2, ProposedCalls
<1>4. /\ call' \in CallType /\ call'.action \in TransportActions
      /\ call'.action = "done" => ep.checkOk
      /\ call'.action \in Motions => Named(ep, call')
      /\ call'.action = "pickplace" /\ goal.requires /\ goal.supports => ep.fallback
  BY <1>2, <1>3, RuledCalls
<1>5. Ep(ep') /\ ep'.pending = Nothing /\ Kept(ep, ep')
      /\ ep'.fallback = ep.fallback /\ ep'.pickAlias = ep.pickAlias
  BY <1>1, <1>2, <1>4, TakenCall
<1>6. /\ ep'.turn = ep.turn /\ ep'.over = "no" /\ ep'.checkOk = ep.checkOk
      /\ ep'.mustCheck = ep.mustCheck /\ (Unsure(ep) => Unsure(ep'))
  BY <1>1, <1>5 DEF Kept, Unsure
<1>7. \A a \in {"done", "look", "check"} : Own(a) # Nothing /\ Own(a).action = a
  BY DEF Own, Nothing
<1>8. verdict = "placed" => call' = Own("done")
  <2> HAVE verdict = "placed"
  <2>1. ep.pending = Own("done") /\ ~ep.mustCheck /\ ep.turn # 0 /\ ep.checkOk
    BY <1>1 DEF Bound
  <2>2. p = Own("done")
    BY <1>2, <1>7, <2>1 DEF Proposals
  <2> QED
    BY <1>2, <2>1, <2>2, DueCalls
<1>9. verdict = "ambiguous" => call' \in {Own("look"), Own("check")} /\ Unsure(ep) /\ ~ep.mustCheck
  <2> HAVE verdict = "ambiguous"
  <2>1. ep.pending \in {Own("look"), Own("check")} /\ ~ep.mustCheck /\ ep.turn # 0 /\ Unsure(ep)
    BY <1>1 DEF Bound
  <2>2. p \in {Own("look"), Own("check")}
    BY <1>2, <1>7, <2>1 DEF Proposals
  <2> QED
    BY <1>2, <2>1, <2>2, DueCalls
<1>10. /\ ep'.checkOk <=> verdict = "placed"
       /\ verdict = "placed" <=> call'.action = "done"
  BY <1>1, <1>4, <1>6, <1>7, <1>8 DEF Bound
<1>11. Admissible(ep, verdict)'
  BY <1>1, <1>4, <1>5, <1>6, <1>9, <1>10 DEF Admissible, Unsure, Named, Qualified, VisualAlias
<1> QED
  BY <1>1, <1>5, <1>6, <1>11 DEF Inv

\* Reading a report keeps the verdict and the queue together.
LEMMA ReportKeepsInv ==
  ASSUME Inv, PickPlace \/ Insert \/ Push \/ Check \/ Look
  PROVE  Inv'
<1>1. phase = "act"
  BY DEF PickPlace, Insert, Push, Check, Look
<1>2. /\ Ep(ep) /\ ep.turn \in Nat /\ ep.over = "no" /\ ep.pending = Nothing
      /\ Admissible(ep, verdict)
  BY <1>1 DEF Inv
<1>3. CASE PickPlace
  <2>1. PICK rep \in PickPlaceReports(call), diag \in Diagnoses :
          /\ EndTurn(Reflected(AfterPickPlace(ep, rep), call, rep, diag, FALSE))
          /\ verdict' = VerdictAfter(AfterPickPlace(ep, rep), diag, FALSE)
    BY <1>3 DEF PickPlace
  <2> DEFINE u == AfterPickPlace(ep, rep)
             s == Reflected(u, call, rep, diag, FALSE)
  <2>2. Ep(u) /\ u.turn = ep.turn /\ u.over \in {"no", "stopped"} /\ (u.over = "no" => ~u.checkOk)
    BY <1>2, PickPlaceBooks
  <2> HIDE DEF u
  <2>3. Outcome(ep, s, VerdictAfter(u, diag, FALSE))
    BY <2>2, ReflectedOutcome
  <2>4. EndTurn(s) /\ verdict' = VerdictAfter(u, diag, FALSE)
    BY <2>1 DEF u
  <2> HIDE DEF s
  <2> QED
    BY <1>2, <2>3, <2>4, TurnEnded
<1>4. CASE Insert
  <2>1. PICK rep \in InsertReports(call), diag \in Diagnoses :
          /\ EndTurn(Reflected(AfterInsert(ep, rep), call, rep, diag, rep.preflight))
          /\ verdict' = VerdictAfter(AfterInsert(ep, rep), diag, rep.preflight)
    BY <1>4 DEF Insert
  <2> DEFINE u == AfterInsert(ep, rep)
             s == Reflected(u, call, rep, diag, rep.preflight)
  <2>2. Ep(u) /\ u.turn = ep.turn /\ u.over \in {"no", "stopped"} /\ (u.over = "no" => ~u.checkOk)
    BY <1>2, InsertBooks
  <2> HIDE DEF u
  <2>3. Outcome(ep, s, VerdictAfter(u, diag, rep.preflight))
    BY <2>2, ReflectedOutcome
  <2>4. EndTurn(s) /\ verdict' = VerdictAfter(u, diag, rep.preflight)
    BY <2>1 DEF u
  <2> HIDE DEF s
  <2> QED
    BY <1>2, <2>3, <2>4, TurnEnded
<1>5. CASE Push
  <2>1. PICK rep \in PushReports, diag \in Diagnoses :
          EndTurn(Reflected(AfterPush(ep, rep), call, rep, diag, FALSE)) /\ verdict' = "none"
    BY <1>5 DEF Push
  <2> DEFINE u == AfterPush(ep, rep)
             s == Reflected(u, call, rep, diag, FALSE)
  <2>2. Ep(u) /\ u.turn = ep.turn /\ u.over = "no" /\ ~u.checkOk /\ u.mustCheck
    BY <1>2, PushBooks
  <2> HIDE DEF u
  <2>3. /\ Outcome(ep, s, VerdictAfter(u, diag, FALSE))
        /\ VerdictAfter(u, diag, FALSE) = "none"
    BY <2>2, ReflectedOutcome
  <2>4. EndTurn(s) /\ verdict' = "none"
    BY <2>1 DEF u
  <2> HIDE DEF s
  <2>5. Outcome(ep, s, "none")
    BY <2>3 DEF Outcome
  <2> QED
    BY <1>2, <2>4, <2>5, TurnEnded
<1>6. CASE Check
  <2>0. PICK rep : \E diag \in Diagnoses :
          LET s == AfterCheck(ep, rep, diag) IN
          EndTurn(s) /\ verdict' = VerdictOf(s, rep, Reviewed(ep, rep) /\ diag.next = "retry")
    BY <1>6, Zenon DEF Check
  <2>1. PICK diag \in Diagnoses :
          LET s == AfterCheck(ep, rep, diag) IN
          EndTurn(s) /\ verdict' = VerdictOf(s, rep, Reviewed(ep, rep) /\ diag.next = "retry")
    BY <2>0
  <2> DEFINE s == AfterCheck(ep, rep, diag)
             v == VerdictOf(s, rep, Reviewed(ep, rep) /\ diag.next = "retry")
  <2>2. Outcome(ep, s, v)
    BY <1>2, CheckOutcome
  <2>3. EndTurn(s) /\ verdict' = v
    BY <2>1
  <2> HIDE DEF s, v
  <2> QED
    BY <1>2, <2>2, <2>3, TurnEnded
<1>7. CASE Look
  <2>1. PICK rep \in LookReports(call) : EndTurn(AfterLook(ep, rep)) /\ verdict' = verdict
    BY <1>7 DEF Look
  <2>2. call.action = "look"
    BY <1>7 DEF Look
  <2>3. verdict # "placed" /\ ~ep.checkOk
    BY <1>2, <2>2 DEF Admissible
  <2>4. verdict = "ambiguous" => Unsure(ep) /\ ~ep.mustCheck /\ call \in {Own("look"), Own("check")}
    BY <1>2 DEF Admissible
  <2>5. verdict = "ambiguous" => ~rep.source /\ ~rep.destination
    <3>1. \A a \in {"look", "check"} : Own(a).ask = ""
      BY DEF Own
    <3>2. verdict = "ambiguous" => call.ask = ""
      BY <2>4, <3>1
    <3> DEFINE S == IF ep.looks = 1 THEN BOOLEAN ELSE {FALSE}
    <3>3. ASSUME call.ask = "" PROVE ~rep.source /\ ~rep.destination
      <4>1. call.ask # "source" /\ call.ask # "destination"
        BY <3>3
      <4>2. \/ rep = [infra |-> TRUE, source |-> FALSE, destination |-> FALSE, same |-> FALSE]
            \/ rep \in [infra : {FALSE}, source : {FALSE}, destination : {FALSE}, same : S]
        BY <4>1, Zenon DEF LookReports
      <4> HIDE DEF S
      <4>3. ASSUME rep \in [infra : {FALSE}, source : {FALSE}, destination : {FALSE}, same : S]
            PROVE  ~rep.source /\ ~rep.destination
        BY <4>3, Zenon
      <4>4. ASSUME rep = [infra |-> TRUE, source |-> FALSE, destination |-> FALSE, same |-> FALSE]
            PROVE  ~rep.source /\ ~rep.destination
        BY <4>4, Zenon
      <4> QED
        BY <4>2, <4>3, <4>4, Zenon
    <3> QED
      BY <3>2, <3>3
  <2>6. Outcome(ep, AfterLook(ep, rep), verdict)
    BY <1>2, <2>3, <2>4, <2>5, LookOutcome
  <2> QED
    BY <1>2, <2>1, <2>6, TurnEnded
<1> QED
  BY <1>3, <1>4, <1>5, <1>6, <1>7

\* The steps that end the episode: only an accepted verdict makes it a success.
LEMMA EndKeepsInv ==
  ASSUME Inv, Refuse \/ OutOfTurns \/ Outage \/ Done
  PROVE  Inv'
<1>1. Ep(ep) /\ ep.turn \in Nat
  BY DEF Inv
<1>2. CASE Refuse
  <2> DEFINE u == [ep EXCEPT !.pending = Nothing]
  <2>1. Nothing \in CallType
    BY OwnCalls
  <2>2. u = Queue(ep, Nothing)
    BY DEF Queue
  <2>3. Ep(u) /\ Kept(ep, u)
    BY <1>1, <2>1, <2>2, Queued
  <2>4. ep' = Halt(u) /\ phase' = "over"
    BY <1>2 DEF Refuse
  <2> HIDE DEF u
  <2>5. Ep(ep') /\ ep'.over = "stopped" /\ ep'.turn = ep.turn
    BY <2>3, <2>4, Halted DEF Kept
  <2> QED
    BY <1>1, <2>4, <2>5 DEF Inv
<1>3. CASE OutOfTurns
  <2>1. ep' = Halt(ep) /\ phase' = "over"
    BY <1>3 DEF OutOfTurns
  <2>2. Ep(ep') /\ ep'.over = "stopped" /\ ep'.turn = ep.turn
    BY <1>1, <2>1, Halted
  <2> QED
    BY <1>1, <2>1, <2>2 DEF Inv
<1>4. \A o \in {"inconclusive", "success"} : LET u == [ep EXCEPT !.over = o] IN
        Ep(u) /\ u.over = o /\ u.turn = ep.turn
  <2> TAKE o \in {"inconclusive", "success"}
  <2> DEFINE u == [ep EXCEPT !.over = o]
  <2>1. u = [f \in EpFields |-> u[f]]
    BY <1>1, Zenon DEF Ep, EpFields
  <2>2. u.over = o /\ u.turn = ep.turn /\ u.pending = ep.pending
    BY <1>1 DEF Ep, EpFields
  <2> QED
    BY <1>1, <2>1, <2>2 DEF Ep
<1>5. CASE Outage
  <2> DEFINE u == [ep EXCEPT !.over = "inconclusive"]
  <2>1. Ep(u) /\ u.over = "inconclusive" /\ u.turn = ep.turn
    BY <1>4
  <2>2. EndTurn(u)
    BY <1>5 DEF Outage
  <2> HIDE DEF u
  <2>3. ep' = u /\ phase' = "over"
    BY <2>1, <2>2 DEF EndTurn
  <2> QED
    BY <1>1, <2>1, <2>3 DEF Inv
<1>6. CASE Done
  <2> DEFINE u == [ep EXCEPT !.over = "success"]
  <2>1. Ep(u) /\ u.over = "success" /\ u.turn = ep.turn
    BY <1>4
  <2>2. EndTurn(u) /\ phase = "act" /\ call.action = "done" /\ verdict' = verdict
    BY <1>6 DEF Done
  <2>3. verdict = "placed"
    BY <2>2 DEF Inv, Admissible
  <2> HIDE DEF u
  <2>4. ep' = u /\ phase' = "over"
    BY <2>1, <2>2 DEF EndTurn
  <2> QED
    BY <1>1, <2>1, <2>2, <2>3, <2>4 DEF Inv
<1> QED
  BY <1>2, <1>3, <1>5, <1>6

\* A goal begins with no verdict and at most its first transport queued.
LEMMA InitInv ==
  ASSUME Init
  PROVE  Inv
<1>1. goal \in GoalType
  BY GoalAssumption DEF Init
<1>2. InitialAction(goal) \in {"insert", "pickplace"}
  BY DEF InitialAction
<1>3. ep = [f \in EpFields |-> ep[f]]
  BY Zenon DEF Init, InitialEp, EpFields
<1>4. /\ ep.pending \in {Nothing, Own(InitialAction(goal))} /\ ep.turn = 0 /\ ep.over = "no"
      /\ ~ep.checkOk
  BY DEF Init, InitialEp
<1>5. ep.pending \in CallType
  BY <1>2, <1>4, OwnCalls DEF TransportActions
<1>6. phase = "decide" /\ verdict = "none"
  BY DEF Init
<1> QED
  BY <1>3, <1>4, <1>5, <1>6 DEF Inv, Ep, Bound

\* Every step keeps the verdict, the queue and the admitted call together.
LEMMA InductiveInv == Spec => []Inv
<1>1. Inv /\ [Next]_vars => Inv'
  <2> SUFFICES ASSUME Inv, [Next]_vars PROVE Inv'
    OBVIOUS
  <2>1. CASE UNCHANGED vars \/ Over
    <3>1. ep' = ep /\ phase' = phase /\ call' = call /\ verdict' = verdict /\ goal' = goal
      BY <2>1 DEF vars, Over
    <3> QED
      BY <3>1 DEF Inv, Ep, Bound, Admissible, Unsure, Named
  <2> QED
    BY <2>1, DecideKeepsInv, ReportKeepsInv, EndKeepsInv DEF Next
<1> QED
  BY <1>1, InitInv, PTL DEF Spec

-----------------------------------------------------------------------------
\* ---- budgets ----

\* The counters of an episode, and the records that have the same.
Counters == {"turn", "pickplaceCalls", "pushCalls", "insertCalls"}
Same(s, t) == /\ DOMAIN t = EpFields
              /\ t.turn = s.turn /\ t.pickplaceCalls = s.pickplaceCalls
              /\ t.pushCalls = s.pushCalls /\ t.insertCalls = s.insertCalls

\* Setting any other variable keeps them.
LEMMA Sets ==
  ASSUME NEW s, NEW t, Same(s, t), NEW f \in EpFields \ Counters, NEW e
  PROVE  Same(s, [t EXCEPT ![f] = e])
BY DEF Same, EpFields, Counters

LEMMA SetsTwo ==
  ASSUME NEW s, NEW t, Same(s, t), NEW f \in EpFields \ Counters, NEW e,
         NEW g \in EpFields \ Counters, NEW d
  PROVE  Same(s, [t EXCEPT ![f] = e, ![g] = d])
BY DEF Same, EpFields, Counters

LEMMA Others ==
  /\ {"over", "pending", "allowUnreliable", "motion", "checkOk", "variantTried", "looks",
      "pickAlias", "placeAlias", "placeAliases", "fallback"} \subseteq EpFields \ Counters
BY DEF EpFields, Counters

\* Stopping and queueing do.
LEMMA HaltsSame ==
  ASSUME NEW s, NEW t, Same(s, t)
  PROVE  Same(s, Halt(t))
BY Sets, Others DEF Halt

LEMMA QueuesSame ==
  ASSUME NEW s, NEW t, Same(s, t), NEW c
  PROVE  /\ Same(s, Queue(t, c))
         /\ Same(s, [Queue(t, c) EXCEPT !.allowUnreliable = TRUE])
         /\ Same(s, [Queue(t, c) EXCEPT !.checkOk = TRUE])
         /\ Same(s, [Queue(t, c) EXCEPT !.variantTried = TRUE])
         /\ Same(s, [Queue(t, c) EXCEPT !.pickAlias = TRUE])
<1>1. Same(s, Queue(t, c))
  BY Sets, Others DEF Queue
<1> QED
  BY <1>1, Sets, Others

\* So does everything that is decided after the bookkeeping of a report.
LEMMA RetrySame ==
  ASSUME NEW s, NEW t, Same(s, t), NEW rep, NEW diag
  PROVE  Same(s, VisualRetry(t, rep, diag))
BY QueuesSame DEF VisualRetry

LEMMA RecoverySame ==
  ASSUME NEW s, NEW t, Same(s, t), NEW rep
  PROVE  Same(s, MeasuredRecovery(t, rep))
BY QueuesSame, HaltsSame DEF MeasuredRecovery

LEMMA CheckSame ==
  ASSUME NEW s, DOMAIN s = EpFields, NEW rep, NEW diag
  PROVE  Same(s, AfterCheck(s, rep, diag))
<1> DEFINE next == IF Reviewed(s, rep) THEN diag.next ELSE ""
           ok == IF Reviewed(s, rep) THEN diag.next = "done" ELSE rep.ok
           t == [s EXCEPT !.mustCheck = FALSE, !.checked = rep.given, !.pushable = rep.push,
                          !.failure = IF rep.wrong THEN "wrong_object_grasp" ELSE @,
                          !.checkOk = ok, !.checkReliable = rep.reliable,
                          !.streak = IF rep.reliable THEN 0 ELSE Min2(@ + 1), !.motion = FALSE]
           r == AfterCheck(s, rep, diag)
<1>1. Same(s, t)
  <2> HIDE DEF ok, next
  <2> QED
    BY DEF Same, EpFields
<1>2. r \in {Halt(t), Queue(t, Own("done")), VisualRetry(t, rep, diag), MeasuredRecovery(t, rep)}
  BY DEF AfterCheck
<1> HIDE DEF t, r
<1>3. /\ Same(s, Halt(t)) /\ Same(s, Queue(t, Own("done")))
      /\ Same(s, VisualRetry(t, rep, diag)) /\ Same(s, MeasuredRecovery(t, rep))
  BY <1>1, HaltsSame, QueuesSame, RetrySame, RecoverySame
<1>4. Same(s, r)
  BY <1>2, <1>3, Zenon
<1> QED
  BY <1>4 DEF r

LEMMA LookSame ==
  ASSUME NEW s, DOMAIN s = EpFields, NEW rep
  PROVE  Same(s, AfterLook(s, rep))
<1>1. Same(s, s)
  BY DEF Same
<1>2. Same(s, LookLoop(s, rep))
  BY <1>1, Sets, Others, HaltsSame DEF LookLoop
<1>3. ASSUME NEW t, Same(s, t) PROVE Same(s, SourceAlias(t, rep))
  BY <1>3, QueuesSame, HaltsSame DEF SourceAlias
<1>4. ASSUME NEW t, Same(s, t) PROVE Same(s, DestinationAlias(t, rep))
  <2> DEFINE u == [t EXCEPT !.placeAliases = @ \/ rep.destination]
             e == t.failure = "no_opening_geometry" /\ t.placeAlias
             q(c) == [Queue(u, c) EXCEPT !.placeAlias = TRUE, !.fallback = @ \/ e]
  <2>1. Same(s, u)
    BY <1>4, Sets, Others
  <2>2. ASSUME NEW c PROVE Same(s, q(c))
    <3> DEFINE w == Queue(u, c)
    <3>1. Same(s, w)
      BY <2>1, QueuesSame
    <3> HIDE DEF w, e
    <3>2. Same(s, [w EXCEPT !.placeAlias = TRUE, !.fallback = @ \/ e])
      BY <3>1 DEF Same, EpFields
    <3> QED
      BY <3>2 DEF w
  <2>3. \/ DestinationAlias(t, rep) \in {Halt(u), u}
        \/ \E c : DestinationAlias(t, rep) = q(c)
    BY DEF DestinationAlias
  <2> HIDE DEF q, u
  <2> QED
    BY <2>1, <2>2, <2>3, HaltsSame
<1>5. ASSUME NEW t, Same(s, t) PROVE Same(s, Remeasure(t))
  BY <1>5, QueuesSame DEF Remeasure
<1> QED
  BY <1>2, <1>3, <1>4, <1>5 DEF AfterLook

LEMMA MotionSame ==
  ASSUME NEW s, DOMAIN s = EpFields, NEW c, NEW rep, NEW diag
  PROVE  Same(s, AfterMotion(s, c, rep, diag))
<1>1. Same(s, s)
  BY DEF Same
<1>2. Same(s, [s EXCEPT !.motion = ~(~s.mustCheck)])
  BY <1>1, Sets, Others
<1>3. ASSUME NEW t, Same(s, t), NEW d, NEW a, NEW p PROVE Same(s, NextGrasp(t, d, a, p))
  BY <1>3, QueuesSame, HaltsSame DEF NextGrasp
<1> QED
  BY <1>2, <1>3, QueuesSame, HaltsSame DEF AfterMotion

LEMMA ReflectionSame ==
  ASSUME NEW s, DOMAIN s = EpFields, NEW c, NEW rep, NEW diag, NEW preflight
  PROVE  Same(s, Reflected(s, c, rep, diag, preflight))
<1>1. Same(s, s)
  BY DEF Same
<1> QED
  BY <1>1, MotionSame DEF Reflected

\* The budgets of an episode.
Budgeted(s) ==
    /\ s.turn \in 0..Turns
    /\ s.pickplaceCalls \in 0..MaxPickPlace /\ s.pushCalls \in 0..MaxPush
    /\ s.insertCalls \in 0..MaxInsert

\* A call that can be paid for.
Affordable(s, c) ==
    /\ c.action = "pickplace" => s.pickplaceCalls < MaxPickPlace
    /\ c.action = "insert" => s.insertCalls < MaxInsert
    /\ c.action = "push" => s.pushCalls < MaxPush

Budgets == /\ DOMAIN ep = EpFields /\ Budgeted(ep)
           /\ phase = "act" => ep.turn < Turns /\ Affordable(ep, call)

\* The rules let no call through that cannot be paid for, wherever it comes from.
LEMMA RulesAfford ==
  ASSUME NEW s, Budgeted(s), NEW c \in CallType
  PROVE  Affordable(s, Rules(s, c))
<1> DEFINE a == Routed(s, c)
           b == InsertRule(s, a)
           d == PushRule(s, b)
           e == PickPlaceRule(s, d)
<1>0. /\ s.pickplaceCalls \in Nat /\ s.pushCalls \in Nat /\ s.insertCalls \in Nat
      /\ MaxPickPlace \in Nat /\ MaxPush \in Nat /\ MaxInsert \in Nat
  BY BudgetAssumption DEF Budgeted
<1>1. Own("done").action = "done" /\ Own("look").action = "look" /\ Own("check").action = "check"
      /\ Own("push").action = "push" /\ Own("pickplace").action = "pickplace" /\ Stop.action = "stop"
  BY DEF Own, Stop
<1>2. {Own("done"), Own("look"), Own("check"), Own("push"), Stop} \subseteq CallType
  BY OwnCalls DEF TransportActions
<1>3. a \in CallType
  BY RoutedCalls
<1> HIDE DEF a
<1>4. b \in CallType /\ (b.action = "insert" => s.insertCalls < MaxInsert)
  <2> DEFINE x == WithAliases(s, a)
             p == AliasPick(s, x) \/ (~Qualified(goal) /\ s.failure \in NoMotion)
             w == Admit(x, p, AliasPlace(s, x))
  <2>1. x \in CallType
    BY <1>3, AliasedCall
  <2>2. w \in CallType
    <3> HIDE DEF x
    <3> QED
      BY <2>1, AdmittedLabels DEF AliasPlace, AliasPick, Qualified
  <2>3. [a EXCEPT !.action = "pickplace"] \in CallType
        /\ [a EXCEPT !.action = "pickplace"].action = "pickplace"
    BY <1>3 DEF CallType, TransportActions
  <2>4. \/ b = a /\ a.action # "insert"
        \/ b \in {Own("done"), Own("look"), Own("check"), Stop, [a EXCEPT !.action = "pickplace"]}
        \/ b = w /\ ~(s.insertCalls >= MaxInsert)
    <3> HIDE DEF x, p
    <3> QED
      BY DEF InsertRule, InsertBudgetSpent, x, p
  <2> DEFINE z == [a EXCEPT !.action = "pickplace"]
  <2>5. z \in CallType /\ z.action # "insert"
    BY <2>3
  <2> HIDE DEF b, w, z
  <2>6. CASE b = a /\ a.action # "insert"
    BY <1>3, <2>6
  <2>7. CASE b \in {Own("done"), Own("look"), Own("check"), Stop, z}
    BY <1>1, <1>2, <2>5, <2>7
  <2>8. CASE b = w /\ ~(s.insertCalls >= MaxInsert)
    BY <1>0, <2>2, <2>8
  <2> QED
    BY <2>4, <2>6, <2>7, <2>8 DEF z
<1> HIDE DEF b
<1>5. /\ d \in CallType
      /\ d.action = "insert" => s.insertCalls < MaxInsert
      /\ d.action = "push" => s.pushCalls < MaxPush
  BY <1>0, <1>1, <1>2, <1>4 DEF PushRule
<1> HIDE DEF d
<1>6. Affordable(s, e)
  <2> DEFINE x == WithAliases(s, d)
             p == AliasPick(s, x)
                  \/ (~Qualified(goal) /\ (s.failure \in NoGrasp
                                          \/ (s.failure = "not_grounded" /\ s.grounding = "pick")))
             w == Admit(x, p, AliasPlace(s, x))
  <2>1. x \in CallType /\ x.action = d.action
    BY <1>5, AliasedCall
  <2>2. w.action = d.action
    <3> HIDE DEF x
    <3> QED
      BY <2>1, AdmittedLabels DEF AliasPlace, AliasPick, Qualified
  <2>3. \/ e = d /\ d.action # "pickplace"
        \/ e \in {Own("done"), Own("look"), Own("check")}
        \/ d.action = "pickplace" /\ ~(s.pickplaceCalls >= MaxPickPlace)
           /\ e \in {Own("pickplace"), w}
    <3> HIDE DEF x, p
    <3> QED
      BY DEF PickPlaceRule, SemanticFirstCall, x, p
  <2> HIDE DEF e, w
  <2> QED
    BY <1>0, <1>1, <1>5, <2>2, <2>3 DEF Affordable
<1>7. e = Rules(s, c)
  BY DEF e, d, b, a, Rules, Routed
<1> QED
  BY <1>6, <1>7

\* What a step leaves of the counters: a motion that was admitted costs one of its own.
LEMMA EndsBudgeted ==
  ASSUME Budgets, phase = "act", NEW t, EndTurn(t), DOMAIN t = EpFields, t.turn = ep.turn,
         t.pickplaceCalls \in 0..MaxPickPlace, t.pushCalls \in 0..MaxPush,
         t.insertCalls \in 0..MaxInsert
  PROVE  Budgets'
<1>1. ep.turn < Turns /\ ep.turn \in Nat /\ ep.turn + 1 \in 0..Turns /\ ep.turn \in 0..Turns
  BY BudgetAssumption DEF Budgets, Budgeted
<1>2. phase' # "act"
  BY DEF EndTurn
<1>3. CASE t.over = "no"
  <2>1. ep' = [t EXCEPT !.turn = @ + 1]
    BY <1>3 DEF EndTurn
  <2>2. DOMAIN ep' = EpFields /\ ep'.turn = ep.turn + 1 /\ ep'.pickplaceCalls = t.pickplaceCalls
        /\ ep'.pushCalls = t.pushCalls /\ ep'.insertCalls = t.insertCalls
    BY <2>1 DEF EpFields
  <2> QED
    BY <1>1, <1>2, <2>2 DEF Budgets, Budgeted
<1>4. CASE t.over # "no"
  <2>1. ep' = t
    BY <1>4 DEF EndTurn
  <2> QED
    BY <1>1, <1>2, <2>1 DEF Budgets, Budgeted
<1> QED
  BY <1>3, <1>4

LEMMA ReportsBudgeted ==
  ASSUME Budgets, PickPlace \/ Insert \/ Push \/ Check \/ Look \/ Outage \/ Done
  PROVE  Budgets'
<1>1. /\ phase = "act" /\ DOMAIN ep = EpFields /\ Budgeted(ep) /\ Affordable(ep, call)
  BY DEF Budgets, PickPlace, Insert, Push, Check, Look, Outage, Done
<1>2. /\ MaxPickPlace \in Nat /\ MaxPush \in Nat /\ MaxInsert \in Nat
      /\ ep.pickplaceCalls \in 0..MaxPickPlace /\ ep.pushCalls \in 0..MaxPush
      /\ ep.insertCalls \in 0..MaxInsert
  BY <1>1, BudgetAssumption DEF Budgeted
<1>3. ASSUME NEW t, Same(ep, t), EndTurn(t) PROVE Budgets'
  BY <1>1, <1>2, <1>3, EndsBudgeted DEF Same
<1>4. CASE PickPlace
  <2>1. PICK rep \in PickPlaceReports(call), diag \in Diagnoses :
          EndTurn(Reflected(AfterPickPlace(ep, rep), call, rep, diag, FALSE))
    BY <1>4 DEF PickPlace
  <2> DEFINE u == AfterPickPlace(ep, rep)
             r == Reflected(u, call, rep, diag, FALSE)
  <2>2. /\ DOMAIN u = EpFields /\ u.turn = ep.turn
        /\ u.pickplaceCalls \in {ep.pickplaceCalls, ep.pickplaceCalls + 1}
        /\ u.pushCalls = ep.pushCalls /\ u.insertCalls = ep.insertCalls
    BY <1>1 DEF AfterPickPlace, Halt, EpFields
  <2> HIDE DEF u
  <2>3. Same(u, r) /\ EndTurn(r)
    BY <2>1, <2>2, ReflectionSame DEF u
  <2>4. call.action = "pickplace"
    BY <1>4 DEF PickPlace
  <2>5. u.pickplaceCalls \in 0..MaxPickPlace
    BY <1>1, <1>2, <2>2, <2>4 DEF Affordable
  <2> HIDE DEF r
  <2> QED
    BY <1>1, <1>2, <2>2, <2>3, <2>5, EndsBudgeted DEF Same
<1>5. CASE Insert
  <2>1. PICK rep \in InsertReports(call), diag \in Diagnoses :
          EndTurn(Reflected(AfterInsert(ep, rep), call, rep, diag, rep.preflight))
    BY <1>5 DEF Insert
  <2> DEFINE u == AfterInsert(ep, rep)
             r == Reflected(u, call, rep, diag, rep.preflight)
  <2>2. /\ DOMAIN u = EpFields /\ u.turn = ep.turn /\ u.pickplaceCalls = ep.pickplaceCalls
        /\ u.pushCalls = ep.pushCalls /\ u.insertCalls = ep.insertCalls + 1
    <3> DEFINE t == [ep EXCEPT !.insertCalls = @ + 1, !.failure = rep.failure,
                       !.grounding = rep.grounding, !.released = @ \/ rep.released,
                       !.checkOk = FALSE, !.checkReliable = TRUE, !.allowUnreliable = FALSE]
               z == [t EXCEPT !.empties = IF rep.failure \in NoGrasp THEN Min2(@ + 1) ELSE 0,
                       !.mustCheck = rep.released \/ rep.failure \notin NoMotion,
                       !.streak = 0, !.pushBlocked = FALSE]
               y == [t EXCEPT !.mustCheck = FALSE,
                          !.fallback = @ \/ rep.failure = "broad_container_fit"]
    <3>1. /\ DOMAIN t = EpFields /\ t.turn = ep.turn /\ t.pickplaceCalls = ep.pickplaceCalls
          /\ t.pushCalls = ep.pushCalls /\ t.insertCalls = ep.insertCalls + 1
      BY <1>1 DEF EpFields
    <3>2. u \in {Halt(t), z, Queue(y, LookFor("source")), Queue(y, LookFor("destination")),
                 Queue(y, Own("pickplace"))}
      BY DEF AfterInsert, InsertDeclined
    <3> HIDE DEF t, u
    <3>3. Same(t, t) /\ Same(t, z) /\ Same(t, y)
      BY <3>1 DEF Same, EpFields
    <3> HIDE DEF y, z
    <3>4. /\ Same(t, Halt(t)) /\ Same(t, z) /\ Same(t, Queue(y, LookFor("source")))
          /\ Same(t, Queue(y, LookFor("destination"))) /\ Same(t, Queue(y, Own("pickplace")))
      BY <3>3, HaltsSame, QueuesSame
    <3>5. Same(t, u)
      BY <3>2, <3>4, Zenon
    <3> QED
      BY <3>1, <3>5 DEF Same
  <2> HIDE DEF u
  <2>3. Same(u, r) /\ EndTurn(r)
    BY <2>1, <2>2, ReflectionSame DEF u
  <2>4. call.action = "insert"
    BY <1>5 DEF Insert
  <2>5. u.insertCalls \in 0..MaxInsert
    BY <1>1, <1>2, <2>2, <2>4 DEF Affordable
  <2> HIDE DEF r
  <2> QED
    BY <1>1, <1>2, <2>2, <2>3, <2>5, EndsBudgeted DEF Same
<1>6. CASE Push
  <2>1. PICK rep \in PushReports, diag \in Diagnoses :
          EndTurn(Reflected(AfterPush(ep, rep), call, rep, diag, FALSE))
    BY <1>6 DEF Push
  <2> DEFINE u == AfterPush(ep, rep)
             r == Reflected(u, call, rep, diag, FALSE)
  <2>2. /\ DOMAIN u = EpFields /\ u.turn = ep.turn /\ u.pickplaceCalls = ep.pickplaceCalls
        /\ u.pushCalls = ep.pushCalls + 1 /\ u.insertCalls = ep.insertCalls
    BY <1>1 DEF AfterPush, EpFields
  <2> HIDE DEF u
  <2>3. Same(u, r) /\ EndTurn(r)
    BY <2>1, <2>2, ReflectionSame DEF u
  <2>4. call.action = "push"
    BY <1>6 DEF Push
  <2>5. u.pushCalls \in 0..MaxPush
    BY <1>1, <1>2, <2>2, <2>4 DEF Affordable
  <2> HIDE DEF r
  <2> QED
    BY <1>1, <1>2, <2>2, <2>3, <2>5, EndsBudgeted DEF Same
<1>7. CASE Check
  <2>1. PICK rep, diag : EndTurn(AfterCheck(ep, rep, diag))
    BY <1>7, Zenon DEF Check
  <2> QED
    BY <1>1, <1>3, <2>1, CheckSame
<1>8. CASE Look
  <2>1. PICK rep \in LookReports(call) : EndTurn(AfterLook(ep, rep))
    BY <1>8 DEF Look
  <2> QED
    BY <1>1, <1>3, <2>1, LookSame
<1>9. CASE Outage \/ Done
  <2>1. Same(ep, [ep EXCEPT !.over = "inconclusive"]) /\ Same(ep, [ep EXCEPT !.over = "success"])
    BY <1>1 DEF Same, EpFields
  <2> QED
    BY <1>3, <1>9, <2>1 DEF Outage, Done
<1> QED
  BY <1>4, <1>5, <1>6, <1>7, <1>8, <1>9

LEMMA BudgetsAlways == Spec => []Budgets
<1>1. Init => Budgets
  <2> SUFFICES ASSUME Init PROVE Budgets
    OBVIOUS
  <2>1. DOMAIN ep = EpFields /\ ep.turn = 0 /\ ep.pickplaceCalls = 0 /\ ep.pushCalls = 0
        /\ ep.insertCalls = 0 /\ phase = "decide"
    BY DEF Init, InitialEp, EpFields
  <2> QED
    BY <2>1, BudgetAssumption DEF Budgets, Budgeted
<1>2. Inv /\ Budgets /\ [Next]_vars => Budgets'
  <2> SUFFICES ASSUME Inv, Budgets, [Next]_vars PROVE Budgets'
    OBVIOUS
  <2>1. CASE UNCHANGED vars \/ Over
    BY <2>1 DEF vars, Over, Budgets, Budgeted, Affordable
  <2>2. CASE Decide
    <3>1. PICK p \in Proposals : call' = Rules(ep, p) /\ ep' = Taken(ep, call')
      BY <2>2 DEF Decide
    <3>2. ep.turn < Turns /\ DOMAIN ep = EpFields /\ Budgeted(ep) /\ p \in CallType
      BY <2>2, ProposedCalls DEF Decide, Budgets, Inv
    <3>3. Affordable(ep, call')
      BY <3>1, <3>2, RulesAfford
    <3>4. Same(ep, ep')
      BY <3>1, <3>2 DEF Taken, Same, EpFields
    <3> QED
      BY <3>2, <3>3, <3>4 DEF Budgets, Budgeted, Affordable, Same
  <2>3. CASE Refuse \/ OutOfTurns
    <3>1. ep' \in {Halt([ep EXCEPT !.pending = Nothing]), Halt(ep)} /\ phase' = "over"
      BY <2>3 DEF Refuse, OutOfTurns
    <3>2. Same(ep, ep) /\ Same(ep, [ep EXCEPT !.pending = Nothing])
      BY DEF Budgets, Same, EpFields
    <3>3. Same(ep, Halt(ep)) /\ Same(ep, Halt([ep EXCEPT !.pending = Nothing]))
      BY <3>2, HaltsSame
    <3>4. Same(ep, ep')
      BY <3>1, <3>3, Zenon
    <3> QED
      BY <3>1, <3>4 DEF Budgets, Budgeted, Same
  <2> QED
    BY <2>1, <2>2, <2>3, ReportsBudgeted DEF Next
<1> QED
  BY <1>1, <1>2, InductiveInv, PTL DEF Spec

-----------------------------------------------------------------------------
\* ---- types ----

\* The local variables that are flags, and the values of the others but the
\* counters and the queued call.
Flags == {"attempted", "checkOk", "checkReliable", "mustCheck", "allowUnreliable", "placeAliases",
          "placeAlias", "pickAlias", "fallback", "variantTried", "released", "learned", "checked",
          "pushable", "pushBlocked", "motion"}
Groundings == {"", "pick", "destination"}
Transports == {"", "pickplace", "insert"}
Endings == {"no", "success", "stopped", "inconclusive"}

Fields(s) ==
    /\ DOMAIN s = EpFields
    /\ \A f \in Flags : s[f] \in BOOLEAN
    /\ s.failure \in Failures /\ s.grounding \in Groundings
    /\ s.streak \in 0..2 /\ s.empties \in 0..2 /\ s.looks \in 0..1
    /\ s.lastTransport \in Transports /\ s.over \in Endings

Typed ==
    /\ goal \in Goals /\ Fields(ep) /\ session \in SessionType
    /\ phase \in {"decide", "act", "over"} /\ call \in CallType
    /\ verdict \in {"none", "placed", "ambiguous", "miss"}

\* Together with the queued call and the counters these are all of them.
LEMMA WholeEpisode ==
  ASSUME NEW s, Ep(s), Fields(s), Budgeted(s)
  PROVE  s \in EpType
<1>1. /\ s.attempted \in BOOLEAN /\ s.checkOk \in BOOLEAN /\ s.checkReliable \in BOOLEAN
      /\ s.mustCheck \in BOOLEAN /\ s.allowUnreliable \in BOOLEAN /\ s.placeAliases \in BOOLEAN
      /\ s.placeAlias \in BOOLEAN /\ s.pickAlias \in BOOLEAN /\ s.fallback \in BOOLEAN
      /\ s.variantTried \in BOOLEAN /\ s.released \in BOOLEAN /\ s.learned \in BOOLEAN
      /\ s.checked \in BOOLEAN /\ s.pushable \in BOOLEAN /\ s.pushBlocked \in BOOLEAN
      /\ s.motion \in BOOLEAN
  BY DEF Fields, Flags
<1>2. s = [f \in EpFields |-> s[f]] /\ s.pending \in CallType
  BY DEF Ep
<1>3. /\ s.failure \in Failures /\ s.grounding \in {"", "pick", "destination"}
      /\ s.streak \in 0..2 /\ s.empties \in 0..2 /\ s.looks \in 0..1
      /\ s.lastTransport \in {"", "pickplace", "insert"}
      /\ s.over \in {"no", "success", "stopped", "inconclusive"}
  BY DEF Fields, Groundings, Transports, Endings
<1>4. /\ s.turn \in 0..Turns /\ s.pickplaceCalls \in 0..MaxPickPlace
      /\ s.pushCalls \in 0..MaxPush /\ s.insertCalls \in 0..MaxInsert
  BY DEF Budgeted
<1> QED
  BY <1>1, <1>2, <1>3, <1>4 DEF EpType, EpFields

\* Setting a flag, stopping and queueing keep the types.
LEMMA SetsFlag ==
  ASSUME NEW s, Fields(s), NEW f \in Flags, NEW b \in BOOLEAN
  PROVE  Fields([s EXCEPT ![f] = b])
<1>1. f \in EpFields
      /\ f \notin {"failure", "grounding", "streak", "empties", "looks", "lastTransport", "over"}
  BY DEF Flags, EpFields
<1> QED
  BY <1>1 DEF Fields, Flags, EpFields

LEMMA SetsEnding ==
  ASSUME NEW s, Fields(s), NEW e \in Endings
  PROVE  Fields([s EXCEPT !.over = e])
BY DEF Fields, Flags, EpFields

LEMMA SetsCounter ==
  ASSUME NEW s, Fields(s), NEW f \in {"turn", "pending"}, NEW e
  PROVE  Fields([s EXCEPT ![f] = e])
BY DEF Fields, Flags, EpFields

LEMMA SetsLooks ==
  ASSUME NEW s, Fields(s), NEW n \in 0..1
  PROVE  Fields([s EXCEPT !.looks = n])
BY DEF Fields, Flags, EpFields

LEMMA HaltsTyped ==
  ASSUME NEW s, Fields(s)
  PROVE  Fields(Halt(s))
BY SetsEnding DEF Halt, Endings

LEMMA QueuesTyped ==
  ASSUME NEW s, Fields(s), NEW c
  PROVE  /\ Fields(Queue(s, c))
         /\ Fields([Queue(s, c) EXCEPT !.allowUnreliable = TRUE])
         /\ Fields([Queue(s, c) EXCEPT !.checkOk = TRUE])
         /\ Fields([Queue(s, c) EXCEPT !.variantTried = TRUE])
         /\ Fields([Queue(s, c) EXCEPT !.pickAlias = TRUE])
<1>1. Fields(Queue(s, c))
  BY SetsCounter DEF Queue
<1>2. {"allowUnreliable", "checkOk", "variantTried", "pickAlias"} \subseteq Flags
  BY DEF Flags
<1> QED
  BY <1>1, <1>2, SetsFlag

LEMMA RetryTyped ==
  ASSUME NEW s, Fields(s), NEW rep, NEW diag
  PROVE  Fields(VisualRetry(s, rep, diag))
BY QueuesTyped DEF VisualRetry

LEMMA RecoveryTyped ==
  ASSUME NEW s, Fields(s), NEW rep
  PROVE  Fields(MeasuredRecovery(s, rep))
BY QueuesTyped, HaltsTyped DEF MeasuredRecovery

\* A second failure of a kind is as good as a third.
LEMMA CountsToTwo ==
  ASSUME NEW n \in 0..2
  PROVE  Min2(n + 1) \in 0..2
BY DEF Min2

\* The answers of a check that an episode keeps.
Answered(rep) ==
    /\ rep.ok \in BOOLEAN /\ rep.given \in BOOLEAN
    /\ rep.push \in BOOLEAN /\ rep.reliable \in BOOLEAN

LEMMA CheckTyped ==
  ASSUME NEW s, Fields(s), NEW rep, NEW diag, Answered(rep)
  PROVE  Fields(AfterCheck(s, rep, diag))
<1> DEFINE ok == IF Reviewed(s, rep) THEN diag.next = "done" ELSE rep.ok
           failure == IF rep.wrong THEN "wrong_object_grasp" ELSE s.failure
           streak == IF rep.reliable THEN 0 ELSE Min2(s.streak + 1)
           t == [s EXCEPT !.mustCheck = FALSE, !.checked = rep.given, !.pushable = rep.push,
                          !.failure = failure, !.checkOk = ok, !.checkReliable = rep.reliable,
                          !.streak = streak, !.motion = FALSE]
           r == AfterCheck(s, rep, diag)
<1>1. ok \in BOOLEAN
  <2>1. (diag.next = "done") \in BOOLEAN
    BY Zenon
  <2> QED
    BY <2>1, Zenon DEF Answered
<1>2. failure \in Failures
  BY DEF Fields, Failures, NoMotion, NoGrasp
<1>3. streak \in 0..2
  BY CountsToTwo DEF Fields
<1>4. r \in {Halt(t), Queue(t, Own("done")), VisualRetry(t, rep, diag), MeasuredRecovery(t, rep)}
  BY DEF AfterCheck
<1> HIDE DEF ok, failure, streak
<1>5. Fields(t)
  BY <1>1, <1>2, <1>3 DEF Fields, Flags, EpFields, Answered
<1> HIDE DEF t, r
<1>6. /\ Fields(Halt(t)) /\ Fields(Queue(t, Own("done")))
      /\ Fields(VisualRetry(t, rep, diag)) /\ Fields(MeasuredRecovery(t, rep))
  BY <1>5, HaltsTyped, QueuesTyped, RetryTyped, RecoveryTyped
<1>7. Fields(r)
  BY <1>4, <1>6, Zenon
<1> QED
  BY <1>7 DEF r

LEMMA LookTyped ==
  ASSUME NEW s, Fields(s), NEW rep, rep.destination \in BOOLEAN
  PROVE  Fields(AfterLook(s, rep))
<1>1. Fields(LookLoop(s, rep))
  BY SetsLooks, HaltsTyped DEF LookLoop
<1>2. ASSUME NEW t, Fields(t) PROVE Fields(SourceAlias(t, rep))
  BY <1>2, QueuesTyped, HaltsTyped DEF SourceAlias
<1>3. ASSUME NEW t, Fields(t) PROVE Fields(DestinationAlias(t, rep))
  <2> DEFINE b == t.placeAliases \/ rep.destination
             u == [t EXCEPT !.placeAliases = b]
             e == t.failure = "no_opening_geometry" /\ t.placeAlias
             q(c) == [Queue(u, c) EXCEPT !.placeAlias = TRUE, !.fallback = @ \/ e]
  <2>0. {"placeAliases", "placeAlias", "fallback"} \subseteq Flags
    BY DEF Flags
  <2>1. Fields(u)
    <3>1. b \in BOOLEAN
      BY Zenon
    <3> HIDE DEF b
    <3> QED
      BY <1>3, <2>0, <3>1, SetsFlag
  <2>2. \/ DestinationAlias(t, rep) \in {Halt(u), u}
        \/ \E c : DestinationAlias(t, rep) = q(c)
    BY DEF DestinationAlias
  <2> HIDE DEF u
  <2>3. ASSUME NEW c PROVE Fields(q(c))
    <3> DEFINE w == Queue(u, c)
               g == w.fallback \/ e
    <3>1. Fields(w)
      BY <2>1, QueuesTyped
    <3>2. g \in BOOLEAN
      BY Zenon
    <3> HIDE DEF w
    <3>3. q(c) = [w EXCEPT !.placeAlias = TRUE, !.fallback = g]
      BY DEF w
    <3> HIDE DEF g, q
    <3>4. Fields([w EXCEPT !.placeAlias = TRUE, !.fallback = g])
      BY <3>1, <3>2 DEF Fields, Flags, EpFields
    <3> QED
      BY <3>3, <3>4
  <2> HIDE DEF q
  <2> QED
    BY <2>1, <2>2, <2>3, HaltsTyped
<1>4. ASSUME NEW t, Fields(t) PROVE Fields(Remeasure(t))
  BY <1>4, QueuesTyped DEF Remeasure
<1> QED
  BY <1>1, <1>2, <1>3, <1>4 DEF AfterLook

LEMMA MotionTyped ==
  ASSUME NEW s, Fields(s), NEW c, NEW rep, NEW diag
  PROVE  Fields(AfterMotion(s, c, rep, diag))
<1> DEFINE m == ~(~s.mustCheck)
<1>1. m \in BOOLEAN /\ "motion" \in Flags
  BY Zenon DEF Flags
<1>2. Fields([s EXCEPT !.motion = m])
  <2> HIDE DEF m
  <2> QED
    BY <1>1, SetsFlag
<1>3. ASSUME NEW t, Fields(t), NEW d, NEW a, NEW p PROVE Fields(NextGrasp(t, d, a, p))
  BY <1>3, QueuesTyped, HaltsTyped DEF NextGrasp
<1> QED
  BY <1>2, <1>3, QueuesTyped, HaltsTyped DEF AfterMotion

LEMMA ReflectionTyped ==
  ASSUME NEW s, Fields(s), NEW c, NEW rep, NEW diag, NEW preflight
  PROVE  Fields(Reflected(s, c, rep, diag, preflight))
BY MotionTyped DEF Reflected

\* The bookkeeping of the motions, of reports with the fields of a report.
Reported(rep) ==
    rep.failure \in Failures /\ rep.grounding \in Groundings /\ rep.released \in BOOLEAN

LEMMA PickPlaceTyped ==
  ASSUME NEW s, Fields(s), NEW rep, Reported(rep)
  PROVE  Fields(AfterPickPlace(s, rep))
<1> DEFINE calls == IF rep.failure = "not_grounded" THEN s.pickplaceCalls ELSE s.pickplaceCalls + 1
           released == s.released \/ rep.released
           empties == IF rep.failure \in NoGrasp THEN Min2(s.empties + 1) ELSE 0
           due == rep.released \/ s.released \/ rep.failure \notin NoMotion
           t == [s EXCEPT !.attempted = TRUE, !.failure = rep.failure, !.grounding = rep.grounding,
                          !.pickplaceCalls = calls, !.released = released, !.empties = empties]
           z == [t EXCEPT !.mustCheck = due, !.checkOk = FALSE, !.checkReliable = TRUE,
                          !.allowUnreliable = FALSE, !.streak = 0, !.pushBlocked = FALSE]
           u == AfterPickPlace(s, rep)
<1>1. released \in BOOLEAN /\ due \in BOOLEAN
  BY Zenon
<1>2. empties \in 0..2
  BY CountsToTwo DEF Fields
<1>3. u \in {Halt(t), z}
  BY DEF AfterPickPlace
<1> HIDE DEF calls, released, empties, due, u
<1>4. Fields(t)
  BY <1>1, <1>2 DEF Fields, Flags, EpFields, Reported
<1> HIDE DEF t
<1>5. Fields(z)
  BY <1>1, <1>4 DEF Fields, Flags, EpFields
<1> HIDE DEF z
<1>6. Fields(u)
  BY <1>3, <1>4, <1>5, HaltsTyped
<1> QED
  BY <1>6 DEF u

LEMMA InsertTyped ==
  ASSUME NEW s, Fields(s), NEW rep, Reported(rep)
  PROVE  Fields(AfterInsert(s, rep))
<1> DEFINE released == s.released \/ rep.released
           t == [s EXCEPT !.insertCalls = @ + 1, !.failure = rep.failure, !.grounding = rep.grounding,
                          !.released = released, !.checkOk = FALSE, !.checkReliable = TRUE,
                          !.allowUnreliable = FALSE]
           empties == IF rep.failure \in NoGrasp THEN Min2(t.empties + 1) ELSE 0
           due == rep.released \/ rep.failure \notin NoMotion
           z == [t EXCEPT !.empties = empties, !.mustCheck = due, !.streak = 0,
                          !.pushBlocked = FALSE]
           fallback == t.fallback \/ rep.failure = "broad_container_fit"
           y == [t EXCEPT !.mustCheck = FALSE, !.fallback = fallback]
           u == AfterInsert(s, rep)
<1>1. released \in BOOLEAN /\ due \in BOOLEAN /\ fallback \in BOOLEAN
  BY Zenon
<1>2. u \in {Halt(t), z, Queue(y, LookFor("source")), Queue(y, LookFor("destination")),
             Queue(y, Own("pickplace"))}
  BY DEF AfterInsert, InsertDeclined
<1> HIDE DEF released, due, fallback, u
<1>3. Fields(t)
  BY <1>1 DEF Fields, Flags, EpFields, Reported
<1> HIDE DEF t
<1>4. empties \in 0..2
  BY <1>3, CountsToTwo DEF Fields
<1> HIDE DEF empties
<1>5. Fields(z) /\ Fields(y)
  BY <1>1, <1>3, <1>4 DEF Fields, Flags, EpFields
<1> HIDE DEF z, y
<1>6. /\ Fields(Halt(t)) /\ Fields(Queue(y, LookFor("source")))
      /\ Fields(Queue(y, LookFor("destination"))) /\ Fields(Queue(y, Own("pickplace")))
  BY <1>3, <1>5, HaltsTyped, QueuesTyped
<1>7. Fields(u)
  BY <1>2, <1>5, <1>6, Zenon
<1> QED
  BY <1>7 DEF u

LEMMA PushTyped ==
  ASSUME NEW s, Fields(s), NEW rep
  PROVE  Fields(AfterPush(s, rep))
<1> DEFINE calls == s.pushCalls + 1
           blocked == s.pushBlocked \/ rep.blocked
           u == [s EXCEPT !.pushCalls = calls, !.pushBlocked = blocked, !.mustCheck = TRUE,
                          !.checkOk = FALSE, !.checkReliable = TRUE, !.allowUnreliable = FALSE]
<1>1. blocked \in BOOLEAN
  BY Zenon
<1>2. AfterPush(s, rep) = u
  BY DEF AfterPush
<1> HIDE DEF calls, blocked
<1>3. Fields(u)
  BY <1>1 DEF Fields, Flags, EpFields
<1> QED
  BY <1>2, <1>3

LEMMA TakenTyped ==
  ASSUME NEW s, Fields(s), NEW c
  PROVE  Fields(Taken(s, c))
<1> DEFINE learned == s.learned \/ (c.action \in {"pickplace", "insert"} /\ c.grasp = "learned")
           last == IF c.action \in {"pickplace", "insert"} THEN c.action ELSE s.lastTransport
           looks == IF c.action = "look" THEN s.looks ELSE 0
           t == [s EXCEPT !.pending = Nothing, !.learned = learned, !.lastTransport = last,
                          !.looks = looks]
<1>1. learned \in BOOLEAN
  BY Zenon
<1>2. last \in Transports
  <2>1. s.lastTransport \in Transports
    BY DEF Fields
  <2>2. "pickplace" \in Transports /\ "insert" \in Transports
    BY Zenon DEF Transports
  <2> QED
    BY <2>1, <2>2
<1>3. looks \in 0..1
  BY DEF Fields
<1>4. Taken(s, c) = t
  BY DEF Taken
<1> HIDE DEF learned, last, looks
<1>5. Fields(t)
  BY <1>1, <1>2, <1>3 DEF Fields, Flags, EpFields
<1> QED
  BY <1>4, <1>5

\* What the primitives and the checks report.
LEMMA ReportsTyped ==
  ASSUME NEW rep \in PickPlaceReports(call) \cup InsertReports(call)
  PROVE  Reported(rep)
<1>1. ASSUME NEW f \in Failures, NEW g \in Groundings, NEW r \in BOOLEAN, NEW x \in BOOLEAN,
             NEW y \in BOOLEAN
      PROVE  LET v == Report(f, g, r, x, y) IN Reported(v)
  BY DEF Report, Reported
<1>2. Reported(Raised) /\ Reported(Unavailable)
  <2>1. Reported(Raised)
    BY DEF Raised, Report, Reported, Failures, NoMotion, NoGrasp, Groundings
  <2>2. Reported(Unavailable)
    BY DEF Unavailable, Raised, Report, Reported, Failures, NoMotion, NoGrasp, Groundings
  <2> QED
    BY <2>1, <2>2
<1>3. /\ {"", "not_grounded", "empty_grasp", "placement_failed", "no_opening_geometry",
          "no_feasible_insertion", "broad_container_fit"} \subseteq Failures
      /\ {"", "pick", "destination"} \subseteq Groundings
  BY DEF Failures, NoMotion, NoGrasp, Groundings
<1>4. \/ rep = Raised \/ rep = Unavailable
      \/ \E f \in Failures, g \in Groundings, r \in BOOLEAN, x \in BOOLEAN, y \in BOOLEAN :
           rep = Report(f, g, r, x, y)
  <2>1. CASE rep \in PickPlaceReports(call)
    BY <1>3, <2>1 DEF PickPlaceReports, PickNotFound
  <2>2. CASE rep \in InsertReports(call)
    BY <1>3, <2>2 DEF InsertReports, PickNotFound
  <2> QED
    BY <2>1, <2>2
<1> QED
  BY <1>1, <1>2, <1>4, Zenon

LEMMA ChecksTyped ==
  ASSUME NEW kind, NEW release, NEW rep \in CheckReports(kind, release)
  PROVE  Answered(rep)
<1>1. CASE rep \in {RaisedCheck, UnavailableCheck}
  <2>1. /\ RaisedCheck.ok = FALSE /\ RaisedCheck.given = FALSE
        /\ RaisedCheck.push = FALSE /\ RaisedCheck.reliable = TRUE
    BY Zenon DEF RaisedCheck
  <2>2. /\ UnavailableCheck.ok = FALSE /\ UnavailableCheck.given = TRUE
        /\ UnavailableCheck.push = FALSE /\ UnavailableCheck.reliable = TRUE
    BY Zenon DEF RaisedCheck, UnavailableCheck
  <2>3. FALSE \in BOOLEAN /\ TRUE \in BOOLEAN
    OBVIOUS
  <2>4. CASE rep = RaisedCheck
    BY <2>1, <2>3, <2>4, Zenon DEF Answered
  <2>5. CASE rep = UnavailableCheck
    BY <2>2, <2>3, <2>5, Zenon DEF Answered
  <2> QED
    BY <1>1, <2>4, <2>5
<1>2. CASE \E p, o : rep = CheckReport(kind, p, o)
  <2>1. PICK p, o : rep = CheckReport(kind, p, o)
    BY <1>2
  <2>2. /\ rep.ok = Placed(kind, p, o) /\ rep.given = TRUE
        /\ rep.push = SupportsPush(kind, p, o) /\ rep.reliable = Reliable(kind, p, o)
    BY <2>1, Zenon DEF CheckReport
  <2>3. /\ Placed(kind, p, o) \in BOOLEAN /\ SupportsPush(kind, p, o) \in BOOLEAN
        /\ Reliable(kind, p, o) \in BOOLEAN /\ TRUE \in BOOLEAN
    BY Zenon DEF Placed, SupportsPush, Reliable
  <2> QED
    BY <2>2, <2>3, Zenon DEF Answered
<1> QED
  BY <1>1, <1>2 DEF CheckReports

LEMMA ChecksOfGoal ==
  ASSUME NEW kind \in {g.kind : g \in Goals}, NEW release \in {"none", "own", "alias", "foreign"},
         NEW rep \in CheckReportsOf[kind][release]
  PROVE  rep \in CheckReports(kind, release)
BY DEF CheckReportsOf

LEMMA LooksTyped ==
  ASSUME NEW rep \in LookReports(call)
  PROVE  rep.destination \in BOOLEAN
<1> DEFINE D == IF call.ask = "destination" THEN BOOLEAN ELSE {FALSE}
           S == IF call.ask = "source" THEN BOOLEAN ELSE {FALSE}
           M == IF ep.looks = 1 THEN BOOLEAN ELSE {FALSE}
           none == [infra |-> TRUE, source |-> FALSE, destination |-> FALSE, same |-> FALSE]
<1>1. \A d \in D : d \in BOOLEAN
  OBVIOUS
<1>2. none.destination = FALSE /\ FALSE \in BOOLEAN
  BY Zenon
<1>3. rep = none \/ rep \in [infra : {FALSE}, source : S, destination : D, same : M]
  BY Zenon DEF LookReports
<1> HIDE DEF D, S, M, none
<1>4. rep \in [infra : {FALSE}, source : S, destination : D, same : M] => rep.destination \in D
  BY Zenon
<1> QED
  BY <1>1, <1>2, <1>3, <1>4, Zenon

\* What a step leaves in the session.
LEMMA TransportLeaves ==
  ASSUME session \in SessionType, NEW c \in CallType, c.place \in {"own", "alias"}, NEW rep, NEW transient
  PROVE  AfterTransport(session, c, rep, transient) \in SessionType
<1>1. /\ session.release \in {"none", "own", "alias", "foreign"}
      /\ session.locks \in [Labels -> LockStates] /\ c.pick \in Labels /\ c.place \in {"own", "alias"}
  BY DEF SessionType, CallType, Labels
<1>2. ASSUME NEW l \in [Labels -> LockStates]
      PROVE  /\ RememberPick(l, c.pick) \in [Labels -> LockStates]
             /\ PopOnRelease(l, c.pick) \in [Labels -> LockStates]
             /\ KeepOrInvalidate(l, c.pick, rep.failure, transient) \in [Labels -> LockStates]
  BY <1>1 DEF RememberPick, PopOnRelease, KeepOrInvalidate, LockStates
<1>3. CASE rep.released
  BY <1>1, <1>2, <1>3 DEF AfterTransport, SessionType
<1>4. CASE ~rep.released
  <2> DEFINE l == KeepOrInvalidate(IF rep.posed THEN RememberPick(session.locks, c.pick)
                                   ELSE session.locks, c.pick, rep.failure, transient)
  <2>1. l \in [Labels -> LockStates]
    BY <1>1, <1>2
  <2>2. AfterTransport(session, c, rep, transient) = [session EXCEPT !.locks = l]
    BY <1>4 DEF AfterTransport
  <2> HIDE DEF l
  <2> QED
    BY <2>1, <2>2 DEF SessionType
<1> QED
  BY <1>3, <1>4

LEMMA CheckLeaves ==
  ASSUME session \in SessionType, NEW rep
  PROVE  AfterCheckStep(session, rep) \in SessionType
<1>1. [session.locks EXCEPT !["own"] = "fresh"] \in [Labels -> LockStates]
  BY DEF SessionType, Labels, LockStates
<1> QED
  BY <1>1 DEF AfterCheckStep, SessionType

\* The end of a turn.
LEMMA EndsTyped ==
  ASSUME Typed, NEW t, Fields(t), EndTurn(t), session' \in SessionType,
         verdict' \in {"none", "placed", "ambiguous", "miss"}
  PROVE  Typed'
<1>1. Fields(ep')
  BY SetsCounter DEF EndTurn
<1>2. Nothing \in CallType
  BY OwnCalls
<1> QED
  BY <1>1, <1>2 DEF EndTurn, Typed

LEMMA ReportsKeepTypes ==
  ASSUME Inv, Typed, PickPlace \/ Insert \/ Push \/ Check \/ Look \/ Outage \/ Done
  PROVE  Typed'
<1>1. Fields(ep) /\ session \in SessionType /\ goal \in Goals /\ call \in CallType
      /\ verdict \in {"none", "placed", "ambiguous", "miss"}
  BY DEF Typed
<1>2. \A x, d, p : VerdictAfter(x, d, p) \in {"none", "placed", "ambiguous", "miss"}
  BY DEF VerdictAfter
<1>3. phase = "act" /\ call.action \in Motions => call.place \in {"own", "alias"}
  BY DEF Inv, Admissible, Named
<1>4. CASE PickPlace
  <2>1. PICK rep \in PickPlaceReports(call), diag \in Diagnoses :
          /\ EndTurn(Reflected(AfterPickPlace(ep, rep), call, rep, diag, FALSE))
          /\ session' = AfterTransport(session, call, rep, Transient(goal, call.pick))
          /\ verdict' = VerdictAfter(AfterPickPlace(ep, rep), diag, FALSE)
    BY <1>4 DEF PickPlace
  <2>2. call.place \in {"own", "alias"}
    BY <1>3, <1>4 DEF PickPlace, Motions
  <2>3. session' \in SessionType
    BY <1>1, <2>1, <2>2, TransportLeaves
  <2>4. Fields(Reflected(AfterPickPlace(ep, rep), call, rep, diag, FALSE))
    BY <1>1, ReportsTyped, PickPlaceTyped, ReflectionTyped
  <2> QED
    BY <1>2, <2>1, <2>3, <2>4, EndsTyped
<1>5. CASE Insert
  <2>1. PICK rep \in InsertReports(call), diag \in Diagnoses :
          /\ EndTurn(Reflected(AfterInsert(ep, rep), call, rep, diag, rep.preflight))
          /\ session' = AfterInsertStep(session, call, rep, Transient(goal, call.pick))
          /\ verdict' = VerdictAfter(AfterInsert(ep, rep), diag, rep.preflight)
    BY <1>5 DEF Insert
  <2>2. call.place \in {"own", "alias"}
    BY <1>3, <1>5 DEF Insert, Motions
  <2>3. session' \in SessionType
    BY <1>1, <2>1, <2>2, TransportLeaves DEF AfterInsertStep
  <2>4. Fields(Reflected(AfterInsert(ep, rep), call, rep, diag, rep.preflight))
    BY <1>1, ReportsTyped, InsertTyped, ReflectionTyped
  <2> QED
    BY <1>2, <2>1, <2>3, <2>4, EndsTyped
<1>6. CASE Push
  <2>1. PICK rep \in PushReports, diag \in Diagnoses :
          EndTurn(Reflected(AfterPush(ep, rep), call, rep, diag, FALSE))
    BY <1>6 DEF Push
  <2>2. Fields(Reflected(AfterPush(ep, rep), call, rep, diag, FALSE))
    BY <1>1, PushTyped, ReflectionTyped
  <2>3. session' = session /\ verdict' = "none"
    BY <1>6 DEF Push
  <2> QED
    BY <1>1, <2>1, <2>2, <2>3, EndsTyped
<1>7. CASE Check
  <2>0. PICK rep \in CheckReportsOf[goal.kind][session.release] : \E diag \in Diagnoses :
          LET x == AfterCheck(ep, rep, diag) IN
          /\ EndTurn(x) /\ session' = AfterCheckStep(session, rep)
          /\ verdict' = VerdictOf(x, rep, Reviewed(ep, rep) /\ diag.next = "retry")
    BY <1>7, Zenon DEF Check
  <2>1. PICK diag \in Diagnoses :
          LET x == AfterCheck(ep, rep, diag) IN
          /\ EndTurn(x) /\ session' = AfterCheckStep(session, rep)
          /\ verdict' = VerdictOf(x, rep, Reviewed(ep, rep) /\ diag.next = "retry")
    BY <2>0
  <2>2. goal.kind \in {g.kind : g \in Goals} /\ session.release \in {"none", "own", "alias", "foreign"}
    BY <1>1 DEF SessionType
  <2>3. rep \in CheckReports(goal.kind, session.release)
    BY <2>0, <2>2, ChecksOfGoal
  <2>4. Fields(AfterCheck(ep, rep, diag))
    <3>1. Answered(rep)
      BY <2>3, ChecksTyped
    <3> QED
      BY <1>1, <3>1, CheckTyped
  <2>5. session' \in SessionType
    BY <1>1, <2>1, CheckLeaves
  <2>6. \A x, y, z : VerdictOf(x, y, z) \in {"none", "placed", "ambiguous", "miss"}
    BY DEF VerdictOf
  <2>7. verdict' \in {"none", "placed", "ambiguous", "miss"}
    BY <2>1, <2>6, Zenon
  <2> QED
    BY <2>1, <2>4, <2>5, <2>7, EndsTyped
<1>8. CASE Look
  <2>1. PICK rep \in LookReports(call) : EndTurn(AfterLook(ep, rep))
    BY <1>8 DEF Look
  <2>2. rep.destination \in BOOLEAN
    BY <2>1, LooksTyped
  <2>3. Fields(AfterLook(ep, rep))
    BY <1>1, <2>2, LookTyped
  <2>4. session' = session /\ verdict' = verdict
    BY <1>8 DEF Look
  <2> QED
    BY <1>1, <2>1, <2>3, <2>4, EndsTyped
<1>9. CASE Outage \/ Done
  <2>1. PICK e \in {"inconclusive", "success"} : EndTurn([ep EXCEPT !.over = e])
    BY <1>9 DEF Outage, Done
  <2>2. Fields([ep EXCEPT !.over = e])
    BY <1>1, <2>1, SetsEnding DEF Endings
  <2>3. session' = session /\ verdict' = verdict
    BY <1>9 DEF Outage, Done
  <2> QED
    BY <1>1, <2>1, <2>2, <2>3, EndsTyped
<1> QED
  BY <1>4, <1>5, <1>6, <1>7, <1>8, <1>9

LEMMA StartTyped ==
  ASSUME Init
  PROVE  Typed
<1>1. Fields(ep)
  <2>1. /\ DOMAIN ep = EpFields /\ ep.failure = "" /\ ep.grounding = "" /\ ep.streak = 0
        /\ ep.empties = 0 /\ ep.looks = 0 /\ ep.lastTransport = "" /\ ep.over = "no"
    BY Zenon DEF Init, InitialEp, EpFields
  <2>2. /\ ep.attempted = FALSE /\ ep.checkOk = FALSE /\ ep.checkReliable = TRUE
        /\ ep.mustCheck = FALSE /\ ep.allowUnreliable = FALSE /\ ep.placeAliases = FALSE
        /\ ep.placeAlias = FALSE /\ ep.pickAlias = FALSE /\ ep.fallback = FALSE
        /\ ep.variantTried = FALSE /\ ep.released = FALSE /\ ep.learned = FALSE
        /\ ep.checked = FALSE /\ ep.pushable = FALSE /\ ep.pushBlocked = FALSE
        /\ ep.motion = FALSE
    BY Zenon DEF Init, InitialEp
  <2>3. "" \in Failures /\ "" \in Groundings /\ "" \in Transports /\ "no" \in Endings
    BY Zenon DEF Failures, Groundings, Transports, Endings
  <2>4. \A f \in Flags : ep[f] \in BOOLEAN
    BY <2>2 DEF Flags
  <2>5. 0 \in 0..2 /\ 0 \in 0..1
    OBVIOUS
  <2> QED
    BY <2>1, <2>3, <2>4, <2>5, Zenon DEF Fields
<1>2. session \in SessionType
  BY DEF Init, EmptySession, SessionType, Labels, LockStates
<1>3. Nothing \in CallType
  BY OwnCalls
<1> QED
  BY <1>1, <1>2, <1>3 DEF Init, Typed

LEMMA TypedAlways == Spec => []Typed
<1>1. Inv /\ Typed /\ [Next]_vars => Typed'
  <2> SUFFICES ASSUME Inv, Typed, [Next]_vars PROVE Typed'
    OBVIOUS
  <2>1. CASE UNCHANGED vars \/ Over
    BY <2>1 DEF vars, Over, Typed, Fields
  <2>2. CASE Decide
    <3>1. PICK p \in Proposals : call' = Rules(ep, p) /\ ep' = Taken(ep, call')
      BY <2>2 DEF Decide
    <3>2. call' \in CallType
      BY <2>2, <3>1, ProposedCalls, RuledCalls DEF Decide, Inv
    <3>3. Fields(ep')
      BY <3>1, TakenTyped DEF Typed
    <3> QED
      BY <2>2, <3>2, <3>3 DEF Decide, Typed
  <2>3. CASE Refuse \/ OutOfTurns
    <3>1. ep' \in {Halt([ep EXCEPT !.pending = Nothing]), Halt(ep)} /\ phase' = "over"
      BY <2>3 DEF Refuse, OutOfTurns
    <3>2. Fields([ep EXCEPT !.pending = Nothing])
      BY SetsCounter DEF Typed
    <3>3. Fields(ep')
      BY <3>1, <3>2, HaltsTyped DEF Typed
    <3>4. call' \in CallType
      BY <2>3, OwnCalls DEF Refuse, OutOfTurns, Typed
    <3> QED
      BY <2>3, <3>1, <3>3, <3>4 DEF Refuse, OutOfTurns, Typed
  <2> QED
    BY <2>1, <2>2, <2>3, ReportsKeepTypes DEF Next
<1> QED
  BY <1>1, StartTyped, InductiveInv, PTL DEF Spec

-----------------------------------------------------------------------------
\* ---- the theorems ----

\* A scene that was judged placed, or whose release could not be measured, is never
\* moved again: no proposal, report, alias, reflection or spent budget leads the rules
\* of run_episode to a motion that starts from such a verdict.
THEOREM PlacementsAreKept == Spec => []PlacementKept
<1>1. Inv => PlacementKept
  <2> SUFFICES ASSUME Inv, Moving PROVE verdict \notin {"placed", "ambiguous"}
    BY DEF PlacementKept
  <2>1. Admissible(ep, verdict) /\ call.action \in Motions
    BY DEF Inv, Moving
  <2>2. \A a \in {"look", "check"} : Own(a).action = a
    BY DEF Own
  <2> QED
    BY <2>1, <2>2 DEF Admissible, Motions
<1> QED
  BY <1>1, InductiveInv, PTL

\* Success is declared only on a state decision newer than every motion.
THEOREM SuccessesAreEndorsed == Spec => []SuccessEndorsed
<1>1. Inv => SuccessEndorsed
  BY DEF Inv, SuccessEndorsed
<1> QED
  BY <1>1, InductiveInv, PTL

\* No answer, failure or reflection names the destination freely, nor renames the object
\* of an episode with a spatial selector: the one other phrase is the visual alias, once a
\* crop verified it. Where _qualified_visual_alias transfers the selector, that phrase
\* carries it; the run transport_alias shows the forms that it loses.
THEOREM QualifiersAreKept == Spec => []QualifierKept
<1>1. Inv => QualifierKept
  BY DEF Inv, QualifierKept, Moving, Admissible, Named
<1> QED
  BY <1>1, InductiveInv, PTL

\* A bounded opening is approached by broad transport only after insert measured that
\* it is none, or two views found no opening.
THEOREM OpeningsAreKept == Spec => []OpeningKept
<1>1. Inv => OpeningKept
  BY DEF Inv, OpeningKept, Moving, Admissible
<1> QED
  BY <1>1, InductiveInv, PTL

\* Turns and calls stay within the limits of the episode: every motion passes the rules
\* that count it, those that a handler queued included, and each report counts one.
THEOREM BudgetsAreKept == Spec => []Budgeted(ep)
<1>1. Budgets => Budgeted(ep)
  BY DEF Budgets
<1> QED
  BY <1>1, BudgetsAlways, PTL

\* The types of run_episode's local variables and of what the session remembers, for
\* every budget and every report. That a release is never remembered under a free
\* destination phrase needs the invariant of the rules.
THEOREM TransportTypeCorrect == Spec => []TypeOK
<1>1. Inv /\ Typed /\ Budgets => TypeOK
  BY WholeEpisode DEF Inv, Typed, Budgets, TypeOK
<1> QED
  BY <1>1, InductiveInv, TypedAlways, BudgetsAlways, PTL

\* A check gives one order: accept, keep the scene, push, or transport again. What
\* must be kept was not measured reliably, so none of the recoveries that need a
\* reliable miss can apply to it, and an object that is not the one asked for is
\* neither accepted nor kept.
THEOREM ChecksGiveOneOrder ==
  ASSUME NEW kind \in Kinds, NEW released \in BOOLEAN, NEW p \in Prior(released), NEW o \in Seen(p)
  PROVE  LET rep == CheckReport(kind, p, o) IN
         /\ rep.preserve => ~rep.ok /\ ~rep.reliable /\ ~rep.push /\ ~rep.visible /\ ~rep.wrong
         /\ rep.ok => rep.reliable /\ ~rep.push /\ ~rep.visible /\ ~rep.wrong
         /\ rep.push => rep.reliable /\ ~rep.visible /\ ~rep.wrong
<1> DEFINE rep == CheckReport(kind, p, o)
<1>1. /\ rep.ok = Placed(kind, p, o) /\ rep.reliable = Reliable(kind, p, o)
      /\ rep.wrong = ExplicitWrongIdentity(p, o) /\ rep.visible = VisiblyRecoverableMiss(kind, p, o)
      /\ rep.preserve = PreserveState(kind, p, o) /\ rep.push = SupportsPush(kind, p, o)
  BY Zenon DEF CheckReport
<1>2. Placed(kind, p, o) => Reliable(kind, p, o) /\ Centred(o) /\ Landed(kind, p, o)
  BY Zenon DEF Placed
<1>3. Reliable(kind, p, o) => IdentityClear(kind, p, o) /\ ~ExplicitWrongIdentity(p, o)
  BY Zenon DEF Reliable, IdentityClear
<1>4. Centred(o) => o.footprint # "outside"
  BY DEF Centred, Usable
<1>5. VisiblyRecoverableMiss(kind, p, o) =>
        o.footprint = "outside" /\ (kind = "container" \/ ~Landed(kind, p, o))
  BY Zenon DEF VisiblyRecoverableMiss
<1>6. SupportsPush(kind, p, o) =>
        Reliable(kind, p, o) /\ kind # "container" /\ Landed(kind, p, o) /\ ~Centred(o)
  BY DEF SupportsPush
<1>7. PreserveState(kind, p, o) =>
        /\ ~Placed(kind, p, o) /\ ~ExplicitWrongIdentity(p, o) /\ ~VisiblyRecoverableMiss(kind, p, o)
        /\ ~Reliable(kind, p, o) \/ ~IdentityClear(kind, p, o)
  BY Zenon DEF PreserveState
<1> HIDE DEF rep
<1>8. /\ rep.preserve => ~rep.ok /\ ~rep.reliable /\ ~rep.push /\ ~rep.visible /\ ~rep.wrong
      /\ rep.ok => rep.reliable /\ ~rep.push /\ ~rep.visible /\ ~rep.wrong
      /\ rep.push => rep.reliable /\ ~rep.visible /\ ~rep.wrong
  BY <1>1, <1>2, <1>3, <1>4, <1>5, <1>6, <1>7, Zenon
<1> QED
  BY <1>8 DEF rep
=============================================================================
