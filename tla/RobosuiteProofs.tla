--------------------------- MODULE RobosuiteProofs ---------------------------
(***************************************************************************)
(* What holds of a Robosuite evaluation for any number of episodes,        *)
(* processes, slots, attempts, calls and faults.                           *)
(***************************************************************************)
EXTENDS Robosuite, TLAPS

Positions == {"none", "waiting", "sending", "answered"} \cup Unanswered
Requests  == {<<>>} \cup ((Episodes \cup {0}) \X Nat)
Asked     == [at : Positions, request : Requests, attempt : Nat]
Working   == [at : {"idle", "reset", "policy"}, episode : Episodes \cup {0}, calls : Nat]

\* What the argument needs of the types.
Shape ==
    /\ ask \in [Callers -> Asked] /\ worker \in [Callers -> Working]
    /\ job \in [Episodes -> {"done", "queued", "running", "row", "cancelled"}]
    /\ DOMAIN record = Episodes
    /\ terminal \in [Callers -> BOOLEAN] /\ unanswered \in [Callers -> BOOLEAN]

\* Only a running policy has a call; a call that got no answer has left its
\* mark in the counters of the process, and the mark stays until the next
\* episode is set up.
Marked ==
    \A p \in Callers :
        /\ worker[p].at # "policy" => ask[p].at = "none"
        /\ worker[p].at = "reset" => ~unanswered[p]
        /\ ask[p].at \in Unanswered => terminal[p]
        /\ worker[p].at = "policy" /\ unanswered[p] => terminal[p]

\* The processes at work run different episodes, all of them still running.
Busy ==
    \A p \in Callers : worker[p].at # "idle" =>
        /\ worker[p].episode \in Episodes /\ job[worker[p].episode] = "running"
        /\ \A q \in Callers : q # p /\ worker[q].at # "idle" =>
                                worker[q].episode # worker[p].episode

Inv == Shape /\ Marked /\ Busy /\ ScoredClean

-----------------------------------------------------------------------------
\* ---- records of calls and of processes ----

LEMMA CallMoves ==
  ASSUME NEW c \in Asked, NEW there \in Positions
  PROVE  [c EXCEPT !.at = there] \in Asked /\ [c EXCEPT !.at = there].at = there
  BY DEF Asked

LEMMA NoCallTyped == NoCall \in Asked /\ NoCall.at = "none"
  BY DEF NoCall, Asked, Requests, Positions

LEMMA WorkMoves ==
  ASSUME NEW w \in Working, NEW there \in {"idle", "reset", "policy"}
  PROVE  /\ [w EXCEPT !.at = there] \in Working /\ [w EXCEPT !.at = there].at = there
         /\ [w EXCEPT !.at = there].episode = w.episode
         /\ [w EXCEPT !.calls = w.calls + 1] \in Working
         /\ [w EXCEPT !.calls = w.calls + 1].at = w.at
         /\ [w EXCEPT !.calls = w.calls + 1].episode = w.episode
  BY DEF Working

LEMMA IdleTyped == Idle \in Working /\ Idle.at = "idle"
  BY DEF Idle, Working

-----------------------------------------------------------------------------
\* ---- the initial state ----

LEMMA Initially == Init => Inv
<1> SUFFICES ASSUME Init PROVE Inv
  OBVIOUS
<1>1. Shape
  BY NoCallTyped, IdleTyped DEF Init, AccessInit, Shape, Free, NoJob
<1>2. Marked
  BY NoCallTyped, IdleTyped DEF Init, AccessInit, Marked, Free, Unanswered
<1>3. Busy
  BY IdleTyped DEF Init, Busy, Free
<1>4. ScoredClean
  BY DEF Init, ScoredClean, Completed, Valid, NoRecord
<1> QED
  BY <1>1, <1>2, <1>3, <1>4 DEF Inv

-----------------------------------------------------------------------------
\* ---- a row ----

\* The row a process writes counts as complete only if every call of its
\* episode was answered: an unanswered call shows in the counters, and the
\* counters make the row an abort or an infrastructure error.
LEMMA RowIsHonest ==
  ASSUME Inv, NEW p \in Callers, NEW infra \in BOOLEAN, NEW said \in {"", "quota", "unavailable"},
         worker[p].at = "policy" \/ infra,
         Valid(Row(p, infra, said))
  PROVE  Row(p, infra, said).clean
<1>1. ~infra /\ ~terminal[p]
  BY DEF Valid, Row, Inv, Shape
<1>2. ~unanswered[p] /\ ask[p].at \notin Unanswered
  BY <1>1 DEF Inv, Marked
<1> QED
  BY <1>2 DEF Row

\* Writing such a row and going idle keeps the invariant.
LEMMA Closing ==
  ASSUME Inv, NEW p \in Callers, NEW infra \in BOOLEAN, NEW said \in {"", "quota", "unavailable"},
         worker[p].at = "policy" \/ (worker[p].at = "reset" /\ infra),
         Close(p, Row(p, infra, said))
  PROVE  Inv'
<1>1. Shape'
  BY NoCallTyped, IdleTyped DEF Inv, Shape, Close
<1>2. Marked'
  BY NoCallTyped, IdleTyped DEF Inv, Shape, Marked, Close, Unanswered
<1>3. ScoredClean'
  <2> SUFFICES ASSUME NEW e \in Episodes, Valid(record'[e])
               PROVE  record'[e].clean
    BY DEF ScoredClean, Completed, Valid
  <2>1. CASE e = worker[p].episode
    <3>1. record'[e] = Row(p, infra, said)
      BY <2>1 DEF Close, Inv, Shape
    <3> QED
      BY <3>1, RowIsHonest
  <2>2. CASE e # worker[p].episode
    <3>1. record'[e] = record[e]
      BY <2>2 DEF Close, Inv, Shape
    <3> QED
      BY <3>1 DEF Inv, ScoredClean, Completed, Valid
  <2> QED
    BY <2>1, <2>2
<1>4. Busy'
  <2>1. worker[p].at # "idle"
    OBVIOUS
  <2> QED
    BY <2>1, IdleTyped DEF Inv, Shape, Busy, Close
<1> QED
  BY <1>1, <1>2, <1>3, <1>4 DEF Inv

-----------------------------------------------------------------------------
\* ---- steps that write no row ----

\* No other step makes an episode complete.
LEMMA RecordKept ==
  ASSUME ScoredClean, record' = record
  PROVE  ScoredClean'
  BY DEF ScoredClean, Completed, Valid

\* Processes that go on with their episodes, or stop, stay on different ones.
LEMMA BusyKept ==
  ASSUME Busy,
         \A p \in Callers :
            \/ worker'[p].at = "idle"
            \/ worker[p].at # "idle" /\ worker'[p].episode = worker[p].episode,
         \A e \in Episodes : job[e] = "running" => job'[e] = "running"
  PROVE  Busy'
  BY DEF Busy

\* Moving records away makes no episode complete.
LEMMA Clearing ==
  ASSUME Inv, NEW es \in SUBSET Episodes, record' = Cleared(es)
  PROVE  DOMAIN record' = Episodes /\ ScoredClean'
  BY DEF Inv, ScoredClean, Cleared, Completed, Valid, NoRecord

LEMMA Archiving == ASSUME Inv, Archive PROVE Inv'
<1>1. DOMAIN record' = Episodes /\ ScoredClean'
  BY Clearing DEF Archive, Invalid
<1>2. Shape'
  BY <1>1, NoCallTyped, IdleTyped DEF Inv, Shape, Archive, Free
<1>3. Marked'
  BY NoCallTyped, IdleTyped DEF Marked, Archive, Free, Unanswered
<1>4. Busy'
  BY IdleTyped DEF Busy, Archive, Free
<1> QED
  BY <1>1, <1>2, <1>3, <1>4 DEF Inv

\* Between launches only records move.
LEMMA Launching ==
  ASSUME Inv, Launch \/ Rejected \/ KilledWriting \/ Edit \/ KilledArchiving
  PROVE  Inv'
<1>1. /\ UNCHANGED <<accessvars, job, worker, unanswered>>
      /\ UNCHANGED record \/ \E es \in SUBSET Episodes : record' = Cleared(es)
  BY DEF Launch, Rejected, KilledWriting, Edit, KilledArchiving, Invalid
<1>2. DOMAIN record' = Episodes /\ ScoredClean'
  BY <1>1, Clearing, RecordKept DEF Inv, Shape
<1>3. Shape' /\ Marked' /\ Busy'
  BY <1>1, <1>2, BusyKept DEF Inv, Shape, Marked, accessvars
<1> QED
  BY <1>2, <1>3 DEF Inv

LEMMA Taking == ASSUME Inv, NEW p \in Callers, NEW e \in Episodes, Take(p, e) PROVE Inv'
<1> DEFINE taken == [at |-> "reset", episode |-> e, calls |-> 0]
<1>1. taken \in Working /\ taken.at = "reset"
  BY DEF Working
<1>2. Shape'
  BY <1>1 DEF Inv, Shape, Take, accessvars
<1>3. Marked'
  BY <1>1 DEF Inv, Shape, Marked, Take, accessvars, Unanswered
<1>4. worker' = [worker EXCEPT ![p] = taken] /\ taken.episode = e
  BY DEF Take
<1> HIDE DEF taken
<1>5. Busy'
  BY <1>1, <1>4 DEF Inv, Shape, Busy, Take
<1> QED
  BY <1>2, <1>3, <1>5, RecordKept DEF Inv, Take

LEMMA Beginning == ASSUME Inv, NEW p \in Callers, Begin(p) PROVE Inv'
<1>1. worker'[p] \in Working /\ worker'[p].at = "policy"
  BY WorkMoves DEF Inv, Shape, Begin
<1>2. Shape'
  BY <1>1 DEF Inv, Shape, Begin, ResetStats
<1>3. Marked'
  BY <1>1 DEF Inv, Shape, Marked, Begin, ResetStats, Unanswered
<1>6. Busy'
  <2>1. worker[p].at # "idle" /\ worker'[p].episode = worker[p].episode
    BY WorkMoves DEF Inv, Shape, Begin
  <2>2. \A q \in Callers : q # p => worker'[q] = worker[q]
    BY DEF Inv, Shape, Begin
  <2> QED
    BY <2>1, <2>2, BusyKept DEF Inv, Begin
<1> QED
  BY <1>2, <1>3, <1>6, RecordKept DEF Inv, Begin

LEMMA Querying == ASSUME Inv, NEW p \in Callers, Query(p) PROVE Inv'
<1> DEFINE request == <<worker[p].episode, worker[p].calls>>
           asked == [at |-> IF request \in cache THEN "answered" ELSE "waiting",
                     request |-> request, attempt |-> 1]
<1>1. worker'[p] \in Working /\ worker'[p].at = "policy"
  BY WorkMoves DEF Inv, Shape, Query
<1>2. asked \in Asked /\ asked.at \notin Unanswered
  <2>1. request \in Requests
    BY DEF Inv, Shape, Working, Requests
  <2> QED
    BY <2>1 DEF Asked, Positions, Unanswered
<1>3. ask' = [ask EXCEPT ![p] = asked]
  BY DEF Query, Ask
<1> HIDE DEF asked
<1>4. Shape'
  BY <1>1, <1>2, <1>3 DEF Inv, Shape, Query, Ask
<1>5. Marked'
  BY <1>1, <1>2, <1>3 DEF Inv, Shape, Marked, Query, Ask
<1>6. Busy'
  <2>1. worker[p].at # "idle" /\ worker'[p].episode = worker[p].episode
    BY WorkMoves DEF Inv, Shape, Query
  <2>2. \A q \in Callers : q # p => worker'[q] = worker[q]
    BY DEF Inv, Shape, Query
  <2> QED
    BY <2>1, <2>2, BusyKept DEF Inv, Query
<1> QED
  BY <1>4, <1>5, <1>6, RecordKept DEF Inv, Query

LEMMA GoingOn == ASSUME Inv, NEW p \in Callers, GoOn(p) PROVE Inv'
<1>1. Shape'
  BY NoCallTyped DEF Inv, Shape, GoOn
<1>2. Marked'
  BY NoCallTyped DEF Inv, Shape, Marked, GoOn, Unanswered
<1>3. Busy'
  BY BusyKept DEF Inv, GoOn
<1> QED
  BY <1>1, <1>2, <1>3, RecordKept DEF Inv, GoOn

\* A call in flight moves: an answer it does not get is counted as it fails.
LEMMA Calling ==
  ASSUME Inv, NEW p \in Callers, Elsewhere, CallStep(p) \/ Transient(p) \/ Refuse(p)
  PROVE  Inv'
<1>1. ask[p] \in Asked /\ ask[p].at \in {"waiting", "sending"}
  BY DEF CallStep, Acquire, Reply, Transient, Refuse, Inv, Shape
<1>2. worker[p].at = "policy"
  BY <1>1 DEF Inv, Marked
<1>3. PICK c \in Asked :
        /\ ask' = [ask EXCEPT ![p] = c]
        /\ c.at \in Unanswered => terminal'[p]
  <2>1. CASE Acquire(p)
    BY <2>1, <1>1, CallMoves DEF Acquire, Positions, Unanswered
  <2>2. CASE Reply(p)
    BY <2>2, <1>1, CallMoves DEF Reply, Positions, Unanswered
  <2>3. CASE Transient(p)
    <3>1. CASE ask[p].attempt < Attempts
      <4> DEFINE again == [ask[p] EXCEPT !.at = "waiting", !.attempt = @ + 1]
      <4>1. ask[p].attempt + 1 \in Nat
        BY <1>1 DEF Asked
      <4>2. again \in Asked /\ again.at = "waiting"
        BY <4>1, <1>1 DEF Asked, Positions
      <4>3. ask' = [ask EXCEPT ![p] = again]
        BY <2>3, <3>1 DEF Transient, Inv, Shape
      <4> HIDE DEF again
      <4> QED
        BY <4>2, <4>3 DEF Unanswered
    <3>2. CASE ~(ask[p].attempt < Attempts)
      BY <2>3, <3>2, <1>1, CallMoves DEF Transient, Positions, Unanswered, Inv, Shape
    <3> QED
      BY <3>1, <3>2
  <2>4. CASE Refuse(p)
    BY <2>4, <1>1, CallMoves DEF Refuse, Positions, Unanswered, Inv, Shape
  <2> QED
    BY <2>1, <2>2, <2>3, <2>4 DEF CallStep
<1>4. /\ terminal' \in [Callers -> BOOLEAN]
      /\ \A q \in Callers : terminal[q] => terminal'[q]
  BY DEF CallStep, Acquire, Reply, Transient, Refuse, Inv, Shape
<1>5. Shape'
  BY <1>3, <1>4 DEF Inv, Shape, Elsewhere, evalvars, mainvars
<1>6. Marked'
  BY <1>2, <1>3, <1>4 DEF Inv, Shape, Marked, Elsewhere, evalvars, mainvars
<1>7. Busy'
  BY BusyKept DEF Inv, Elsewhere, evalvars, mainvars
<1> QED
  BY <1>5, <1>6, <1>7, RecordKept DEF Inv, Elsewhere, evalvars, mainvars

\* The pool closes when no episode runs any more, so no process is at work.
LEMMA Concluding == ASSUME Inv, Conclude PROVE Inv'
<1>1. \A p \in Callers : worker[p].at = "idle"
  BY DEF Inv, Busy, Conclude, Settled
<1>2. Shape'
  BY IdleTyped DEF Inv, Shape, Conclude, Free, accessvars
<1>3. Marked'
  BY <1>1, IdleTyped DEF Inv, Marked, Conclude, Free, accessvars, Unanswered
<1>4. Busy'
  BY IdleTyped DEF Busy, Conclude, Free
<1> QED
  BY <1>2, <1>3, <1>4, RecordKept DEF Inv, Conclude

LEMMA Dying == ASSUME Inv, Kill PROVE Inv'
<1>1. Shape'
  BY NoCallTyped, IdleTyped DEF Inv, Shape, Kill, Free, NoJob
<1>2. Marked'
  BY NoCallTyped, IdleTyped DEF Marked, Kill, Free, Unanswered
<1>3. Busy'
  BY IdleTyped DEF Busy, Kill, Free
<1> QED
  BY <1>1, <1>2, <1>3, RecordKept DEF Inv, Kill

\* A row that is looked at cancels queued episodes only.
LEMMA Seeing == ASSUME Inv, NEW e \in Episodes, See(e) PROVE Inv'
<1>1. /\ job' \in [Episodes -> {"done", "queued", "running", "row", "cancelled"}]
      /\ \A f \in Episodes : job[f] = "running" => job'[f] = "running"
  <2>1. CASE Offends(record[e])
    <3>1. PICK kept \in SUBSET {f \in Episodes : job[f] = "queued"} :
            job' = [f \in Episodes |->
                       CASE f = e -> "done"
                         [] job[f] = "queued" /\ f \notin kept -> "cancelled"
                         [] OTHER -> job[f]]
      BY <2>1 DEF See
    <3>2. ASSUME NEW f \in Episodes
          PROVE  /\ job'[f] \in {"done", "queued", "running", "row", "cancelled"}
                 /\ job[f] = "running" => job'[f] = "running"
      BY <3>1 DEF See, Inv, Shape
    <3> QED
      BY <3>1, <3>2
  <2>2. CASE ~Offends(record[e])
    BY <2>2 DEF See, Inv, Shape
  <2> QED
    BY <2>1, <2>2
<1>2. Shape'
  BY <1>1 DEF Inv, Shape, See, accessvars
<1>3. Marked'
  BY DEF Inv, Marked, See, accessvars
<1>4. Busy'
  BY <1>1, BusyKept DEF Inv, See
<1> QED
  BY <1>2, <1>3, <1>4, RecordKept DEF Inv, See

-----------------------------------------------------------------------------
\* ---- the theorem ----

LEMMA Stepwise == ASSUME Inv, [Next]_vars PROVE Inv'
<1>1. CASE UNCHANGED vars
  BY <1>1, BusyKept, RecordKept
     DEF vars, accessvars, evalvars, mainvars, Inv, Shape, Marked
<1>2. ASSUME NEW p \in Callers, EpisodeStep(p) \/ ResetFails(p) \/ Deadline(p) PROVE Inv'
  <2>1. CASE ResetFails(p)
    BY <2>1, Closing DEF ResetFails
  <2>2. CASE Finish(p)
    BY <2>2, Closing DEF Finish
  <2>3. CASE Raise(p)
    BY <2>3, Closing DEF Raise
  <2>4. CASE Deadline(p)
    BY <2>4, Closing DEF Deadline
  <2> QED
    BY <1>2, <2>1, <2>2, <2>3, <2>4, Beginning, Querying, GoingOn DEF EpisodeStep
<1>3. ASSUME NEW e \in Episodes, See(e) \/ \E p \in Callers : Take(p, e) PROVE Inv'
  BY <1>3, Seeing, Taking
<1>4. ASSUME NEW p \in Callers, Elsewhere, CallStep(p) \/ Transient(p) \/ Refuse(p) PROVE Inv'
  BY <1>4, Calling
<1> QED
  BY <1>1, <1>2, <1>3, <1>4, Launching, Archiving, Concluding, Dying DEF Next

(* An episode one of whose model calls ended without an answer is never    *)
(* scored, for every number of processes, episodes and faults: the         *)
(* counters of llm.py outlive the exception a controller swallows.         *)
THEOREM ScoredCleanAlways == Spec => []ScoredClean
<1>1. Inv => ScoredClean
  BY DEF Inv
<1> QED
  BY Initially, Stepwise, <1>1, PTL DEF Spec

-----------------------------------------------------------------------------
\* ---- types ----

Recorded == [written : BOOLEAN, abort : {"", "quota", "unavailable"},
             infra : BOOLEAN, clean : BOOLEAN]

\* What Shape does not say of the variables of the main process.
Kept ==
    /\ main \in {"down", "archive", "pool", "closing"}
    /\ manifest \in {"absent", "whole", "torn"} /\ edited \in BOOLEAN
    /\ record \in [Episodes -> Recorded]
    /\ outcome \in {"none", "raised", "paused", "failed", "complete", "incomplete"}
    /\ offence \in {"", "abort", "infra"}
    /\ markers \subseteq {"COMPLETE", "ABORTED", "FAILED"}

LEMMA RowTyped ==
  ASSUME NEW p \in Callers, NEW infra \in BOOLEAN, NEW said \in {"", "quota", "unavailable"},
         terminal \in [Callers -> BOOLEAN], unanswered \in [Callers -> BOOLEAN]
  PROVE  Row(p, infra, said) \in Recorded
<1> DEFINE reason == CASE said # "" -> said [] quota[p] -> "quota" [] OTHER -> ""
           broken == infra \/ (reason = "" /\ terminal[p])
           answered == ~unanswered[p] /\ ask[p].at \notin Unanswered
<1>1. reason \in {"", "quota", "unavailable"}
  OBVIOUS
<1>2. TRUE \in BOOLEAN /\ broken \in BOOLEAN /\ answered \in BOOLEAN
  BY Zenon
<1>3. Row(p, infra, said) =
        [written |-> TRUE, abort |-> reason, infra |-> broken, clean |-> answered]
  BY Zenon DEF Row
<1> HIDE DEF reason, broken, answered
<1>4. [written |-> TRUE, abort |-> reason, infra |-> broken, clean |-> answered] \in Recorded
  BY <1>1, <1>2 DEF Recorded
<1> QED
  BY <1>3, <1>4

LEMMA NoRecordTyped == NoRecord \in Recorded
  BY Zenon DEF NoRecord, Recorded

\* Writing a row changes a record to another one.
LEMMA ClosingTyped ==
  ASSUME Inv, Kept, NEW p \in Callers, NEW infra \in BOOLEAN,
         NEW said \in {"", "quota", "unavailable"}, Close(p, Row(p, infra, said))
  PROVE  Kept'
<1>1. Row(p, infra, said) \in Recorded
  BY RowTyped DEF Inv, Shape
<1>2. record' \in [Episodes -> Recorded]
  BY <1>1 DEF Close, Kept
<1> QED
  BY <1>2 DEF Kept, Close, mainvars

\* The offence that closes the pool is told from the row.
LEMMA SeeingTyped == ASSUME Kept, NEW e \in Episodes, See(e) PROVE Kept'
<1>1. CASE Offends(record[e])
  BY <1>1 DEF Kept, See
<1>2. CASE ~Offends(record[e])
  BY <1>2 DEF Kept, See
<1> QED
  BY <1>1, <1>2

\* The evaluator ends with one of its four verdicts and leaves their markers.
LEMMA ConcludingTyped == ASSUME Kept, Conclude PROVE Kept'
<1>1. Verdict \in {"paused", "failed", "complete", "incomplete"}
  BY DEF Verdict
<1>2. Marker[Verdict] \subseteq {"COMPLETE", "ABORTED", "FAILED"}
  BY <1>1 DEF Marker
<1> QED
  BY <1>1, <1>2 DEF Kept, Conclude

LEMMA KeptStepwise == ASSUME Inv, Kept, [Next]_vars PROVE Kept'
<1>1. CASE UNCHANGED vars
  BY <1>1 DEF vars, evalvars, mainvars, Kept
<1>2. CASE Launch \/ Rejected \/ KilledWriting \/ Edit \/ Archive \/ KilledArchiving
  <2>1. record' \in [Episodes -> Recorded]
    BY <1>2, NoRecordTyped
       DEF Launch, Rejected, KilledWriting, Edit, Archive, KilledArchiving, Cleared, Kept
  <2>2. markers' \subseteq {"COMPLETE", "ABORTED", "FAILED"}
    BY <1>2 DEF Launch, Rejected, KilledWriting, Edit, Archive, KilledArchiving, Kept
  <2>3. /\ manifest' \in {"absent", "whole", "torn"} /\ edited' \in BOOLEAN
        /\ main' \in {"down", "archive", "pool", "closing"} /\ offence' \in {"", "abort", "infra"}
        /\ outcome' \in {"none", "raised", "paused", "failed", "complete", "incomplete"}
    BY <1>2 DEF Launch, Rejected, KilledWriting, Edit, Archive, KilledArchiving, Kept
  <2> QED
    BY <2>1, <2>2, <2>3 DEF Kept
<1>3. CASE Conclude
  BY <1>3, ConcludingTyped
<1>4. CASE Kill
  BY <1>4 DEF Kill, Kept
<1>5. ASSUME NEW e \in Episodes, See(e) PROVE Kept'
  BY <1>5, SeeingTyped
<1>6. ASSUME NEW e \in Episodes, NEW p \in Callers, Take(p, e) PROVE Kept'
  BY <1>6 DEF Take, mainvars, Kept
<1>7. ASSUME NEW p \in Callers, EpisodeStep(p) \/ ResetFails(p) \/ Deadline(p) PROVE Kept'
  <2>1. CASE Begin(p) \/ Query(p) \/ GoOn(p)
    BY <2>1 DEF Begin, Query, GoOn, mainvars, Kept
  <2>2. CASE ResetFails(p)
    BY <2>2, ClosingTyped DEF ResetFails
  <2>3. CASE Finish(p)
    BY <2>3, ClosingTyped DEF Finish
  <2>4. CASE Raise(p)
    BY <2>4, ClosingTyped DEF Raise
  <2>5. CASE Deadline(p)
    BY <2>5, ClosingTyped DEF Deadline
  <2> QED
    BY <1>7, <2>1, <2>2, <2>3, <2>4, <2>5 DEF EpisodeStep
<1>8. CASE Elsewhere
  BY <1>8 DEF Elsewhere, evalvars, mainvars, Kept
<1> QED
  BY <1>1, <1>2, <1>3, <1>4, <1>5, <1>6, <1>7, <1>8 DEF Next

(* The types of the evaluator's variables: a record that a worker wrote,   *)
(* whatever its policy said and however its calls ended, a pool that is    *)
(* closed in any order, and one of the outcomes evaluate can have.         *)
THEOREM RobosuiteTypeCorrect == Spec => []TypeOK
<1>1. Init => Kept
  BY NoRecordTyped DEF Init, Kept
<1>2. Inv /\ Kept => TypeOK
  BY DEF Inv, Shape, Kept, Recorded, TypeOK
<1> QED
  BY <1>1, <1>2, Initially, Stepwise, KeptStepwise, PTL DEF Spec
=============================================================================
