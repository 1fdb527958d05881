-------------------------- MODULE SchedulerProofs --------------------------
(* Proofs about Scheduler, for every curriculum and configuration. *)
EXTENDS Scheduler, TLAPS

(* What the operators on stage_states keep. *)
Progress == [Stages -> StageState]
SameBases(p, q) == \A t \in Stages: q[t].base = p[t].base

(* The record of one stage: its counters, *)
LEMMA CountersCount ==
  ASSUME NEW r \in StageState
  PROVE  /\ r.requests \in Nat /\ r.visits \in Nat /\ r.streak \in Nat
         /\ r.requests + 1 \in Nat /\ r.visits + 1 \in Nat /\ r.streak + 1 \in Nat
         /\ r.requests + 1 > 0
         /\ Decremented(r.requests) \in Nat
<1>1. r.requests \in Nat /\ r.visits \in Nat /\ r.streak \in Nat
  BY DEF StageState
<1>2. QED
  BY <1>1 DEF Decremented

(* after a revisit request, *)
LEMMA RequestAssigned ==
  ASSUME NEW r \in StageState, NEW n \in Nat
  PROVE  LET q == [r EXCEPT !.requests = n]
         IN  q \in StageState /\ q.base = r.base /\ q.requests = n
  BY DEF StageState

(* and with a new status as well. *)
LEMMA RevisitAssigned ==
  ASSUME NEW r \in StageState, NEW n \in Nat, NEW status \in Statuses
  PROVE  LET q == [r EXCEPT !.status = status, !.requests = n]
         IN  q \in StageState /\ q.base = r.base /\ q.requests = n
  BY DEF StageState

(* observe_attempt keeps every baseline and no request is withdrawn. *)
LEMMA AttemptedKeeps ==
  ASSUME NEW p \in Progress, NEW s \in Stages, NEW gain \in BOOLEAN, NEW novel \in BOOLEAN,
         NEW related \in SUBSET Stages
  PROVE  /\ Attempted(p, s, gain, novel, related) \in Progress
         /\ SameBases(p, Attempted(p, s, gain, novel, related))
         /\ \A t \in Stages: p[t].requests > 0
              => Attempted(p, s, gain, novel, related)[t].requests > 0
<1> DEFINE tried == [p[s] EXCEPT !.visits = @ + 1, !.streak = IF gain THEN 0 ELSE @ + 1,
                                 !.status = IF gain THEN "productive" ELSE "active",
                                 !.gained = gain, !.novel = novel]
           asked(t) == [p[t] EXCEPT !.requests = @ + 1]
<1>1. \A t \in Stages: p[t] \in StageState
  BY DEF Progress
<1>2. tried \in StageState /\ tried.base = p[s].base /\ tried.requests = p[s].requests
  <2> DEFINE visits == p[s].visits + 1
             streak == IF gain THEN 0 ELSE p[s].streak + 1
             status == IF gain THEN "productive" ELSE "active"
  <2>1. visits \in Nat /\ streak \in Nat /\ status \in Statuses /\ p[s] \in StageState
    BY <1>1, CountersCount DEF Statuses
  <2>2. tried = [p[s] EXCEPT !.visits = visits, !.streak = streak, !.status = status,
                             !.gained = gain, !.novel = novel]
    OBVIOUS
  <2> HIDE DEF tried, visits, streak, status
  <2>3. QED
    BY <2>1, <2>2 DEF StageState
<1>3. \A t \in Stages: /\ asked(t) \in StageState
                       /\ asked(t).base = p[t].base
                       /\ asked(t).requests = p[t].requests + 1
                       /\ p[t].requests \in Nat
  <2> TAKE t \in Stages
  <2>1. p[t] \in StageState /\ p[t].requests \in Nat /\ p[t].requests + 1 \in Nat
    BY <1>1, CountersCount
  <2>2. QED
    BY <2>1, RequestAssigned
<1>4. Attempted(p, s, gain, novel, related)
        = [t \in Stages |-> IF t = s THEN tried ELSE IF t \in related THEN asked(t) ELSE p[t]]
  BY DEF Attempted
<1> HIDE DEF tried, asked
<1>5. QED
  BY <1>1, <1>2, <1>3, <1>4 DEF Progress, SameBases

(* observe_baseline changes its own stage only. *)
LEMMA BaselineKeeps ==
  ASSUME NEW p \in Progress, NEW s \in Stages, NEW n \in 0..Expected, champion \in Nat
  PROVE  /\ WithBaseline(p, s, n) \in Progress
         /\ WithBaseline(p, s, n)[s].base = [commit |-> champion, native |-> n]
         /\ \A t \in Stages \ {s}: WithBaseline(p, s, n)[t] = p[t]
<1> DEFINE base == [commit |-> champion, native |-> n]
           measured == [p[s] EXCEPT !.status = "active", !.base = base]
<1>1. p[s] \in StageState
  BY DEF Progress
<1>2. base \in Baseline
  BY DEF Baseline
<1>3. measured \in StageState /\ measured.base = base
  <2> HIDE DEF base
  <2>1. QED
    BY <1>1, <1>2 DEF StageState, Statuses
<1>4. WithBaseline(p, s, n) = [p EXCEPT ![s] = measured]
  BY DEF WithBaseline
<1> HIDE DEF measured
<1>5. QED
  BY <1>3, <1>4 DEF Progress

(* A rejected candidate changes a status only. *)
LEMMA BlockedKeeps ==
  ASSUME NEW p \in Progress, NEW s \in Stages
  PROVE  /\ Blocked(p, s) \in Progress
         /\ SameBases(p, Blocked(p, s))
         /\ \A t \in Stages: Blocked(p, s)[t].requests = p[t].requests
  BY DEF Progress, StageState, Statuses, Blocked, SameBases

(* A promotion leaves every stage with fresh evidence or with a request. *)
LEMMA AdoptedRequests ==
  ASSUME NEW p \in Progress, NEW s \in Stages, NEW commit \in Nat, NEW n \in 0..Expected
  PROVE  /\ Adopted(p, s, commit, n) \in Progress
         /\ Adopted(p, s, commit, n)[s].base = [commit |-> commit, native |-> n]
         /\ \A t \in Stages \ {s}: Adopted(p, s, commit, n)[t].base = p[t].base
         /\ \A t \in Stages: LET q == Adopted(p, s, commit, n)[t]
                             IN  q.base = None \/ q.base.commit = commit \/ q.requests > 0
<1> DEFINE fresh == [p[s] EXCEPT !.base = [commit |-> commit, native |-> n]]
           stale(t) == [p[t] EXCEPT !.status = "revisit", !.requests = @ + 1]
<1>1. \A t \in Stages: p[t] \in StageState
  BY DEF Progress
<1>2. fresh \in StageState /\ fresh.base = [commit |-> commit, native |-> n]
  BY <1>1 DEF StageState, Baseline
<1>3. \A t \in Stages: /\ stale(t) \in StageState
                       /\ stale(t).base = p[t].base
                       /\ stale(t).requests > 0
  <2> TAKE t \in Stages
  <2>1. p[t] \in StageState /\ p[t].requests + 1 \in Nat /\ p[t].requests + 1 > 0
    BY <1>1, CountersCount
  <2>2. "revisit" \in Statuses
    BY DEF Statuses
  <2>3. QED
    BY <2>1, <2>2, RevisitAssigned
<1>4. Adopted(p, s, commit, n)
        = [t \in Stages |->
             IF t = s THEN fresh
             ELSE IF p[t].base # None /\ p[t].base.commit # commit THEN stale(t) ELSE p[t]]
  BY DEF Adopted
<1> HIDE DEF fresh, stale
<1>5. QED
  BY <1>1, <1>2, <1>3, <1>4 DEF Progress

(* choose() keeps every baseline, and the requests of all but its choice. *)
LEMMA ChoiceKeeps ==
  ASSUME NEW p \in Progress, NEW s \in Stages, NEW t \in Stages
  PROVE  /\ Kept(p, s) \in Progress
         /\ SameBases(p, Kept(p, s))
         /\ \A u \in Stages: Kept(p, s)[u].requests = p[u].requests
         /\ s # t => /\ Moved(p, s, t) \in Progress
                     /\ SameBases(p, Moved(p, s, t))
                     /\ \A u \in Stages \ {t}: Moved(p, s, t)[u].requests = p[u].requests
<1> DEFINE as(u, status) == [p[u] EXCEPT !.status = status]
           served == [p[t] EXCEPT !.status = "revisit", !.requests = Decremented(@)]
<1>1. \A u \in Stages: p[u] \in StageState
  BY DEF Progress
<1>2. \A u \in Stages, status \in Statuses: /\ as(u, status) \in StageState
                                           /\ as(u, status).base = p[u].base
                                           /\ as(u, status).requests = p[u].requests
  BY <1>1 DEF StageState
<1>3. served \in StageState /\ served.base = p[t].base
  <2>1. p[t] \in StageState /\ Decremented(p[t].requests) \in Nat
    BY <1>1, CountersCount
  <2>2. "revisit" \in Statuses
    BY DEF Statuses
  <2>3. QED
    BY <2>1, <2>2, RevisitAssigned
<1>4. "active" \in Statuses /\ "dormant" \in Statuses
  BY DEF Statuses
<1>5. Kept(p, s) \in {p, [p EXCEPT ![s] = as(s, "active")]}
  BY DEF Kept
<1>6. s # t => \A u \in Stages: Moved(p, s, t)[u] \in
                 IF u = s THEN {p[u], as(u, "dormant")}
                 ELSE IF u = t THEN {as(u, "active"), served}
                 ELSE {p[u]}
  BY DEF Moved
<1>7. Moved(p, s, t) = [u \in Stages |-> Moved(p, s, t)[u]]
  BY DEF Moved
<1> HIDE DEF as, served
<1>8. Kept(p, s) \in Progress /\ SameBases(p, Kept(p, s))
      /\ \A u \in Stages: Kept(p, s)[u].requests = p[u].requests
  BY <1>1, <1>2, <1>4, <1>5 DEF Progress, SameBases
<1>9. ASSUME s # t
      PROVE  /\ \A u \in Stages: Moved(p, s, t)[u] \in StageState
             /\ SameBases(p, Moved(p, s, t))
             /\ \A u \in Stages \ {t}: Moved(p, s, t)[u].requests = p[u].requests
  BY <1>1, <1>2, <1>3, <1>4, <1>6, <1>9 DEF SameBases
<1>10. s # t => Moved(p, s, t) \in Progress
  BY <1>7, <1>9 DEF Progress
<1>11. QED
  BY <1>8, <1>9, <1>10

(* choose() selects the current stage or an eligible one. *)
LEMMA ChoicesEligible ==
  ASSUME NEW p, NEW s \in Stages, NEW t \in Choices(p, s)
  PROVE  t \in Stages /\ (t = s \/ t \in Eligible(p))
  BY DEF Choices, Unseen, Eligible, Observed

(* _schedule_next as a whole. *)
LEMMA ScheduleKeeps ==
  ASSUME NEW p \in Progress, stage \in Stages, ScheduleNext(p)
  PROVE  /\ progress' \in Progress
         /\ SameBases(p, progress')
         /\ next' \in Stages
         /\ stage' = next'
         /\ next' = stage \/ (~pinned /\ next' \in Eligible(p))
         /\ at' = IF next' = stage THEN "attempt" ELSE "baseline"
         /\ \A u \in Stages \ {next'}: progress'[u].requests = p[u].requests
<1>1. PICK t \in IF pinned THEN {stage} ELSE Choices(p, stage):
        /\ progress' = IF pinned THEN p
                       ELSE IF t = stage THEN Kept(p, stage) ELSE Moved(p, stage, t)
        /\ next' = t
        /\ stage' = t
        /\ at' = IF t = stage THEN "attempt" ELSE "baseline"
  BY DEF ScheduleNext
<1>2. CASE pinned
  BY <1>1, <1>2 DEF SameBases
<1>3. CASE ~pinned
  <2>1. t \in Choices(p, stage)
    BY <1>1, <1>3
  <2>2. t \in Stages /\ (t = stage \/ t \in Eligible(p))
    BY <2>1, ChoicesEligible
  <2>3. CASE t = stage
    BY <1>1, <1>3, <2>2, <2>3, ChoiceKeeps
  <2>4. CASE t # stage
    <3>1. /\ Moved(p, stage, t) \in Progress
          /\ SameBases(p, Moved(p, stage, t))
          /\ \A u \in Stages \ {t}: Moved(p, stage, t)[u].requests = p[u].requests
      BY <2>2, <2>4, ChoiceKeeps
    <3>2. progress' = Moved(p, stage, t) /\ next' = t /\ stage' = t /\ at' = "baseline"
      BY <1>1, <1>3, <2>4
    <3>3. QED
      BY <1>3, <2>2, <2>4, <3>1, <3>2
  <2>5. QED
    BY <2>3, <2>4
<1>4. QED
  BY <1>2, <1>3
-----------------------------------------------------------------------------
(* What holds at each position of a session.  An attempt has the champion's  *)
(* own evidence of its stage, and an automatic session works on the stage of *)
(* the checkpoint.                                                           *)
SessionInv ==
  /\ at = "attempt" => BaselineStored /\ next = stage
  /\ at # "down" /\ ~pinned => stage = next
  /\ pinned => pins > 0

(* The stage of the checkpoint may be measured: what pinned sessions leave   *)
(* there has been measured.                                                  *)
NextInv == next = StartStage \/ next \in Eligible(progress)

(* The inductive invariant. *)
IInv == TypeOK /\ SessionInv /\ NextInv /\ StaleRequested

(* Eligibility only reads which stages have a baseline, and grows with them. *)
LEMMA EligibleGrows ==
  ASSUME NEW p, NEW q, Observed(p) \subseteq Observed(q)
  PROVE  Eligible(p) \subseteq Eligible(q)
  BY DEF Eligible

(* Steps that keep every baseline keep what was observed. *)
LEMMA SameObserved ==
  ASSUME NEW p, NEW q, SameBases(p, q)
  PROVE  Observed(q) = Observed(p)
  BY DEF SameBases, Observed

(* The invariant holds initially. *)
LEMMA InitIInv == Init => IInv
<1> SUFFICES ASSUME Init PROVE IInv
  OBVIOUS
<1> USE CurriculumAssumption, ConfigAssumption
<1>1. TypeOK
  <2>1. NewStageState \in StageState
    BY DEF NewStageState, StageState, Statuses
  <2>2. progress \in [Stages -> StageState]
    BY <2>1 DEF Init
  <2>3. pinned \in BOOLEAN
    BY Zenon DEF Init
  <2>4. QED
    BY <2>2, <2>3 DEF Init, TypeOK
<1>2. SessionInv /\ NextInv /\ StaleRequested
  BY DEF Init, SessionInv, NextInv, StaleRequested, Observed, NewStageState
<1>3. QED
  BY <1>1, <1>2 DEF IInv

(* An attempt's step, given what the attempt made of stage_states: evidence  *)
(* that is not the next champion's has a request.                            *)
LEMMA ScheduledInv ==
  ASSUME IInv, at = "attempt", NEW p \in Progress, ScheduleNext(p),
         champion' \in Nat, iteration' \in 0..MaxIteration, faults' \in 0..MaxFaults,
         UNCHANGED pinned, UNCHANGED pins,
         Observed(p) = Observed(progress),
         p[stage].base # None,
         p[stage].base.commit = champion',
         pins = 0 => \A t \in Stages \ {stage}:
           p[t].base = None \/ p[t].base.commit = champion' \/ p[t].requests > 0
  PROVE  IInv' /\ Observed(progress)' = Observed(progress)
<1>1. stage \in Stages /\ pinned' \in BOOLEAN /\ pins' \in 0..MaxPins
  BY DEF IInv, TypeOK
<1>2. /\ progress' \in Progress
      /\ SameBases(p, progress')
      /\ next' \in Stages
      /\ stage' = next'
      /\ next' = stage \/ (~pinned /\ next' \in Eligible(p))
      /\ at' = IF next' = stage THEN "attempt" ELSE "baseline"
      /\ \A u \in Stages \ {next'}: progress'[u].requests = p[u].requests
  BY <1>1, ScheduleKeeps
<1>3. Observed(progress)' = Observed(progress)
  BY <1>2, SameObserved DEF Observed
<1>4. TypeOK'
  <2>1. next' \in Stages /\ stage' \in Stages /\ at' \in {"down", "baseline", "attempt"}
    BY <1>2
  <2>2. QED
    BY <1>1, <1>2, <2>1 DEF TypeOK, Progress
<1>5. SessionInv'
  BY <1>1, <1>2 DEF IInv, SessionInv, BaselineStored, SameBases
<1>6. NextInv'
  <2>1. Eligible(progress)' = Eligible(progress) /\ Eligible(p) = Eligible(progress)
    BY <1>3 DEF Eligible
  <2>2. stage = next
    BY DEF IInv, SessionInv
  <2>3. QED
    BY <1>2, <2>1, <2>2 DEF IInv, NextInv
<1>7. StaleRequested'
  BY <1>1, <1>2 DEF StaleRequested, SameBases, Observed
<1>8. QED
  BY <1>3, <1>4, <1>5, <1>6, <1>7 DEF IInv
-----------------------------------------------------------------------------
(* An evaluated candidate measures no stage for the first time. *)
LEMMA FinishStep ==
  ASSUME IInv, FinishCandidate
  PROVE  IInv' /\ Observed(progress)' = Observed(progress)
<1> DEFINE Tried(novel, related, gain) == Attempted(progress, stage, gain, novel, related)
<1>1. PICK n \in 0..Expected, novel \in BOOLEAN,
           related \in SUBSET (Observed(progress) \ {stage}):
        LET gain == n > progress[stage].base.native
            p == Tried(novel, related, gain)
        IN  IF gain
            THEN /\ champion' = champion + 1
                 /\ ScheduleNext(Adopted(p, stage, champion + 1, n))
            ELSE /\ UNCHANGED champion
                 /\ ScheduleNext(p)
  BY DEF FinishCandidate
<1> DEFINE gain == n > progress[stage].base.native
           p == Tried(novel, related, gain)
           q == Adopted(p, stage, champion + 1, n)
<1>2. /\ at = "attempt" /\ progress \in Progress /\ stage \in Stages /\ champion \in Nat
      /\ iteration' \in 0..MaxIteration /\ faults' \in 0..MaxFaults
      /\ UNCHANGED pinned /\ UNCHANGED pins
  BY ConfigAssumption DEF FinishCandidate, StartIteration, IInv, TypeOK, Progress
<1>3. progress[stage].base # None /\ progress[stage].base.commit = champion
  BY <1>2 DEF IInv, SessionInv, BaselineStored
<1>4. related \in SUBSET Stages /\ gain \in BOOLEAN
  BY DEF Observed
<1>5. /\ p \in Progress
      /\ SameBases(progress, p)
      /\ \A t \in Stages: progress[t].requests > 0 => p[t].requests > 0
  BY <1>2, <1>4, AttemptedKeeps
<1>6. CASE gain
  <2>1. /\ q \in Progress
        /\ q[stage].base = [commit |-> champion + 1, native |-> n]
        /\ \A t \in Stages \ {stage}: q[t].base = p[t].base
        /\ \A t \in Stages: q[t].base = None \/ q[t].base.commit = champion + 1
                            \/ q[t].requests > 0
    <3> HIDE DEF p
    <3>1. champion + 1 \in Nat
      BY <1>2
    <3>2. QED
      BY <1>2, <1>5, <3>1, AdoptedRequests
  <2>2. q[stage].base # None
    BY <1>2, <2>1, NoneAssumption DEF Baseline
  <2>3. Observed(q) = Observed(progress)
    <3> HIDE DEF p, q
    <3>1. QED
      BY <1>3, <1>5, <2>1, <2>2 DEF Observed, SameBases
  <2>4. champion' = champion + 1 /\ ScheduleNext(q)
    BY <1>1, <1>6
  <2> HIDE DEF q
  <2>5. QED
    BY <1>2, <2>1, <2>2, <2>3, <2>4, ScheduledInv
<1>7. CASE ~gain
  <2>1. champion' = champion /\ ScheduleNext(p)
    BY <1>1, <1>7
  <2> HIDE DEF p
  <2>2. Observed(p) = Observed(progress)
    BY <1>5, SameObserved
  <2>3. p[stage].base # None /\ p[stage].base.commit = champion'
    BY <1>2, <1>3, <1>5, <2>1 DEF SameBases
  <2>4. pins = 0 => \A t \in Stages \ {stage}:
          p[t].base = None \/ p[t].base.commit = champion' \/ p[t].requests > 0
    BY <1>2, <1>5, <2>1 DEF IInv, SessionInv, StaleRequested, Observed, SameBases
  <2>5. QED
    BY <1>2, <1>5, <2>1, <2>2, <2>3, <2>4, ScheduledInv
<1>8. QED
  BY <1>6, <1>7

(* Neither does a rejected one. *)
LEMMA RejectStep ==
  ASSUME IInv, RejectCandidate
  PROVE  IInv' /\ Observed(progress)' = Observed(progress)
<1> DEFINE p == Blocked(progress, stage)
<1>1. /\ at = "attempt" /\ progress \in Progress /\ stage \in Stages /\ champion' \in Nat
      /\ iteration' \in 0..MaxIteration /\ faults' \in 0..MaxFaults
      /\ UNCHANGED pinned /\ UNCHANGED pins
      /\ champion' = champion /\ ScheduleNext(p)
  BY ConfigAssumption DEF RejectCandidate, StartIteration, Fault, IInv, TypeOK, Progress
<1>2. /\ p \in Progress
      /\ SameBases(progress, p)
      /\ \A t \in Stages: p[t].requests = progress[t].requests
  BY <1>1, BlockedKeeps
<1> HIDE DEF p
<1>3. Observed(p) = Observed(progress)
  BY <1>2, SameObserved
<1>4. p[stage].base # None /\ p[stage].base.commit = champion'
  BY <1>1, <1>2 DEF IInv, SessionInv, BaselineStored, SameBases
<1>5. pins = 0 => \A t \in Stages \ {stage}:
        p[t].base = None \/ p[t].base.commit = champion' \/ p[t].requests > 0
  BY <1>1, <1>2 DEF IInv, SessionInv, StaleRequested, Observed, SameBases
<1>6. QED
  BY <1>1, <1>2, <1>3, <1>4, <1>5, ScheduledInv

(* Every step keeps the invariant: one case for each action. *)
LEMMA NextIInv == IInv /\ [Next]_vars => IInv'
<1> SUFFICES ASSUME IInv, [Next]_vars PROVE IInv'
  OBVIOUS
<1> USE CurriculumAssumption, ConfigAssumption
<1>1. CASE LaunchAuto
  BY <1>1 DEF LaunchAuto, IInv, TypeOK, SessionInv, NextInv, StaleRequested, checkpoint
<1>2. CASE LaunchPinned
  BY <1>2 DEF LaunchPinned, IInv, TypeOK, SessionInv, NextInv, StaleRequested, checkpoint
<1>3. CASE ReuseBaseline
  <2>1. TypeOK'
    BY <1>3 DEF ReuseBaseline, IInv, TypeOK
  <2>2. SessionInv'
    BY <1>3 DEF ReuseBaseline, IInv, SessionInv, BaselineStored
  <2>3. NextInv'
    BY <1>3 DEF ReuseBaseline, IInv, TypeOK, NextInv, BaselineStored, Eligible, Observed
  <2>4. StaleRequested'
    BY <1>3 DEF ReuseBaseline, IInv, SessionInv, StaleRequested
  <2>5. QED
    BY <2>1, <2>2, <2>3, <2>4 DEF IInv
<1>4. CASE EvaluateBaseline
  <2>1. PICK n \in 0..Expected: progress' = WithBaseline(progress, stage, n)
    BY <1>4 DEF EvaluateBaseline
  <2>2. /\ progress' \in [Stages -> StageState]
        /\ progress'[stage].base = [commit |-> champion, native |-> n]
        /\ \A t \in Stages \ {stage}: progress'[t] = progress[t]
    BY <2>1, BaselineKeeps DEF IInv, TypeOK, Progress
  <2>3. TypeOK'
    BY <1>4, <2>2 DEF EvaluateBaseline, Fault, NoFault, IInv, TypeOK
  <2>4. progress'[stage].base # None
    BY <2>2, NoneAssumption DEF Baseline, IInv, TypeOK
  <2>5. SessionInv'
    BY <1>4, <2>2, <2>4 DEF EvaluateBaseline, IInv, SessionInv, BaselineStored
  <2>6. NextInv'
    BY <1>4, <2>4 DEF EvaluateBaseline, IInv, TypeOK, NextInv, Eligible, Observed
  <2>7. StaleRequested'
    BY <1>4, <2>2 DEF EvaluateBaseline, IInv, TypeOK, SessionInv, StaleRequested, Observed
  <2>8. QED
    BY <2>3, <2>5, <2>6, <2>7 DEF IInv
<1>5. CASE FinishCandidate
  BY <1>5, FinishStep
<1>6. CASE RejectCandidate
  BY <1>6, RejectStep
<1>7. CASE SessionEnds
  BY <1>7 DEF SessionEnds, IInv, TypeOK, SessionInv, NextInv, StaleRequested, checkpoint
<1>8. CASE UNCHANGED vars
  BY <1>8 DEF IInv, TypeOK, SessionInv, NextInv, StaleRequested, BaselineStored, vars,
              checkpoint, session
<1>9. QED
  BY <1>1, <1>2, <1>3, <1>4, <1>5, <1>6, <1>7, <1>8 DEF Next, Prepare, Attempt

(* Every reachable state satisfies the invariant. *)
LEMMA Invariance == Spec => []IInv
  BY InitIInv, NextIInv, PTL DEF Spec
-----------------------------------------------------------------------------
(* stage_states and the session's variables have their types in every state. *)
THEOREM SchedulerTypeCorrect == Spec => []TypeOK
<1>1. IInv => TypeOK
  BY DEF IInv
<1>2. QED
  BY <1>1, Invariance, PTL

(* _request_cross_stage_revalidation and choose() together never lose track  *)
(* of a stage whose evidence belongs to an older champion.                   *)
THEOREM StaleEvidenceRequested == Spec => []StaleRequested
<1>1. IInv => StaleRequested
  BY DEF IInv
<1>2. QED
  BY <1>1, Invariance, PTL

(* _eligible is the only way into a stage for automatic sessions.            *)
THEOREM ParentsComeFirst == Spec => ParentsFirst
<1> DEFINE Measured ==
      \A s \in Observed(progress)' \ Observed(progress):
        pinned \/ s = StartStage \/ Parents[s] \subseteq Observed(progress)
<1>1. IInv /\ [Next]_vars => [Measured]_vars
  <2> SUFFICES ASSUME IInv, Next PROVE Measured
    BY DEF Measured
  <2>1. CASE EvaluateBaseline
    <3>1. Observed(progress)' \subseteq Observed(progress) \cup {stage}
      BY <2>1 DEF EvaluateBaseline, WithBaseline, IInv, TypeOK, Observed
    <3>2. pinned \/ stage = StartStage \/ stage \in Eligible(progress)
      BY <2>1 DEF EvaluateBaseline, IInv, SessionInv, NextInv
    <3>3. QED
      BY <3>1, <3>2 DEF Eligible
  <2>2. CASE FinishCandidate \/ RejectCandidate
    BY <2>2, FinishStep, RejectStep
  <2>3. CASE LaunchAuto \/ LaunchPinned \/ ReuseBaseline \/ SessionEnds
    <3>1. progress' = progress
      BY <2>3 DEF LaunchAuto, LaunchPinned, ReuseBaseline, SessionEnds, checkpoint
    <3>2. QED
      BY <3>1 DEF Observed
  <2>4. QED
    BY <2>1, <2>2, <2>3 DEF Next, Prepare, Attempt
<1>2. QED
  BY <1>1, Invariance, PTL DEF Spec, ParentsFirst, Measured
-----------------------------------------------------------------------------
(* How long a stage keeps the search from another.  A gain raises the native *)
(* count of the stored baseline, which only a lost baseline takes back, so    *)
(* visits are counted against the count and the faults so far.               *)
Forbearance == IF Patience > 1 THEN Patience ELSE 1

Within(r, lost) ==
  r.visits <= MinVisits + (Expected * lost + r.base.native) * Forbearance
                + (IF r.streak < Forbearance THEN r.streak ELSE Forbearance - 1)

(* A stage that was not observed had no attempt.  While one of them waits,   *)
(* the scheduled stage was entered once, so it has the champion's evidence.  *)
StayInv ==
  /\ \A s \in Stages \ Observed(progress): progress[s].visits = 0 /\ progress[s].streak = 0
  /\ pins = 0 /\ next \in Observed(progress) /\ Unseen(progress, next) # {} =>
       /\ progress[next].base.commit = champion
       /\ Within(progress[next], faults)

(* The arithmetic of the bound. *)
LEMMA Products ==
  ASSUME NEW a \in Nat, NEW b \in Nat, NEW q \in Nat
  PROVE  /\ a * q \in Nat
         /\ a <= b => a * q <= b * q
         /\ a < b => a * q + q <= b * q
         /\ q > 0 => a + (a + 1) * (q - 1) = a * q + q - 1
<1>1. ASSUME NEW c \in Nat, NEW d \in Nat PROVE c * q \in Nat /\ (c + d) * q = c * q + d * q
  OBVIOUS
<1>2. ASSUME a <= b PROVE a * q <= b * q
  <2>1. b - a \in Nat /\ b = a + (b - a)
    BY <1>2
  <2> QED
    BY <1>1, <2>1
<1>3. ASSUME a < b PROVE a * q + q <= b * q
  <2>1. b - (a + 1) \in Nat /\ b = (a + 1) + (b - (a + 1)) /\ a + 1 \in Nat
    BY <1>3
  <2>2. b * q = (a + 1) * q + (b - (a + 1)) * q /\ (b - (a + 1)) * q \in Nat
    BY <1>1, <2>1
  <2>3. (a + 1) * q = a * q + 1 * q /\ 1 * q = q /\ a * q \in Nat
    BY <1>1
  <2> QED
    BY <2>2, <2>3
<1>4. ASSUME q > 0 PROVE a + (a + 1) * (q - 1) = a * q + q - 1
  <2>1. (a + 1) * (q - 1) = a * (q - 1) + (q - 1) /\ a * (q - 1) = a * q - a
    BY <1>4
  <2> QED
    BY <1>1, <2>1
<1> QED
  BY <1>1, <1>2, <1>3, <1>4

(* What an episode count and the faults so far allow. *)
LEMMA WithinTypes ==
  ASSUME NEW r \in StageState, r.base # None, NEW lost \in Nat
  PROVE  /\ r.base.native \in 0..Expected /\ r.visits \in Nat /\ r.streak \in Nat
         /\ Forbearance \in Nat \ {0} /\ MinVisits \in Nat
         /\ Expected * lost \in Nat /\ Expected * (lost + 1) = Expected * lost + Expected
         /\ Expected * lost + r.base.native \in Nat
         /\ (Expected * lost + r.base.native) * Forbearance \in Nat
<1> USE ConfigAssumption
<1>1. r.base.native \in 0..Expected /\ r.visits \in Nat /\ r.streak \in Nat
  BY DEF StageState, Baseline
<1>2. Forbearance \in Nat \ {0}
  BY DEF Forbearance
<1>3. Expected * lost \in Nat /\ Expected * (lost + 1) = Expected * lost + Expected
  OBVIOUS
<1>4. Expected * lost + r.base.native \in Nat
  BY <1>1, <1>3
<1> QED
  BY <1>1, <1>2, <1>3, <1>4, Products

(* A lost baseline pays for any native count of the next, *)
LEMMA WithinAfterLoss ==
  ASSUME NEW r \in StageState, r.base # None, NEW q \in StageState, q.base # None,
         NEW lost \in Nat, Within(r, lost), q.visits = r.visits, q.streak = r.streak
  PROVE  Within(q, lost + 1)
<1> DEFINE a == Expected * lost + r.base.native
           b == Expected * (lost + 1) + q.base.native
<1>1. /\ r.base.native \in 0..Expected /\ q.base.native \in 0..Expected
      /\ a \in Nat /\ b \in Nat /\ Forbearance \in Nat \ {0}
      /\ Expected * lost \in Nat /\ Expected * (lost + 1) = Expected * lost + Expected
  BY WithinTypes
<1>2. a <= b
  <2> DEFINE x == Expected * lost
             y == Expected * (lost + 1)
  <2>1. x \in Nat /\ y = x + Expected /\ a = x + r.base.native /\ b = y + q.base.native
        /\ Expected \in Nat /\ r.base.native \in 0..Expected /\ q.base.native \in 0..Expected
    BY <1>1, ConfigAssumption
  <2> HIDE DEF x, y, a, b
  <2> QED
    BY <2>1
<1> HIDE DEF a, b
<1>3. a * Forbearance <= b * Forbearance /\ a * Forbearance \in Nat /\ b * Forbearance \in Nat
  BY <1>1, <1>2, Products
<1>4. r.visits <= MinVisits + a * Forbearance
                    + (IF r.streak < Forbearance THEN r.streak ELSE Forbearance - 1)
  BY DEF Within, a
<1>5. q.visits <= MinVisits + b * Forbearance
                    + (IF q.streak < Forbearance THEN q.streak ELSE Forbearance - 1)
  <2>1. r.visits \in Nat /\ r.streak \in Nat /\ MinVisits \in Nat
    BY WithinTypes
  <2> QED
    BY <1>1, <1>3, <1>4, <2>1
<1> QED
  BY <1>5 DEF Within, b

(* a gain for the candidates that were tried for it, *)
LEMMA WithinAfterGain ==
  ASSUME NEW r \in StageState, r.base # None, NEW q \in StageState, q.base # None,
         NEW lost \in Nat, Within(r, lost), q.visits = r.visits + 1, q.streak = 0,
         q.base.native > r.base.native
  PROVE  Within(q, lost)
<1> DEFINE a == Expected * lost + r.base.native
           b == Expected * lost + q.base.native
<1>1. /\ r.base.native \in 0..Expected /\ q.base.native \in 0..Expected
      /\ a \in Nat /\ b \in Nat /\ Forbearance \in Nat \ {0} /\ Expected * lost \in Nat
      /\ r.visits \in Nat /\ r.streak \in Nat /\ MinVisits \in Nat
  BY WithinTypes
<1>2. a < b
  BY <1>1
<1> HIDE DEF a, b
<1>3. a * Forbearance + Forbearance <= b * Forbearance /\ a * Forbearance \in Nat
      /\ b * Forbearance \in Nat
  BY <1>1, <1>2, Products
<1>4. r.visits <= MinVisits + a * Forbearance
                    + (IF r.streak < Forbearance THEN r.streak ELSE Forbearance - 1)
  BY DEF Within, a
<1>5. q.visits <= MinVisits + b * Forbearance
                    + (IF q.streak < Forbearance THEN q.streak ELSE Forbearance - 1)
  BY <1>1, <1>3, <1>4
<1> QED
  BY <1>5 DEF Within, b

(* and patience for a candidate without one. *)
LEMMA WithinAfterMiss ==
  ASSUME NEW r \in StageState, r.base # None, NEW q \in StageState, q.base = r.base,
         NEW lost \in Nat, Within(r, lost), q.visits = r.visits + 1, q.streak = r.streak + 1,
         q.visits < MinVisits \/ q.streak < Patience
  PROVE  Within(q, lost)
<1> DEFINE a == (Expected * lost + r.base.native) * Forbearance
<1>1. /\ a \in Nat /\ Forbearance \in Nat \ {0} /\ MinVisits \in Nat
      /\ r.visits \in Nat /\ r.streak \in Nat
  BY WithinTypes
<1> HIDE DEF a
<1>2. r.visits <= MinVisits + a
                    + (IF r.streak < Forbearance THEN r.streak ELSE Forbearance - 1)
  BY DEF Within, a
<1>3. q.streak < Patience => Forbearance = Patience
  BY <1>1, ConfigAssumption DEF Forbearance
<1>4. q.visits <= MinVisits + a
                    + (IF q.streak < Forbearance THEN q.streak ELSE Forbearance - 1)
  BY <1>1, <1>2, <1>3
<1> QED
  BY <1>4 DEF Within, a

(* The bound is reached with the native count and the faults at their limit. *)
LEMMA WithinBound ==
  ASSUME NEW r \in StageState, r.base # None, faults \in Nat, Within(r, faults)
  PROVE  r.visits <= StayBound
<1> DEFINE a == Expected * faults + r.base.native
           b == Expected * (faults + 1)
<1>1. /\ r.base.native \in 0..Expected /\ a \in Nat /\ Forbearance \in Nat \ {0}
      /\ Expected * faults \in Nat /\ b = Expected * faults + Expected
      /\ r.visits \in Nat /\ r.streak \in Nat /\ MinVisits \in Nat
  BY WithinTypes
<1>2. b \in Nat /\ a <= b
  BY <1>1, ConfigAssumption
<1>3. StayBound = MinVisits + b + (b + 1) * (Forbearance - 1)
  BY DEF StayBound, Forbearance
<1> HIDE DEF a, b
<1>4. /\ a * Forbearance <= b * Forbearance /\ a * Forbearance \in Nat /\ b * Forbearance \in Nat
      /\ b + (b + 1) * (Forbearance - 1) = b * Forbearance + Forbearance - 1
  BY <1>1, <1>2, Products
<1>5. r.visits <= MinVisits + a * Forbearance
                    + (IF r.streak < Forbearance THEN r.streak ELSE Forbearance - 1)
  BY DEF Within, a
<1>6. (b + 1) * (Forbearance - 1) \in Int
  BY <1>1, <1>2
<1> QED
  BY <1>1, <1>2, <1>3, <1>4, <1>5, <1>6

(* The counters of an attempt that the bound is about. *)
SameCounts(p, q) == \A t \in Stages: q[t].visits = p[t].visits /\ q[t].streak = p[t].streak

(* observe_attempt counts a visit of its own stage. *)
LEMMA AttemptedCounts ==
  ASSUME NEW p \in Progress, NEW s \in Stages, NEW gain \in BOOLEAN, NEW novel \in BOOLEAN,
         NEW related \in SUBSET Stages
  PROVE  LET q == Attempted(p, s, gain, novel, related) IN
         /\ \A t \in Stages \ {s}: q[t].visits = p[t].visits /\ q[t].streak = p[t].streak
         /\ q[s].visits = p[s].visits + 1
         /\ q[s].streak = IF gain THEN 0 ELSE p[s].streak + 1
         /\ ~gain => ~q[s].gained
<1> DEFINE q == Attempted(p, s, gain, novel, related)
           tried == [p[s] EXCEPT !.visits = @ + 1, !.streak = IF gain THEN 0 ELSE @ + 1,
                                 !.status = IF gain THEN "productive" ELSE "active",
                                 !.gained = gain, !.novel = novel]
           asked(t) == [p[t] EXCEPT !.requests = @ + 1]
<1>1. \A t \in Stages: p[t] \in StageState
  BY DEF Progress
<1>2. /\ tried.visits = p[s].visits + 1
      /\ tried.streak = IF gain THEN 0 ELSE p[s].streak + 1
      /\ tried.gained = gain
  BY <1>1 DEF StageState
<1>3. \A t \in Stages: asked(t).visits = p[t].visits /\ asked(t).streak = p[t].streak
  BY <1>1 DEF StageState
<1>4. q = [t \in Stages |-> IF t = s THEN tried ELSE IF t \in related THEN asked(t) ELSE p[t]]
  BY DEF Attempted
<1> HIDE DEF tried, asked, q
<1>5. /\ \A t \in Stages \ {s}: q[t].visits = p[t].visits /\ q[t].streak = p[t].streak
      /\ q[s] = tried
  BY <1>3, <1>4
<1> QED
  BY <1>2, <1>5 DEF q

(* Nothing else does. *)
LEMMA OthersCountNothing ==
  ASSUME NEW p \in Progress, NEW s \in Stages, NEW n \in Nat
  PROVE  /\ SameCounts(p, Blocked(p, s))
         /\ SameCounts(p, WithBaseline(p, s, n))
         /\ \A commit \in Nat: SameCounts(p, Adopted(p, s, commit, n))
         /\ SameCounts(p, Kept(p, s))
         /\ \A t \in Stages: SameCounts(p, Moved(p, s, t))
<1>1. \A t \in Stages: p[t] \in StageState
  BY DEF Progress
<1>2. SameCounts(p, Blocked(p, s))
  BY <1>1 DEF SameCounts, Blocked, StageState, Progress
<1>3. SameCounts(p, WithBaseline(p, s, n))
  <2> DEFINE base == [commit |-> champion, native |-> n]
             measured == [p[s] EXCEPT !.status = "active", !.base = base]
  <2>1. measured.visits = p[s].visits /\ measured.streak = p[s].streak
    <3> HIDE DEF base
    <3> QED
      BY <1>1 DEF StageState
  <2>2. WithBaseline(p, s, n) = [p EXCEPT ![s] = measured]
    BY DEF WithBaseline
  <2> HIDE DEF measured
  <2> QED
    BY <2>1, <2>2 DEF SameCounts, Progress
<1>4. ASSUME NEW commit \in Nat PROVE SameCounts(p, Adopted(p, s, commit, n))
  <2> DEFINE fresh == [p[s] EXCEPT !.base = [commit |-> commit, native |-> n]]
             stale(t) == [p[t] EXCEPT !.status = "revisit", !.requests = @ + 1]
  <2>1. fresh.visits = p[s].visits /\ fresh.streak = p[s].streak
    BY <1>1 DEF StageState
  <2>2. \A t \in Stages: stale(t).visits = p[t].visits /\ stale(t).streak = p[t].streak
    BY <1>1 DEF StageState
  <2>3. Adopted(p, s, commit, n)
          = [t \in Stages |->
               IF t = s THEN fresh
               ELSE IF p[t].base # None /\ p[t].base.commit # commit THEN stale(t) ELSE p[t]]
    BY DEF Adopted
  <2> HIDE DEF fresh, stale
  <2> QED
    BY <2>1, <2>2, <2>3 DEF SameCounts
<1> DEFINE as(u, status) == [p[u] EXCEPT !.status = status]
           served(t) == [p[t] EXCEPT !.status = "revisit", !.requests = Decremented(@)]
<1>5. \A u \in Stages, status \in {"active", "dormant"}:
        as(u, status).visits = p[u].visits /\ as(u, status).streak = p[u].streak
  BY <1>1 DEF StageState
<1>6. \A t \in Stages: served(t).visits = p[t].visits /\ served(t).streak = p[t].streak
  BY <1>1 DEF StageState
<1>7. SameCounts(p, Kept(p, s))
  <2>1. Kept(p, s) \in {p, [p EXCEPT ![s] = as(s, "active")]}
    BY DEF Kept
  <2> HIDE DEF as
  <2> QED
    BY <1>5, <2>1 DEF SameCounts, Progress
<1>8. ASSUME NEW t \in Stages PROVE SameCounts(p, Moved(p, s, t))
  <2>1. \A u \in Stages: Moved(p, s, t)[u] \in
          {p[u], as(u, "dormant"), as(u, "active")} \cup (IF u = t THEN {served(t)} ELSE {})
    BY DEF Moved
  <2> HIDE DEF as, served
  <2> QED
    BY <1>5, <1>6, <2>1 DEF SameCounts
<1> QED
  BY <1>2, <1>3, <1>4, <1>7, <1>8

(* _schedule_next leaves a waiting stage only to one that was not observed. *)
LEMMA ScheduleCounts ==
  ASSUME NEW p \in Progress, stage \in Stages, ScheduleNext(p)
  PROVE  /\ SameCounts(p, progress')
         /\ ~pinned /\ Unseen(p, stage) # {} =>
              (next' = stage /\ Stays(p, stage)) \/ next' \in Unseen(p, stage)
<1>1. PICK t \in IF pinned THEN {stage} ELSE Choices(p, stage):
        /\ progress' = IF pinned THEN p
                       ELSE IF t = stage THEN Kept(p, stage) ELSE Moved(p, stage, t)
        /\ next' = t
  BY DEF ScheduleNext
<1>2. t \in Stages
  BY <1>1, ChoicesEligible
<1>3. SameCounts(p, p) /\ SameCounts(p, Kept(p, stage)) /\ SameCounts(p, Moved(p, stage, t))
  <2>1. 0 \in Nat
    OBVIOUS
  <2>2. SameCounts(p, p)
    BY DEF SameCounts
  <2> QED
    BY <1>2, <2>1, <2>2, OthersCountNothing
<1>4. SameCounts(p, progress')
  BY <1>1, <1>3
<1>5. ASSUME ~pinned, Unseen(p, stage) # {}
      PROVE  (next' = stage /\ Stays(p, stage)) \/ next' \in Unseen(p, stage)
  BY <1>1, <1>5 DEF Choices
<1> QED
  BY <1>4, <1>5

(* An attempt keeps StayInv if it keeps it for a stage that it stays on. *)
LEMMA StayAfterAttempt ==
  ASSUME IInv, StayInv, at = "attempt", NEW p \in Progress, ScheduleNext(p),
         UNCHANGED pinned, UNCHANGED pins, Observed(p) = Observed(progress),
         \A t \in Stages \ {stage}: /\ p[t].visits = progress[t].visits
                                    /\ p[t].streak = progress[t].streak,
         p[stage].base # None, p[stage].base.commit = champion',
         pins = 0 /\ Unseen(progress, stage) # {} /\ Stays(p, stage) => Within(p[stage], faults')
  PROVE  StayInv'
<1>1. stage \in Stages /\ next = stage /\ (pins = 0 => ~pinned)
  BY DEF IInv, TypeOK, SessionInv
<1>2. stage \in Observed(progress)
  BY <1>1 DEF IInv, SessionInv, BaselineStored, Observed
<1>3. /\ progress' \in Progress /\ SameBases(p, progress') /\ next' \in Stages
      /\ next' = stage \/ (~pinned /\ next' \in Eligible(p))
  BY <1>1, ScheduleKeeps
<1>4. /\ SameCounts(p, progress')
      /\ ~pinned /\ Unseen(p, stage) # {} =>
           (next' = stage /\ Stays(p, stage)) \/ next' \in Unseen(p, stage)
  BY <1>1, ScheduleCounts
<1>5. Observed(progress') = Observed(progress)
  BY <1>3, SameObserved
<1>6. Eligible(progress') = Eligible(progress) /\ Eligible(p) = Eligible(progress)
  BY <1>5 DEF Eligible
<1>7. \A s \in Stages \ Observed(progress'): progress'[s].visits = 0 /\ progress'[s].streak = 0
  BY <1>2, <1>4, <1>5 DEF StayInv, SameCounts
<1>8. ASSUME pins' = 0, next' \in Observed(progress'), Unseen(progress', next') # {}
      PROVE  progress'[next'].base.commit = champion' /\ Within(progress'[next'], faults')
  <2>1. Unseen(p, stage) = Unseen(progress, stage)
    BY <1>6 DEF Unseen
  <2>2. Unseen(progress', next') \subseteq Unseen(progress, stage)
    BY <1>3, <1>5, <1>6 DEF Unseen
  <2>3. next' = stage /\ Stays(p, stage)
    BY <1>1, <1>4, <1>5, <1>8, <2>1, <2>2 DEF Unseen
  <2>4. Within(p[stage], faults')
    BY <1>8, <2>2, <2>3
  <2>5. /\ progress'[stage].visits = p[stage].visits /\ progress'[stage].streak = p[stage].streak
        /\ progress'[stage].base = p[stage].base
    BY <1>1, <1>3, <1>4 DEF SameCounts, SameBases
  <2>6. Within(progress'[stage], faults')
    BY <2>4, <2>5 DEF Within
  <2> QED
    BY <2>3, <2>5, <2>6
<1> QED
  BY <1>7, <1>8 DEF StayInv

(* An evaluated candidate is paid for by its gain or by patience. *)
LEMMA FinishStays ==
  ASSUME IInv, StayInv, FinishCandidate
  PROVE  StayInv'
<1> DEFINE Tried(novel, related, gain) == Attempted(progress, stage, gain, novel, related)
<1>1. PICK n \in 0..Expected, novel \in BOOLEAN,
           related \in SUBSET (Observed(progress) \ {stage}):
        LET gain == n > progress[stage].base.native
            p == Tried(novel, related, gain)
        IN  IF gain
            THEN /\ champion' = champion + 1
                 /\ ScheduleNext(Adopted(p, stage, champion + 1, n))
            ELSE /\ UNCHANGED champion
                 /\ ScheduleNext(p)
  BY DEF FinishCandidate
<1> DEFINE gain == n > progress[stage].base.native
           p == Tried(novel, related, gain)
           q == Adopted(p, stage, champion + 1, n)
<1>2. /\ at = "attempt" /\ progress \in Progress /\ stage \in Stages /\ champion \in Nat
      /\ faults' = faults /\ faults \in Nat /\ UNCHANGED pinned /\ UNCHANGED pins
      /\ next = stage
  BY DEF FinishCandidate, StartIteration, IInv, TypeOK, Progress, SessionInv
<1>3. progress[stage].base # None /\ progress[stage].base.commit = champion
      /\ stage \in Observed(progress)
  BY <1>2 DEF IInv, SessionInv, BaselineStored, Observed
<1>4. related \in SUBSET Stages /\ gain \in BOOLEAN /\ n \in Nat
  BY DEF Observed
<1>5. p \in Progress /\ SameBases(progress, p)
  BY <1>2, <1>4, AttemptedKeeps
<1>6. /\ \A t \in Stages \ {stage}: /\ p[t].visits = progress[t].visits
                                    /\ p[t].streak = progress[t].streak
      /\ p[stage].visits = progress[stage].visits + 1
      /\ p[stage].streak = IF gain THEN 0 ELSE progress[stage].streak + 1
      /\ ~gain => ~p[stage].gained
  <2> HIDE DEF gain
  <2> QED
    BY <1>2, <1>4, AttemptedCounts
<1>7. pins = 0 /\ Unseen(progress, stage) # {} => Within(progress[stage], faults)
  BY <1>2, <1>3 DEF StayInv
<1>8. progress[stage] \in StageState
  BY <1>2 DEF Progress
<1>9. CASE gain
  <2>1. /\ q \in Progress
        /\ q[stage].base = [commit |-> champion + 1, native |-> n]
        /\ \A t \in Stages \ {stage}: q[t].base = p[t].base
        /\ SameCounts(p, q)
    <3> HIDE DEF p
    <3>1. champion + 1 \in Nat
      BY <1>2
    <3> QED
      BY <1>2, <1>4, <1>5, <3>1, AdoptedRequests, OthersCountNothing
  <2>2. q[stage].base # None
    BY <1>2, <2>1, NoneAssumption DEF Baseline
  <2>3. Observed(q) = Observed(progress)
    <3> HIDE DEF p, q
    <3> QED
      BY <1>3, <1>5, <2>1, <2>2 DEF Observed, SameBases
  <2>4. champion' = champion + 1 /\ ScheduleNext(q)
    BY <1>1, <1>9
  <2>5. n > progress[stage].base.native
    BY <1>9
  <2> HIDE DEF p, q, gain
  <2>6. /\ q[stage].visits = progress[stage].visits + 1 /\ q[stage].streak = 0
        /\ q[stage].base.native > progress[stage].base.native /\ q[stage] \in StageState
    BY <1>2, <1>6, <1>9, <2>1, <2>5 DEF SameCounts, Progress
  <2>7. pins = 0 /\ Unseen(progress, stage) # {} => Within(q[stage], faults')
    BY <1>2, <1>3, <1>7, <1>8, <2>2, <2>6, WithinAfterGain
  <2>8. \A t \in Stages \ {stage}: /\ q[t].visits = progress[t].visits
                                   /\ q[t].streak = progress[t].streak
    BY <1>6, <2>1 DEF SameCounts
  <2>9. q[stage].base.commit = champion'
    BY <2>1, <2>4
  <2> QED
    BY <1>2, <2>1, <2>2, <2>3, <2>4, <2>7, <2>8, <2>9, StayAfterAttempt
<1>10. CASE ~gain
  <2>1. champion' = champion /\ ScheduleNext(p)
    BY <1>1, <1>10
  <2> HIDE DEF p, gain
  <2>2. Observed(p) = Observed(progress)
    BY <1>5, SameObserved
  <2>3. p[stage].base = progress[stage].base /\ p[stage] \in StageState
    BY <1>2, <1>5 DEF SameBases, Progress
  <2>4. ASSUME pins = 0, Unseen(progress, stage) # {}, Stays(p, stage)
        PROVE  Within(p[stage], faults')
    <3>1. p[stage].visits < MinVisits \/ p[stage].streak < Patience
      BY <1>6, <1>10, <2>4 DEF Stays
    <3>2. p[stage].visits = progress[stage].visits + 1
          /\ p[stage].streak = progress[stage].streak + 1
      BY <1>6, <1>10
    <3>3. Within(progress[stage], faults)
      BY <1>7, <2>4
    <3>4. Within(p[stage], faults)
      BY <1>2, <1>3, <1>8, <2>3, <3>1, <3>2, <3>3, WithinAfterMiss
    <3> QED
      BY <1>2, <3>4
  <2>5. p[stage].base # None /\ p[stage].base.commit = champion'
    BY <1>3, <2>1, <2>3
  <2> QED
    BY <1>2, <1>5, <1>6, <2>1, <2>2, <2>4, <2>5, StayAfterAttempt
<1> QED
  BY <1>9, <1>10

(* A rejected one is not counted. *)
LEMMA RejectStays ==
  ASSUME IInv, StayInv, RejectCandidate
  PROVE  StayInv'
<1> DEFINE p == Blocked(progress, stage)
<1>1. /\ at = "attempt" /\ progress \in Progress /\ stage \in Stages /\ next = stage
      /\ faults \in Nat /\ faults' = faults + 1 /\ UNCHANGED pinned /\ UNCHANGED pins
      /\ champion' = champion /\ ScheduleNext(p)
  BY ConfigAssumption DEF RejectCandidate, StartIteration, Fault, IInv, TypeOK, Progress, SessionInv
<1>2. p \in Progress /\ SameBases(progress, p) /\ SameCounts(progress, p)
  <2>1. 0 \in Nat
    OBVIOUS
  <2> QED
    BY <1>1, <2>1, BlockedKeeps, OthersCountNothing
<1> HIDE DEF p
<1>3. Observed(p) = Observed(progress)
  BY <1>2, SameObserved
<1>4. /\ progress[stage].base # None /\ progress[stage].base.commit = champion
      /\ stage \in Observed(progress) /\ p[stage].base = progress[stage].base
      /\ progress[stage] \in StageState /\ p[stage] \in StageState
  BY <1>1, <1>2 DEF IInv, SessionInv, BaselineStored, SameBases, Observed, Progress
<1>5. pins = 0 /\ Unseen(progress, stage) # {} => Within(progress[stage], faults)
  BY <1>1, <1>4 DEF StayInv
<1>6. p[stage].visits = progress[stage].visits /\ p[stage].streak = progress[stage].streak
  BY <1>1, <1>2 DEF SameCounts
<1>7. p[stage].base # None
  BY <1>4
<1>8. pins = 0 /\ Unseen(progress, stage) # {} => Within(p[stage], faults')
  <2> SUFFICES ASSUME Within(progress[stage], faults) PROVE Within(p[stage], faults + 1)
    BY <1>1, <1>5
  <2> QED
    BY <1>1, <1>4, <1>6, <1>7, WithinAfterLoss
<1>9. \A t \in Stages \ {stage}: /\ p[t].visits = progress[t].visits
                                 /\ p[t].streak = progress[t].streak
  BY <1>2 DEF SameCounts
<1>10. p[stage].base.commit = champion'
  BY <1>1, <1>4
<1> QED
  BY <1>1, <1>2, <1>3, <1>7, <1>8, <1>9, <1>10, StayAfterAttempt

(* A measurement of a stage that waits comes before its first attempt, and   *)
(* that of another one replaces a baseline that was lost.                    *)
LEMMA EvaluateStays ==
  ASSUME IInv, StayInv, EvaluateBaseline
  PROVE  StayInv'
<1>1. PICK n \in 0..Expected: progress' = WithBaseline(progress, stage, n)
  BY DEF EvaluateBaseline
<1>2. /\ progress \in Progress /\ stage \in Stages /\ champion \in Nat /\ n \in Nat
      /\ champion' = champion /\ next' = stage /\ pins' = pins /\ faults \in Nat
      /\ at = "baseline" /\ (pins = 0 => stage = next)
      /\ \/ ~BaselineStored /\ faults' = faults
         \/ BaselineStored /\ faults' = faults + 1
  BY DEF EvaluateBaseline, Fault, NoFault, IInv, TypeOK, SessionInv, Progress
<1>3. /\ progress' \in Progress
      /\ progress'[stage].base = [commit |-> champion, native |-> n]
      /\ \A t \in Stages \ {stage}: progress'[t] = progress[t]
  BY <1>1, <1>2, BaselineKeeps
<1>4. SameCounts(progress, progress')
  BY <1>1, <1>2, OthersCountNothing
<1>5. /\ progress'[stage].base # None
      /\ progress'[stage] \in StageState /\ progress[stage] \in StageState
  BY <1>2, <1>3, NoneAssumption DEF Baseline, Progress
<1>6. Observed(progress') = Observed(progress) \cup {stage}
  BY <1>2, <1>3, <1>5 DEF Observed
<1>7. \A s \in Stages \ Observed(progress'): progress'[s].visits = 0 /\ progress'[s].streak = 0
  BY <1>4, <1>6 DEF StayInv, SameCounts
<1>8. progress'[stage].base.commit = champion'
  BY <1>2, <1>3
<1>9. ASSUME pins = 0, Unseen(progress', stage) # {} PROVE Within(progress'[stage], faults')
  <2>1. progress'[stage].visits = progress[stage].visits
        /\ progress'[stage].streak = progress[stage].streak
    BY <1>2, <1>4 DEF SameCounts
  <2>2. CASE stage \notin Observed(progress)
    <3>1. progress'[stage].visits = 0 /\ progress'[stage].streak = 0
      BY <1>2, <2>1, <2>2 DEF StayInv
    <3>2. faults' \in Nat
      BY <1>2
    <3>3. /\ Forbearance \in Nat \ {0} /\ MinVisits \in Nat
          /\ (Expected * faults' + progress'[stage].base.native) * Forbearance \in Nat
      <4>1. ASSUME NEW lost \in Nat, NEW r \in StageState, r.base # None
            PROVE  /\ Forbearance \in Nat \ {0} /\ MinVisits \in Nat
                   /\ (Expected * lost + r.base.native) * Forbearance \in Nat
        BY <4>1, WithinTypes
      <4> QED
        BY <1>5, <3>2, <4>1
    <3> QED
      BY <3>1, <3>3 DEF Within
  <2>3. CASE stage \in Observed(progress)
    <3>1. Eligible(progress') = Eligible(progress) /\ Observed(progress') = Observed(progress)
      BY <1>6, <2>3 DEF Eligible
    <3>2. Unseen(progress, next) # {} /\ next = stage
      BY <1>2, <1>9, <3>1 DEF Unseen
    <3>3. progress[stage].base.commit = champion /\ Within(progress[stage], faults)
      BY <1>9, <2>3, <3>2 DEF StayInv
    <3>4. progress[stage].base # None
      BY <2>3 DEF Observed
    <3>5. faults' = faults + 1
      BY <1>2, <3>3, <3>4 DEF BaselineStored
    <3>6. Within(progress'[stage], faults + 1)
      BY <1>2, <1>5, <2>1, <3>3, <3>4, WithinAfterLoss
    <3> QED
      BY <3>5, <3>6
  <2> QED
    BY <2>2, <2>3
<1> QED
  BY <1>2, <1>7, <1>8, <1>9 DEF StayInv

(* No step breaks the accounting of visits. *)
LEMMA StayInvariance == Spec => []StayInv
<1>1. Init => StayInv
  BY DEF Init, StayInv, Observed, NewStageState
<1>2. IInv /\ StayInv /\ [Next]_vars => StayInv'
  <2> SUFFICES ASSUME IInv, StayInv, [Next]_vars PROVE StayInv'
    OBVIOUS
  <2>1. CASE EvaluateBaseline
    BY <2>1, EvaluateStays
  <2>2. CASE FinishCandidate
    BY <2>2, FinishStays
  <2>3. CASE RejectCandidate
    BY <2>3, RejectStays
  <2>4. CASE ReuseBaseline
    <3>1. /\ progress' = progress /\ champion' = champion /\ faults' = faults /\ pins' = pins
          /\ pins = 0 => next' = next
      BY <2>4 DEF ReuseBaseline, IInv, SessionInv, TypeOK
    <3> QED
      BY <3>1 DEF StayInv, Observed, Unseen, Eligible, Within
  <2>5. CASE LaunchAuto \/ LaunchPinned \/ SessionEnds \/ UNCHANGED vars
    <3>1. /\ progress' = progress /\ champion' = champion /\ faults' = faults /\ next' = next
          /\ pins' = 0 => pins = 0
      BY <2>5 DEF LaunchAuto, LaunchPinned, SessionEnds, vars, checkpoint, IInv, TypeOK
    <3> QED
      BY <3>1 DEF StayInv, Observed, Unseen, Eligible, Within
  <2> QED
    BY <2>1, <2>2, <2>3, <2>4, <2>5 DEF Next, Prepare, Attempt
<1> QED
  BY <1>1, <1>2, Invariance, PTL DEF Spec

(* choose() leaves a stage within StayBound evaluated candidates while an    *)
(* eligible one was not observed, whatever the evaluations bring and however *)
(* often the stored baseline is lost.                                        *)
THEOREM StaysAreBounded == Spec => []BoundedStay
<1>1. IInv /\ StayInv => BoundedStay
  <2> SUFFICES ASSUME IInv, StayInv, pins = 0, Unseen(progress, next) # {}
               PROVE  progress[next].visits <= StayBound
    BY DEF BoundedStay
  <2>1. next \in Stages /\ progress[next] \in StageState /\ faults \in Nat
    BY DEF IInv, TypeOK
  <2>2. CASE next \in Observed(progress)
    <3>1. progress[next].base # None /\ Within(progress[next], faults)
      BY <2>2 DEF StayInv, Observed
    <3> QED
      BY <2>1, <3>1, WithinBound
  <2>3. CASE next \notin Observed(progress)
    <3> DEFINE b == Expected * (faults + 1)
               k == Forbearance - 1
    <3>1. progress[next].visits = 0
      BY <2>1, <2>3 DEF StayInv
    <3>2. MinVisits \in Nat /\ b \in Nat /\ k \in Nat
      BY <2>1, ConfigAssumption DEF Forbearance
    <3>3. StayBound = MinVisits + b + (b + 1) * k
      BY DEF StayBound, Forbearance
    <3> HIDE DEF b, k
    <3>4. (b + 1) * k \in Nat
      BY <3>2
    <3> QED
      BY <3>1, <3>2, <3>3, <3>4
  <2> QED
    BY <2>2, <2>3
<1> QED
  BY <1>1, Invariance, StayInvariance, PTL
=============================================================================
