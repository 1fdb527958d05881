------------------------- MODULE OrchestratorProofs -------------------------
(***************************************************************************)
(* Theorems about Orchestrator, for every curriculum, budget and number of *)
(* crashes.  First type correctness, that stored baselines are             *)
(* measurements of their own stage, and that the checkpointed champion     *)
(* only ever improves, i.e. that the loop implements PairedEvolution.      *)
(* Then what a restarted process finds: the pending candidate is whole,    *)
(* the champion ref and the experience ledger run ahead of the checkpoint  *)
(* by that candidate alone, a repair never drops what it repairs, and      *)
(* stale baselines stay marked for revisiting.                             *)
(***************************************************************************)
EXTENDS Orchestrator, TLAPS

AtBaseline == {"resume_baseline", "switch_baseline"}
HoldsCandidate == {"implement", "smoke", "failed", "abandoned", "accepted", "checkpoint",
                   "evaluate", "running", "finish", "promote", "save"}
HoldsBase == {"implement", "smoke", "failed", "accepted", "checkpoint"}
HoldsCommit == HoldsCandidate \ {"implement", "failed", "abandoned"}
HoldsResult == {"finish", "promote", "save"}

(* What the local variables of run() hold at each point. *)
LocalsOK ==
  /\ pc # "down" => st \in State /\ stage \in Stages
  /\ pc \in HoldsCandidate => cand \in Names
  /\ pc \in HoldsBase => repairBase \in Commits
  /\ pc \in {"pending", "invalid"} => st.pending \in Pending

(* Whatever names a commit names one that was made. *)
CommitsExist ==
  /\ \A n \in Names: worktrees[n] # None => commits[worktrees[n]] # None
  /\ saved # None => commits[saved.champion] # None
  /\ pc # "down" => commits[st.champion] # None
  /\ pc \in HoldsBase => commits[repairBase] # None
  /\ pc \in HoldsCommit => commits[cand] # None
  /\ commits[Seed] # None

(* TypeOK is not inductive: a value's type depends on where the process is. *)
TypeInv == TypeOK /\ LocalsOK /\ CommitsExist

(* The two sides of a comparison are what their variables say they are. *)
SidesMeasured ==
  /\ pc \notin {"down"} \cup AtBaseline =>
       champ \in rollouts /\ champ.commit = st.champion /\ champ.stage = stage
  /\ pc \in HoldsResult =>
       result \in rollouts /\ result.commit = cand /\ result.stage = stage
  /\ pc = "promote" => result.native > champ.native

SavedChampion == IF saved = None THEN Seed ELSE saved.champion

(* result won against evidence of the champion c. *)
Won(c) ==
  \E old \in rollouts:
    old.commit = c /\ old.stage = result.stage /\ result.native > old.native

(* Between Promote and SaveSelection the process is ahead of its checkpoint. *)
CheckpointLags ==
  /\ pc \notin {"down", "save"} => st.champion = SavedChampion
  /\ pc = "save" => \/ st.champion = SavedChampion
                    \/ st.champion = result.commit /\ Won(SavedChampion)

EvidenceInv == BaselinesMeasured /\ SidesMeasured /\ CheckpointLags
IInv == TypeInv /\ EvidenceInv

(* What the step is in PairedEvolution. *)
AbstractStep == [Abstract!Next]_(Abstract!vars)
-----------------------------------------------------------------------------
(* The helpers on the in-memory state return states. *)

(* choose() leaves only known statuses. *)
LEMMA StatusAfterChoiceType ==
  ASSUME NEW status \in [Stages -> Statuses], NEW prev \in Stages, NEW next \in Stages
  PROVE  StatusAfterChoice(status, prev, next) \in [Stages -> Statuses]
  BY DEF StatusAfterChoice, Statuses

(* _schedule_next picks a stage and touches nothing else but statuses. *)
LEMMA ScheduledType ==
  ASSUME NEW s \in State, stage \in Stages, NEW r \in Scheduled(s)
  PROVE  /\ r \in State
         /\ r.champion = s.champion /\ r.base = s.base /\ r.pending = s.pending
<1>1. CASE pinned # None
  BY <1>1 DEF Scheduled, State
<1>2. CASE pinned = None
  <2>1. PICK t \in Eligible(s) \cup {stage}:
          r = [s EXCEPT !.next = t, !.status = StatusAfterChoice(s.status, stage, t)]
    BY <1>2 DEF Scheduled
  <2>2. t \in Stages
    BY DEF Eligible
  <2>3. s.status \in [Stages -> Statuses]
    BY DEF State
  <2>4. StatusAfterChoice(s.status, stage, t) \in [Stages -> Statuses]
    BY <2>2, <2>3, StatusAfterChoiceType
  <2>5. QED
    BY <2>1, <2>2, <2>4 DEF State
<1>3. QED
  BY <1>1, <1>2

(* A rejected iteration keeps champion and stored baselines. *)
LEMMA RejectedType ==
  ASSUME NEW s \in State, stage \in Stages, NEW i \in 1..MaxIteration,
         NEW name \in Names \cup {None}, NEW outcome \in Outcomes
  PROVE  /\ Rejected(s, i, name, outcome) \in State
         /\ Rejected(s, i, name, outcome).champion = s.champion
         /\ Rejected(s, i, name, outcome).base = s.base
<1> DEFINE record == [iteration |-> i, candidate |-> name, status |-> outcome]
<1>1. Append(s.history, record) \in Seq(HistoryRecord)
  BY DEF State, HistoryRecord
<1>2. [s.status EXCEPT ![stage] = "implementation_blocked"] \in [Stages -> Statuses]
  BY DEF State, Statuses
<1>3. i \in 0..MaxIteration
  OBVIOUS
<1> HIDE DEF record
<1>4. Rejected(s, i, name, outcome) =
        [s EXCEPT !.iteration = i, !.history = Append(@, record),
                  !.status = [@ EXCEPT ![stage] = "implementation_blocked"]]
  BY DEF Rejected, record
<1>5. QED
  BY <1>1, <1>2, <1>3, <1>4 DEF State

(* ExperimentState's defaults are a state that names the seed. *)
LEMMA FreshStateType == FreshState \in State /\ FreshState.champion = Seed
  BY StagesAssumption, BudgetAssumption DEF FreshState, State, Seed, Commits, Statuses

(* A candidate name is a commit name; its parts are the label and the attempt. *)
LEMMA NameParts ==
  ASSUME NEW n \in Names
  PROVE  n \in Commits /\ n[1] \in 1..MaxIteration /\ n[2] \in 0..Repairs
  BY DEF Names, Commits
-----------------------------------------------------------------------------
(* Every step keeps types. *)

(* A process that disappears leaves durable state, or saves what it held. *)
LEMMA GoneKeepsTypes ==
  ASSUME TypeInv, pc # "down", Gone, UNCHANGED <<git, artifacts>>,
         saved' \in {saved, st}, faults' \in 0..MaxFaults
  PROVE  TypeInv'
<1>1. st \in State
  BY DEF TypeInv, LocalsOK
<1>2. TypeOK'
  BY <1>1 DEF TypeInv, TypeOK, Gone, git, artifacts
<1>3. LocalsOK'
  BY DEF LocalsOK, Gone, HoldsCandidate, HoldsBase
<1>4. CommitsExist'
  <2>1. saved' # None => commits[saved'.champion] # None
    BY DEF TypeInv, CommitsExist
  <2>2. \A n \in Names: worktrees[n] # None => commits[worktrees[n]] # None
    BY DEF TypeInv, CommitsExist
  <2>3. QED
    BY <2>1, <2>2
    DEF TypeInv, CommitsExist, Gone, git, HoldsCandidate, HoldsBase, HoldsCommit
<1>5. QED
  BY <1>2, <1>3, <1>4 DEF TypeInv

(* TypeInv is inductive. *)
LEMMA TypeStep == ASSUME TypeInv, Next PROVE TypeInv'
<1>1. CASE Launch
  <2>1. saved \in State \cup {None} /\ Pins \subseteq Stages \cup {None}
    BY StagesAssumption DEF TypeInv, TypeOK
  <2>2. FreshState \in State /\ FreshState.champion = Seed
    BY FreshStateType
  <2>3. PICK p \in Pins, s \in State:
          /\ s = IF saved = None THEN FreshState ELSE saved
          /\ stage' = (IF p = None THEN s.next ELSE p)
          /\ st' = [s EXCEPT !.next = stage'] /\ pinned' = p
    BY <1>1, <2>1, <2>2 DEF Launch
  <2>4. s.next \in Stages
    BY DEF State
  <2>5. stage' \in Stages
    BY <2>1, <2>3, <2>4
  <2>6. st' \in State /\ st'.champion = s.champion
    BY <2>3, <2>5 DEF State
  <2>7. commits[s.champion] # None
    BY <2>2, <2>3 DEF TypeInv, CommitsExist
  <2>8. TypeOK'
    BY <1>1, <2>1, <2>3, <2>4, <2>6
    DEF Launch, TypeInv, TypeOK, durable, git, artifacts
  <2>9. LocalsOK'
    BY <1>1, <2>1, <2>3, <2>4, <2>6
    DEF Launch, TypeInv, LocalsOK, HoldsCandidate, HoldsBase
  <2>10. CommitsExist'
    BY <1>1, <2>2
    DEF Launch, TypeInv, CommitsExist, HoldsCandidate, HoldsBase, HoldsCommit, durable, git
  <2>11. QED
    BY <2>8, <2>9, <2>10 DEF TypeInv
<1>2. CASE ReuseBaseline
  <2>1. st \in State /\ stage \in Stages
    BY <1>2 DEF ReuseBaseline, TypeInv, LocalsOK
  <2>2. champ' \in Evidence
    BY <1>2, <2>1 DEF ReuseBaseline, BaselineReusable, State
  <2>3. TypeOK'
    BY <1>2, <2>2
    DEF ReuseBaseline, AfterBaseline, TypeInv, TypeOK, durable, git, artifacts
  <2>4. LocalsOK'
    BY <1>2
    DEF ReuseBaseline, AfterBaseline, TypeInv, LocalsOK, HoldsCandidate, HoldsBase
  <2>5. CommitsExist'
    BY <1>2
    DEF ReuseBaseline, AfterBaseline, TypeInv, CommitsExist, HoldsCandidate, HoldsBase,
        HoldsCommit, durable, git
  <2>6. QED
    BY <2>3, <2>4, <2>5 DEF TypeInv
<1>3. CASE EvaluateBaseline
  <2>1. st \in State /\ stage \in Stages
    BY <1>3 DEF EvaluateBaseline, TypeInv, LocalsOK
  <2>2. PICK n \in 0..MaxNative, k \in 0..MaxCost:
          LET e == [commit |-> st.champion, stage |-> stage, native |-> n, cost |-> k]
              s == [st EXCEPT !.base[stage] = e, !.status[stage] = "active"]
          IN  rollouts' = rollouts \cup {e} /\ champ' = e /\ st' = s /\ saved' = s
    BY <1>3 DEF EvaluateBaseline
  <2>3. champ' \in Evidence
    BY <2>1, <2>2 DEF State, Evidence
  <2>4. st' = [st EXCEPT !.base[stage] = champ', !.status[stage] = "active"] /\ saved' = st'
    BY <2>2
  <2>5. st' \in State /\ st'.champion = st.champion
    BY <2>1, <2>3, <2>4 DEF State, Statuses
  <2>6. rollouts' = rollouts \cup {champ'} /\ faults' \in 0..MaxFaults
    BY <1>3, <2>2, BudgetAssumption DEF EvaluateBaseline, MustMeasure, Fault, TypeInv, TypeOK
  <2>7. TypeOK'
    BY <1>3, <2>3, <2>5, <2>6
    DEF EvaluateBaseline, AfterBaseline, TypeInv, TypeOK, durable, git, artifacts
  <2>8. LocalsOK'
    BY <1>3, <2>5
    DEF EvaluateBaseline, AfterBaseline, TypeInv, LocalsOK, HoldsCandidate, HoldsBase
  <2>9. CommitsExist'
    BY <1>3
    DEF EvaluateBaseline, AfterBaseline, TypeInv, CommitsExist, HoldsCandidate, HoldsBase,
        HoldsCommit, durable, git
  <2>10. QED
    BY <2>7, <2>8, <2>9 DEF TypeInv
<1>4. CASE BaselineFails
  <2>1. pc # "down" /\ Gone /\ UNCHANGED <<git, artifacts>> /\ saved' \in {saved, st}
    BY <1>4 DEF BaselineFails, durable
  <2>2. faults' \in 0..MaxFaults
    BY <1>4, BudgetAssumption DEF BaselineFails, Fault, TypeInv, TypeOK
  <2>3. QED
    BY <2>1, <2>2, GoneKeepsTypes
<1>5. CASE PendingKnown
  <2>1. st \in State /\ stage \in Stages
    BY <1>5 DEF PendingKnown, TypeInv, LocalsOK
  <2>2. st.pending \in Pending
    BY <1>5, <2>1 DEF PendingKnown, State
  <2>3. TypeOK'
    BY <1>5 DEF PendingKnown, TypeInv, TypeOK, durable, git, artifacts
  <2>4. LocalsOK'
    BY <1>5, <2>2 DEF PendingKnown, TypeInv, LocalsOK, HoldsCandidate, HoldsBase
  <2>5. CommitsExist'
    BY <1>5
    DEF PendingKnown, TypeInv, CommitsExist, HoldsCandidate, HoldsBase, HoldsCommit,
        durable, git
  <2>6. QED
    BY <2>3, <2>4, <2>5 DEF TypeInv
<1>6. CASE NothingPending
  <2>1. TypeOK'
    BY <1>6 DEF NothingPending, TypeInv, TypeOK, durable, git, artifacts
  <2>2. LocalsOK'
    BY <1>6 DEF NothingPending, TypeInv, LocalsOK, HoldsCandidate, HoldsBase
  <2>3. CommitsExist'
    BY <1>6
    DEF NothingPending, TypeInv, CommitsExist, HoldsCandidate, HoldsBase, HoldsCommit,
        durable, git
  <2>4. QED
    BY <2>1, <2>2, <2>3 DEF TypeInv
<1>7. CASE RecoverPending
  <2>1. st \in State /\ stage \in Stages
    BY <1>7 DEF RecoverPending, TypeInv, LocalsOK
  <2>2. PICK n \in Names: st' = [st EXCEPT !.pending = PendingOf(n)]
    BY <1>7 DEF RecoverPending
  <2>3. PendingOf(n) \in Pending
    BY <2>1 DEF PendingOf, Pending, State
  <2>4. st' \in State /\ st'.champion = st.champion /\ st'.pending \in Pending
    BY <2>1, <2>2, <2>3 DEF State
  <2>5. TypeOK'
    BY <1>7, <2>4
    DEF RecoverPending, TypeInv, TypeOK, durable, git, artifacts
  <2>6. LocalsOK'
    BY <1>7, <2>4
    DEF RecoverPending, TypeInv, LocalsOK, HoldsCandidate, HoldsBase
  <2>7. CommitsExist'
    BY <1>7
    DEF RecoverPending, TypeInv, CommitsExist, HoldsCandidate, HoldsBase, HoldsCommit,
        durable, git
  <2>8. QED
    BY <2>5, <2>6, <2>7 DEF TypeInv
<1>8. CASE PendingStageMismatch
  <2>1. pc # "down" /\ Gone /\ UNCHANGED <<git, artifacts>> /\ saved' \in {saved, st}
    BY <1>8 DEF PendingStageMismatch, durable
  <2>2. faults' \in 0..MaxFaults
    BY <1>8, BudgetAssumption DEF PendingStageMismatch, Fault, TypeInv, TypeOK
  <2>3. QED
    BY <2>1, <2>2, GoneKeepsTypes
<1>9. CASE InvalidatePending
  <2> DEFINE n == st.pending.candidate
             rejected == Rejected(st, n[1], n, "infrastructure_invalidated")
             r == [rejected EXCEPT !.pending = None]
  <2>1. st \in State /\ stage \in Stages /\ n \in Names
    BY <1>9 DEF InvalidatePending, TypeInv, LocalsOK, Pending
  <2>2. rejected \in State /\ rejected.champion = st.champion
    BY <2>1, NameParts, RejectedType DEF Outcomes
  <2>3. r \in State /\ r.champion = st.champion
    BY <2>2 DEF State
  <2>4. st' \in Scheduled(r) /\ saved' = st'
    BY <1>9 DEF InvalidatePending
  <2> HIDE DEF n, rejected, r
  <2>5. st' \in State /\ st'.champion = st.champion
    BY <2>1, <2>3, <2>4, ScheduledType
  <2>6. TypeOK'
    BY <1>9, <2>4, <2>5 DEF InvalidatePending, TypeInv, TypeOK, git, artifacts
  <2>7. LocalsOK'
    BY <1>9, <2>5 DEF InvalidatePending, TypeInv, LocalsOK, HoldsCandidate, HoldsBase
  <2>8. CommitsExist'
    BY <1>9, <2>5
    DEF InvalidatePending, TypeInv, CommitsExist, HoldsCandidate, HoldsBase, HoldsCommit,
        git
  <2>9. QED
    BY <2>6, <2>7, <2>8 DEF TypeInv
<1>10. CASE ResumePending
  <2>1. cand' \in Names
    BY <1>10 DEF ResumePending, TypeInv, LocalsOK, Pending
  <2>2. worktrees[cand'] = cand' /\ cand' # None
    BY <1>10, <2>1, NameParts, NoneAssumption DEF ResumePending, PendingPresent
  <2>3. commits[cand'] # None
    BY <2>1, <2>2 DEF TypeInv, CommitsExist
  <2>4. TypeOK'
    BY <1>10, <2>1 DEF ResumePending, TypeInv, TypeOK, durable, git, artifacts
  <2>5. LocalsOK'
    BY <1>10, <2>1
    DEF ResumePending, TypeInv, LocalsOK, HoldsCandidate, HoldsBase
  <2>6. CommitsExist'
    BY <1>10, <2>1, <2>2
    DEF ResumePending, TypeInv, CommitsExist, HoldsCandidate, HoldsBase, HoldsCommit,
        durable, git
  <2>7. QED
    BY <2>4, <2>5, <2>6 DEF TypeInv
<1>11. CASE LoopEnds
  <2>1. pc # "down" /\ Gone /\ UNCHANGED <<git, artifacts>> /\ saved' \in {saved, st}
    BY <1>11 DEF LoopEnds, durable
  <2>2. faults' \in 0..MaxFaults
    BY <1>11, BudgetAssumption DEF LoopEnds, Fault, TypeInv, TypeOK
  <2>3. QED
    BY <2>1, <2>2, GoneKeepsTypes
<1>12. CASE OutOfLabels
  <2>1. pc # "down" /\ Gone /\ UNCHANGED <<git, artifacts>> /\ saved' \in {saved, st}
    BY <1>12 DEF OutOfLabels, durable
  <2>2. faults' \in 0..MaxFaults
    BY <1>12, BudgetAssumption DEF OutOfLabels, Fault, TypeInv, TypeOK
  <2>3. QED
    BY <2>1, <2>2, GoneKeepsTypes
<1>13. CASE LoopContinues
  <2>1. st \in State /\ stage \in Stages
    BY <1>13 DEF LoopContinues, TypeInv, LocalsOK
  <2>2. stage' \in Stages
    BY <1>13, <2>1 DEF LoopContinues, State
  <2>3. TypeOK'
    BY <1>13, <2>2 DEF LoopContinues, TypeInv, TypeOK, durable, git, artifacts
  <2>4. LocalsOK'
    BY <1>13, <2>2 DEF LoopContinues, TypeInv, LocalsOK, HoldsCandidate, HoldsBase
  <2>5. CommitsExist'
    BY <1>13
    DEF LoopContinues, TypeInv, CommitsExist, HoldsCandidate, HoldsBase, HoldsCommit,
        durable, git
  <2>6. QED
    BY <2>3, <2>4, <2>5 DEF TypeInv
<1>14. CASE SkipOccupiedLabel
  <2>1. st \in State /\ stage \in Stages
    BY <1>14 DEF SkipOccupiedLabel, TypeInv, LocalsOK
  <2>2. /\ st' = [st EXCEPT !.iteration = st.iteration + 1]
        /\ st.iteration < MaxIteration
        /\ saved' = st'
    BY <1>14 DEF SkipOccupiedLabel, Skipped, Label
  <2>3. st' \in State /\ st'.champion = st.champion
    <3>1. st.iteration + 1 \in 0..MaxIteration
      BY <2>1, <2>2, BudgetAssumption DEF State
    <3>2. QED
      BY <2>1, <2>2, <3>1 DEF State
  <2>4. TypeOK'
    BY <1>14, <2>3
    DEF SkipOccupiedLabel, TypeInv, TypeOK, durable, git, artifacts
  <2>5. LocalsOK'
    BY <1>14, <2>3
    DEF SkipOccupiedLabel, TypeInv, LocalsOK, HoldsCandidate, HoldsBase
  <2>6. CommitsExist'
    BY <1>14, <2>2
    DEF SkipOccupiedLabel, TypeInv, CommitsExist, HoldsCandidate, HoldsBase, HoldsCommit,
        durable, git
  <2>7. QED
    BY <2>4, <2>5, <2>6 DEF TypeInv
<1>15. CASE Propose
  <2>1. st \in State /\ stage \in Stages
    BY <1>15 DEF Propose, LabelChosen, TypeInv, LocalsOK
  <2>2. Label \in 1..MaxIteration
    BY <1>15, <2>1, BudgetAssumption DEF Propose, LabelChosen, Label, State
  <2>3. cand' \in Names
    BY <1>15, <2>2, BudgetAssumption DEF Propose, Names
  <2>4. repairBase' = st.champion /\ st.champion \in Commits
    BY <1>15, <2>1 DEF Propose, State
  <2>5. TypeOK'
    BY <1>15, <2>2, <2>3, <2>4
    DEF Propose, LabelChosen, TypeInv, TypeOK, durable, git, artifacts
  <2>6. LocalsOK'
    BY <1>15, <2>3, <2>4
    DEF Propose, LabelChosen, TypeInv, LocalsOK, HoldsCandidate, HoldsBase
  <2>7. CommitsExist'
    BY <1>15
    DEF Propose, LabelChosen, TypeInv, CommitsExist, HoldsCandidate, HoldsBase,
        HoldsCommit, durable, git
  <2>8. QED
    BY <2>5, <2>6, <2>7 DEF TypeInv
<1>16. CASE ProposalBlocked
  <2>1. pc # "down" /\ Gone /\ UNCHANGED <<git, artifacts>> /\ saved' \in {saved, st}
    BY <1>16 DEF ProposalBlocked, durable, LabelChosen
  <2>2. faults' \in 0..MaxFaults
    BY <1>16, BudgetAssumption DEF ProposalBlocked, Fault, TypeInv, TypeOK
  <2>3. QED
    BY <2>1, <2>2, GoneKeepsTypes
<1>17. CASE ProposalFails
  <2>1. st \in State /\ stage \in Stages
    BY <1>17 DEF ProposalFails, LabelChosen, TypeInv, LocalsOK
  <2>2. Label \in 1..MaxIteration
    BY <1>17, <2>1, BudgetAssumption DEF ProposalFails, LabelChosen, Label, State
  <2>3. /\ Rejected(st, Label, None, "proposal_failed") \in State
        /\ Rejected(st, Label, None, "proposal_failed").champion = st.champion
    BY <2>1, <2>2, RejectedType DEF Outcomes
  <2>4. st' \in Scheduled(Rejected(st, Label, None, "proposal_failed")) /\ saved' = st'
    BY <1>17 DEF ProposalFails
  <2>5. st' \in State /\ st'.champion = st.champion
    BY <2>1, <2>3, <2>4, ScheduledType
  <2>6. TypeOK'
    BY <1>17, <2>5
    DEF ProposalFails, LabelChosen, TypeInv, TypeOK, durable, git, artifacts
  <2>7. LocalsOK'
    BY <1>17, <2>5
    DEF ProposalFails, LabelChosen, TypeInv, LocalsOK, HoldsCandidate, HoldsBase
  <2>8. CommitsExist'
    BY <1>17, <2>5
    DEF ProposalFails, LabelChosen, TypeInv, CommitsExist, HoldsCandidate, HoldsBase,
        HoldsCommit, durable, git
  <2>9. QED
    BY <2>6, <2>7, <2>8 DEF TypeInv
<1>18. CASE ApplyFails
  <2>1. cand \in Names /\ repairBase \in Commits /\ commits[repairBase] # None
    BY <1>18 DEF ApplyFails, TypeInv, LocalsOK, CommitsExist, HoldsCandidate, HoldsBase
  <2>2. TypeOK'
    BY <1>18 DEF ApplyFails, AttemptFails, TypeInv, TypeOK, durable, git, artifacts
  <2>3. LocalsOK'
    BY <1>18
    DEF ApplyFails, AttemptFails, TypeInv, LocalsOK, HoldsCandidate, HoldsBase
  <2>4. CommitsExist'
    BY <1>18
    DEF ApplyFails, AttemptFails, TypeInv, CommitsExist, HoldsCandidate, HoldsBase,
        HoldsCommit, durable, git
  <2>5. QED
    BY <2>2, <2>3, <2>4 DEF TypeInv
<1>19. CASE ApplyAndGuard
  <2>1. /\ cand \in Names
        /\ cand \in Commits
        /\ repairBase \in Commits
        /\ commits[repairBase] # None
    BY <1>19, NameParts
    DEF ApplyAndGuard, TypeInv, LocalsOK, CommitsExist, HoldsCandidate, HoldsBase
  <2>2. commits[repairBase] \in CommitRecord
    BY <2>1 DEF TypeInv, TypeOK
  <2>3. PICK b \in BOOLEAN: commits' = [commits EXCEPT ![cand] = CommitOf(b)]
    BY <1>19 DEF ApplyAndGuard
  <2>4. CommitOf(b) \in CommitRecord /\ CommitOf(b) # None
    BY <2>1, <2>2, NoneAssumption DEF CommitOf, CommitRecord
  <2>5. \A c \in Commits: commits[c] # None => commits'[c] # None
    BY <2>3, <2>4 DEF TypeInv, TypeOK
  <2>6. commits'[cand] # None
    BY <2>1, <2>3, <2>4 DEF TypeInv, TypeOK
  <2>7. TypeOK'
    BY <1>19, <2>1, <2>3, <2>4
    DEF ApplyAndGuard, AttemptFails, TypeInv, TypeOK, durable, git, artifacts
  <2>8. LocalsOK'
    BY <1>19
    DEF ApplyAndGuard, AttemptFails, TypeInv, LocalsOK, HoldsCandidate, HoldsBase
  <2>9. CommitsExist'
    BY <1>19, <2>6
    DEF ApplyAndGuard, AttemptFails, TypeInv, CommitsExist, HoldsCandidate, HoldsBase,
        HoldsCommit, durable, git
  <2>10. QED
    BY <2>7, <2>8, <2>9 DEF TypeInv
<1>20. CASE SmokePasses
  <2>1. TypeOK'
    BY <1>20 DEF SmokePasses, TypeInv, TypeOK, durable, git, artifacts
  <2>2. LocalsOK'
    BY <1>20 DEF SmokePasses, TypeInv, LocalsOK, HoldsCandidate, HoldsBase
  <2>3. CommitsExist'
    BY <1>20
    DEF SmokePasses, TypeInv, CommitsExist, HoldsCandidate, HoldsBase, HoldsCommit,
        durable, git
  <2>4. QED
    BY <2>1, <2>2, <2>3 DEF TypeInv
<1>21. CASE SmokeFails
  <2>1. TypeOK'
    BY <1>21 DEF SmokeFails, AttemptFails, TypeInv, TypeOK, durable, git, artifacts
  <2>2. LocalsOK'
    BY <1>21 DEF SmokeFails, AttemptFails, TypeInv, LocalsOK, HoldsCandidate, HoldsBase
  <2>3. CommitsExist'
    BY <1>21
    DEF SmokeFails, AttemptFails, TypeInv, CommitsExist, HoldsCandidate, HoldsBase,
        HoldsCommit, durable, git
  <2>4. QED
    BY <2>1, <2>2, <2>3 DEF TypeInv
<1>22. CASE SmokeOutage
  <2>1. faults' \in 0..MaxFaults
    BY <1>22, BudgetAssumption DEF SmokeOutage, Fault, TypeInv, TypeOK
  <2>2. TypeOK'
    BY <1>22, <2>1
    DEF SmokeOutage, AttemptFails, Fault, TypeInv, TypeOK, durable, git, artifacts
  <2>3. LocalsOK'
    BY <1>22
    DEF SmokeOutage, AttemptFails, Fault, TypeInv, LocalsOK, HoldsCandidate, HoldsBase
  <2>4. CommitsExist'
    BY <1>22
    DEF SmokeOutage, AttemptFails, Fault, TypeInv, CommitsExist, HoldsCandidate,
        HoldsBase, HoldsCommit, durable, git
  <2>5. QED
    BY <2>2, <2>3, <2>4 DEF TypeInv
<1>23. CASE GiveUp
  <2>1. TypeOK'
    BY <1>23 DEF GiveUp, TypeInv, TypeOK, artifacts
  <2>2. LocalsOK'
    BY <1>23 DEF GiveUp, TypeInv, LocalsOK, HoldsCandidate, HoldsBase
  <2>3. CommitsExist'
    BY <1>23
    DEF GiveUp, TypeInv, CommitsExist, HoldsCandidate, HoldsBase, HoldsCommit
  <2>4. QED
    BY <2>1, <2>2, <2>3 DEF TypeInv
<1>24. CASE Repair
  <2>1. cand \in Names /\ cand \in Commits /\ repairBase \in Commits
    BY <1>24, NameParts DEF Repair, TypeInv, LocalsOK, HoldsCandidate, HoldsBase
  <2>2. cand' \in Names
    BY <1>24, <2>1, BudgetAssumption DEF Repair, RepairsLeft, Names
  <2>3. repairBase' \in Commits /\ commits[repairBase'] # None
    BY <1>24, <2>1, NoneAssumption
    DEF Repair, NextRepairBase, TypeInv, CommitsExist, HoldsBase
  <2>4. TypeOK'
    BY <1>24, <2>2, <2>3 DEF Repair, TypeInv, TypeOK, durable, git, artifacts
  <2>5. LocalsOK'
    BY <1>24, <2>2, <2>3 DEF Repair, TypeInv, LocalsOK, HoldsCandidate, HoldsBase
  <2>6. CommitsExist'
    BY <1>24, <2>3
    DEF Repair, TypeInv, CommitsExist, HoldsCandidate, HoldsBase, HoldsCommit, durable, git
  <2>7. QED
    BY <2>4, <2>5, <2>6 DEF TypeInv
<1>25. CASE RepairBlocked
  <2>1. pc # "down" /\ Gone /\ UNCHANGED <<git, artifacts>> /\ saved' \in {saved, st}
    BY <1>25 DEF RepairBlocked, durable
  <2>2. faults' \in 0..MaxFaults
    BY <1>25, BudgetAssumption DEF RepairBlocked, Fault, TypeInv, TypeOK
  <2>3. QED
    BY <2>1, <2>2, GoneKeepsTypes
<1>26. CASE RepairFails
  <2>1. TypeOK'
    BY <1>26 DEF RepairFails, TypeInv, TypeOK, durable, git, artifacts
  <2>2. LocalsOK'
    BY <1>26 DEF RepairFails, TypeInv, LocalsOK, HoldsCandidate, HoldsBase
  <2>3. CommitsExist'
    BY <1>26
    DEF RepairFails, TypeInv, CommitsExist, HoldsCandidate, HoldsBase, HoldsCommit,
        durable, git
  <2>4. QED
    BY <2>1, <2>2, <2>3 DEF TypeInv
<1>27. CASE WriteGuards
  <2>1. cand \in Names
    BY <1>27 DEF WriteGuards, TypeInv, LocalsOK, HoldsCandidate
  <2>2. TypeOK'
    BY <1>27, <2>1 DEF WriteGuards, TypeInv, TypeOK, durable, git, artifacts
  <2>3. LocalsOK'
    BY <1>27 DEF WriteGuards, TypeInv, LocalsOK, HoldsCandidate, HoldsBase
  <2>4. CommitsExist'
    BY <1>27
    DEF WriteGuards, TypeInv, CommitsExist, HoldsCandidate, HoldsBase, HoldsCommit,
        durable, git
  <2>5. QED
    BY <2>2, <2>3, <2>4 DEF TypeInv
<1>28. CASE CheckpointPending
  <2>1. st \in State /\ stage \in Stages
    BY <1>28 DEF CheckpointPending, TypeInv, LocalsOK
  <2>2. cand \in Names
    BY <1>28 DEF CheckpointPending, TypeInv, LocalsOK, HoldsCandidate
  <2>3. PendingOf(cand) \in Pending
    BY <2>1, <2>2 DEF PendingOf, Pending, State
  <2>4. st' = [st EXCEPT !.pending = PendingOf(cand)] /\ saved' = st'
    BY <1>28 DEF CheckpointPending
  <2>5. st' \in State /\ st'.champion = st.champion
    BY <2>1, <2>3, <2>4 DEF State
  <2>6. TypeOK'
    BY <1>28, <2>5
    DEF CheckpointPending, TypeInv, TypeOK, durable, git, artifacts
  <2>7. LocalsOK'
    BY <1>28, <2>5
    DEF CheckpointPending, TypeInv, LocalsOK, HoldsCandidate, HoldsBase
  <2>8. CommitsExist'
    BY <1>28
    DEF CheckpointPending, TypeInv, CommitsExist, HoldsCandidate, HoldsBase, HoldsCommit,
        durable, git
  <2>9. QED
    BY <2>6, <2>7, <2>8 DEF TypeInv
<1>29. CASE RefuseReusedTag
  <2>1. pc # "down" /\ Gone /\ UNCHANGED <<git, artifacts>> /\ saved' \in {saved, st}
    BY <1>29 DEF RefuseReusedTag, durable
  <2>2. faults' \in 0..MaxFaults
    BY <1>29, BudgetAssumption DEF RefuseReusedTag, Fault, TypeInv, TypeOK
  <2>3. QED
    BY <2>1, <2>2, GoneKeepsTypes
<1>30. CASE ProbeFails
  <2>1. pc # "down" /\ Gone /\ UNCHANGED <<git, artifacts>> /\ saved' \in {saved, st}
    BY <1>30 DEF ProbeFails, durable
  <2>2. faults' \in 0..MaxFaults
    BY <1>30, BudgetAssumption DEF ProbeFails, Fault, TypeInv, TypeOK
  <2>3. QED
    BY <2>1, <2>2, GoneKeepsTypes
<1>31. CASE StartRollout
  <2>1. cand \in Names
    BY <1>31 DEF StartRollout, TypeInv, LocalsOK, HoldsCandidate
  <2>2. TypeOK'
    BY <1>31, <2>1 DEF StartRollout, TypeInv, TypeOK, durable, git, artifacts
  <2>3. LocalsOK'
    BY <1>31 DEF StartRollout, TypeInv, LocalsOK, HoldsCandidate, HoldsBase
  <2>4. CommitsExist'
    BY <1>31
    DEF StartRollout, TypeInv, CommitsExist, HoldsCandidate, HoldsBase, HoldsCommit,
        durable, git
  <2>5. QED
    BY <2>2, <2>3, <2>4 DEF TypeInv
<1>32. CASE RolloutCompletes
  <2>1. st \in State /\ stage \in Stages
    BY <1>32 DEF RolloutCompletes, TypeInv, LocalsOK
  <2>2. cand \in Commits
    BY <1>32, NameParts DEF RolloutCompletes, TypeInv, LocalsOK, HoldsCandidate
  <2>3. rollouts' = rollouts \cup {result'} /\ result' \in Evidence
    BY <1>32, <2>1, <2>2 DEF RolloutCompletes, Evidence
  <2>4. TypeOK'
    BY <1>32, <2>3
    DEF RolloutCompletes, TypeInv, TypeOK, durable, git, artifacts
  <2>5. LocalsOK'
    BY <1>32
    DEF RolloutCompletes, TypeInv, LocalsOK, HoldsCandidate, HoldsBase
  <2>6. CommitsExist'
    BY <1>32
    DEF RolloutCompletes, TypeInv, CommitsExist, HoldsCandidate, HoldsBase, HoldsCommit,
        durable, git
  <2>7. QED
    BY <2>4, <2>5, <2>6 DEF TypeInv
<1>33. CASE RolloutFails
  <2>1. pc # "down" /\ Gone /\ UNCHANGED <<git, artifacts>> /\ saved' \in {saved, st}
    BY <1>33 DEF RolloutFails, durable
  <2>2. faults' \in 0..MaxFaults
    BY <1>33, BudgetAssumption DEF RolloutFails, Fault, TypeInv, TypeOK
  <2>3. QED
    BY <2>1, <2>2, GoneKeepsTypes
<1>34. CASE ScoreCandidate
  <2>1. st \in State /\ stage \in Stages
    BY <1>34 DEF ScoreCandidate, TypeInv, LocalsOK
  <2>2. cand \in Names /\ cand[1] \in 1..MaxIteration
    BY <1>34, NameParts DEF ScoreCandidate, TypeInv, LocalsOK, HoldsCandidate
  <2>3. [iteration |-> cand[1], candidate |-> cand, status |-> Outcome] \in HistoryRecord
    BY <2>2 DEF HistoryRecord, Outcome, Outcomes
  <2>4. Append(st.history, [iteration |-> cand[1], candidate |-> cand, status |-> Outcome])
          \in Seq(HistoryRecord)
    BY <2>1, <2>3 DEF State
  <2>5. PICK status \in {"productive", "active"}:
          st' = [st EXCEPT !.runtimeCandidates = @ + 1,
                           !.history = Append(@, [iteration |-> cand[1], candidate |-> cand,
                                                  status |-> Outcome]),
                           !.status[stage] = status]
    BY <1>34 DEF ScoreCandidate
  <2>6. /\ [st.status EXCEPT ![stage] = status] \in [Stages -> Statuses]
        /\ st.runtimeCandidates + 1 \in Nat
    BY <2>1 DEF State, Statuses
  <2>7. st' \in State /\ st'.champion = st.champion
    BY <2>1, <2>4, <2>5, <2>6 DEF State
  <2>8. ledger' \in [Names -> Nat]
    BY <1>34, <2>2 DEF ScoreCandidate, TypeInv, TypeOK
  <2>9. TypeOK'
    BY <1>34, <2>2, <2>7
    DEF ScoreCandidate, TypeInv, TypeOK, durable, git, artifacts
  <2>10. LocalsOK'
    BY <1>34, <2>7
    DEF ScoreCandidate, TypeInv, LocalsOK, HoldsCandidate, HoldsBase
  <2>11. CommitsExist'
    BY <1>34
    DEF ScoreCandidate, TypeInv, CommitsExist, HoldsCandidate, HoldsBase, HoldsCommit,
        durable, git
  <2>12. QED
    BY <2>9, <2>10, <2>11 DEF TypeInv
<1>35. CASE Promote
  <2>1. st \in State /\ stage \in Stages
    BY <1>35 DEF Promote, TypeInv, LocalsOK
  <2>2. cand \in Commits /\ result \in Evidence \cup {None}
    BY <1>35, NameParts DEF Promote, TypeInv, TypeOK, LocalsOK, HoldsCandidate
  <2>3. Adopted \in State
    BY <1>35, <2>1, <2>2 DEF Adopted, State
  <2>4. Revalidated(Adopted, cand) \in [Stages -> Statuses]
    BY <2>3 DEF Revalidated, State, Statuses
  <2>5. st' \in State /\ st'.champion = cand
    BY <1>35, <2>3, <2>4 DEF Promote, Adopted, State
  <2>6. TypeOK'
    BY <1>35, <2>2, <2>5
    DEF Promote, TypeInv, TypeOK, durable, git, artifacts
  <2>7. LocalsOK'
    BY <1>35, <2>5
    DEF Promote, TypeInv, LocalsOK, HoldsCandidate, HoldsBase
  <2>8. CommitsExist'
    BY <1>35, <2>5
    DEF Promote, TypeInv, CommitsExist, HoldsCandidate, HoldsBase, HoldsCommit, durable, git
  <2>9. QED
    BY <2>6, <2>7, <2>8 DEF TypeInv
<1>36. CASE SaveSelection
  <2>1. st \in State /\ stage \in Stages /\ cand[1] \in 0..MaxIteration
    BY <1>36, NameParts DEF SaveSelection, TypeInv, LocalsOK, HoldsCandidate
  <2>2. /\ [st EXCEPT !.pending = None, !.iteration = cand[1]] \in State
        /\ [st EXCEPT !.pending = None, !.iteration = cand[1]].champion = st.champion
    BY <2>1 DEF State
  <2>3. /\ st' \in Scheduled([st EXCEPT !.pending = None, !.iteration = cand[1]])
        /\ saved' = st'
    BY <1>36 DEF SaveSelection
  <2>4. st' \in State /\ st'.champion = st.champion
    BY <2>1, <2>2, <2>3, ScheduledType
  <2>5. TypeOK'
    BY <1>36, <2>4
    DEF SaveSelection, TypeInv, TypeOK, durable, git, artifacts
  <2>6. LocalsOK'
    BY <1>36, <2>4
    DEF SaveSelection, TypeInv, LocalsOK, HoldsCandidate, HoldsBase
  <2>7. CommitsExist'
    BY <1>36, <2>4
    DEF SaveSelection, TypeInv, CommitsExist, HoldsCandidate, HoldsBase, HoldsCommit,
        durable, git
  <2>8. QED
    BY <2>5, <2>6, <2>7 DEF TypeInv
<1>37. CASE Crash
  <2>1. pc # "down" /\ Gone /\ UNCHANGED <<git, artifacts>> /\ saved' \in {saved, st}
    BY <1>37 DEF Crash, durable
  <2>2. faults' \in 0..MaxFaults
    BY <1>37, BudgetAssumption DEF Crash, Fault, TypeInv, TypeOK
  <2>3. QED
    BY <2>1, <2>2, GoneKeepsTypes
<1>38. CASE RecordFailure
  <2>1. st \in State /\ stage \in Stages /\ cand \in Names
    BY <1>38 DEF RecordFailure, TypeInv, LocalsOK, HoldsCandidate
  <2>2. /\ Rejected(st, cand[1], None, "implementation_failed") \in State
        /\ Rejected(st, cand[1], None, "implementation_failed").champion = st.champion
    BY <2>1, NameParts, RejectedType DEF Outcomes
  <2>3. /\ st' \in Scheduled(Rejected(st, cand[1], None, "implementation_failed"))
        /\ saved' = st'
    BY <1>38 DEF RecordFailure
  <2>4. st' \in State /\ st'.champion = st.champion
    BY <2>1, <2>2, <2>3, ScheduledType
  <2>5. TypeOK'
    BY <1>38, <2>4
    DEF RecordFailure, TypeInv, TypeOK, durable, git, artifacts
  <2>6. LocalsOK'
    BY <1>38, <2>4
    DEF RecordFailure, TypeInv, LocalsOK, HoldsCandidate, HoldsBase
  <2>7. CommitsExist'
    BY <1>38, <2>4
    DEF RecordFailure, TypeInv, CommitsExist, HoldsCandidate, HoldsBase, HoldsCommit,
        durable, git
  <2>8. QED
    BY <2>5, <2>6, <2>7 DEF TypeInv
<1>39. CASE MarkInvalid
  <2>1. st.pending.candidate \in Names
    BY <1>39 DEF MarkInvalid, TypeInv, LocalsOK, Pending
  <2>2. TypeOK'
    BY <1>39, <2>1 DEF MarkInvalid, TypeInv, TypeOK, git
  <2>3. LocalsOK'
    BY <1>39 DEF MarkInvalid, TypeInv, LocalsOK, HoldsCandidate, HoldsBase
  <2>4. CommitsExist'
    BY <1>39
    DEF MarkInvalid, TypeInv, CommitsExist, HoldsCandidate, HoldsBase, HoldsCommit, git
  <2>5. QED
    BY <2>2, <2>3, <2>4 DEF TypeInv
<1>40. QED
  BY <1>1, <1>2, <1>3, <1>4, <1>5, <1>6, <1>7, <1>8, <1>9, <1>10, <1>11, <1>12, <1>13,
     <1>14, <1>15, <1>16, <1>17, <1>18, <1>19, <1>20, <1>21, <1>22, <1>23, <1>24, <1>25,
     <1>26, <1>27, <1>28, <1>29, <1>30, <1>31, <1>32, <1>33, <1>34, <1>35, <1>36,
     <1>37, <1>38, <1>39 DEF Next, Step, Prepare, Resume, Iterate, Materialize, Evaluate, Disturb

(* The checkpoint of an older release is a state that names the seed. *)
LEMMA LegacyState ==
  ASSUME InitLegacy
  PROVE  saved \in State /\ saved.champion = Seed
<1> USE BudgetAssumption, StagesAssumption
<1> DEFINE n == <<1, 0>>
           e == [commit |-> Seed, stage |-> StartStage, native |-> 0, cost |-> 0]
           p == [candidate |-> n, stage |-> StartStage, parent |-> Seed]
<1>1. n \in Names /\ Seed \in Commits
  BY DEF InitLegacy, Names, Commits
<1>2. e \in Evidence /\ p \in Pending
  BY <1>1 DEF Evidence, Pending
<1>3. [FreshState.base EXCEPT ![StartStage] = e] \in [Stages -> Evidence \cup {None}]
  BY <1>2, FreshStateType DEF State
<1>4. [FreshState.status EXCEPT ![StartStage] = "active"] \in [Stages -> Statuses]
  BY FreshStateType DEF State, Statuses
<1>5. saved = [FreshState EXCEPT !.base[StartStage] = e, !.status[StartStage] = "active",
                                 !.pending = p]
  BY DEF InitLegacy
<1>6. QED
  BY <1>2, <1>3, <1>4, <1>5, FreshStateType DEF State

(* Both kinds of initial state are well typed. *)
LEMMA TypeInit == ASSUME Init PROVE TypeInv
<1> USE BudgetAssumption, StagesAssumption, NoneAssumption
<1>1. FreshState \in State /\ FreshState.champion = Seed
  BY FreshStateType
<1>2. Seed \in Commits /\ None \notin Names /\ None \notin CommitRecord
  BY DEF Commits
<1>3. CASE InitFresh
  <2>1. TypeOK
    BY <1>1, <1>2, <1>3 DEF Init, InitFresh, TypeOK, CommitRecord
  <2>2. commits[Seed] # None
    <3>1. [ancestors |-> {Seed}, substantive |-> FALSE] \in CommitRecord
      BY <1>2 DEF CommitRecord
    <3>2. QED
      BY <1>2, <1>3, <3>1 DEF InitFresh
  <2>3. QED
    BY <1>3, <2>1, <2>2
    DEF Init, InitFresh, TypeInv, LocalsOK, CommitsExist, HoldsCandidate,
                            HoldsBase, HoldsCommit
<1>4. CASE InitLegacy
  <2> DEFINE n == <<1, 0>>
             e == [commit |-> Seed, stage |-> StartStage, native |-> 0, cost |-> 0]
  <2>1. n \in Names /\ n \in Commits /\ n # Seed /\ 1 \in 1..MaxIteration
    BY <1>4 DEF InitLegacy, Names, Commits, Seed
  <2>2. e \in Evidence
    BY <1>2 DEF Evidence
  <2>3. saved \in State /\ saved.champion = Seed
    BY <1>4, LegacyState
  <2>4. /\ commits \in [Commits -> CommitRecord \cup {None}]
        /\ commits[Seed] # None /\ commits[n] # None
    <3> DEFINE seed == [ancestors |-> {Seed}, substantive |-> FALSE]
               legacy == [ancestors |-> {Seed, n}, substantive |-> FALSE]
    <3>1. seed \in CommitRecord /\ legacy \in CommitRecord
      BY <1>2, <2>1 DEF CommitRecord
    <3>2. commits = [c \in Commits |-> CASE c = Seed -> seed [] c = n -> legacy [] OTHER -> None]
      BY <1>4 DEF InitLegacy
    <3> HIDE DEF seed, legacy, n
    <3>3. QED
      BY <1>2, <2>1, <3>1, <3>2
  <2>5. /\ worktrees \in [Names -> Commits \cup {None}]
        /\ \A m \in Names: worktrees[m] # None => worktrees[m] = n
    BY <1>4, <2>1 DEF InitLegacy
  <2>6. proposals = {1} /\ guards = {n} /\ rollouts = {e} /\ started \in {{}, {n}}
    BY <1>4 DEF InitLegacy
  <2> HIDE DEF n, e
  <2>7. TypeOK
    BY <1>2, <2>1, <2>2, <2>3, <2>4, <2>5, <2>6 DEF Init, TypeOK
  <2>8. QED
    BY <2>3, <2>4, <2>5, <2>7 DEF Init, TypeInv, LocalsOK, CommitsExist, HoldsCandidate,
                                   HoldsBase, HoldsCommit
<1>5. QED
  BY <1>3, <1>4 DEF Init

(* Every reachable state is well typed, and the process's local variables     *)
(* hold what its position says: run() never dereferences a missing value.     *)
THEOREM TypeCorrect == Spec => []TypeOK
<1>1. Init => TypeInv
  BY TypeInit
<1>2. TypeInv /\ [Next]_vars => TypeInv'
  <2>1. ASSUME TypeInv, UNCHANGED vars PROVE TypeInv'
    BY <2>1
    DEF TypeInv, TypeOK, LocalsOK, CommitsExist, vars, durable, git, artifacts, volatile
  <2>2. QED
    BY <2>1, TypeStep
<1>3. TypeInv => TypeOK
  BY DEF TypeInv
<1>4. QED
  BY <1>1, <1>2, <1>3, PTL DEF Spec
-----------------------------------------------------------------------------
(* Evidence and the checkpoint. *)

(* In PairedEvolution a step that neither measures nor moves the checkpointed *)
(* champion stutters.                                                         *)
LEMMA Stutters ==
  ASSUME SavedChampion' = SavedChampion, UNCHANGED rollouts
  PROVE  AbstractStep
  BY DEF AbstractStep, SavedChampion, Abstract!vars

(* A finished rollout is a measurement of PairedEvolution. *)
LEMMA Measures ==
  ASSUME SavedChampion' = SavedChampion, NEW e \in Evidence, rollouts' = rollouts \cup {e}
  PROVE  AbstractStep
  BY
  DEF AbstractStep, SavedChampion, Evidence, Abstract!Next, Abstract!Measure,
      Abstract!Evidence

(* The process goes away, perhaps after saving the state it holds. *)
LEMMA GoneKeepsEvidence ==
  ASSUME IInv, pc # "down", Gone, UNCHANGED <<git, artifacts>>,
         saved' = saved \/ (pc # "save" /\ saved' = st)
  PROVE  EvidenceInv' /\ AbstractStep
<1>1. st \in State /\ st # None
  BY NoneAssumption DEF IInv, TypeInv, LocalsOK
<1>2. rollouts' = rollouts /\ st' = None /\ pc' = "down"
  BY DEF Gone, artifacts
<1>3. SavedChampion' = SavedChampion
  BY <1>1 DEF IInv, EvidenceInv, CheckpointLags, SavedChampion
<1>4. BaselinesMeasured'
  BY <1>1, <1>2 DEF IInv, EvidenceInv, BaselinesMeasured
<1>5. QED
  BY <1>2, <1>3, <1>4, Stutters
  DEF EvidenceInv, SidesMeasured, CheckpointLags, HoldsResult, AtBaseline

(* Between two comparisons the process keeps the champion, its evidence and   *)
(* the stored baselines, whether or not it saves what it holds.               *)
LEMMA QuietKeepsEvidence ==
  ASSUME IInv, UNCHANGED <<champ, stage, rollouts>>,
         pc \notin {"down", "save"} \cup AtBaseline,
         pc' \notin {"down"} \cup HoldsResult \cup AtBaseline,
         st' \in State, st'.champion = st.champion, st'.base = st.base,
         saved' \in {saved, st'}
  PROVE  EvidenceInv' /\ AbstractStep
<1>1. st \in State /\ st # None /\ st' # None
  BY NoneAssumption DEF IInv, TypeInv, LocalsOK
<1>2. SavedChampion' = SavedChampion /\ st'.champion = SavedChampion'
  BY <1>1 DEF IInv, EvidenceInv, CheckpointLags, SavedChampion
<1>3. BaselinesMeasured'
  BY <1>1 DEF IInv, EvidenceInv, BaselinesMeasured
<1>4. SidesMeasured'
  BY DEF IInv, EvidenceInv, SidesMeasured, HoldsResult
<1>5. CheckpointLags'
  BY <1>2 DEF CheckpointLags, HoldsResult
<1>6. QED
  BY <1>2, <1>3, <1>4, <1>5, Stutters DEF EvidenceInv

(* Every step keeps the evidence and is a step of PairedEvolution or a stutter. *)
LEMMA EvidenceStep == ASSUME IInv, TypeInv', Next PROVE EvidenceInv' /\ AbstractStep
<1>1. CASE Launch
  <2>1. PICK s: /\ s = IF saved = None THEN FreshState ELSE saved
                /\ st' = [s EXCEPT !.next = stage']
    BY <1>1 DEF Launch
  <2>2. saved' = saved /\ rollouts' = rollouts /\ pc' = "resume_baseline"
    BY <1>1 DEF Launch, durable, artifacts
  <2>3. s \in State /\ (saved = None => s = FreshState)
    BY <2>1, FreshStateType DEF IInv, TypeInv, TypeOK
  <2>4. st'.champion = s.champion /\ st'.base = s.base
    BY <2>1, <2>3 DEF State
  <2>5. SavedChampion' = SavedChampion /\ st'.champion = SavedChampion
    BY <2>1, <2>2, <2>4, FreshStateType DEF SavedChampion
  <2>6. \A t \in Stages: FreshState.base[t] = None
    BY DEF FreshState
  <2>7. BaselinesMeasured'
    <3>1. \A t \in Stages: s.base[t] # None =>
            s.base[t] \in rollouts /\ s.base[t].stage = t
      BY <2>1, <2>6 DEF IInv, EvidenceInv, BaselinesMeasured
    <3>2. \A t \in Stages: st'.base[t] # None =>
            st'.base[t] \in rollouts' /\ st'.base[t].stage = t
      BY <2>2, <2>4, <3>1
    <3>3. QED
      BY <2>2, <3>2 DEF IInv, EvidenceInv, BaselinesMeasured
  <2>8. SidesMeasured' /\ CheckpointLags'
    BY <2>2, <2>5 DEF SidesMeasured, CheckpointLags, AtBaseline, HoldsResult
  <2>9. QED
    BY <2>2, <2>5, <2>7, <2>8, Stutters DEF EvidenceInv
<1>2. CASE ReuseBaseline
  <2>1. /\ st \in State /\ stage \in Stages /\ st # None
        /\ st' = st /\ saved' = st /\ rollouts' = rollouts /\ stage' = stage
        /\ champ' = st.base[stage] /\ champ' # None /\ champ'.commit = st.champion
    BY <1>2, NoneAssumption
    DEF ReuseBaseline, BaselineReusable, artifacts, IInv, TypeInv, LocalsOK
  <2>2. pc \in AtBaseline /\ pc' \in {"discover", "label"}
    BY <1>2 DEF ReuseBaseline, AfterBaseline, AtBaseline
  <2>3. SavedChampion' = SavedChampion /\ st.champion = SavedChampion
    BY <2>1, <2>2 DEF IInv, EvidenceInv, CheckpointLags, SavedChampion, AtBaseline
  <2>4. BaselinesMeasured'
    BY <2>1 DEF IInv, EvidenceInv, BaselinesMeasured
  <2>5. champ' \in rollouts /\ champ'.stage = stage
    BY <2>1 DEF IInv, EvidenceInv, BaselinesMeasured
  <2>6. SidesMeasured' /\ CheckpointLags'
    BY <2>1, <2>2, <2>3, <2>5 DEF SidesMeasured, CheckpointLags, HoldsResult
  <2>7. QED
    BY <2>1, <2>3, <2>4, <2>6, Stutters DEF EvidenceInv
<1>3. CASE EvaluateBaseline
  <2>1. st \in State /\ stage \in Stages /\ st # None
    BY <1>3, NoneAssumption DEF EvaluateBaseline, IInv, TypeInv, LocalsOK
  <2>2. PICK e \in Evidence:
          /\ e.commit = st.champion /\ e.stage = stage
          /\ rollouts' = rollouts \cup {e} /\ champ' = e
          /\ st' = [st EXCEPT !.base[stage] = e, !.status[stage] = "active"] /\ saved' = st'
    BY <1>3, <2>1 DEF EvaluateBaseline, Evidence, State
  <2>3. stage' = stage /\ pc \in AtBaseline /\ pc' \in {"discover", "label"}
    BY <1>3 DEF EvaluateBaseline, AfterBaseline, AtBaseline
  <2>4. /\ st' # None /\ st'.champion = st.champion
        /\ \A t \in Stages: st'.base[t] = IF t = stage THEN e ELSE st.base[t]
    BY <2>1, <2>2, <2>3, NoneAssumption DEF State, TypeInv, LocalsOK, AtBaseline
  <2>5. SavedChampion' = SavedChampion /\ st'.champion = SavedChampion
    BY <2>2, <2>3, <2>4 DEF IInv, EvidenceInv, CheckpointLags, SavedChampion, AtBaseline
  <2>6. BaselinesMeasured'
    <3>1. \A t \in Stages: st.base[t] # None =>
            st.base[t] \in rollouts /\ st.base[t].stage = t
      BY <2>1 DEF IInv, EvidenceInv, BaselinesMeasured
    <3>2. \A t \in Stages: st'.base[t] # None =>
            st'.base[t] \in rollouts' /\ st'.base[t].stage = t
      BY <2>2, <2>4, <3>1
    <3>3. QED
      BY <2>2, <3>2 DEF BaselinesMeasured
  <2>7. SidesMeasured' /\ CheckpointLags'
    BY <2>2, <2>3, <2>4, <2>5 DEF SidesMeasured, CheckpointLags, HoldsResult
  <2>8. QED
    BY <2>2, <2>5, <2>6, <2>7, Measures DEF EvidenceInv
<1>4. CASE BaselineFails
  <2>1. pc # "down" /\ Gone /\ UNCHANGED <<git, artifacts>>
    BY <1>4 DEF BaselineFails, durable
  <2>2. saved' = saved \/ (pc # "save" /\ saved' = st)
    BY <1>4 DEF BaselineFails, durable
  <2>3. QED
    BY <2>1, <2>2, GoneKeepsEvidence
<1>5. CASE PendingKnown
  <2>1. /\ pc \notin {"down", "save"} \cup AtBaseline
        /\ pc' \notin {"down"} \cup HoldsResult \cup AtBaseline
    BY <1>5 DEF PendingKnown, AtBaseline, HoldsResult
  <2>2. UNCHANGED <<champ, stage, rollouts, st, saved>>
    BY <1>5 DEF PendingKnown, durable, artifacts
  <2>3. st' \in State
    BY <2>1 DEF TypeInv, LocalsOK
  <2>4. QED
    BY <2>1, <2>2, <2>3, QuietKeepsEvidence
<1>6. CASE NothingPending
  <2>1. /\ pc \notin {"down", "save"} \cup AtBaseline
        /\ pc' \notin {"down"} \cup HoldsResult \cup AtBaseline
    BY <1>6 DEF NothingPending, AtBaseline, HoldsResult
  <2>2. UNCHANGED <<champ, stage, rollouts, st, saved>>
    BY <1>6 DEF NothingPending, durable, artifacts
  <2>3. st' \in State
    BY <2>1 DEF TypeInv, LocalsOK
  <2>4. QED
    BY <2>1, <2>2, <2>3, QuietKeepsEvidence
<1>7. CASE RecoverPending
  <2>1. /\ pc \notin {"down", "save"} \cup AtBaseline
        /\ pc' \notin {"down"} \cup HoldsResult \cup AtBaseline
    BY <1>7 DEF RecoverPending, AtBaseline, HoldsResult
  <2>2. UNCHANGED <<champ, stage, rollouts>> /\ saved' \in {saved, st'}
    BY <1>7 DEF RecoverPending, durable, artifacts
  <2>3. st \in State /\ stage \in Stages /\ st' \in State
    BY <2>1 DEF IInv, TypeInv, LocalsOK
  <2>4. st'.champion = st.champion /\ st'.base = st.base
    BY <1>7, <2>3 DEF RecoverPending, State
  <2>5. QED
    BY <2>1, <2>2, <2>3, <2>4, QuietKeepsEvidence
<1>8. CASE PendingStageMismatch
  <2>1. pc # "down" /\ Gone /\ UNCHANGED <<git, artifacts>>
    BY <1>8 DEF PendingStageMismatch, durable
  <2>2. saved' = saved \/ (pc # "save" /\ saved' = st)
    BY <1>8 DEF PendingStageMismatch, durable
  <2>3. QED
    BY <2>1, <2>2, GoneKeepsEvidence
<1>9. CASE InvalidatePending
  <2>1. /\ pc \notin {"down", "save"} \cup AtBaseline
        /\ pc' \notin {"down"} \cup HoldsResult \cup AtBaseline
    BY <1>9 DEF InvalidatePending, AtBaseline, HoldsResult
  <2>2. UNCHANGED <<champ, stage, rollouts>> /\ saved' \in {saved, st'}
    BY <1>9 DEF InvalidatePending, durable, artifacts
  <2>3. st \in State /\ stage \in Stages /\ st' \in State
    BY <2>1 DEF IInv, TypeInv, LocalsOK
  <2>4. st'.champion = st.champion /\ st'.base = st.base
    <3> DEFINE n == st.pending.candidate
               rejected == Rejected(st, n[1], n, "infrastructure_invalidated")
               r == [rejected EXCEPT !.pending = None]
    <3>1. n \in Names
      BY <1>9 DEF InvalidatePending, IInv, TypeInv, LocalsOK, Pending
    <3>2. rejected \in State /\ rejected.champion = st.champion /\ rejected.base = st.base
      BY <2>3, <3>1, NameParts, RejectedType DEF Outcomes
    <3>3. r \in State /\ r.champion = st.champion /\ r.base = st.base
      BY <3>2 DEF State
    <3>4. st' \in Scheduled(r)
      BY <1>9 DEF InvalidatePending
    <3>5. QED
      BY <2>3, <3>3, <3>4, ScheduledType
  <2>5. QED
    BY <2>1, <2>2, <2>3, <2>4, QuietKeepsEvidence
<1>10. CASE ResumePending
  <2>1. /\ pc \notin {"down", "save"} \cup AtBaseline
        /\ pc' \notin {"down"} \cup HoldsResult \cup AtBaseline
    BY <1>10 DEF ResumePending, AtBaseline, HoldsResult
  <2>2. UNCHANGED <<champ, stage, rollouts, st, saved>>
    BY <1>10 DEF ResumePending, durable, artifacts
  <2>3. st' \in State
    BY <2>1 DEF TypeInv, LocalsOK
  <2>4. QED
    BY <2>1, <2>2, <2>3, QuietKeepsEvidence
<1>11. CASE LoopEnds
  <2>1. pc # "down" /\ Gone /\ UNCHANGED <<git, artifacts>>
    BY <1>11 DEF LoopEnds, durable
  <2>2. saved' = saved \/ (pc # "save" /\ saved' = st)
    BY <1>11 DEF LoopEnds, durable
  <2>3. QED
    BY <2>1, <2>2, GoneKeepsEvidence
<1>12. CASE OutOfLabels
  <2>1. pc # "down" /\ Gone /\ UNCHANGED <<git, artifacts>>
    BY <1>12 DEF OutOfLabels, durable
  <2>2. saved' = saved \/ (pc # "save" /\ saved' = st)
    BY <1>12 DEF OutOfLabels, durable
  <2>3. QED
    BY <2>1, <2>2, GoneKeepsEvidence
<1>13. CASE LoopContinues
  <2>1. UNCHANGED <<saved, st, rollouts, champ>> /\ pc = "loop"
    BY <1>13 DEF LoopContinues, durable, artifacts
  <2>2. pc' \in {"switch_baseline", "label"} /\ (pc' = "label" => stage' = stage)
    BY <1>13 DEF LoopContinues
  <2>3. SavedChampion' = SavedChampion /\ st.champion = SavedChampion
    BY <2>1 DEF IInv, EvidenceInv, CheckpointLags, SavedChampion
  <2>4. BaselinesMeasured'
    BY <2>1 DEF IInv, EvidenceInv, BaselinesMeasured
  <2>5. SidesMeasured' /\ CheckpointLags'
    BY <2>1, <2>2, <2>3
    DEF IInv, EvidenceInv, SidesMeasured, CheckpointLags, HoldsResult, AtBaseline
  <2>6. QED
    BY <2>1, <2>3, <2>4, <2>5, Stutters DEF EvidenceInv
<1>14. CASE SkipOccupiedLabel
  <2>1. /\ pc \notin {"down", "save"} \cup AtBaseline
        /\ pc' \notin {"down"} \cup HoldsResult \cup AtBaseline
    BY <1>14 DEF SkipOccupiedLabel, AtBaseline, HoldsResult
  <2>2. UNCHANGED <<champ, stage, rollouts>> /\ saved' \in {saved, st'}
    BY <1>14 DEF SkipOccupiedLabel, durable, artifacts
  <2>3. st \in State /\ stage \in Stages /\ st' \in State
    BY <2>1 DEF IInv, TypeInv, LocalsOK
  <2>4. st'.champion = st.champion /\ st'.base = st.base
    BY <1>14, <2>3 DEF SkipOccupiedLabel, Skipped, State
  <2>5. QED
    BY <2>1, <2>2, <2>3, <2>4, QuietKeepsEvidence
<1>15. CASE Propose
  <2>1. /\ pc \notin {"down", "save"} \cup AtBaseline
        /\ pc' \notin {"down"} \cup HoldsResult \cup AtBaseline
    BY <1>15 DEF Propose, LabelChosen, AtBaseline, HoldsResult
  <2>2. UNCHANGED <<champ, stage, rollouts, st, saved>>
    BY <1>15 DEF Propose, durable, artifacts
  <2>3. st' \in State
    BY <2>1 DEF TypeInv, LocalsOK
  <2>4. QED
    BY <2>1, <2>2, <2>3, QuietKeepsEvidence
<1>16. CASE ProposalBlocked
  <2>1. pc # "down" /\ Gone /\ UNCHANGED <<git, artifacts>>
    BY <1>16 DEF ProposalBlocked, LabelChosen, durable
  <2>2. saved' = saved \/ (pc # "save" /\ saved' = st)
    BY <1>16 DEF ProposalBlocked, LabelChosen, durable
  <2>3. QED
    BY <2>1, <2>2, GoneKeepsEvidence
<1>17. CASE ProposalFails
  <2>1. /\ pc \notin {"down", "save"} \cup AtBaseline
        /\ pc' \notin {"down"} \cup HoldsResult \cup AtBaseline
    BY <1>17 DEF ProposalFails, LabelChosen, AtBaseline, HoldsResult
  <2>2. UNCHANGED <<champ, stage, rollouts>> /\ saved' \in {saved, st'}
    BY <1>17 DEF ProposalFails, LabelChosen, durable, artifacts
  <2>3. st \in State /\ stage \in Stages /\ st' \in State
    BY <2>1 DEF IInv, TypeInv, LocalsOK
  <2>4. st'.champion = st.champion /\ st'.base = st.base
    <3>1. Label \in 1..MaxIteration
      BY <1>17, <2>3, BudgetAssumption DEF ProposalFails, LabelChosen, Label, State
    <3>2. /\ Rejected(st, Label, None, "proposal_failed") \in State
          /\ Rejected(st, Label, None, "proposal_failed").champion = st.champion
          /\ Rejected(st, Label, None, "proposal_failed").base = st.base
      BY <2>3, <3>1, RejectedType DEF Outcomes
    <3>3. st' \in Scheduled(Rejected(st, Label, None, "proposal_failed"))
      BY <1>17 DEF ProposalFails
    <3>4. QED
      BY <2>3, <3>2, <3>3, ScheduledType
  <2>5. QED
    BY <2>1, <2>2, <2>3, <2>4, QuietKeepsEvidence
<1>18. CASE ApplyFails
  <2>1. /\ pc \notin {"down", "save"} \cup AtBaseline
        /\ pc' \notin {"down"} \cup HoldsResult \cup AtBaseline
    BY <1>18 DEF ApplyFails, AttemptFails, AtBaseline, HoldsResult
  <2>2. UNCHANGED <<champ, stage, rollouts, st, saved>>
    BY <1>18 DEF ApplyFails, durable, artifacts
  <2>3. st' \in State
    BY <2>1 DEF TypeInv, LocalsOK
  <2>4. QED
    BY <2>1, <2>2, <2>3, QuietKeepsEvidence
<1>19. CASE ApplyAndGuard
  <2>1. /\ pc \notin {"down", "save"} \cup AtBaseline
        /\ pc' \notin {"down"} \cup HoldsResult \cup AtBaseline
    BY <1>19 DEF ApplyAndGuard, AttemptFails, AtBaseline, HoldsResult
  <2>2. UNCHANGED <<champ, stage, rollouts, st, saved>>
    BY <1>19 DEF ApplyAndGuard, durable, artifacts
  <2>3. st' \in State
    BY <2>1 DEF TypeInv, LocalsOK
  <2>4. QED
    BY <2>1, <2>2, <2>3, QuietKeepsEvidence
<1>20. CASE SmokePasses
  <2>1. /\ pc \notin {"down", "save"} \cup AtBaseline
        /\ pc' \notin {"down"} \cup HoldsResult \cup AtBaseline
    BY <1>20 DEF SmokePasses, AtBaseline, HoldsResult
  <2>2. UNCHANGED <<champ, stage, rollouts, st, saved>>
    BY <1>20 DEF SmokePasses, durable, artifacts
  <2>3. st' \in State
    BY <2>1 DEF TypeInv, LocalsOK
  <2>4. QED
    BY <2>1, <2>2, <2>3, QuietKeepsEvidence
<1>21. CASE SmokeFails
  <2>1. /\ pc \notin {"down", "save"} \cup AtBaseline
        /\ pc' \notin {"down"} \cup HoldsResult \cup AtBaseline
    BY <1>21 DEF SmokeFails, AttemptFails, AtBaseline, HoldsResult
  <2>2. UNCHANGED <<champ, stage, rollouts, st, saved>>
    BY <1>21 DEF SmokeFails, durable, artifacts
  <2>3. st' \in State
    BY <2>1 DEF TypeInv, LocalsOK
  <2>4. QED
    BY <2>1, <2>2, <2>3, QuietKeepsEvidence
<1>22. CASE SmokeOutage
  <2>1. /\ pc \notin {"down", "save"} \cup AtBaseline
        /\ pc' \notin {"down"} \cup HoldsResult \cup AtBaseline
    BY <1>22 DEF SmokeOutage, AttemptFails, AtBaseline, HoldsResult
  <2>2. UNCHANGED <<champ, stage, rollouts, st, saved>>
    BY <1>22 DEF SmokeOutage, durable, artifacts
  <2>3. st' \in State
    BY <2>1 DEF TypeInv, LocalsOK
  <2>4. QED
    BY <2>1, <2>2, <2>3, QuietKeepsEvidence
<1>23. CASE GiveUp
  <2>1. /\ pc \notin {"down", "save"} \cup AtBaseline
        /\ pc' \notin {"down"} \cup HoldsResult \cup AtBaseline
    BY <1>23 DEF GiveUp, AtBaseline, HoldsResult
  <2>2. UNCHANGED <<champ, stage, rollouts, st, saved>>
    BY <1>23 DEF GiveUp, durable, artifacts
  <2>3. st' \in State
    BY <2>1 DEF TypeInv, LocalsOK
  <2>4. QED
    BY <2>1, <2>2, <2>3, QuietKeepsEvidence
<1>24. CASE Repair
  <2>1. /\ pc \notin {"down", "save"} \cup AtBaseline
        /\ pc' \notin {"down"} \cup HoldsResult \cup AtBaseline
    BY <1>24 DEF Repair, AtBaseline, HoldsResult
  <2>2. UNCHANGED <<champ, stage, rollouts, st, saved>>
    BY <1>24 DEF Repair, durable, artifacts
  <2>3. st' \in State
    BY <2>1 DEF TypeInv, LocalsOK
  <2>4. QED
    BY <2>1, <2>2, <2>3, QuietKeepsEvidence
<1>25. CASE RepairBlocked
  <2>1. pc # "down" /\ Gone /\ UNCHANGED <<git, artifacts>>
    BY <1>25 DEF RepairBlocked, durable
  <2>2. saved' = saved \/ (pc # "save" /\ saved' = st)
    BY <1>25 DEF RepairBlocked, durable
  <2>3. QED
    BY <2>1, <2>2, GoneKeepsEvidence
<1>26. CASE RepairFails
  <2>1. /\ pc \notin {"down", "save"} \cup AtBaseline
        /\ pc' \notin {"down"} \cup HoldsResult \cup AtBaseline
    BY <1>26 DEF RepairFails, AtBaseline, HoldsResult
  <2>2. UNCHANGED <<champ, stage, rollouts, st, saved>>
    BY <1>26 DEF RepairFails, durable, artifacts
  <2>3. st' \in State
    BY <2>1 DEF TypeInv, LocalsOK
  <2>4. QED
    BY <2>1, <2>2, <2>3, QuietKeepsEvidence
<1>27. CASE WriteGuards
  <2>1. /\ pc \notin {"down", "save"} \cup AtBaseline
        /\ pc' \notin {"down"} \cup HoldsResult \cup AtBaseline
    BY <1>27 DEF WriteGuards, AtBaseline, HoldsResult
  <2>2. UNCHANGED <<champ, stage, rollouts, st, saved>>
    BY <1>27 DEF WriteGuards, durable, artifacts
  <2>3. st' \in State
    BY <2>1 DEF TypeInv, LocalsOK
  <2>4. QED
    BY <2>1, <2>2, <2>3, QuietKeepsEvidence
<1>28. CASE CheckpointPending
  <2>1. /\ pc \notin {"down", "save"} \cup AtBaseline
        /\ pc' \notin {"down"} \cup HoldsResult \cup AtBaseline
    BY <1>28 DEF CheckpointPending, AtBaseline, HoldsResult
  <2>2. UNCHANGED <<champ, stage, rollouts>> /\ saved' \in {saved, st'}
    BY <1>28 DEF CheckpointPending, durable, artifacts
  <2>3. st \in State /\ stage \in Stages /\ st' \in State
    BY <2>1 DEF IInv, TypeInv, LocalsOK
  <2>4. st'.champion = st.champion /\ st'.base = st.base
    BY <1>28, <2>3 DEF CheckpointPending, State
  <2>5. QED
    BY <2>1, <2>2, <2>3, <2>4, QuietKeepsEvidence
<1>29. CASE RefuseReusedTag
  <2>1. pc # "down" /\ Gone /\ UNCHANGED <<git, artifacts>>
    BY <1>29 DEF RefuseReusedTag, durable
  <2>2. saved' = saved \/ (pc # "save" /\ saved' = st)
    BY <1>29 DEF RefuseReusedTag, durable
  <2>3. QED
    BY <2>1, <2>2, GoneKeepsEvidence
<1>30. CASE ProbeFails
  <2>1. pc # "down" /\ Gone /\ UNCHANGED <<git, artifacts>>
    BY <1>30 DEF ProbeFails, durable
  <2>2. saved' = saved \/ (pc # "save" /\ saved' = st)
    BY <1>30 DEF ProbeFails, durable
  <2>3. QED
    BY <2>1, <2>2, GoneKeepsEvidence
<1>31. CASE StartRollout
  <2>1. /\ pc \notin {"down", "save"} \cup AtBaseline
        /\ pc' \notin {"down"} \cup HoldsResult \cup AtBaseline
    BY <1>31 DEF StartRollout, AtBaseline, HoldsResult
  <2>2. UNCHANGED <<champ, stage, rollouts, st, saved>>
    BY <1>31 DEF StartRollout, durable, artifacts
  <2>3. st' \in State
    BY <2>1 DEF TypeInv, LocalsOK
  <2>4. QED
    BY <2>1, <2>2, <2>3, QuietKeepsEvidence
<1>32. CASE RolloutCompletes
  <2>1. st \in State /\ stage \in Stages /\ cand \in Commits
    BY <1>32, NameParts DEF RolloutCompletes, IInv, TypeInv, LocalsOK, HoldsCandidate
  <2>2. PICK e \in Evidence:
          e.commit = cand /\ e.stage = stage /\ rollouts' = rollouts \cup {e} /\ result' = e
    BY <1>32, <2>1 DEF RolloutCompletes, Evidence
  <2>3. UNCHANGED <<saved, st, stage, champ, cand>> /\ pc = "running" /\ pc' = "finish"
    BY <1>32 DEF RolloutCompletes
  <2>4. SavedChampion' = SavedChampion /\ st.champion = SavedChampion
    BY <2>3 DEF IInv, EvidenceInv, CheckpointLags, SavedChampion
  <2>5. BaselinesMeasured'
    BY <2>2, <2>3 DEF IInv, EvidenceInv, BaselinesMeasured
  <2>6. SidesMeasured' /\ CheckpointLags'
    BY <2>2, <2>3, <2>4
    DEF IInv, EvidenceInv, SidesMeasured, CheckpointLags, HoldsResult, AtBaseline
  <2>7. QED
    BY <2>2, <2>4, <2>5, <2>6, Measures DEF EvidenceInv
<1>33. CASE RolloutFails
  <2>1. pc # "down" /\ Gone /\ UNCHANGED <<git, artifacts>>
    BY <1>33 DEF RolloutFails, durable
  <2>2. saved' = saved \/ (pc # "save" /\ saved' = st)
    BY <1>33 DEF RolloutFails, durable
  <2>3. QED
    BY <2>1, <2>2, GoneKeepsEvidence
<1>34. CASE ScoreCandidate
  <2>1. st \in State /\ st # None
    BY <1>34, NoneAssumption DEF ScoreCandidate, IInv, TypeInv, LocalsOK
  <2>2. UNCHANGED <<saved, rollouts, stage, champ, cand, result>> /\ pc = "finish"
    BY <1>34 DEF ScoreCandidate
  <2>3. pc' \in {"promote", "save"} /\ (pc' = "promote" => result.native > champ.native)
    BY <1>34 DEF ScoreCandidate, PromoteCapability
  <2>4. st' # None /\ st'.champion = st.champion /\ st'.base = st.base
    BY <1>34, <2>1, <2>3, NoneAssumption DEF ScoreCandidate, State, TypeInv, LocalsOK
  <2>5. SavedChampion' = SavedChampion /\ st.champion = SavedChampion
    BY <2>2 DEF IInv, EvidenceInv, CheckpointLags, SavedChampion
  <2>6. BaselinesMeasured'
    BY <2>1, <2>2, <2>4 DEF IInv, EvidenceInv, BaselinesMeasured
  <2>7. SidesMeasured' /\ CheckpointLags'
    BY <2>2, <2>3, <2>4, <2>5
    DEF IInv, EvidenceInv, SidesMeasured, CheckpointLags, HoldsResult, AtBaseline
  <2>8. QED
    BY <2>2, <2>5, <2>6, <2>7, Stutters DEF EvidenceInv
<1>35. CASE Promote
  <2>1. st \in State /\ st # None /\ stage \in Stages
    BY <1>35, NoneAssumption DEF Promote, IInv, TypeInv, LocalsOK
  <2>2. /\ UNCHANGED <<saved, rollouts, stage, cand, result>> /\ champ' = result
        /\ pc = "promote" /\ pc' = "save"
    BY <1>35 DEF Promote, artifacts
  <2>3. /\ result \in rollouts /\ result.commit = cand /\ result.stage = stage
        /\ champ \in rollouts /\ champ.commit = st.champion /\ champ.stage = stage
        /\ result.native > champ.native
    BY <2>2 DEF IInv, EvidenceInv, SidesMeasured, HoldsResult, AtBaseline
  <2>4. /\ st' # None /\ st'.champion = cand
        /\ \A t \in Stages: st'.base[t] = IF t = stage THEN result ELSE st.base[t]
    BY <1>35, <2>1, <2>2, NoneAssumption DEF Promote, Adopted, State, TypeInv, LocalsOK
  <2>5. SavedChampion' = SavedChampion /\ st.champion = SavedChampion
    BY <2>2 DEF IInv, EvidenceInv, CheckpointLags, SavedChampion
  <2>6. BaselinesMeasured'
    BY <2>1, <2>2, <2>3, <2>4 DEF IInv, EvidenceInv, BaselinesMeasured
  <2>7. SidesMeasured'
    BY <2>2, <2>3, <2>4 DEF SidesMeasured
  <2>8. CheckpointLags'
    BY <2>2, <2>3, <2>4, <2>5 DEF CheckpointLags, Won
  <2>9. QED
    BY <2>2, <2>5, <2>6, <2>7, <2>8, Stutters DEF EvidenceInv
<1>36. CASE SaveSelection
  <2> DEFINE r == [st EXCEPT !.pending = None, !.iteration = cand[1]]
  <2>1. st \in State /\ st # None /\ stage \in Stages /\ cand[1] \in 0..MaxIteration
    BY <1>36, NameParts, NoneAssumption
    DEF SaveSelection, IInv, TypeInv, LocalsOK, HoldsCandidate
  <2>2. r \in State /\ r.champion = st.champion /\ r.base = st.base
    BY <2>1 DEF State
  <2>3. st' \in Scheduled(r) /\ saved' = st'
    BY <1>36 DEF SaveSelection
  <2>4. /\ UNCHANGED <<rollouts, stage, champ>>
        /\ pc = "save" /\ pc' = "loop"
    BY <1>36 DEF SaveSelection, artifacts
  <2> HIDE DEF r
  <2>5. st' # None /\ st'.champion = st.champion /\ st'.base = st.base
    BY <2>1, <2>2, <2>3, ScheduledType, NoneAssumption
  <2>6. SavedChampion' = st.champion /\ st'.champion = st.champion
    BY <2>3, <2>5 DEF SavedChampion
  <2>7. BaselinesMeasured'
    BY <2>1, <2>3, <2>4, <2>5 DEF IInv, EvidenceInv, BaselinesMeasured
  <2>8. SidesMeasured' /\ CheckpointLags'
    BY <2>4, <2>5, <2>6
    DEF IInv, EvidenceInv, SidesMeasured, CheckpointLags, HoldsResult, AtBaseline
  <2>9. AbstractStep
    <3>1. CASE st.champion = SavedChampion
      BY <2>4, <2>6, <3>1, Stutters
    <3>2. CASE st.champion = result.commit /\ Won(SavedChampion)
      <4>1. result \in rollouts
        BY <2>4 DEF IInv, EvidenceInv, SidesMeasured, HoldsResult
      <4>2. PICK old \in rollouts:
              old.commit = SavedChampion /\ old.stage = result.stage /\ result.native > old.native
        BY <3>2 DEF Won
      <4>3. QED
        BY <2>4, <2>6, <3>2, <4>1, <4>2
        DEF AbstractStep, SavedChampion, Abstract!Next, Abstract!Replace, Abstract!StrictlyBetter
    <3>3. QED
      BY <2>4, <3>1, <3>2 DEF IInv, EvidenceInv, CheckpointLags
  <2>10. QED
    BY <2>7, <2>8, <2>9 DEF EvidenceInv
<1>37. CASE Crash
  <2>1. pc # "down" /\ Gone /\ UNCHANGED <<git, artifacts>>
    BY <1>37 DEF Crash, durable
  <2>2. saved' = saved \/ (pc # "save" /\ saved' = st)
    BY <1>37 DEF Crash, durable
  <2>3. QED
    BY <2>1, <2>2, GoneKeepsEvidence
<1>38. CASE RecordFailure
  <2>1. /\ pc \notin {"down", "save"} \cup AtBaseline
        /\ pc' \notin {"down"} \cup HoldsResult \cup AtBaseline
    BY <1>38 DEF RecordFailure, AtBaseline, HoldsResult
  <2>2. UNCHANGED <<champ, stage, rollouts>> /\ saved' \in {saved, st'}
    BY <1>38 DEF RecordFailure, durable, artifacts
  <2>3. st \in State /\ stage \in Stages /\ st' \in State
    BY <2>1 DEF IInv, TypeInv, LocalsOK
  <2>4. st'.champion = st.champion /\ st'.base = st.base
    <3>1. cand[1] \in 1..MaxIteration
      BY <1>38, NameParts DEF RecordFailure, IInv, TypeInv, LocalsOK, HoldsCandidate
    <3>2. /\ Rejected(st, cand[1], None, "implementation_failed") \in State
          /\ Rejected(st, cand[1], None, "implementation_failed").champion = st.champion
          /\ Rejected(st, cand[1], None, "implementation_failed").base = st.base
      BY <2>3, <3>1, RejectedType DEF Outcomes
    <3>3. st' \in Scheduled(Rejected(st, cand[1], None, "implementation_failed"))
      BY <1>38 DEF RecordFailure
    <3>4. QED
      BY <2>3, <3>2, <3>3, ScheduledType
  <2>5. QED
    BY <2>1, <2>2, <2>3, <2>4, QuietKeepsEvidence
<1>39. CASE MarkInvalid
  <2>1. /\ pc \notin {"down", "save"} \cup AtBaseline
        /\ pc' \notin {"down"} \cup HoldsResult \cup AtBaseline
    BY <1>39 DEF MarkInvalid, AtBaseline, HoldsResult
  <2>2. UNCHANGED <<champ, stage, rollouts, st, saved>>
    BY <1>39 DEF MarkInvalid, durable, artifacts
  <2>3. st' \in State
    BY <2>1 DEF TypeInv, LocalsOK
  <2>4. QED
    BY <2>1, <2>2, <2>3, QuietKeepsEvidence
<1>40. QED
  BY <1>1, <1>2, <1>3, <1>4, <1>5, <1>6, <1>7, <1>8, <1>9, <1>10, <1>11, <1>12, <1>13,
     <1>14, <1>15, <1>16, <1>17, <1>18, <1>19, <1>20, <1>21, <1>22, <1>23, <1>24, <1>25,
     <1>26, <1>27, <1>28, <1>29, <1>30, <1>31, <1>32, <1>33, <1>34, <1>35, <1>36,
     <1>37, <1>38, <1>39 DEF Next, Step, Prepare, Resume, Iterate, Materialize, Evaluate, Disturb

(* Initially nothing is measured but what the checkpoint holds. *)
LEMMA EvidenceInit == ASSUME Init PROVE EvidenceInv /\ Abstract!Init
<1>1. st = None /\ pc = "down" /\ Seed \in Commits
  BY DEF Init, Commits
<1>2. CASE InitFresh
  BY <1>1, <1>2
  DEF InitFresh, EvidenceInv, BaselinesMeasured, SidesMeasured, CheckpointLags,
                    HoldsResult, Abstract!Init, Abstract!Evidence
<1>3. CASE InitLegacy
  <2> DEFINE e == [commit |-> Seed, stage |-> StartStage, native |-> 0, cost |-> 0]
  <2>1. saved \in State /\ rollouts \subseteq Evidence
    BY TypeInit, LegacyState, <1>3 DEF TypeInv, TypeOK
  <2>2. /\ saved.champion = FreshState.champion
        /\ saved.base = [FreshState.base EXCEPT ![StartStage] = e]
        /\ rollouts = {e}
    BY <1>3 DEF InitLegacy, FreshState
  <2>3. FreshState.champion = Seed /\ FreshState.base = [t \in Stages |-> None]
    BY DEF FreshState
  <2>4. BaselinesMeasured
    BY <1>1, <2>2, <2>3 DEF BaselinesMeasured
  <2>5. Abstract!Init
    BY <2>1, <2>2, <2>3 DEF Abstract!Init, Abstract!Evidence, Evidence
  <2>6. QED
    BY <1>1, <2>4, <2>5 DEF EvidenceInv, SidesMeasured, CheckpointLags, HoldsResult
<1>4. QED
  BY <1>2, <1>3 DEF Init

(* IInv is inductive, and gives the step of PairedEvolution. *)
LEMMA IInvStep == ASSUME IInv, [Next]_vars PROVE IInv' /\ AbstractStep
<1>1. CASE Next
  BY <1>1, TypeStep, EvidenceStep DEF IInv
<1>2. CASE UNCHANGED vars
  <2>1. UNCHANGED <<saved, rollouts, pc, st, stage, champ, cand, result>>
    BY <1>2 DEF vars, durable, artifacts, volatile
  <2>2. TypeInv'
    BY <1>2
    DEF IInv, TypeInv, TypeOK, LocalsOK, CommitsExist, vars, durable, git, artifacts,
        volatile
  <2>3. EvidenceInv'
    BY <2>1
    DEF IInv, EvidenceInv, BaselinesMeasured, SidesMeasured, CheckpointLags, Won,
        SavedChampion
  <2>4. QED
    BY <2>1, <2>2, <2>3, Stutters DEF IInv, SavedChampion
<1>3. QED
  BY <1>1, <1>2

(* No stored baseline is ever anything but a measurement, on its own stage,   *)
(* that a rollout on disk can be shown for: _reuse_baseline is safe.          *)
THEOREM BaselinesAreMeasured == Spec => []BaselinesMeasured
<1>1. Init => IInv
  BY TypeInit, EvidenceInit DEF IInv
<1>2. IInv /\ [Next]_vars => IInv'
  BY IInvStep
<1>3. IInv => BaselinesMeasured
  BY DEF IInv, EvidenceInv
<1>4. QED
  BY <1>1, <1>2, <1>3, PTL DEF Spec

(* A candidate is compared only with a measurement of the present champion on *)
(* the stage the candidate ran on, across restarts and stage switches.        *)
THEOREM ComparisonsArePaired == Spec => []PairedComparison
<1>1. Init => IInv
  BY TypeInit, EvidenceInit DEF IInv
<1>2. IInv /\ [Next]_vars => IInv'
  BY IInvStep
<1>3. IInv => PairedComparison
  BY DEF IInv, EvidenceInv, SidesMeasured, PairedComparison, AtBaseline, HoldsResult
<1>4. QED
  BY <1>1, <1>2, <1>3, PTL DEF Spec

(* The evolution loop with all its restarts implements PairedEvolution: the   *)
(* checkpointed champion is replaced only by a commit with strictly more      *)
(* native successes than evidence of it on the same stage.                    *)
THEOREM ImplementsPairedEvolution == Spec => ChampionEvolves
<1>1. Init => IInv /\ Abstract!Init
  BY TypeInit, EvidenceInit DEF IInv
<1>2. IInv /\ [Next]_vars => IInv' /\ [Abstract!Next]_(Abstract!vars)
  BY IInvStep DEF AbstractStep
<1>3. QED
  BY <1>1, <1>2, PTL DEF Spec, ChampionEvolves, Abstract!Spec

-----------------------------------------------------------------------------
\* ---- what a restarted process finds ----

(* What the checkpoint says, an absent one standing for FreshState. *)
Reached == IF saved = None THEN 0 ELSE saved.iteration
SavedAhead == IF saved = None THEN None ELSE saved.pending
SavedScores == IF saved = None THEN {} ELSE ScoredIn(saved)
Pends(n) == SavedAhead # None /\ SavedAhead.candidate = n

Between == {"loop", "label", "switch_baseline", "abandoned"}
Evaluating == {"evaluate", "running", "finish", "promote", "save"}

Committed(c) == commits[c] # None
Substantive(c) == Committed(c) /\ commits[c].substantive

(* The tree n contains every committed attempt of its iteration up to n. *)
Cumulative(n) ==
  \A m \in Names: m[1] = n[1] /\ m[2] <= n[2] /\ Committed(m) => m \in commits[n].ancestors

(* A label beyond the next one is untouched, and whatever carries a label     *)
(* belongs to a proposal.                                                     *)
Labelled ==
  /\ proposals \subseteq 1..(Reached + 1)
  /\ \A g \in guards: g[1] \in proposals
  /\ \A n \in Names: worktrees[n] # None \/ Committed(n) => n[1] \in proposals

(* The trees of the iteration not yet consumed descend from the champion. *)
Rooted ==
  /\ \A c \in Commits: Committed(c) => c \in commits[c].ancestors
  /\ \A n \in Names: n[1] > Reached /\ Committed(n) => SavedChampion \in commits[n].ancestors

(* The only tree that a guarded label of that iteration has is the accepted   *)
(* one, which can be resumed, and only such a tree is checkpointed as pending. *)
Resumable ==
  /\ \A n \in Names, g \in guards: n[1] > Reached /\ g[1] = n[1] /\ worktrees[n] # None =>
                                    n = g /\ worktrees[n] = n /\ Cumulative(n)
  /\ SavedAhead # None =>
       /\ SavedAhead.parent = SavedChampion
       /\ SavedAhead.candidate[1] > Reached
       /\ SavedAhead.candidate \in guards
       /\ worktrees[SavedAhead.candidate] # None

(* Only a started, substantive candidate leaves traces the checkpoint lacks. *)
Ahead ==
  /\ \A n \in Names: ledger[n] > 0 =>
       ledger[n] = 1 /\ n \in started /\ Substantive(n) /\ (n \in SavedScores \/ Pends(n))
  /\ championRef # SavedChampion =>
       /\ championRef \in Names /\ championRef \in started
       /\ Substantive(championRef) /\ Pends(championRef)

Durable == Labelled /\ Rooted /\ Resumable /\ Ahead

(* The process holds what it last read or saved; SidesMeasured and            *)
(* CheckpointLags say the same of its champion.                               *)
InStep ==
  /\ pc # "down" => /\ st.iteration = Reached /\ st.pending = SavedAhead
                    /\ SavedScores \subseteq ScoredIn(st)
  /\ pc \in Between \cup HoldsBase => SavedAhead = None
  /\ pc = "abandoned" => cand[1] = Reached + 1
  /\ pc = "invalid" => \A n \in Names: Pends(n) => ~Substantive(n)

(* One attempt after another on the label of the iteration. *)
Attempt ==
  pc \in HoldsBase =>
    /\ cand[1] = Reached + 1 /\ cand[1] \in proposals
    /\ pc = "checkpoint" => cand \in guards
    /\ pc # "checkpoint" => \A g \in guards: g[1] # cand[1]
    /\ repairBase = st.champion \/ (repairBase \in Names /\ repairBase[1] = cand[1])
    /\ \A n \in Names: n[1] = cand[1] /\ n # cand => worktrees[n] = None
    /\ \A n \in Names: n[1] = cand[1] /\ n[2] > cand[2] => ~Committed(n)
    /\ \A n \in Names: n[1] = cand[1] /\ n[2] < cand[2] /\ Committed(n) =>
                         n \in commits[repairBase].ancestors
    /\ Committed(cand) => worktrees[cand] = cand /\ Cumulative(cand)
    /\ pc = "implement" => worktrees[cand] = None /\ ~Committed(cand)
    /\ pc \in {"smoke", "accepted", "checkpoint"} => Substantive(cand)

(* The candidate under evaluation is the pending one, evaluated once. *)
Evaluation ==
  pc \in Evaluating =>
    /\ Pends(cand) /\ Substantive(cand)
    /\ pc # "evaluate" => cand \in started
    /\ pc \in {"running", "finish"} => ledger[cand] = 0
    /\ pc \in {"running", "finish", "promote"} => championRef = SavedChampion
    /\ pc = "save" => championRef = st.champion
    /\ pc \in {"promote", "save"} => cand \in ScoredIn(st)

RecoveryInv == Durable /\ InStep /\ Attempt /\ Evaluation
-----------------------------------------------------------------------------
(* Helpers. *)

(* A name is its label and its attempt. *)
LEMMA SameName ==
  ASSUME NEW n \in Names, NEW m \in Names, n[1] = m[1], n[2] = m[2]
  PROVE  n = m
  BY DEF Names

(* Reached is a label or zero, and the pending candidate, if any, is one. *)
LEMMA CheckpointType ==
  ASSUME TypeInv
  PROVE  /\ Reached \in Nat
         /\ SavedAhead # None => SavedAhead \in Pending /\ SavedAhead.candidate \in Names
  BY BudgetAssumption DEF TypeInv, TypeOK, Reached, SavedAhead, State, Pending

(* What a written checkpoint says. *)
LEMMA SavedAs ==
  ASSUME NEW s \in State, saved' = s
  PROVE  /\ Reached' = s.iteration /\ SavedAhead' = s.pending
         /\ SavedChampion' = s.champion /\ SavedScores' = ScoredIn(s)
<1>1. s # None
  BY NoneAssumption
<1>2. QED
  BY <1>1 DEF Reached, SavedAhead, SavedChampion, SavedScores, ScoredIn

(* A checkpoint that is not written still says the same. *)
LEMMA NotSaved ==
  ASSUME saved' = saved
  PROVE  /\ Reached' = Reached /\ SavedAhead' = SavedAhead
         /\ SavedChampion' = SavedChampion /\ SavedScores' = SavedScores
  BY DEF Reached, SavedAhead, SavedChampion, SavedScores, ScoredIn

(* A state that the process takes over: its scores. *)
LEMMA HeldScores ==
  ASSUME NEW s, st' = s
  PROVE  ScoredIn(st)' = ScoredIn(s)
  BY DEF ScoredIn

(* The scores are those of the history. *)
LEMMA SameScores ==
  ASSUME NEW s, NEW r, r.history = s.history
  PROVE  ScoredIn(r) = ScoredIn(s)
  BY DEF ScoredIn

(* A record added to the history adds its candidate, if it is scored. *)
LEMMA MoreScores ==
  ASSUME NEW s \in State, NEW record \in HistoryRecord, NEW r,
         r.history = Append(s.history, record)
  PROVE  /\ ScoredIn(s) \subseteq ScoredIn(r)
         /\ record.status \in Scored => record.candidate \in ScoredIn(r)
<1>1. s.history \in Seq(HistoryRecord)
  BY DEF State
<1>2. /\ DOMAIN s.history = 1..Len(s.history) /\ Len(s.history) \in Nat
      /\ DOMAIN r.history = 1..(Len(s.history) + 1)
      /\ \A k \in 1..Len(s.history): r.history[k] = s.history[k]
      /\ r.history[Len(s.history) + 1] = record
  BY <1>1
<1>3. QED
  BY <1>2 DEF ScoredIn

(* _schedule_next touches neither iteration nor history. *)
LEMMA ScheduledKeeps ==
  ASSUME NEW s \in State, stage \in Stages, NEW r \in Scheduled(s)
  PROVE  /\ r \in State /\ r.iteration = s.iteration /\ r.history = s.history
         /\ r.champion = s.champion /\ r.base = s.base /\ r.pending = s.pending
<1>1. r.iteration = s.iteration /\ r.history = s.history
  <2>1. CASE pinned # None
    BY <2>1 DEF Scheduled, State
  <2>2. CASE pinned = None
    <3>1. PICK t \in Eligible(s) \cup {stage}:
            r = [s EXCEPT !.next = t, !.status = StatusAfterChoice(s.status, stage, t)]
      BY <2>2 DEF Scheduled
    <3>2. QED
      BY <3>1 DEF State
  <2>3. QED
    BY <2>1, <2>2
<1>2. QED
  BY <1>1, ScheduledType

(* A rejected iteration is consumed, and its record is not a score. *)
LEMMA RejectedConsumes ==
  ASSUME NEW s \in State, stage \in Stages, NEW i \in 1..MaxIteration,
         NEW name \in Names \cup {None}, NEW outcome \in Outcomes
  PROVE  LET r == Rejected(s, i, name, outcome)
         IN  /\ r \in State /\ r.iteration = i /\ r.pending = s.pending
             /\ r.champion = s.champion /\ r.base = s.base
             /\ ScoredIn(s) \subseteq ScoredIn(r)
<1> DEFINE r == Rejected(s, i, name, outcome)
           record == [iteration |-> i, candidate |-> name, status |-> outcome]
<1>1. r \in State /\ r.champion = s.champion /\ r.base = s.base
  BY RejectedType
<1>2. r.iteration = i /\ r.pending = s.pending /\ r.history = Append(s.history, record)
  BY DEF Rejected, State
<1>3. record \in HistoryRecord
  BY DEF HistoryRecord
<1> HIDE DEF r, record
<1>4. ScoredIn(s) \subseteq ScoredIn(r)
  BY <1>2, <1>3, MoreScores
<1>5. QED
  BY <1>1, <1>2, <1>4 DEF r
-----------------------------------------------------------------------------
(* What a step may do to the durable state. *)

(* A step that leaves the checkpoint's iteration, champion and pending        *)
(* candidate alone, and of the artifacts only starts a rollout.               *)
LEMMA DurableKept ==
  ASSUME Durable, UNCHANGED <<git, proposals, guards, ledger>>, started \subseteq started',
         Reached' = Reached, SavedAhead' = SavedAhead, SavedChampion' = SavedChampion,
         SavedScores \subseteq SavedScores'
  PROVE  Durable'
<1>1. UNCHANGED <<championRef, worktrees, commits, proposals, guards, ledger>>
  BY DEF git
<1>2. Labelled'
  BY <1>1 DEF Durable, Labelled, Committed
<1>3. Rooted'
  BY <1>1 DEF Durable, Rooted, Committed
<1>4. Resumable'
  BY <1>1 DEF Durable, Resumable, Cumulative, Committed
<1>5. Ahead'
  BY <1>1 DEF Durable, Ahead, Substantive, Committed, Pends
<1>6. QED
  BY <1>2, <1>3, <1>4, <1>5 DEF Durable

(* An iteration is consumed with nothing pending: whatever it left behind is  *)
(* history, and every ledger entry is in the checkpoint.                      *)
LEMMA DurableConsumed ==
  ASSUME TypeInv, Durable, UNCHANGED <<championRef, commits, proposals, guards, ledger>>,
         started \subseteq started',
         \A n \in Names: worktrees'[n] # None => worktrees[n] # None,
         Reached' = Reached + 1, SavedAhead' = None, championRef = SavedChampion',
         \A n \in Names: ledger[n] > 0 => n \in SavedScores'
  PROVE  Durable'
<1>1. Reached \in Nat /\ \A n \in Names: n[1] \in Nat
  BY CheckpointType, NameParts
<1>2. Labelled'
  BY <1>1 DEF Durable, Labelled, Committed
<1>3. \A n \in Names: ~(n[1] > Reached' /\ n[1] \in proposals)
  BY <1>1 DEF Durable, Labelled
<1>4. Rooted'
  BY <1>1, <1>2, <1>3 DEF Durable, Rooted, Labelled, Committed
<1>5. Resumable'
  BY <1>1, <1>2, <1>3 DEF Durable, Resumable, Labelled
<1>6. Ahead'
  BY DEF Durable, Ahead, Substantive, Committed
<1>7. QED
  BY <1>2, <1>4, <1>5, <1>6 DEF Durable

(* The process disappears, perhaps after saving the state it holds. *)
LEMMA GoneRecovers ==
  ASSUME IInv, RecoveryInv, pc # "down", Gone, UNCHANGED <<git, artifacts>>,
         saved' = saved \/ (pc # "save" /\ saved' = st)
  PROVE  RecoveryInv'
<1>1. pc' = "down" /\ UNCHANGED <<proposals, guards, started, ledger>>
  BY DEF Gone, artifacts
<1>2. /\ Reached' = Reached /\ SavedAhead' = SavedAhead /\ SavedChampion' = SavedChampion
      /\ SavedScores \subseteq SavedScores'
  <2>1. CASE saved' = saved
    BY <2>1, NotSaved
  <2>2. CASE pc # "save" /\ saved' = st
    <3>1. PICK s \in State: s = st /\ saved' = s
      BY <2>2 DEF IInv, TypeInv, LocalsOK
    <3>2. s.iteration = Reached /\ s.pending = SavedAhead /\ SavedScores \subseteq ScoredIn(s)
      BY <3>1 DEF RecoveryInv, InStep
    <3>3. s.champion = SavedChampion
      BY <2>2, <3>1 DEF IInv, EvidenceInv, CheckpointLags
    <3>4. QED
      BY <3>1, <3>2, <3>3, SavedAs
  <2>3. QED
    BY <2>1, <2>2
<1>3. Durable'
  BY <1>1, <1>2, DurableKept DEF RecoveryInv
<1>4. InStep' /\ Attempt' /\ Evaluation'
  BY <1>1 DEF InStep, Attempt, Evaluation, Between, HoldsBase, Evaluating
<1>5. QED
  BY <1>3, <1>4 DEF RecoveryInv

(* Outside an iteration the process only reads, or saves what changes neither *)
(* iteration nor champion nor pending candidate.                              *)
LEMMA QuietRecovers ==
  ASSUME IInv, RecoveryInv, pc \notin {"down", "save"},
         pc' \notin {"down", "abandoned"} \cup HoldsBase \cup Evaluating,
         UNCHANGED <<git, proposals, guards, ledger>>, started \subseteq started',
         NEW s \in State, st' = s, saved' \in {saved, s},
         s.iteration = st.iteration, s.pending = st.pending, s.champion = st.champion,
         s.history = st.history,
         pc' \in Between => SavedAhead = None,
         pc' = "invalid" => \A n \in Names: Pends(n) => ~Substantive(n)
  PROVE  RecoveryInv'
<1>1. /\ s.iteration = Reached /\ s.pending = SavedAhead /\ s.champion = SavedChampion
      /\ SavedScores \subseteq ScoredIn(s)
  BY SameScores DEF RecoveryInv, InStep, IInv, EvidenceInv, CheckpointLags
<1>2. /\ Reached' = Reached /\ SavedAhead' = SavedAhead /\ SavedChampion' = SavedChampion
      /\ SavedScores \subseteq SavedScores' /\ SavedScores' \subseteq ScoredIn(s)
  <2>1. CASE saved' = saved
    BY <1>1, <2>1, NotSaved
  <2>2. CASE saved' = s
    BY <1>1, <2>2, SavedAs
  <2>3. QED
    BY <2>1, <2>2
<1>3. Durable'
  BY <1>2, DurableKept DEF RecoveryInv
<1>4. InStep'
  <2>1. ScoredIn(st)' = ScoredIn(s)
    BY HeldScores
  <2>2. st'.iteration = Reached' /\ st'.pending = SavedAhead'
    BY <1>1, <1>2
  <2>3. \A n \in Names: Pends(n)' = Pends(n) /\ Substantive(n)' = Substantive(n)
    BY <1>2 DEF Pends, Substantive, Committed, git
  <2>4. QED
    BY <1>2, <2>1, <2>2, <2>3 DEF InStep
<1>5. Attempt' /\ Evaluation'
  BY DEF Attempt, Evaluation
<1>6. QED
  BY <1>3, <1>4, <1>5 DEF RecoveryInv

(* An iteration ends without a score: nothing pends any more. *)
LEMMA RejectionRecovers ==
  ASSUME IInv, RecoveryInv, pc \notin {"down", "save"}, pc' \in {"loop", "label"},
         UNCHANGED <<championRef, commits, proposals, guards, ledger>>,
         started \subseteq started',
         \A n \in Names: worktrees'[n] # None => worktrees[n] # None,
         NEW s \in State, st' = s, saved' = s,
         s.iteration = Reached + 1, s.pending = None, s.champion = st.champion,
         ScoredIn(st) \subseteq ScoredIn(s),
         \A n \in Names: Pends(n) => ~Substantive(n)
  PROVE  RecoveryInv'
<1>1. /\ Reached' = Reached + 1 /\ SavedAhead' = None /\ SavedChampion' = s.champion
      /\ SavedScores' = ScoredIn(s)
  BY SavedAs
<1>2. s.champion = SavedChampion /\ SavedScores \subseteq ScoredIn(s)
  BY DEF RecoveryInv, InStep, IInv, EvidenceInv, CheckpointLags
<1>3. championRef = SavedChampion' /\ \A n \in Names: ledger[n] > 0 => n \in SavedScores'
  BY <1>1, <1>2 DEF RecoveryInv, Durable, Ahead
<1>4. Durable'
  BY <1>1, <1>3, DurableConsumed DEF RecoveryInv, IInv
<1>5. InStep'
  BY <1>1, HeldScores DEF InStep, Between
<1>6. Attempt' /\ Evaluation'
  BY DEF Attempt, Evaluation, HoldsBase, Evaluating
<1>7. QED
  BY <1>4, <1>5, <1>6 DEF RecoveryInv
-----------------------------------------------------------------------------
(* Launch, resume and the loop. *)

(* Whatever ends the process leaves a state it can recover from. *)
LEMMA EndRecovers ==
  ASSUME IInv, RecoveryInv,
         \/ BaselineFails \/ PendingStageMismatch \/ LoopEnds \/ OutOfLabels
         \/ ProposalBlocked \/ RepairBlocked \/ RefuseReusedTag \/ ProbeFails
         \/ RolloutFails \/ Crash
  PROVE  RecoveryInv'
<1>1. pc # "down" /\ Gone /\ UNCHANGED <<git, artifacts>>
  BY DEF BaselineFails, PendingStageMismatch, LoopEnds, OutOfLabels, ProposalBlocked, LabelChosen,
         RepairBlocked, RefuseReusedTag, ProbeFails, RolloutFails, Crash, durable
<1>2. saved' = saved \/ (pc # "save" /\ saved' = st)
  BY DEF BaselineFails, PendingStageMismatch, LoopEnds, OutOfLabels, ProposalBlocked, LabelChosen,
         RepairBlocked, RefuseReusedTag, ProbeFails, RolloutFails, Crash, durable
<1>3. QED
  BY <1>1, <1>2, GoneRecovers

(* A launch reads the checkpoint. *)
LEMMA LaunchRecovers ==
  ASSUME IInv, RecoveryInv, Launch
  PROVE  RecoveryInv'
<1>1. /\ saved' = saved /\ pc' = "resume_baseline"
      /\ UNCHANGED <<git, proposals, guards, started, ledger>>
  BY DEF Launch, durable, artifacts
<1>2. PICK r, s:
        /\ r \in State
        /\ r = IF saved = None THEN FreshState ELSE saved
        /\ st' = s /\ s = [r EXCEPT !.next = stage']
  BY FreshStateType DEF Launch, IInv, TypeInv, TypeOK
<1>3. s.iteration = r.iteration /\ s.pending = r.pending /\ s.history = r.history
  BY <1>2 DEF State
<1>4. /\ Reached' = Reached /\ SavedAhead' = SavedAhead /\ SavedChampion' = SavedChampion
      /\ SavedScores' = SavedScores
  BY <1>1, NotSaved
<1>5. Durable'
  BY <1>1, <1>4, DurableKept DEF RecoveryInv
<1>6. r.iteration = Reached /\ r.pending = SavedAhead /\ SavedScores \subseteq ScoredIn(r)
  BY <1>2 DEF Reached, SavedAhead, SavedScores, FreshState
<1>7. InStep'
  <2>1. ScoredIn(st)' = ScoredIn(r)
    BY <1>2, <1>3, HeldScores, SameScores
  <2>2. QED
    BY <1>1, <1>2, <1>3, <1>4, <1>6, <2>1 DEF InStep, Between, HoldsBase
<1>8. Attempt' /\ Evaluation'
  BY <1>1 DEF Attempt, Evaluation, HoldsBase, Evaluating
<1>9. QED
  BY <1>5, <1>7, <1>8 DEF RecoveryInv

(* Preparing a baseline, looking for a pending candidate and marking one that *)
(* changes nothing, the loop's head.                                          *)
LEMMA PreparationRecovers ==
  ASSUME IInv, RecoveryInv, TypeInv',
         \/ ReuseBaseline \/ EvaluateBaseline \/ PendingKnown \/ NothingPending
         \/ LoopContinues \/ MarkInvalid
  PROVE  RecoveryInv'
<1>1. /\ pc \notin {"down", "save"}
      /\ pc' \notin {"down", "abandoned"} \cup HoldsBase \cup Evaluating
      /\ UNCHANGED <<git, proposals, guards, ledger>> /\ started \subseteq started'
  BY DEF ReuseBaseline, EvaluateBaseline, PendingKnown, NothingPending, LoopContinues,
         MarkInvalid, AfterBaseline, HoldsBase, Evaluating, durable, artifacts
<1>2. st \in State /\ stage \in Stages
  BY <1>1 DEF IInv, TypeInv, LocalsOK
<1>3. /\ pc' \in Between => SavedAhead = None
      /\ pc' = "invalid" => \A n \in Names: Pends(n) => ~Substantive(n)
  BY DEF ReuseBaseline, EvaluateBaseline, PendingKnown, NothingPending, LoopContinues,
         MarkInvalid, AfterBaseline, Between, RecoveryInv, InStep, Pends, Substantive
<1>4. CASE EvaluateBaseline
  <2>1. PICK e, s: /\ s = [st EXCEPT !.base[stage] = e, !.status[stage] = "active"]
                   /\ st' = s /\ saved' = s
    BY <1>4 DEF EvaluateBaseline
  <2>2. s.iteration = st.iteration /\ s.pending = st.pending /\ s.champion = st.champion
        /\ s.history = st.history
    BY <1>2, <2>1 DEF State
  <2>3. s \in State
    BY <1>1, <2>1 DEF TypeInv, LocalsOK
  <2>4. QED
    BY <1>1, <1>3, <2>1, <2>2, <2>3, QuietRecovers
<1>5. CASE ~EvaluateBaseline
  <2>1. PICK s \in State: s = st /\ st' = s /\ saved' \in {saved, s}
    BY <1>2, <1>5
    DEF ReuseBaseline, PendingKnown, NothingPending, LoopContinues, MarkInvalid, durable
  <2>2. QED
    BY <1>1, <1>3, <2>1, QuietRecovers
<1>6. QED
  BY <1>4, <1>5

(* The newest worktree of the highest guarded label becomes the pending one. *)
LEMMA DiscoveryRecovers ==
  ASSUME IInv, RecoveryInv, RecoverPending
  PROVE  RecoveryInv'
<1>1. /\ pc = "discover" /\ pc' = "pending"
      /\ UNCHANGED <<championRef, worktrees, commits, proposals, guards, started, ledger>>
      /\ st.pending = None
  BY DEF RecoverPending, git, artifacts
<1>2. PICK n, s: /\ n \in Names
                 /\ n[1] \in Recoverable /\ worktrees[n] # None
                 /\ s = [st EXCEPT !.pending = PendingOf(n)] /\ st' = s /\ saved' = s
  BY DEF RecoverPending, WorktreesOf
<1>3. st \in State /\ stage \in Stages
  BY <1>1 DEF IInv, TypeInv, LocalsOK
<1>4. PendingOf(n) \in Pending /\ PendingOf(n).candidate = n /\ PendingOf(n).parent = st.champion
  BY <1>2, <1>3 DEF PendingOf, Pending, State
<1>5. /\ s \in State /\ s.iteration = st.iteration /\ s.champion = st.champion
      /\ s.history = st.history /\ s.pending = PendingOf(n)
  BY <1>2, <1>3, <1>4 DEF State
<1>6. /\ st.iteration = Reached /\ SavedAhead = None /\ st.champion = SavedChampion
      /\ SavedScores \subseteq ScoredIn(s)
  BY <1>1, <1>5, SameScores DEF RecoveryInv, InStep, IInv, EvidenceInv, CheckpointLags
<1>7. /\ Reached' = Reached /\ SavedAhead' = PendingOf(n) /\ SavedChampion' = SavedChampion
      /\ SavedScores' = ScoredIn(s)
  BY <1>2, <1>5, <1>6, SavedAs
<1>8. Labelled' /\ Rooted'
  BY <1>1, <1>7 DEF RecoveryInv, Durable, Labelled, Rooted, Committed
<1>9. Resumable'
  <2>1. n[1] > Reached /\ \E g \in guards: g[1] = n[1]
    BY <1>2, <1>6 DEF Recoverable, GuardedLabels
  <2>2. n \in guards
    BY <1>2, <2>1 DEF RecoveryInv, Durable, Resumable
  <2>3. QED
    BY <1>1, <1>2, <1>4, <1>6, <1>7, <2>1, <2>2
    DEF RecoveryInv, Durable, Resumable, Cumulative, Committed
<1>10. Ahead'
  BY <1>1, <1>6, <1>7 DEF RecoveryInv, Durable, Ahead, Substantive, Committed, Pends
<1>11. InStep'
  BY <1>1, <1>2, <1>5, <1>6, <1>7, HeldScores DEF InStep, Between, HoldsBase
<1>12. QED
  BY <1>1, <1>8, <1>9, <1>10, <1>11
  DEF RecoveryInv, Durable, Attempt, Evaluation, HoldsBase, Evaluating

(* The checkpointed commit goes to its evaluation as it was checkpointed. *)
LEMMA ResumptionRecovers ==
  ASSUME IInv, RecoveryInv, ResumePending
  PROVE  RecoveryInv'
<1>1. /\ pc = "pending" /\ pc' = "evaluate" /\ st' = st /\ saved' = saved
      /\ cand' = st.pending.candidate /\ commits[cand'].substantive
      /\ worktrees[cand'] = cand'
      /\ UNCHANGED <<championRef, worktrees, commits, proposals, guards, started, ledger>>
  BY DEF ResumePending, PendingPresent, durable, git, artifacts
<1>2. st.pending \in Pending /\ st.pending = SavedAhead /\ st.pending # None
  BY <1>1, NoneAssumption DEF IInv, TypeInv, LocalsOK, RecoveryInv, InStep
<1>3. cand' \in Names /\ cand' # None
  BY <1>1, <1>2, NameParts, NoneAssumption DEF Pending
<1>4. Committed(cand')
  BY <1>1, <1>3 DEF IInv, TypeInv, CommitsExist, Committed
<1>5. /\ Reached' = Reached /\ SavedAhead' = SavedAhead /\ SavedChampion' = SavedChampion
      /\ SavedScores' = SavedScores /\ ScoredIn(st)' = ScoredIn(st)
  BY <1>1, NotSaved DEF ScoredIn
<1>6. Durable'
  BY <1>1, <1>5, DurableKept DEF RecoveryInv, git
<1>7. InStep' /\ Attempt'
  BY <1>1, <1>5 DEF RecoveryInv, InStep, Attempt, Between, HoldsBase
<1>8. Evaluation'
  <2>1. Pends(cand)' /\ Substantive(cand)'
    BY <1>1, <1>2, <1>4, <1>5 DEF Pends, Substantive, Committed
  <2>2. QED
    BY <1>1, <2>1 DEF Evaluation
<1>9. QED
  BY <1>6, <1>7, <1>8 DEF RecoveryInv
-----------------------------------------------------------------------------
(* Iterations without a score. *)

(* A pending tree that changes nothing is dropped from the checkpoint. *)
LEMMA InvalidationRecovers ==
  ASSUME IInv, RecoveryInv, InvalidatePending
  PROVE  RecoveryInv'
<1> DEFINE n == st.pending.candidate
           rejected == Rejected(st, n[1], n, "infrastructure_invalidated")
<1>1. /\ pc = "invalid" /\ pc' = "loop"
      /\ UNCHANGED <<championRef, worktrees, commits, proposals, guards, started, ledger>>
  BY DEF InvalidatePending, git, artifacts
<1>2. st \in State /\ stage \in Stages /\ st.pending \in Pending
  BY <1>1 DEF IInv, TypeInv, LocalsOK
<1>3. n \in Names /\ st.pending = SavedAhead /\ SavedAhead # None
  BY <1>1, <1>2, NoneAssumption DEF Pending, RecoveryInv, InStep
<1>4. n[1] = Reached + 1 /\ n[1] \in 1..MaxIteration
  <2>1. n[1] > Reached /\ n[1] \in proposals
    BY <1>3 DEF RecoveryInv, Durable, Labelled, Resumable
  <2>2. QED
    BY <1>3, <2>1, NameParts, CheckpointType DEF RecoveryInv, Durable, Labelled, IInv
<1>5. /\ rejected \in State /\ rejected.iteration = n[1] /\ rejected.champion = st.champion
      /\ ScoredIn(st) \subseteq ScoredIn(rejected)
  BY <1>2, <1>3, <1>4, RejectedConsumes DEF Outcomes
<1>6. PICK r, s: /\ r = [rejected EXCEPT !.pending = None]
                 /\ s \in Scheduled(r) /\ st' = s /\ saved' = s
  BY DEF InvalidatePending
<1>7. \A m \in Names: Pends(m) => ~Substantive(m)
  BY <1>1 DEF RecoveryInv, InStep
<1> HIDE DEF n, rejected
<1>8. /\ r \in State /\ r.iteration = n[1] /\ r.pending = None /\ r.champion = st.champion
      /\ r.history = rejected.history
  BY <1>5, <1>6 DEF State
<1>9. /\ s \in State /\ s.iteration = n[1] /\ s.pending = None /\ s.champion = st.champion
      /\ s.history = r.history
  BY <1>2, <1>6, <1>8, ScheduledKeeps
<1>10. ScoredIn(st) \subseteq ScoredIn(s)
  BY <1>5, <1>8, <1>9, SameScores
<1>11. QED
  BY <1>1, <1>4, <1>6, <1>7, <1>9, <1>10, RejectionRecovers

(* An occupied label is passed over. *)
LEMMA SkippingRecovers ==
  ASSUME IInv, RecoveryInv, SkipOccupiedLabel
  PROVE  RecoveryInv'
<1>1. /\ pc = "label" /\ pc' = "label" /\ st.iteration < MaxIteration
      /\ UNCHANGED <<championRef, worktrees, commits, proposals, guards, started, ledger>>
  BY DEF SkipOccupiedLabel, git, artifacts
<1>2. st \in State /\ st.iteration \in 0..MaxIteration /\ MaxIteration \in Nat
  BY <1>1, BudgetAssumption DEF IInv, TypeInv, LocalsOK, State
<1>3. PICK s: s = [st EXCEPT !.iteration = st.iteration + 1] /\ st' = s /\ saved' = s
  BY DEF SkipOccupiedLabel, Skipped, Label
<1>4. st.iteration = Reached /\ st.pending = None /\ SavedAhead = None
  BY <1>1 DEF RecoveryInv, InStep, Between
<1>5. /\ s \in State /\ s.iteration = Reached + 1 /\ s.pending = None
      /\ s.champion = st.champion /\ s.history = st.history
  BY <1>1, <1>2, <1>3, <1>4 DEF State
<1>6. ScoredIn(st) \subseteq ScoredIn(s) /\ \A m \in Names: ~Pends(m)
  BY <1>4, <1>5, SameScores DEF Pends
<1>7. QED
  BY <1>1, <1>3, <1>5, <1>6, RejectionRecovers

(* A failed proposal or implementation consumes its iteration. *)
LEMMA FailureRecovers ==
  ASSUME IInv, RecoveryInv, ProposalFails \/ RecordFailure
  PROVE  RecoveryInv'
<1>1. /\ pc \in {"label", "abandoned"} /\ pc' = "loop"
      /\ UNCHANGED <<championRef, worktrees, commits, proposals, guards, started, ledger>>
  BY DEF ProposalFails, LabelChosen, RecordFailure, git, artifacts
<1>2. st \in State /\ stage \in Stages /\ (pc = "abandoned" => cand \in Names)
  BY <1>1 DEF IInv, TypeInv, LocalsOK, HoldsCandidate
<1>3. st.iteration = Reached /\ st.pending = None /\ SavedAhead = None
  BY <1>1 DEF RecoveryInv, InStep, Between
<1>4. PICK outcome \in Outcomes:
        \E s \in Scheduled(Rejected(st, Reached + 1, None, outcome)): st' = s /\ saved' = s
  <2>1. CASE ProposalFails
    BY <1>3, <2>1 DEF ProposalFails, Label, Outcomes
  <2>2. CASE RecordFailure
    <3>1. cand[1] = Reached + 1
      BY <2>2 DEF RecordFailure, RecoveryInv, InStep
    <3>2. QED
      BY <2>2, <3>1 DEF RecordFailure, Outcomes
  <2>3. QED
    BY <2>1, <2>2
<1>5. Reached + 1 \in 1..MaxIteration
  <2>1. CASE pc = "abandoned"
    BY <1>2, <2>1, NameParts DEF RecoveryInv, InStep
  <2>2. CASE pc = "label"
    <3>1. st.iteration < MaxIteration
      BY <2>2 DEF ProposalFails, LabelChosen, RecordFailure
    <3>2. QED
      BY <1>2, <1>3, <3>1, BudgetAssumption DEF State
  <2>3. QED
    BY <1>1, <2>1, <2>2
<1>6. PICK r, s: /\ r = Rejected(st, Reached + 1, None, outcome)
                 /\ s \in Scheduled(r) /\ st' = s /\ saved' = s
  BY <1>4
<1>7. /\ r \in State /\ r.iteration = Reached + 1 /\ r.pending = None
      /\ r.champion = st.champion /\ ScoredIn(st) \subseteq ScoredIn(r)
  BY <1>2, <1>3, <1>5, <1>6, RejectedConsumes
<1>8. /\ s \in State /\ s.iteration = Reached + 1 /\ s.pending = None
      /\ s.champion = st.champion /\ s.history = r.history
  BY <1>2, <1>6, <1>7, ScheduledKeeps
<1>9. ScoredIn(st) \subseteq ScoredIn(s) /\ \A m \in Names: ~Pends(m)
  BY <1>3, <1>7, <1>8, SameScores DEF Pends
<1>10. QED
  BY <1>1, <1>6, <1>8, <1>9, RejectionRecovers
-----------------------------------------------------------------------------
(* The attempts of one iteration.  They neither read nor write the checkpoint. *)

(* While the process attempts a label, no other label is open. *)
LEMMA OpenLabel ==
  ASSUME TypeInv, RecoveryInv, pc \in HoldsBase
  PROVE  /\ cand \in Names /\ SavedAhead = None /\ cand[1] = Reached + 1
         /\ \A n \in Names: n[1] > Reached /\ n[1] \in proposals => n[1] = cand[1]
<1>1. cand \in Names /\ SavedAhead = None /\ cand[1] = Reached + 1
  BY DEF TypeInv, LocalsOK, HoldsCandidate, HoldsBase, RecoveryInv, InStep, Attempt
<1>2. proposals \subseteq 1..(Reached + 1) /\ Reached \in Nat
  BY CheckpointType DEF RecoveryInv, Durable, Labelled
<1>3. ASSUME NEW n \in Names, n[1] > Reached, n[1] \in proposals PROVE n[1] = Reached + 1
  <2>1. n[1] \in 1..(Reached + 1)
    BY <1>2, <1>3
  <2>2. QED
    BY <1>2, <1>3, <2>1
<1>4. QED
  BY <1>1, <1>3

(* During an attempt the process holds what the checkpoint says. *)
LEMMA AttemptInStep ==
  ASSUME RecoveryInv, pc \in {"label"} \cup HoldsBase, pc' \in HoldsBase,
         st' = st, saved' = saved
  PROVE  InStep' /\ Evaluation'
<1>1. /\ Reached' = Reached /\ SavedAhead' = SavedAhead /\ SavedScores' = SavedScores
      /\ ScoredIn(st)' = ScoredIn(st)
  BY NotSaved DEF ScoredIn
<1>2. InStep'
  BY <1>1 DEF RecoveryInv, InStep, Between, HoldsBase
<1>3. Evaluation'
  BY DEF Evaluation, HoldsBase, Evaluating
<1>4. QED
  BY <1>2, <1>3

(* A proposal opens a label that nothing carries. *)
LEMMA ProposalRecovers ==
  ASSUME IInv, RecoveryInv, Propose
  PROVE  RecoveryInv'
<1>1. /\ pc = "label" /\ pc' = "implement" /\ st' = st /\ saved' = saved
      /\ UNCHANGED <<championRef, worktrees, commits, guards, started, ledger>>
      /\ ~Occupied(Label) /\ proposals' = proposals \cup {Label}
      /\ cand' = <<Label, 0>> /\ repairBase' = st.champion
  BY DEF Propose, LabelChosen, git
<1>2. Label = Reached + 1 /\ SavedAhead = None /\ Reached \in Nat
  BY <1>1, CheckpointType DEF Label, RecoveryInv, InStep, Between, IInv
<1>3. Label \notin proposals /\ \A g \in guards: g[1] # Label
  BY <1>1 DEF Occupied, RecoveryInv, Durable, Labelled
<1>4. \A n \in Names: n[1] = Label => worktrees[n] = None /\ ~Committed(n)
  BY <1>3 DEF RecoveryInv, Durable, Labelled
<1>5. /\ Reached' = Reached /\ SavedAhead' = SavedAhead /\ SavedChampion' = SavedChampion
      /\ SavedScores' = SavedScores
  BY <1>1, NotSaved
<1>6. Labelled'
  BY <1>1, <1>2, <1>5 DEF RecoveryInv, Durable, Labelled, Committed
<1>7. Rooted' /\ Resumable' /\ Ahead'
  BY <1>1, <1>5
  DEF RecoveryInv, Durable, Rooted, Resumable, Ahead, Cumulative, Substantive, Committed, Pends
<1>8. Attempt'
  <2>1. cand'[1] = Label /\ cand'[2] = 0 /\ cand' \in {<<Label, 0>>}
    BY <1>1
  <2>2. \A n \in Names: n[2] \in Nat
    BY NameParts
  <2>3. cand' \in Names
    BY <1>1, <1>2, BudgetAssumption
    DEF Names, LabelChosen, Propose, Label, IInv, TypeInv, LocalsOK, State
  <2>4. ~Committed(cand') /\ worktrees[cand'] = None
    BY <1>4, <2>1, <2>3
  <2>5. QED
    BY <1>1, <1>2, <1>3, <1>4, <1>5, <2>1, <2>2, <2>4 DEF Attempt, Committed
<1>9. QED
  BY <1>1, <1>6, <1>7, <1>8, AttemptInStep DEF RecoveryInv, Durable, HoldsBase

(* The smoke test decides how the attempt goes on and changes nothing. *)
LEMMA SmokeRecovers ==
  ASSUME IInv, RecoveryInv, SmokePasses \/ SmokeFails \/ SmokeOutage
  PROVE  RecoveryInv'
<1>1. /\ pc = "smoke" /\ pc' \in {"accepted", "failed"} /\ st' = st /\ saved' = saved
      /\ UNCHANGED <<cand, repairBase, git, proposals, guards, started, ledger>>
  BY DEF SmokePasses, SmokeFails, SmokeOutage, AttemptFails, durable, artifacts
<1>2. /\ Reached' = Reached /\ SavedAhead' = SavedAhead /\ SavedChampion' = SavedChampion
      /\ SavedScores' = SavedScores
  BY <1>1, NotSaved
<1>3. Durable'
  BY <1>1, <1>2, DurableKept DEF RecoveryInv
<1>4. Attempt'
  BY <1>1, <1>2 DEF RecoveryInv, Attempt, HoldsBase, Cumulative, Substantive, Committed, git
<1>5. QED
  BY <1>1, <1>3, <1>4, AttemptInStep DEF RecoveryInv, HoldsBase

(* An attempt that is not committed leaves a tree at its base. *)
LEMMA AbortedRecovers ==
  ASSUME IInv, RecoveryInv, ApplyFails
  PROVE  RecoveryInv'
<1>1. /\ pc = "implement" /\ pc' = "failed" /\ st' = st /\ saved' = saved
      /\ UNCHANGED <<cand, repairBase, championRef, commits, proposals, guards, started, ledger>>
      /\ worktrees' = [worktrees EXCEPT ![cand] = repairBase]
  BY DEF ApplyFails, AttemptFails, artifacts
<1>2. /\ Reached' = Reached /\ SavedAhead' = SavedAhead /\ SavedChampion' = SavedChampion
      /\ SavedScores' = SavedScores
  BY <1>1, NotSaved
<1>3. /\ cand \in Names /\ SavedAhead = None
      /\ \A n \in Names: n[1] > Reached /\ n[1] \in proposals => n[1] = cand[1]
  BY <1>1, OpenLabel DEF HoldsBase, IInv
<1>4. \A n \in Names: n # cand => worktrees'[n] = worktrees[n]
  BY <1>1 DEF IInv, TypeInv, TypeOK
<1>5. cand[1] \in proposals /\ ~Committed(cand) /\ \A g \in guards: g[1] # cand[1]
  BY <1>1 DEF RecoveryInv, Attempt, HoldsBase
<1>6. Labelled'
  BY <1>1, <1>2, <1>3, <1>4, <1>5 DEF RecoveryInv, Durable, Labelled, Committed
<1>7. Rooted' /\ Ahead'
  BY <1>1, <1>2 DEF RecoveryInv, Durable, Rooted, Ahead, Substantive, Committed, Pends
<1>8. Resumable'
  BY <1>1, <1>2, <1>3, <1>5 DEF RecoveryInv, Durable, Labelled, Resumable
<1>9. Attempt'
  BY <1>1, <1>2, <1>4, <1>5 DEF RecoveryInv, Attempt, HoldsBase, Committed
<1>10. QED
  BY <1>1, <1>6, <1>7, <1>8, <1>9, AttemptInStep DEF RecoveryInv, Durable, HoldsBase

(* A committed attempt contains its base, hence the champion and every        *)
(* committed attempt before it.                                               *)
LEMMA CommittingRecovers ==
  ASSUME IInv, RecoveryInv, ApplyAndGuard
  PROVE  RecoveryInv'
<1>1. PICK substantive \in BOOLEAN:
        /\ pc = "implement" /\ pc' \in {"smoke", "accepted", "failed"}
        /\ pc' # "failed" => substantive
        /\ st' = st /\ saved' = saved
        /\ UNCHANGED <<cand, repairBase, championRef, proposals, guards, started, ledger>>
        /\ worktrees' = [worktrees EXCEPT ![cand] = cand]
        /\ commits' = [commits EXCEPT ![cand] = CommitOf(substantive)]
  BY DEF ApplyAndGuard, AttemptFails, artifacts
<1>2. /\ Reached' = Reached /\ SavedAhead' = SavedAhead /\ SavedChampion' = SavedChampion
      /\ SavedScores' = SavedScores
  BY <1>1, NotSaved
<1>3. /\ cand \in Names /\ cand \in Commits /\ SavedAhead = None /\ cand[1] = Reached + 1
      /\ \A n \in Names: n[1] > Reached /\ n[1] \in proposals => n[1] = cand[1]
  BY <1>1, OpenLabel, NameParts DEF HoldsBase, IInv
<1>4. /\ cand[1] \in proposals /\ ~Committed(cand)
      /\ \A g \in guards: g[1] # cand[1]
      /\ repairBase = st.champion \/ (repairBase \in Names /\ repairBase[1] = cand[1])
      /\ \A n \in Names: n[1] = cand[1] /\ n # cand => worktrees[n] = None
      /\ \A n \in Names: n[1] = cand[1] /\ n[2] > cand[2] => ~Committed(n)
      /\ \A n \in Names: n[1] = cand[1] /\ n[2] < cand[2] /\ Committed(n) =>
                           n \in commits[repairBase].ancestors
  BY <1>1 DEF RecoveryInv, Attempt, HoldsBase
<1>5. repairBase \in Commits /\ Committed(repairBase) /\ st.champion = SavedChampion
  BY <1>1
  DEF IInv, TypeInv, LocalsOK, CommitsExist, HoldsBase, Committed, EvidenceInv, CheckpointLags
<1>6. /\ \A n \in Names: n # cand => worktrees'[n] = worktrees[n]
      /\ worktrees'[cand] = cand /\ cand # None
  BY <1>1, <1>3, NoneAssumption DEF IInv, TypeInv, TypeOK
<1>7. /\ \A c \in Commits: c # cand => commits'[c] = commits[c]
      /\ commits'[cand] # None
      /\ commits'[cand].ancestors = commits[repairBase].ancestors \cup {cand}
      /\ commits'[cand].substantive = substantive
  <2>1. commits' \in [Commits -> CommitRecord \cup {None}]
        /\ commits \in [Commits -> CommitRecord \cup {None}]
    BY TypeStep DEF IInv, TypeInv, TypeOK, Next, Step, Materialize
  <2>2. commits[repairBase] \in CommitRecord
    BY <1>5, <2>1 DEF Committed
  <2>3. CommitOf(substantive) \in CommitRecord
    BY <1>3, <2>2 DEF CommitOf, CommitRecord
  <2>4. QED
    BY <1>1, <1>3, <2>1, <2>3, NoneAssumption DEF CommitOf
<1>8. SavedChampion \in commits[repairBase].ancestors
  <2>1. CASE repairBase = st.champion
    BY <1>5, <2>1 DEF RecoveryInv, Durable, Rooted
  <2>2. CASE repairBase \in Names /\ repairBase[1] = cand[1]
    <3>1. repairBase[1] > Reached
      BY <1>3, <2>2, CheckpointType DEF IInv
    <3>2. QED
      BY <1>5, <2>2, <3>1 DEF RecoveryInv, Durable, Rooted
  <2>3. QED
    BY <1>4, <2>1, <2>2
<1>9. Labelled'
  <2>1. \A n \in Names: worktrees'[n] # None \/ commits'[n] # None => n[1] \in proposals
    BY <1>4, <1>6, <1>7, NameParts DEF RecoveryInv, Durable, Labelled, Committed
  <2>2. QED
    BY <1>1, <1>2, <2>1 DEF RecoveryInv, Durable, Labelled, Committed
<1>10. Rooted'
  <2>1. \A c \in Commits: commits'[c] # None => c \in commits'[c].ancestors
    BY <1>3, <1>7 DEF RecoveryInv, Durable, Rooted, Committed
  <2>2. \A n \in Names: n[1] > Reached /\ commits'[n] # None =>
                          SavedChampion \in commits'[n].ancestors
    BY <1>7, <1>8, NameParts DEF RecoveryInv, Durable, Rooted, Committed
  <2>3. QED
    BY <1>2, <2>1, <2>2 DEF Rooted, Committed
<1>11. Resumable'
  BY <1>1, <1>2, <1>3, <1>4 DEF RecoveryInv, Durable, Labelled, Resumable
<1>12. Ahead'
  <2>1. \A n \in Names: Substantive(n) => n # cand /\ commits'[n] = commits[n]
    BY <1>4, <1>7, NameParts DEF Substantive
  <2>2. QED
    BY <1>1, <1>2, <2>1 DEF RecoveryInv, Durable, Ahead, Substantive, Committed, Pends
<1>13. Attempt'
  <2>1. \A n \in Names: n[1] = cand[1] /\ n[2] > cand[2] => commits'[n] = None
    BY <1>3, <1>4, <1>7, NameParts DEF Committed
  <2>2. \A n \in Names: n[1] = cand[1] /\ n[2] < cand[2] /\ commits'[n] # None =>
                          n \in commits[repairBase].ancestors
    BY <1>3, <1>4, <1>7, NameParts DEF Committed
  <2>3. commits'[repairBase] = commits[repairBase]
    BY <1>4, <1>5, <1>7
  <2>4. \A n \in Names: n[1] = cand[1] /\ n[2] <= cand[2] /\ commits'[n] # None =>
                          n \in commits'[cand].ancestors
    <3>1. SUFFICES ASSUME NEW n \in Names, n[1] = cand[1], n[2] <= cand[2], commits'[n] # None
                   PROVE  n \in commits'[cand].ancestors
      OBVIOUS
    <3>2. CASE n[2] < cand[2]
      BY <1>7, <2>2, <3>1, <3>2
    <3>3. CASE n[2] = cand[2]
      BY <1>3, <1>7, <3>1, <3>3, SameName
    <3>4. QED
      BY <1>3, <3>1, <3>2, <3>3, NameParts
  <2>5. Cumulative(cand)'
    BY <1>1, <2>4 DEF Cumulative, Committed
  <2>6. pc' # "failed" => Substantive(cand)'
    BY <1>1, <1>7 DEF Substantive, Committed
  <2>7. QED
    BY <1>1, <1>2, <1>3, <1>4, <1>6, <2>1, <2>2, <2>3, <2>5, <2>6 DEF Attempt, HoldsBase, Committed
<1>14. QED
  BY <1>1, <1>9, <1>10, <1>11, <1>12, <1>13, AttemptInStep DEF RecoveryInv, Durable, HoldsBase

(* A repair starts from the failed tree if that was committed, so it starts   *)
(* from every committed attempt.                                              *)
LEMMA RepairRecovers ==
  ASSUME IInv, RecoveryInv, TypeInv', Repair
  PROVE  RecoveryInv'
<1>1. /\ pc = "failed" /\ pc' = "implement" /\ st' = st /\ saved' = saved
      /\ UNCHANGED <<championRef, commits, proposals, guards, started, ledger>>
      /\ worktrees' = [worktrees EXCEPT ![cand] = None]
      /\ cand' = <<cand[1], cand[2] + 1>>
      /\ repairBase' = IF worktrees[cand] = cand THEN cand ELSE repairBase
  BY DEF Repair, NextRepairBase, artifacts
<1>2. /\ Reached' = Reached /\ SavedAhead' = SavedAhead /\ SavedChampion' = SavedChampion
      /\ SavedScores' = SavedScores
  BY <1>1, NotSaved
<1>3. /\ cand \in Names /\ SavedAhead = None
      /\ \A n \in Names: n[1] > Reached /\ n[1] \in proposals => n[1] = cand[1]
  BY <1>1, OpenLabel DEF HoldsBase, IInv
<1>4. /\ cand' \in Names /\ cand'[1] = cand[1] /\ cand'[2] = cand[2] + 1
      /\ cand[2] \in Nat /\ cand' # cand
  <2>1. cand' \in Names
    BY <1>1 DEF TypeInv, LocalsOK, HoldsCandidate
  <2>2. cand[2] \in Nat
    BY <1>3, NameParts
  <2>3. cand'[1] = cand[1] /\ cand'[2] = cand[2] + 1
    BY <1>1
  <2>4. QED
    BY <2>1, <2>2, <2>3
<1>5. /\ cand[1] \in proposals /\ \A g \in guards: g[1] # cand[1]
      /\ cand[1] = Reached + 1
      /\ repairBase = st.champion \/ (repairBase \in Names /\ repairBase[1] = cand[1])
      /\ \A n \in Names: n[1] = cand[1] /\ n # cand => worktrees[n] = None
      /\ \A n \in Names: n[1] = cand[1] /\ n[2] > cand[2] => ~Committed(n)
      /\ \A n \in Names: n[1] = cand[1] /\ n[2] < cand[2] /\ Committed(n) =>
                           n \in commits[repairBase].ancestors
      /\ Committed(cand) => worktrees[cand] = cand /\ Cumulative(cand)
  BY <1>1 DEF RecoveryInv, Attempt, HoldsBase
<1>6. \A n \in Names: worktrees'[n] = IF n = cand THEN None ELSE worktrees[n]
  BY <1>1, <1>3 DEF IInv, TypeInv, TypeOK
<1>7. Labelled'
  BY <1>1, <1>2, <1>6 DEF RecoveryInv, Durable, Labelled, Committed
<1>8. Rooted' /\ Ahead'
  BY <1>1, <1>2 DEF RecoveryInv, Durable, Rooted, Ahead, Substantive, Committed, Pends
<1>9. Resumable'
  BY <1>1, <1>2, <1>3, <1>5 DEF RecoveryInv, Durable, Labelled, Resumable
<1>10. Attempt'
  <2>1. \A n \in Names: n[1] = cand[1] => worktrees'[n] = None
    BY <1>5, <1>6
  <2>2. \A n \in Names: n[1] = cand[1] /\ n[2] > cand[2] + 1 => ~Committed(n)
    BY <1>4, <1>5, NameParts
  <2>3. ~Committed(cand')
    BY <1>4, <1>5
  <2>4. ASSUME NEW n \in Names, n[1] = cand[1], n[2] < cand[2] + 1, Committed(n)
        PROVE  n \in commits[repairBase'].ancestors
    <3>1. n[2] \in Nat /\ (n[2] < cand[2] \/ n[2] = cand[2])
      BY <1>4, <2>4, NameParts
    <3>2. CASE worktrees[cand] = cand
      <4>1. Committed(cand)
        BY <1>3, <3>2, NameParts, NoneAssumption DEF IInv, TypeInv, CommitsExist, Committed
      <4>2. QED
        BY <1>1, <1>4, <1>5, <2>4, <3>1, <3>2, <4>1 DEF Cumulative
    <3>3. CASE worktrees[cand] # cand
      <4>1. n # cand
        BY <1>5, <2>4, <3>3
      <4>2. n[2] < cand[2]
        BY <1>3, <2>4, <3>1, <4>1, SameName
      <4>3. QED
        BY <1>1, <1>5, <2>4, <3>3, <4>2
    <3>4. QED
      BY <3>2, <3>3
  <2>5. repairBase' = st'.champion \/ (repairBase' \in Names /\ repairBase'[1] = cand'[1])
    BY <1>1, <1>3, <1>4, <1>5
  <2>6. QED
    BY <1>1, <1>2, <1>4, <1>5, <2>1, <2>2, <2>3, <2>4, <2>5 DEF Attempt, Committed
<1>11. QED
  BY <1>1, <1>7, <1>8, <1>9, <1>10, AttemptInStep DEF RecoveryInv, Durable, HoldsBase

(* The attempts end: the last tree is discarded, or kept for the audit. *)
LEMMA AbandoningRecovers ==
  ASSUME IInv, RecoveryInv, GiveUp \/ RepairFails
  PROVE  RecoveryInv'
<1>1. /\ pc = "failed" /\ pc' = "abandoned" /\ st' = st /\ saved' = saved /\ cand' = cand
      /\ UNCHANGED <<championRef, commits, proposals, guards, started, ledger>>
      /\ worktrees' \in {worktrees, [worktrees EXCEPT ![cand] = None]}
  BY DEF GiveUp, RepairFails, durable, git, artifacts
<1>2. /\ Reached' = Reached /\ SavedAhead' = SavedAhead /\ SavedChampion' = SavedChampion
      /\ SavedScores' = SavedScores /\ ScoredIn(st)' = ScoredIn(st)
  BY <1>1, NotSaved DEF ScoredIn
<1>3. cand \in Names /\ SavedAhead = None /\ cand[1] = Reached + 1
  BY <1>1, OpenLabel DEF HoldsBase, IInv
<1>4. \A n \in Names: worktrees'[n] # None => worktrees'[n] = worktrees[n]
  BY <1>1, <1>3 DEF IInv, TypeInv, TypeOK
<1>5. Labelled' /\ Rooted' /\ Ahead'
  BY <1>1, <1>2, <1>4
  DEF RecoveryInv, Durable, Labelled, Rooted, Ahead, Substantive, Committed, Pends
<1>6. Resumable'
  BY <1>1, <1>2, <1>3, <1>4 DEF RecoveryInv, Durable, Resumable, Cumulative, Committed
<1>7. InStep'
  BY <1>1, <1>2, <1>3 DEF RecoveryInv, InStep, Between, HoldsBase
<1>8. Attempt' /\ Evaluation'
  BY <1>1 DEF Attempt, Evaluation, HoldsBase, Evaluating
<1>9. QED
  BY <1>5, <1>6, <1>7, <1>8 DEF RecoveryInv, Durable

(* The accepted tree becomes recoverable from disk. *)
LEMMA GuardingRecovers ==
  ASSUME IInv, RecoveryInv, WriteGuards
  PROVE  RecoveryInv'
<1>1. /\ pc = "accepted" /\ pc' = "checkpoint" /\ st' = st /\ saved' = saved
      /\ UNCHANGED <<cand, repairBase, championRef, worktrees, commits, proposals, started, ledger>>
      /\ guards' = {n \in guards: n[1] # cand[1]} \cup {cand}
  BY DEF WriteGuards, git
<1>2. /\ Reached' = Reached /\ SavedAhead' = SavedAhead /\ SavedChampion' = SavedChampion
      /\ SavedScores' = SavedScores
  BY <1>1, NotSaved
<1>3. /\ cand \in Names /\ SavedAhead = None
      /\ \A n \in Names: n[1] > Reached /\ n[1] \in proposals => n[1] = cand[1]
  BY <1>1, OpenLabel DEF HoldsBase, IInv
<1>4. /\ cand[1] \in proposals
      /\ \A n \in Names: n[1] = cand[1] /\ n # cand => worktrees[n] = None
      /\ worktrees[cand] = cand /\ Cumulative(cand)
  BY <1>1 DEF RecoveryInv, Attempt, HoldsBase, Substantive
<1>5. Labelled'
  BY <1>1, <1>2, <1>4 DEF RecoveryInv, Durable, Labelled, Committed
<1>6. Rooted' /\ Ahead'
  BY <1>1, <1>2 DEF RecoveryInv, Durable, Rooted, Ahead, Substantive, Committed, Pends
<1>7. Resumable'
  <2>1. \A n \in Names, g \in guards':
          n[1] > Reached /\ g[1] = n[1] /\ worktrees[n] # None => n = cand /\ g = cand
    BY <1>1, <1>3, <1>4 DEF RecoveryInv, Durable, Labelled
  <2>2. QED
    BY <1>1, <1>2, <1>3, <1>4, <2>1 DEF Resumable, Cumulative, Committed
<1>8. Attempt'
  BY <1>1, <1>2 DEF RecoveryInv, Attempt, HoldsBase, Cumulative, Substantive, Committed
<1>9. QED
  BY <1>1, <1>5, <1>6, <1>7, <1>8, AttemptInStep DEF RecoveryInv, Durable, HoldsBase

(* The accepted tree becomes the pending candidate. *)
LEMMA CheckpointingRecovers ==
  ASSUME IInv, RecoveryInv, CheckpointPending
  PROVE  RecoveryInv'
<1>1. /\ pc = "checkpoint" /\ pc' = "evaluate" /\ cand' = cand
      /\ UNCHANGED <<championRef, worktrees, commits, proposals, guards, started, ledger>>
  BY DEF CheckpointPending, git, artifacts
<1>2. PICK s: s = [st EXCEPT !.pending = PendingOf(cand)] /\ st' = s /\ saved' = s
  BY DEF CheckpointPending
<1>3. st \in State /\ stage \in Stages /\ cand \in Names
  BY <1>1 DEF IInv, TypeInv, LocalsOK, HoldsCandidate
<1>4. /\ PendingOf(cand) \in Pending /\ PendingOf(cand) # None
      /\ PendingOf(cand).candidate = cand /\ PendingOf(cand).parent = st.champion
  BY <1>3, NoneAssumption DEF PendingOf, Pending, State
<1>5. /\ s \in State /\ s.iteration = st.iteration /\ s.champion = st.champion
      /\ s.history = st.history /\ s.pending = PendingOf(cand)
  BY <1>2, <1>3, <1>4 DEF State
<1>6. /\ st.iteration = Reached /\ SavedAhead = None /\ st.champion = SavedChampion
      /\ SavedScores \subseteq ScoredIn(s)
  BY <1>1, <1>5, SameScores
  DEF RecoveryInv, InStep, HoldsBase, IInv, EvidenceInv, CheckpointLags
<1>7. /\ Reached' = Reached /\ SavedAhead' = PendingOf(cand) /\ SavedChampion' = SavedChampion
      /\ SavedScores' = ScoredIn(s)
  BY <1>2, <1>5, <1>6, SavedAs
<1>8. /\ cand[1] = Reached + 1 /\ cand \in guards /\ worktrees[cand] = cand
      /\ Substantive(cand)
  BY <1>1 DEF RecoveryInv, Attempt, HoldsBase, Substantive
<1>9. Labelled' /\ Rooted'
  BY <1>1, <1>7 DEF RecoveryInv, Durable, Labelled, Rooted, Committed
<1>10. Resumable'
  <2>1. cand[1] > Reached /\ cand # None
    BY <1>3, <1>8, CheckpointType, NameParts, NoneAssumption DEF IInv
  <2>2. QED
    BY <1>1, <1>4, <1>6, <1>7, <1>8, <2>1
    DEF RecoveryInv, Durable, Resumable, Cumulative, Committed
<1>11. Ahead'
  BY <1>1, <1>6, <1>7 DEF RecoveryInv, Durable, Ahead, Substantive, Committed, Pends
<1>12. InStep'
  BY <1>1, <1>2, <1>5, <1>6, <1>7, HeldScores DEF InStep, Between, HoldsBase
<1>13. Attempt'
  BY <1>1 DEF Attempt, HoldsBase
<1>14. Evaluation'
  BY <1>1, <1>4, <1>7, <1>8 DEF Evaluation, Pends, Substantive, Committed
<1>15. QED
  BY <1>9, <1>10, <1>11, <1>12, <1>13, <1>14 DEF RecoveryInv, Durable
-----------------------------------------------------------------------------
(* The evaluation of the pending candidate. *)

(* A rollout that is started is the first of its candidate, so neither the    *)
(* ledger nor the champion ref can already know it.                           *)
LEMMA StartRecovers ==
  ASSUME IInv, RecoveryInv, StartRollout
  PROVE  RecoveryInv'
<1>1. /\ pc = "evaluate" /\ pc' = "running" /\ st' = st /\ saved' = saved /\ cand' = cand
      /\ UNCHANGED <<git, championRef, commits, proposals, guards, ledger>>
      /\ started' = started \cup {cand} /\ cand \notin started
  BY DEF StartRollout, TagTaken, git
<1>2. /\ Reached' = Reached /\ SavedAhead' = SavedAhead /\ SavedChampion' = SavedChampion
      /\ SavedScores' = SavedScores /\ ScoredIn(st)' = ScoredIn(st)
  BY <1>1, NotSaved DEF ScoredIn
<1>3. Durable'
  BY <1>1, <1>2, DurableKept DEF RecoveryInv
<1>4. InStep' /\ Attempt'
  BY <1>1, <1>2 DEF RecoveryInv, InStep, Attempt, Between, HoldsBase
<1>5. cand \in Names /\ ledger[cand] \in Nat
  BY <1>1 DEF IInv, TypeInv, TypeOK, LocalsOK, HoldsCandidate
<1>6. ledger[cand] = 0
  BY <1>1, <1>5 DEF RecoveryInv, Durable, Ahead
<1>7. Pends(cand) /\ Substantive(cand)
  BY <1>1 DEF RecoveryInv, Evaluation, Evaluating
<1>8. championRef = SavedChampion
  BY <1>1, <1>7 DEF RecoveryInv, Durable, Ahead, Pends
<1>9. Evaluation'
  BY <1>1, <1>2, <1>6, <1>7, <1>8 DEF Evaluation, Pends, Substantive, Committed
<1>10. QED
  BY <1>3, <1>4, <1>9 DEF RecoveryInv

(* A complete rollout only adds evidence. *)
LEMMA CompletionRecovers ==
  ASSUME IInv, RecoveryInv, RolloutCompletes
  PROVE  RecoveryInv'
<1>1. /\ pc = "running" /\ pc' = "finish" /\ st' = st /\ saved' = saved /\ cand' = cand
      /\ UNCHANGED <<git, championRef, commits, proposals, guards, started, ledger>>
  BY DEF RolloutCompletes, git
<1>2. /\ Reached' = Reached /\ SavedAhead' = SavedAhead /\ SavedChampion' = SavedChampion
      /\ SavedScores' = SavedScores /\ ScoredIn(st)' = ScoredIn(st)
  BY <1>1, NotSaved DEF ScoredIn
<1>3. Durable'
  BY <1>1, <1>2, DurableKept DEF RecoveryInv
<1>4. InStep' /\ Attempt'
  BY <1>1, <1>2 DEF RecoveryInv, InStep, Attempt, Between, HoldsBase
<1>5. Evaluation'
  BY <1>1, <1>2 DEF RecoveryInv, Evaluation, Evaluating, Pends, Substantive, Committed
<1>6. QED
  BY <1>3, <1>4, <1>5 DEF RecoveryInv

(* The ledger records the candidate before the checkpoint does. *)
LEMMA ScoringRecovers ==
  ASSUME IInv, RecoveryInv, ScoreCandidate
  PROVE  RecoveryInv'
<1>1. /\ pc = "finish" /\ pc' \in {"promote", "save"} /\ saved' = saved /\ cand' = cand
      /\ UNCHANGED <<championRef, worktrees, commits, proposals, guards, started>>
      /\ ledger' = [ledger EXCEPT ![cand] = @ + 1]
  BY DEF ScoreCandidate, git
<1>2. st \in State /\ stage \in Stages /\ cand \in Names
  BY <1>1 DEF IInv, TypeInv, LocalsOK, HoldsCandidate
<1>3. PICK record, s:
        /\ record = [iteration |-> cand[1], candidate |-> cand, status |-> Outcome]
        /\ s.iteration = st.iteration /\ s.champion = st.champion /\ s.pending = st.pending
        /\ s.history = Append(st.history, record) /\ st' = s
  <2> DEFINE record == [iteration |-> cand[1], candidate |-> cand, status |-> Outcome]
             status == [st.status EXCEPT ![stage] =
                          IF result.native > champ.native THEN "productive" ELSE "active"]
             s == [st EXCEPT !.runtimeCandidates = @ + 1, !.history = Append(@, record),
                             !.status = status]
  <2>1. st' = s
    BY DEF ScoreCandidate
  <2> HIDE DEF record, status
  <2>2. /\ s.iteration = st.iteration /\ s.champion = st.champion /\ s.pending = st.pending
        /\ s.history = Append(st.history, record)
    BY <1>2 DEF State
  <2> HIDE DEF s
  <2>3. QED
    BY <2>1, <2>2 DEF record
<1>4. record \in HistoryRecord /\ record.status \in Scored /\ record.candidate = cand
  BY <1>2, <1>3, NameParts DEF HistoryRecord, Outcome, Outcomes, Scored
<1>5. ScoredIn(st) \subseteq ScoredIn(s) /\ cand \in ScoredIn(s)
  BY <1>2, <1>3, <1>4, MoreScores
<1>6. /\ Reached' = Reached /\ SavedAhead' = SavedAhead /\ SavedChampion' = SavedChampion
      /\ SavedScores' = SavedScores /\ ScoredIn(st)' = ScoredIn(s)
  BY <1>1, <1>3, NotSaved, HeldScores
<1>7. /\ Pends(cand) /\ Substantive(cand) /\ cand \in started /\ ledger[cand] = 0
      /\ championRef = SavedChampion
  BY <1>1 DEF RecoveryInv, Evaluation, Evaluating
<1>8. \A n \in Names: ledger'[n] = IF n = cand THEN 1 ELSE ledger[n]
  BY <1>1, <1>2, <1>7 DEF IInv, TypeInv, TypeOK
<1>9. Labelled' /\ Rooted' /\ Resumable'
  BY <1>1, <1>6
  DEF RecoveryInv, Durable, Labelled, Rooted, Resumable, Cumulative, Committed
<1>10. Ahead'
  BY <1>1, <1>6, <1>7, <1>8 DEF RecoveryInv, Durable, Ahead, Substantive, Committed, Pends
<1>11. InStep'
  BY <1>1, <1>3, <1>5, <1>6 DEF RecoveryInv, InStep, Between, HoldsBase
<1>12. Attempt'
  BY <1>1 DEF Attempt, HoldsBase
<1>13. Evaluation'
  <2>1. st.champion = SavedChampion
    BY <1>1 DEF IInv, EvidenceInv, CheckpointLags
  <2>2. Pends(cand)' /\ Substantive(cand)'
    BY <1>1, <1>6, <1>7 DEF Pends, Substantive, Committed
  <2>3. QED
    BY <1>1, <1>3, <1>5, <1>6, <1>7, <2>1, <2>2 DEF Evaluation
<1>14. QED
  BY <1>9, <1>10, <1>11, <1>12, <1>13 DEF RecoveryInv, Durable

(* The champion ref moves before the checkpoint does. *)
LEMMA PromotionRecovers ==
  ASSUME IInv, RecoveryInv, Promote
  PROVE  RecoveryInv'
<1>1. /\ pc = "promote" /\ pc' = "save" /\ saved' = saved /\ cand' = cand
      /\ UNCHANGED <<worktrees, commits, proposals, guards, started, ledger>>
      /\ championRef' = cand
  BY DEF Promote, artifacts
<1>2. st \in State /\ stage \in Stages /\ cand \in Names
  BY <1>1 DEF IInv, TypeInv, LocalsOK, HoldsCandidate
<1>3. PICK s: /\ s.iteration = st.iteration /\ s.champion = cand /\ s.pending = st.pending
              /\ s.history = st.history /\ st' = s
  <2> DEFINE a == Adopted
             status == Revalidated(Adopted, cand)
             s == [a EXCEPT !.status = status]
  <2>1. st' = s
    BY DEF Promote
  <2>2. /\ a.iteration = st.iteration /\ a.champion = cand /\ a.pending = st.pending
        /\ a.history = st.history /\ DOMAIN a = DOMAIN st
    BY <1>2 DEF Adopted, State
  <2> HIDE DEF a, status
  <2>3. /\ s.iteration = a.iteration /\ s.champion = a.champion /\ s.pending = a.pending
        /\ s.history = a.history
    BY <1>2, <2>2 DEF State
  <2> HIDE DEF s
  <2>4. QED
    BY <2>1, <2>2, <2>3
<1>4. /\ Reached' = Reached /\ SavedAhead' = SavedAhead /\ SavedChampion' = SavedChampion
      /\ SavedScores' = SavedScores /\ ScoredIn(st)' = ScoredIn(st)
  BY <1>1, <1>3, NotSaved, HeldScores, SameScores
<1>5. Pends(cand) /\ Substantive(cand) /\ cand \in started /\ cand \in ScoredIn(st)
  BY <1>1 DEF RecoveryInv, Evaluation, Evaluating
<1>6. Labelled' /\ Rooted' /\ Resumable'
  BY <1>1, <1>4
  DEF RecoveryInv, Durable, Labelled, Rooted, Resumable, Cumulative, Committed
<1>7. Ahead'
  BY <1>1, <1>2, <1>4, <1>5 DEF RecoveryInv, Durable, Ahead, Substantive, Committed, Pends
<1>8. InStep' /\ Attempt'
  BY <1>1, <1>3, <1>4 DEF RecoveryInv, InStep, Attempt, Between, HoldsBase
<1>9. Evaluation'
  BY <1>1, <1>3, <1>4, <1>5 DEF Evaluation, Pends, Substantive, Committed
<1>10. QED
  BY <1>6, <1>7, <1>8, <1>9 DEF RecoveryInv, Durable

(* The checkpoint catches up with the champion ref and the ledger. *)
LEMMA SelectionRecovers ==
  ASSUME IInv, RecoveryInv, SaveSelection
  PROVE  RecoveryInv'
<1>1. /\ pc = "save" /\ pc' = "loop"
      /\ UNCHANGED <<championRef, worktrees, commits, proposals, guards, started, ledger>>
  BY DEF SaveSelection, git, artifacts
<1>2. st \in State /\ stage \in Stages /\ cand \in Names
  BY <1>1 DEF IInv, TypeInv, LocalsOK, HoldsCandidate
<1>3. PICK r, s: /\ r = [st EXCEPT !.pending = None, !.iteration = cand[1]]
                 /\ s \in Scheduled(r) /\ st' = s /\ saved' = s
  BY DEF SaveSelection
<1>4. cand[1] \in 0..MaxIteration
  BY <1>2, NameParts
<1>5. /\ r \in State /\ r.iteration = cand[1] /\ r.pending = None
      /\ r.champion = st.champion /\ r.history = st.history
  BY <1>2, <1>3, <1>4 DEF State
<1>6. /\ s \in State /\ s.iteration = cand[1] /\ s.pending = None
      /\ s.champion = st.champion /\ ScoredIn(s) = ScoredIn(st)
  BY <1>2, <1>3, <1>5, ScheduledKeeps, SameScores
<1>7. /\ Reached' = cand[1] /\ SavedAhead' = None /\ SavedChampion' = st.champion
      /\ SavedScores' = ScoredIn(s)
  BY <1>3, <1>6, SavedAs
<1>8. Pends(cand) /\ championRef = st.champion /\ cand \in ScoredIn(st)
  BY <1>1 DEF RecoveryInv, Evaluation, Evaluating
<1>9. cand[1] = Reached + 1
  <2>1. cand[1] > Reached /\ cand[1] \in proposals
    BY <1>8 DEF RecoveryInv, Durable, Resumable, Labelled, Pends
  <2>2. cand[1] \in 1..(Reached + 1) /\ Reached \in Nat
    BY <2>1, CheckpointType DEF RecoveryInv, Durable, Labelled, IInv
  <2>3. QED
    BY <2>1, <2>2
<1>10. \A n \in Names: ledger[n] > 0 => n \in SavedScores'
  BY <1>1, <1>6, <1>7, <1>8 DEF RecoveryInv, Durable, Ahead, InStep, Pends
<1>11. Durable'
  BY <1>1, <1>7, <1>8, <1>9, <1>10, DurableConsumed DEF RecoveryInv, IInv
<1>12. InStep'
  BY <1>1, <1>3, <1>6, <1>7, HeldScores DEF InStep, Between
<1>13. Attempt' /\ Evaluation'
  BY <1>1 DEF Attempt, Evaluation, HoldsBase, Evaluating
<1>14. QED
  BY <1>11, <1>12, <1>13 DEF RecoveryInv
-----------------------------------------------------------------------------
(* The invariant of recovery. *)

(* A first launch, and a checkpoint of an earlier release, are recoverable. *)
LEMMA RecoveryInit ==
  ASSUME Init
  PROVE  RecoveryInv
<1>1. /\ pc = "down" /\ championRef = Seed /\ ledger = [n \in Names |-> 0]
      /\ \A n \in Names: n[1] \in 1..MaxIteration
  BY NameParts DEF Init
<1>2. CASE InitFresh
  <2>1. /\ saved = None /\ proposals = {} /\ guards = {} /\ started = {}
        /\ \A n \in Names: worktrees[n] = None
        /\ \A c \in Commits: commits[c] = IF c = Seed
                                          THEN [ancestors |-> {Seed}, substantive |-> FALSE]
                                          ELSE None
    BY <1>2 DEF InitFresh
  <2>2. Seed \notin Names /\ \A n \in Names: n \in Commits
    BY <1>1 DEF Seed, Commits
  <2>3. Reached = 0 /\ SavedAhead = None /\ SavedChampion = Seed
    BY <2>1 DEF Reached, SavedAhead, SavedChampion
  <2>4. Labelled /\ Rooted
    BY <2>1, <2>2, <2>3 DEF Labelled, Rooted, Committed
  <2>5. Resumable /\ Ahead
    BY <1>1, <2>1, <2>3 DEF Resumable, Ahead
  <2>6. QED
    BY <1>1, <2>4, <2>5
    DEF RecoveryInv, Durable, InStep, Attempt, Evaluation, Between, HoldsBase, Evaluating
<1>3. CASE InitLegacy
  <2> DEFINE n == <<1, 0>>
             pending == [candidate |-> n, stage |-> StartStage, parent |-> Seed]
  <2>1. /\ n[1] = 1 /\ proposals = {1} /\ guards = {n} /\ n # Seed
        /\ \A m \in Names: worktrees[m] = IF m = n THEN n ELSE None
    BY <1>3 DEF InitLegacy, Seed
  <2>2. \A c \in Commits:
          commits[c] = CASE c = Seed -> [ancestors |-> {Seed}, substantive |-> FALSE]
                         [] c = n -> [ancestors |-> {Seed, n}, substantive |-> FALSE]
                         [] OTHER -> None
    BY <1>3 DEF InitLegacy
  <2>3. saved # None /\ saved.iteration = 0 /\ saved.champion = Seed /\ saved.pending = pending
    <3>1. saved # None
      BY LegacyState, <1>3, NoneAssumption
    <3>2. QED
      BY <1>3, <3>1 DEF InitLegacy, FreshState
  <2>4. n \in Names /\ Seed \notin Names /\ \A m \in Names: m \in Commits
    BY <1>1, <1>3, BudgetAssumption DEF InitLegacy, Seed, Commits, Names
  <2>5. pending # None /\ pending.candidate = n /\ pending.parent = Seed
    BY <2>4, StagesAssumption, NoneAssumption DEF Pending, Commits
  <2> HIDE DEF pending
  <2>6. Reached = 0 /\ SavedAhead = pending /\ SavedChampion = Seed
    BY <2>3 DEF Reached, SavedAhead, SavedChampion
  <2>7. /\ \A c \in Commits: commits[c] # None => c \in {Seed, n}
        /\ commits[n].ancestors = {Seed, n} /\ commits[Seed].ancestors = {Seed}
    BY <2>1, <2>2, <2>4 DEF Commits
  <2> HIDE DEF n
  <2>8. Labelled /\ Rooted
    BY <2>1, <2>4, <2>6, <2>7 DEF Labelled, Rooted, Committed
  <2>9. Resumable
    <3>1. n # None
      BY <2>4, NameParts, NoneAssumption
    <3>2. Cumulative(n)
      BY <2>4, <2>7 DEF Cumulative, Committed
    <3>3. QED
      BY <2>1, <2>4, <2>5, <2>6, <3>1, <3>2 DEF Resumable
  <2>10. Ahead
    BY <1>1, <2>6 DEF Ahead
  <2>11. QED
    BY <1>1, <2>8, <2>9, <2>10
    DEF RecoveryInv, Durable, InStep, Attempt, Evaluation, Between, HoldsBase, Evaluating
<1>4. QED
  BY <1>2, <1>3 DEF Init

(* Every step of the loop, and every way it can die, leaves a recoverable state. *)
LEMMA RecoveryStep ==
  ASSUME IInv, RecoveryInv, [Next]_vars
  PROVE  RecoveryInv'
<1>1. ASSUME Next PROVE TypeInv'
  BY <1>1, TypeStep DEF IInv
<1>2. CASE Launch
  BY <1>2, LaunchRecovers
<1>3. CASE Prepare \/ PendingKnown \/ NothingPending \/ LoopContinues \/ MarkInvalid
  BY <1>1, <1>3, PreparationRecovers DEF Prepare, Next, Step, Resume, Iterate
<1>4. CASE \/ BaselineFails \/ PendingStageMismatch \/ LoopEnds \/ OutOfLabels
           \/ ProposalBlocked \/ RepairBlocked \/ RefuseReusedTag \/ ProbeFails
           \/ RolloutFails \/ Crash
  BY <1>4, EndRecovers
<1>5. CASE RecoverPending \/ ResumePending
  BY <1>5, DiscoveryRecovers, ResumptionRecovers
<1>6. CASE \/ InvalidatePending \/ SkipOccupiedLabel \/ ProposalFails \/ RecordFailure
           \/ GiveUp \/ RepairFails
  BY <1>6, InvalidationRecovers, SkippingRecovers, FailureRecovers, AbandoningRecovers
<1>7. CASE Propose \/ SmokePasses \/ SmokeFails \/ SmokeOutage \/ ApplyFails
  BY <1>7, ProposalRecovers, SmokeRecovers, AbortedRecovers
<1>8. CASE ApplyAndGuard
  BY <1>8, CommittingRecovers
<1>9. CASE Repair
  BY <1>1, <1>9, RepairRecovers DEF Next, Step, Materialize
<1>10. CASE WriteGuards \/ CheckpointPending
  BY <1>10, GuardingRecovers, CheckpointingRecovers
<1>11. CASE StartRollout \/ RolloutCompletes \/ ScoreCandidate \/ Promote \/ SaveSelection
  BY <1>11, StartRecovers, CompletionRecovers, ScoringRecovers, PromotionRecovers,
     SelectionRecovers
<1>12. CASE UNCHANGED vars
  <2>1. UNCHANGED <<saved, championRef, worktrees, commits, proposals, guards, started, ledger,
                    pc, st, cand, repairBase>>
    BY <1>12 DEF vars, durable, git, artifacts, volatile
  <2>2. /\ Reached' = Reached /\ SavedAhead' = SavedAhead /\ SavedChampion' = SavedChampion
        /\ SavedScores' = SavedScores /\ ScoredIn(st)' = ScoredIn(st)
    BY <2>1, NotSaved DEF ScoredIn
  <2>3. Durable'
    BY <2>1, <2>2, DurableKept DEF RecoveryInv, git
  <2>4. InStep'
    BY <2>1, <2>2 DEF RecoveryInv, InStep, Pends, Substantive, Committed
  <2>5. Attempt'
    BY <2>1, <2>2 DEF RecoveryInv, Attempt, Cumulative, Substantive, Committed
  <2>6. Evaluation'
    BY <2>1, <2>2 DEF RecoveryInv, Evaluation, Pends, Substantive, Committed
  <2>7. QED
    BY <2>3, <2>4, <2>5, <2>6 DEF RecoveryInv
<1>13. QED
  BY <1>2, <1>3, <1>4, <1>5, <1>6, <1>7, <1>8, <1>9, <1>10, <1>11, <1>12
  DEF Next, Step, Prepare, Resume, Iterate, Materialize, Evaluate, Disturb

(* The checkpoint's pending candidate in the terms of Orchestrator. *)
LEMMA PendingNames == ASSUME NEW n PROVE n \in SavedPending <=> Pends(n)
  BY DEF SavedPending, Pends, SavedAhead

(* After any number of crashes a resume finds the pending candidate whole:    *)
(* its tree at its commit, a descendant of the present champion, for an       *)
(* iteration that is not consumed.                                            *)
THEOREM PendingSurvives == Spec => []PendingIntact
<1>1. Init => IInv /\ RecoveryInv
  BY TypeInit, EvidenceInit, RecoveryInit DEF IInv
<1>2. IInv /\ RecoveryInv /\ [Next]_vars => IInv' /\ RecoveryInv'
  BY IInvStep, RecoveryStep
<1>3. IInv /\ RecoveryInv => PendingIntact
  <2>1. SUFFICES ASSUME IInv, RecoveryInv, NEW n \in SavedPending
                 PROVE  /\ worktrees[n] = n
                        /\ saved.pending.parent = saved.champion
                        /\ saved.champion \in commits[n].ancestors
                        /\ n[1] > saved.iteration
    BY DEF PendingIntact
  <2>2. /\ saved # None /\ saved.pending = SavedAhead /\ SavedAhead.candidate = n
        /\ SavedAhead # None /\ n \in Names
        /\ saved.champion = SavedChampion /\ saved.iteration = Reached
    BY <2>1, PendingNames, CheckpointType
    DEF SavedPending, Pends, SavedAhead, SavedChampion, Reached, IInv
  <2>3. /\ worktrees[n] = n /\ SavedAhead.parent = SavedChampion /\ n[1] > Reached
    BY <2>1, <2>2 DEF RecoveryInv, Durable, Resumable
  <2>4. Committed(n)
    BY <2>1, <2>2, <2>3, NameParts, NoneAssumption DEF IInv, TypeInv, CommitsExist, Committed
  <2>5. SavedChampion \in commits[n].ancestors
    BY <2>1, <2>2, <2>3, <2>4 DEF RecoveryInv, Durable, Rooted
  <2>6. QED
    BY <2>2, <2>3, <2>5
<1>4. QED
  BY <1>1, <1>2, <1>3, PTL DEF Spec

(* Wherever a process dies between the writes of _finish_candidate, champion  *)
(* ref and ledger are ahead of the checkpoint by the pending candidate at     *)
(* most, and no candidate is recorded twice.                                  *)
THEOREM CheckpointLagsByOne == Spec => []OnlyPendingRunsAhead
<1>1. Init => IInv /\ RecoveryInv
  BY TypeInit, EvidenceInit, RecoveryInit DEF IInv
<1>2. IInv /\ RecoveryInv /\ [Next]_vars => IInv' /\ RecoveryInv'
  BY IInvStep, RecoveryStep
<1>3. IInv /\ RecoveryInv => OnlyPendingRunsAhead
  <2>1. SUFFICES ASSUME IInv, RecoveryInv PROVE OnlyPendingRunsAhead
    OBVIOUS
  <2>2. \A n \in Names: ledger[n] <= 1
    <3>1. SUFFICES ASSUME NEW n \in Names PROVE ledger[n] <= 1
      OBVIOUS
    <3>2. ledger[n] \in Nat
      BY <2>1 DEF IInv, TypeInv, TypeOK
    <3>3. QED
      BY <2>1, <3>2 DEF RecoveryInv, Durable, Ahead
  <2>3. \A n \in Names: ledger[n] > 0 => n \in SavedScores \/ n \in SavedPending
    BY <2>1, PendingNames DEF RecoveryInv, Durable, Ahead
  <2>4. championRef # SavedChampion => championRef \in SavedPending
    BY <2>1, PendingNames DEF RecoveryInv, Durable, Ahead
  <2>5. saved # None => SavedScores = ScoredIn(saved) /\ SavedChampion = saved.champion
    BY DEF SavedScores, SavedChampion
  <2>6. QED
    BY <2>2, <2>3, <2>4, <2>5 DEF OnlyPendingRunsAhead
<1>4. QED
  BY <1>1, <1>2, <1>3, PTL DEF Spec

(* The tree that reaches the simulator, also one recovered after a restart,   *)
(* contains every committed attempt of its iteration.                         *)
THEOREM RepairsAccumulate == Spec => []RepairsCumulative
<1>1. Init => IInv /\ RecoveryInv
  BY TypeInit, EvidenceInit, RecoveryInit DEF IInv
<1>2. IInv /\ RecoveryInv /\ [Next]_vars => IInv' /\ RecoveryInv'
  BY IInvStep, RecoveryStep
<1>3. IInv /\ RecoveryInv => RepairsCumulative
  <2>1. SUFFICES ASSUME IInv, RecoveryInv,
                        pc \in {"accepted", "checkpoint", "evaluate", "running", "finish"},
                        NEW r \in 0..cand[2], commits[<<cand[1], r>>] # None
                 PROVE  <<cand[1], r>> \in commits[cand].ancestors
    BY DEF RepairsCumulative
  <2>2. cand \in Names /\ cand[2] \in 0..Repairs
    BY <2>1, NameParts DEF IInv, TypeInv, LocalsOK, HoldsCandidate
  <2>3. <<cand[1], r>> \in Names
    BY <2>1, <2>2, NameParts, BudgetAssumption DEF Names
  <2>4. Cumulative(cand)
    <3>1. CASE pc \in {"accepted", "checkpoint"}
      BY <2>1, <3>1 DEF RecoveryInv, Attempt, HoldsBase, Substantive
    <3>2. CASE pc \in {"evaluate", "running", "finish"}
      <4>1. Pends(cand)
        BY <2>1, <3>2 DEF RecoveryInv, Evaluation, Evaluating
      <4>2. QED
        BY <2>1, <2>2, <4>1 DEF RecoveryInv, Durable, Resumable, Pends
    <3>3. QED
      BY <2>1, <3>1, <3>2
  <2>5. QED
    BY <2>1, <2>2, <2>3, <2>4 DEF Cumulative, Committed
<1>4. QED
  BY <1>1, <1>2, <1>3, PTL DEF Spec

(* Whatever tree a restarted process picks up by its label, what it evaluates *)
(* is the tree whose guards and smoke test passed: labels are never reused,   *)
(* and of a label with a guards.json only the accepted tree is left on disk.  *)
THEOREM OnlyAcceptedRun == Spec => []AcceptedOnly
<1>1. Init => IInv /\ RecoveryInv
  BY TypeInit, EvidenceInit, RecoveryInit DEF IInv
<1>2. IInv /\ RecoveryInv /\ [Next]_vars => IInv' /\ RecoveryInv'
  BY IInvStep, RecoveryStep
<1>3. IInv /\ RecoveryInv => AcceptedOnly
  BY DEF AcceptedOnly, RecoveryInv, Evaluation, Evaluating, Durable, Resumable, Pends
<1>4. QED
  BY <1>1, <1>2, <1>3, PTL DEF Spec
-----------------------------------------------------------------------------
(* Stale baselines. *)

(* Every observed stage whose baseline is of an older champion is marked. *)
Marked(s) ==
  \A t \in Stages:
    s.base[t] # None /\ s.base[t].commit # s.champion => s.status[t] = "revisit"

(* The baseline of t is a measurement of the champion. *)
Current(s, t) == s.base[t] # None /\ s.base[t].commit = s.champion

(* It takes that the prepared stage has a current baseline to see that the    *)
(* scheduler, which overwrites the status of the stage it leaves, loses none. *)
MarksInv ==
  /\ saved # None => Marked(saved)
  /\ pc # "down" => Marked(st)
  /\ pc \notin {"down"} \cup AtBaseline => Current(st, stage)

(* choose() leaves a stage marked for revisiting so, but the one it comes from. *)
LEMMA ChoiceKeepsMarks ==
  ASSUME NEW status \in [Stages -> Statuses], NEW prev \in Stages, NEW next \in Stages,
         NEW t \in Stages, t # prev, status[t] = "revisit"
  PROVE  StatusAfterChoice(status, prev, next)[t] = "revisit"
<1> DEFINE left == IF next # prev /\ status[prev] # "unseen"
                   THEN [status EXCEPT ![prev] = "dormant"] ELSE status
<1>1. left \in [Stages -> Statuses] /\ left[t] = "revisit"
  BY DEF Statuses
<1>2. StatusAfterChoice(status, prev, next) \in
        {left, [left EXCEPT ![next] = "active"], [left EXCEPT ![next] = "revisit"]}
  BY DEF StatusAfterChoice
<1>3. next = t => StatusAfterChoice(status, prev, next) = [left EXCEPT ![next] = "revisit"]
  BY <1>1 DEF StatusAfterChoice
<1> HIDE DEF left
<1>4. QED
  BY <1>1, <1>2, <1>3

(* Only the status of the stage it is on may change when a state is replaced. *)
LEMMA MarksFollow ==
  ASSUME NEW s, NEW r, Marked(s), Current(s, stage), stage \in Stages,
         r.base = s.base, r.champion = s.champion,
         \A t \in Stages: t # stage /\ s.status[t] = "revisit" => r.status[t] = "revisit"
  PROVE  Marked(r) /\ Current(r, stage)
  BY DEF Marked, Current

(* _schedule_next keeps the marks. *)
LEMMA SchedulingKeepsMarks ==
  ASSUME NEW s \in State, Marked(s), Current(s, stage), stage \in Stages,
         NEW r \in Scheduled(s)
  PROVE  Marked(r) /\ Current(r, stage)
<1>1. r.base = s.base /\ r.champion = s.champion
  BY ScheduledKeeps
<1>2. ASSUME NEW t \in Stages, t # stage, s.status[t] = "revisit"
      PROVE  r.status[t] = "revisit"
  <2>1. CASE pinned # None
    BY <1>2, <2>1 DEF Scheduled, State
  <2>2. CASE pinned = None
    <3>1. PICK u \in Eligible(s) \cup {stage}:
            r = [s EXCEPT !.next = u, !.status = StatusAfterChoice(s.status, stage, u)]
      BY <2>2 DEF Scheduled
    <3>2. u \in Stages /\ s.status \in [Stages -> Statuses]
      BY DEF Eligible, State
    <3>3. r.status = StatusAfterChoice(s.status, stage, u)
      BY <3>1 DEF State
    <3>4. QED
      BY <1>2, <3>2, <3>3, ChoiceKeepsMarks
  <2>3. QED
    BY <2>1, <2>2
<1>3. QED
  BY <1>1, <1>2, MarksFollow

(* Neither does the record of a failed iteration lose one. *)
LEMMA RejectionKeepsMarks ==
  ASSUME NEW s \in State, Marked(s), Current(s, stage), stage \in Stages,
         NEW i, NEW name, NEW outcome
  PROVE  LET r == Rejected(s, i, name, outcome) IN Marked(r) /\ Current(r, stage)
<1> DEFINE r == Rejected(s, i, name, outcome)
           history == Append(s.history,
                             [iteration |-> i, candidate |-> name, status |-> outcome])
<1> HIDE DEF history
<1>1. r = [s EXCEPT !.iteration = i, !.history = history,
                    !.status = [@ EXCEPT ![stage] = "implementation_blocked"]]
  BY DEF Rejected, history
<1>2. /\ r.base = s.base /\ r.champion = s.champion
      /\ \A t \in Stages: t # stage => r.status[t] = s.status[t]
  BY <1>1 DEF State
<1> HIDE DEF r
<1>3. QED
  BY <1>2, MarksFollow DEF r

(* A state with its marks is taken over, and perhaps saved. *)
LEMMA MarksHeld ==
  ASSUME MarksInv, NEW s, Marked(s), st' = s, saved' \in {saved, s},
         pc' \notin {"down"} \cup AtBaseline => Current(s, stage')
  PROVE  MarksInv'
<1>1. Marked(st)' /\ (saved' # None => Marked(saved)')
  BY DEF MarksInv, Marked
<1>2. pc' \notin {"down"} \cup AtBaseline => Current(st, stage)'
  BY DEF Current
<1>3. QED
  BY <1>1, <1>2 DEF MarksInv

(* The process disappears, perhaps after saving the state it holds. *)
LEMMA MarksOutlive ==
  ASSUME MarksInv, pc # "down", Gone, saved' \in {saved, st}
  PROVE  MarksInv'
<1>1. saved' # None => Marked(saved)'
  <2>1. CASE saved' = saved
    BY <2>1 DEF MarksInv, Marked
  <2>2. CASE saved' = st
    BY <2>2 DEF MarksInv, Marked
  <2>3. QED
    BY <2>1, <2>2
<1>2. pc' = "down"
  BY DEF Gone
<1>3. QED
  BY <1>1, <1>2 DEF MarksInv

(* A baseline is reused only when it is current, and measured when it is not. *)
LEMMA BaselineMarks ==
  ASSUME IInv, MarksInv, Launch \/ ReuseBaseline \/ EvaluateBaseline
  PROVE  MarksInv'
<1>1. CASE Launch
  <2>1. PICK r, s:
          /\ r \in State
          /\ r = IF saved = None THEN FreshState ELSE saved
          /\ st' = s /\ s = [r EXCEPT !.next = stage']
    BY <1>1, FreshStateType DEF Launch, IInv, TypeInv, TypeOK
  <2>2. s.base = r.base /\ s.status = r.status /\ s.champion = r.champion
    BY <2>1 DEF State
  <2>3. Marked(s)
    BY <2>1, <2>2 DEF MarksInv, Marked, FreshState
  <2>4. saved' = saved /\ pc' = "resume_baseline"
    BY <1>1 DEF Launch, durable
  <2>5. QED
    BY <2>1, <2>3, <2>4, MarksHeld DEF AtBaseline
<1>2. CASE ReuseBaseline
  <2>1. PICK s: s = st /\ st' = s /\ saved' = s
    BY <1>2 DEF ReuseBaseline
  <2>2. pc # "down" /\ stage' = stage /\ Current(s, stage)
    BY <1>2, <2>1 DEF ReuseBaseline, BaselineReusable, Current
  <2>3. QED
    BY <2>1, <2>2, MarksHeld DEF MarksInv
<1>3. CASE EvaluateBaseline
  <2>1. st \in State /\ stage \in Stages /\ pc # "down" /\ stage' = stage
    BY <1>3 DEF EvaluateBaseline, IInv, TypeInv, LocalsOK
  <2>2. PICK n \in 0..MaxNative, k \in 0..MaxCost:
          LET e == [commit |-> st.champion, stage |-> stage, native |-> n, cost |-> k]
              s == [st EXCEPT !.base[stage] = e, !.status[stage] = "active"]
          IN  st' = s /\ saved' = s
    BY <1>3 DEF EvaluateBaseline
  <2>3. PICK e, s: /\ e = [commit |-> st.champion, stage |-> stage, native |-> n, cost |-> k]
                   /\ s = [st EXCEPT !.base[stage] = e, !.status[stage] = "active"]
                   /\ st' = s /\ saved' = s
    BY <2>2
  <2>4. e.commit = st.champion /\ e # None
    <3>1. e \in Evidence
      BY <2>1, <2>3 DEF Evidence, State
    <3>2. QED
      BY <2>3, <3>1, NoneAssumption
  <2>5. /\ s.champion = st.champion /\ s.base[stage] = e
        /\ \A t \in Stages: t # stage => s.base[t] = st.base[t] /\ s.status[t] = st.status[t]
    BY <2>1, <2>3 DEF State
  <2>6. Marked(s) /\ Current(s, stage)
    BY <2>1, <2>4, <2>5 DEF MarksInv, Marked, Current
  <2>7. QED
    BY <2>1, <2>3, <2>6, MarksHeld
<1>4. QED
  BY <1>1, <1>2, <1>3

(* Between scores the process keeps baselines and marks. *)
LEMMA QuietMarks ==
  ASSUME IInv, MarksInv,
         \/ PendingKnown \/ NothingPending \/ RecoverPending \/ ResumePending \/ LoopContinues
         \/ SkipOccupiedLabel \/ Propose \/ ApplyFails \/ ApplyAndGuard \/ SmokePasses
         \/ SmokeFails \/ SmokeOutage \/ Repair \/ WriteGuards \/ CheckpointPending
         \/ StartRollout \/ RolloutCompletes \/ GiveUp \/ RepairFails \/ MarkInvalid
  PROVE  MarksInv'
<1>1. pc \notin {"down"} \cup AtBaseline /\ pc' # "down"
  BY DEF PendingKnown, NothingPending, RecoverPending, ResumePending, LoopContinues,
         SkipOccupiedLabel, Propose, LabelChosen, ApplyFails, ApplyAndGuard, SmokePasses,
         SmokeFails, SmokeOutage, AttemptFails, Repair, WriteGuards, CheckpointPending,
         StartRollout, RolloutCompletes, GiveUp, RepairFails, MarkInvalid, AtBaseline
<1>2. stage' = stage \/ pc' \in AtBaseline
  BY DEF PendingKnown, NothingPending, RecoverPending, ResumePending, LoopContinues,
         SkipOccupiedLabel, Propose, LabelChosen, ApplyFails, ApplyAndGuard, SmokePasses,
         SmokeFails, SmokeOutage, AttemptFails, Repair, WriteGuards, CheckpointPending,
         StartRollout, RolloutCompletes, GiveUp, RepairFails, MarkInvalid, AtBaseline
<1>3. st \in State
  BY <1>1 DEF IInv, TypeInv, LocalsOK
<1>4. PICK s: /\ st' = s /\ saved' \in {saved, s}
              /\ s.base = st.base /\ s.status = st.status /\ s.champion = st.champion
  <2>1. CASE RecoverPending \/ CheckpointPending
    <3>1. PICK n: st' = [st EXCEPT !.pending = PendingOf(n)] /\ saved' = st'
      BY <2>1 DEF RecoverPending, CheckpointPending
    <3>2. QED
      BY <1>3, <3>1 DEF State
  <2>2. CASE SkipOccupiedLabel
    BY <1>3, <2>2 DEF SkipOccupiedLabel, Skipped, State
  <2>3. CASE ~(RecoverPending \/ CheckpointPending \/ SkipOccupiedLabel)
    BY <2>3
    DEF PendingKnown, NothingPending, ResumePending, LoopContinues, Propose, ApplyFails,
        ApplyAndGuard, SmokePasses, SmokeFails, SmokeOutage, Repair, WriteGuards, StartRollout,
        RolloutCompletes, GiveUp, RepairFails, MarkInvalid, durable
  <2>4. QED
    BY <2>1, <2>2, <2>3
<1>5. Marked(s) /\ Current(s, stage)
  BY <1>1, <1>4 DEF MarksInv, Marked, Current
<1>6. QED
  BY <1>2, <1>4, <1>5, MarksHeld

(* A scheduler's choice follows each iteration, whatever its outcome. *)
LEMMA ScheduleMarks ==
  ASSUME IInv, MarksInv,
         InvalidatePending \/ ProposalFails \/ RecordFailure \/ SaveSelection
  PROVE  MarksInv'
<1>1. /\ pc \in {"invalid", "label", "abandoned", "save"} /\ pc' = "loop" /\ stage' = stage
  BY DEF InvalidatePending, ProposalFails, LabelChosen, RecordFailure, SaveSelection
<1>2. /\ st \in State /\ stage \in Stages /\ Marked(st) /\ Current(st, stage)
      /\ pc \in {"abandoned", "save"} => cand \in Names
  BY <1>1 DEF IInv, TypeInv, LocalsOK, HoldsCandidate, MarksInv, AtBaseline
<1>3. PICK r, s:
        /\ r \in State
        /\ Marked(r) /\ Current(r, stage)
        /\ s \in Scheduled(r) /\ st' = s /\ saved' = s
  <2>1. CASE SaveSelection
    <3>1. PICK r, s: /\ r = [st EXCEPT !.pending = None, !.iteration = cand[1]]
                     /\ s \in Scheduled(r) /\ st' = s /\ saved' = s
      BY <2>1 DEF SaveSelection
    <3>2. cand[1] \in 0..MaxIteration
      BY <1>2, <2>1, NameParts DEF SaveSelection
    <3>3. r \in State /\ r.base = st.base /\ r.status = st.status /\ r.champion = st.champion
      BY <1>2, <3>1, <3>2 DEF State
    <3>4. QED
      BY <1>2, <3>1, <3>3 DEF Marked, Current
  <2>2. CASE InvalidatePending
    <3> DEFINE n == st.pending.candidate
               rejected == Rejected(st, n[1], n, "infrastructure_invalidated")
    <3>1. n \in Names
      BY <2>2 DEF InvalidatePending, IInv, TypeInv, LocalsOK, Pending
    <3>2. rejected \in State
      BY <1>2, <3>1, NameParts, RejectedType DEF Outcomes
    <3>3. Marked(rejected) /\ Current(rejected, stage)
      BY <1>2, RejectionKeepsMarks
    <3>4. PICK r, s: /\ r = [rejected EXCEPT !.pending = None]
                     /\ s \in Scheduled(r) /\ st' = s /\ saved' = s
      BY <2>2 DEF InvalidatePending
    <3> HIDE DEF n, rejected
    <3>5. /\ r \in State /\ r.base = rejected.base /\ r.status = rejected.status
          /\ r.champion = rejected.champion
      BY <3>2, <3>4 DEF State
    <3>6. QED
      BY <3>3, <3>4, <3>5 DEF Marked, Current
  <2>3. CASE ProposalFails \/ RecordFailure
    <3>1. PICK i \in 1..MaxIteration, outcome \in Outcomes:
            \E s \in Scheduled(Rejected(st, i, None, outcome)): st' = s /\ saved' = s
      <4>1. CASE ProposalFails
        <5>1. Label \in 1..MaxIteration
          BY <1>2, <4>1, BudgetAssumption DEF ProposalFails, LabelChosen, Label, State
        <5>2. QED
          BY <4>1, <5>1 DEF ProposalFails, Outcomes
      <4>2. CASE RecordFailure
        <5>1. cand[1] \in 1..MaxIteration
          BY <1>2, <4>2, NameParts DEF RecordFailure
        <5>2. QED
          BY <4>2, <5>1 DEF RecordFailure, Outcomes
      <4>3. QED
        BY <2>3, <4>1, <4>2
    <3>2. PICK r, s: /\ r = Rejected(st, i, None, outcome)
                     /\ s \in Scheduled(r) /\ st' = s /\ saved' = s
      BY <3>1
    <3>3. r \in State
      BY <1>2, <3>2, RejectedType
    <3>4. Marked(r) /\ Current(r, stage)
      BY <1>2, <3>2, RejectionKeepsMarks
    <3>5. QED
      BY <3>2, <3>3, <3>4
  <2>4. QED
    BY <2>1, <2>2, <2>3
<1>4. Marked(s) /\ Current(s, stage)
  BY <1>2, <1>3, SchedulingKeepsMarks
<1>5. QED
  BY <1>1, <1>3, <1>4, MarksHeld

(* A score touches only its stage; a promotion marks every other one. *)
LEMMA ScoreMarks ==
  ASSUME IInv, MarksInv, ScoreCandidate \/ Promote
  PROVE  MarksInv'
<1>1. /\ pc \in {"finish", "promote"} /\ saved' = saved /\ stage' = stage
  BY DEF ScoreCandidate, Promote
<1>2. /\ st \in State /\ stage \in Stages /\ Marked(st) /\ Current(st, stage)
      /\ cand \in Names
  BY <1>1 DEF IInv, TypeInv, LocalsOK, HoldsCandidate, MarksInv, AtBaseline
<1>3. CASE ScoreCandidate
  <2> DEFINE record == [iteration |-> cand[1], candidate |-> cand, status |-> Outcome]
             status == [st.status EXCEPT ![stage] =
                          IF result.native > champ.native THEN "productive" ELSE "active"]
  <2>1. PICK s: /\ s = [st EXCEPT !.runtimeCandidates = @ + 1, !.history = Append(@, record),
                                  !.status = status]
                /\ st' = s
    BY <1>3 DEF ScoreCandidate
  <2>2. \A t \in Stages: t # stage => status[t] = st.status[t]
    BY <1>2 DEF State
  <2> HIDE DEF record, status
  <2>3. s.base = st.base /\ s.champion = st.champion /\ s.status = status
    BY <1>2, <2>1 DEF State
  <2>4. Marked(s) /\ Current(s, stage)
    BY <1>2, <2>2, <2>3, MarksFollow
  <2>5. QED
    BY <1>1, <2>1, <2>4, MarksHeld
<1>4. CASE Promote
  <2> DEFINE a == Adopted
             status == Revalidated(Adopted, cand)
  <2>1. /\ a.champion = cand /\ a.base = [st.base EXCEPT ![stage] = result]
        /\ DOMAIN a = DOMAIN st
    BY <1>2 DEF Adopted, State
  <2>2. PICK s: s = [a EXCEPT !.status = status] /\ st' = s
    BY <1>4 DEF Promote
  <2>3. \A t \in Stages: t # stage /\ a.base[t] # None /\ a.base[t].commit # cand =>
                           status[t] = "revisit"
    BY DEF Revalidated
  <2> HIDE DEF a, status
  <2>4. s.base = a.base /\ s.champion = cand /\ s.status = status
    BY <1>2, <2>1, <2>2 DEF State
  <2>5. result.commit = cand /\ result # None
    <3>1. result \in rollouts /\ result.commit = cand /\ rollouts \subseteq Evidence
      BY <1>4 DEF Promote, IInv, EvidenceInv, SidesMeasured, HoldsResult, TypeInv, TypeOK
    <3>2. QED
      BY <3>1, NoneAssumption
  <2>6. s.base[stage] = result
    BY <1>2, <2>1, <2>4 DEF State
  <2>7. Marked(s) /\ Current(s, stage)
    BY <2>3, <2>4, <2>5, <2>6 DEF Marked, Current
  <2>8. QED
    BY <1>1, <2>2, <2>7, MarksHeld
<1>5. QED
  BY <1>3, <1>4

(* After a promotion every stage with an older baseline stays marked for      *)
(* revisiting, through choices of the scheduler, failures and restarts, until *)
(* it is measured again.                                                      *)
THEOREM StaleStagesStayMarked == Spec => []StaleBaselinesMarked
<1>1. Init => IInv /\ MarksInv
  <2>1. SUFFICES ASSUME Init PROVE MarksInv
    BY TypeInit, EvidenceInit DEF IInv
  <2>2. CASE InitFresh
    BY <2>1, <2>2 DEF Init, InitFresh, MarksInv
  <2>3. CASE InitLegacy
    <3> DEFINE e == [commit |-> Seed, stage |-> StartStage, native |-> 0, cost |-> 0]
    <3>1. /\ saved.champion = Seed
          /\ saved.base = [FreshState.base EXCEPT ![StartStage] = e]
      BY <2>3 DEF InitLegacy, FreshState
    <3>2. FreshState.base = [t \in Stages |-> None]
      BY DEF FreshState
    <3>3. \A t \in Stages: saved.base[t] # None => saved.base[t].commit = Seed
      BY <3>1, <3>2
    <3>4. QED
      BY <2>1, <3>1, <3>3 DEF Init, MarksInv, Marked
  <2>4. QED
    BY <2>1, <2>2, <2>3 DEF Init
<1>2. IInv /\ MarksInv /\ [Next]_vars => IInv' /\ MarksInv'
  <2>1. SUFFICES ASSUME IInv, MarksInv, [Next]_vars PROVE MarksInv'
    BY IInvStep
  <2>2. CASE \/ BaselineFails \/ PendingStageMismatch \/ LoopEnds \/ OutOfLabels
             \/ ProposalBlocked \/ RepairBlocked \/ RefuseReusedTag \/ ProbeFails
             \/ RolloutFails \/ Crash
    <3>1. pc # "down" /\ Gone /\ saved' \in {saved, st}
      BY <2>2
      DEF BaselineFails, PendingStageMismatch, LoopEnds, OutOfLabels, ProposalBlocked, LabelChosen,
          RepairBlocked, RefuseReusedTag, ProbeFails, RolloutFails, Crash, durable
    <3>2. QED
      BY <2>1, <3>1, MarksOutlive
  <2>3. CASE Launch \/ Prepare
    BY <2>1, <2>3, BaselineMarks DEF Prepare
  <2>4. CASE \/ PendingKnown \/ NothingPending \/ RecoverPending \/ ResumePending \/ LoopContinues
             \/ SkipOccupiedLabel \/ Propose \/ ApplyFails \/ ApplyAndGuard \/ SmokePasses
             \/ SmokeFails \/ SmokeOutage \/ Repair \/ WriteGuards \/ CheckpointPending
             \/ StartRollout \/ RolloutCompletes \/ GiveUp \/ RepairFails \/ MarkInvalid
    BY <2>1, <2>4, QuietMarks
  <2>5. CASE InvalidatePending \/ ProposalFails \/ RecordFailure \/ SaveSelection
    BY <2>1, <2>5, ScheduleMarks
  <2>6. CASE ScoreCandidate \/ Promote
    BY <2>1, <2>6, ScoreMarks
  <2>7. CASE UNCHANGED vars
    <3>1. UNCHANGED <<saved, pc, st, stage>>
      BY <2>7 DEF vars, durable, volatile
    <3>2. QED
      BY <2>1, <3>1 DEF MarksInv, Marked, Current
  <2>8. QED
    BY <2>1, <2>2, <2>3, <2>4, <2>5, <2>6, <2>7
    DEF Next, Step, Prepare, Resume, Iterate, Materialize, Evaluate, Disturb
<1>3. MarksInv => StaleBaselinesMarked
  BY DEF MarksInv, Marked, StaleBaselinesMarked
<1>4. QED
  BY <1>1, <1>2, <1>3, PTL DEF Spec
=============================================================================
