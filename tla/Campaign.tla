------------------------------ MODULE Campaign ------------------------------
(***************************************************************************)
(* The controlled comparison from development to its report (run_all.py):  *)
(* the RATS artifact is developed, frozen and sealed, then the phases run  *)
(* in order, each method measured and audited, with a history from which   *)
(* an interrupted campaign resumes.                                        *)
(***************************************************************************)
EXTENDS Development, MethodRun

VARIABLES
    all,       \* run_all's phase; 0 when it does not run
    child,     \* it waits for the runner of its main phase
    history,   \* orchestration.json: the latest row of each phase
    audit,     \* method_audit.json passes
    flawed     \* methods with complete episodes that no audit passes

cvars == <<all, child, history, audit, flawed>>
vars  == <<dvars, mvars, faults, cvars>>

\* The phases: preflight, then a measurement and an audit (with the analysis
\* it reads) per method, then the reports.
MethodOf == <<"none", "capx", "capx", "rats", "rats", "none">>
Preflight == 1
MainPhases == {2, 4}
AuditPhases == {3, 5}
ReportPhase == 6
NoRow == [ok |-> FALSE, source |-> 0]

Init ==
    /\ DevInit /\ MethodInit /\ faults = 0
    /\ all = 0 /\ child = FALSE
    /\ history = [k \in 1..ReportPhase |-> NoRow] /\ audit = [m \in Methods |-> FALSE]
    /\ flawed = {}

-----------------------------------------------------------------------------

\* mutant: a phase that ran is not run again
PhaseRan(k) == k # Preflight /\ history[k].source = source

\* The present command last ended with 0 under the present sources.
PhaseCompleted(k) == k # Preflight /\ history[k] = [ok |-> TRUE, source |-> source]

\* A method fully measured and audited is reused whatever the sources are now.
Immutable(m) ==
    /\ lib[m] # 0 /\ m \notin torn /\ "COMPLETE" \in markers[m]
    /\ Complete(m) = Jobs /\ audit[m]

Skipped(k) == PhaseCompleted(k) \/ (k \in MainPhases /\ Immutable(MethodOf[k]))

\* The history is written after the phase; a nonzero phase ends the launch.
Record(k, ok) ==
    /\ history' = [history EXCEPT ![k] = [ok |-> ok, source |-> source]]
    /\ all' = IF ok /\ k < ReportPhase THEN k + 1 ELSE 0

\* run_all refuses to start on an artifact whose seal does not verify.
Begin ==
    /\ all = 0 /\ sealed /\ ~mutated
    /\ all' = Preflight
    /\ UNCHANGED <<dvars, mvars, faults, child, history, audit, flawed>>

Skip ==
    /\ all # 0 /\ ~child /\ Skipped(all)
    /\ history' = [history EXCEPT ![all] = [ok |-> TRUE, source |-> source]]
    /\ all' = IF all < ReportPhase THEN all + 1 ELSE 0
    /\ UNCHANGED <<dvars, mvars, faults, child, audit, flawed>>

\* The preflight writes down whether the comparison ports answer, and passes
\* either way.
Attest ==
    /\ all = Preflight /\ Record(all, TRUE)
    /\ UNCHANGED <<dvars, mvars, faults, child, audit, flawed>>

Measure ==
    /\ all \in MainPhases /\ ~child /\ ~Skipped(all)
    /\ StartRunner(MethodOf[all]) /\ child' = TRUE
    /\ UNCHANGED <<dvars, all, history, audit, flawed>>

\* The lock is held, the manifest differs or is torn, or the seal fails.
Refused ==
    /\ all \in MainPhases /\ ~child /\ ~Skipped(all)
    /\ runner # "down" \/ ~MayStart(MethodOf[all])
    /\ Record(all, FALSE)
    /\ UNCHANGED <<dvars, mvars, faults, child, audit, flawed>>

Occupied ==
    /\ runner = "ports" /\ services /\ runner' = "down"
    /\ IF child THEN Record(all, FALSE) /\ child' = FALSE ELSE UNCHANGED <<all, history, child>>
    /\ UNCHANGED <<dvars, diskvars, method, services, work, orphanvars, result, seen, stop, source,
                   artifactvars, faults, audit, flawed>>

Reported ==
    /\ Report
    /\ IF child THEN Record(all, Verdict = "COMPLETE") /\ child' = FALSE
       ELSE UNCHANGED <<all, history, child>>
    /\ UNCHANGED <<dvars, audit, flawed>>

\* The audit parses the episodes: all of them, one reset each, and nothing
\* among them that it has another reason to fail.
Sound(m) == Complete(m) = Jobs /\ (\A j \in Jobs : dir[m][j].resets = 1) /\ m \notin flawed

Audit ==
    /\ all \in AuditPhases /\ ~Skipped(all)
    /\ audit' = [audit EXCEPT ![MethodOf[all]] = Sound(MethodOf[all])]
    /\ Record(all, audit'[MethodOf[all]])
    /\ UNCHANGED <<dvars, mvars, faults, child, flawed>>

\* The reports are written, or one of their commands fails.
Analyse ==
    /\ all = ReportPhase /\ ~Skipped(all)
    /\ \/ Record(all, TRUE) /\ UNCHANGED faults
       \/ Record(all, FALSE) /\ FaultStrikes
    /\ UNCHANGED <<dvars, mvars, child, audit, flawed>>

\* run_all is killed: its runner goes on alone; killed while it writes its
\* state, it leaves a file that reads as no history, and killed in an audit,
\* an audit that does not read.
AuditLost ==
    IF all \in AuditPhases /\ ~Skipped(all)
    THEN audit' = [audit EXCEPT ![MethodOf[all]] = FALSE] ELSE UNCHANGED audit

KilledAll ==
    /\ all # 0 /\ FaultStrikes
    /\ all' = 0 /\ child' = FALSE /\ AuditLost
    /\ \/ UNCHANGED history
       \/ history' = [k \in 1..ReportPhase |-> NoRow]
    /\ UNCHANGED <<dvars, mvars, flawed>>

\* A runner killed while it writes its manifest ends its phase with an error.
KilledStarting ==
    /\ all \in MainPhases /\ ~child /\ ~Skipped(all)
    /\ KilledWriting(MethodOf[all]) /\ Record(all, FALSE)
    /\ UNCHANGED <<dvars, child, audit, flawed>>

\* The gate lets an episode through that the audit will not pass: a model
\* that was not registered, an instruction or an initial state that differs,
\* a grid without one success.
Flaw(m) ==
    /\ Complete(m) # {} /\ m \notin flawed /\ ~audit[m] /\ FaultStrikes
    /\ flawed' = flawed \cup {m}
    /\ UNCHANGED <<dvars, mvars, all, child, history, audit>>

\* A runner that ends without a verdict ends its phase with an error.
Broken ==
    /\ Interrupted \/ Killed \/ KilledArchiving
    /\ IF child THEN Record(all, FALSE) /\ child' = FALSE ELSE UNCHANGED <<all, history, child>>
    /\ UNCHANGED <<dvars, audit, flawed>>

\* run_all's own steps, the steps of a runner and of its children, and the
\* operator who frees the ports.
PhaseStep  == Begin \/ Skip \/ Attest \/ Measure \/ Refused \/ Audit \/ Analyse
Elsewhere  == UNCHANGED <<dvars, cvars>>
RunnerStep ==
    \/ Occupied \/ Reported
    \/ Archive /\ Elsewhere
    \/ StartServices /\ Elsewhere
    \/ \E j \in Jobs : Elsewhere /\ (Take(j) \/ Finishes(j) \/ TimesOut(j) \/ Stopped(j) \/ See(j))
    \/ \E j \in Jobs : Elsewhere /\ ChildRuns(j)
OrphanStep == Elsewhere /\ \E o \in orphans : OrphanRuns(o)
PortsFreed == FreePorts /\ Elsewhere

Fault ==
    \/ KilledAll \/ Broken \/ KilledStarting
    \/ \E m \in Methods : Flaw(m)
    \/ sealed /\ Mutate /\ Elsewhere
    \/ \E j \in Jobs : Elsewhere /\ (Quota(j) \/ QuotaTimesOut(j) \/ ChildFails(j))

Operator ==
    \/ sealed /\ all = 0 /\ Edit /\ Elsewhere
    \/ all = 0 /\ Elsewhere /\ \E m \in Methods : Register(m)

Developing == DevStep /\ UNCHANGED <<mvars, cvars, faults>>

Next == Developing \/ PhaseStep \/ RunnerStep \/ OrphanStep \/ PortsFreed \/ Fault \/ Operator

Spec == Init /\ [][Next]_vars

\* The operator launches an unfinished campaign again and frees the ports
\* sooner or later if launch after launch finds them taken.
FairSpec == Spec /\ WF_vars(PhaseStep) /\ WF_vars(RunnerStep) /\ SF_vars(PortsFreed)

-----------------------------------------------------------------------------

(* The reports are written only once every registered episode of every     *)
(* method is complete, however the history was lost, reused or cut short.  *)
ReportMeasured == history[ReportPhase].ok => \A m \in Methods : Complete(m) = Jobs

(* What the program offers no way round: the seal broken, a torn run        *)
(* manifest, data of a complete episode that the audit does not pass (an    *)
(* orphan's reset among it), and, for a method that was not measured and    *)
(* audited before the edit, an edit of the registered sources whose         *)
(* migration nobody registered.                                            *)
Unregistered(m) == ~Immutable(m) /\ lib[m] \notin {0, source} /\ Migration(m) \notin registered
Polluted(m)     == \E j \in Complete(m) : dir[m][j].resets # 1

Blocked ==
    \/ mutated \/ torn # {} \/ flawed # {}
    \/ \E m \in Methods : Polluted(m) \/ Unregistered(m)

(* However it was interrupted, a sealed campaign reaches its report, unless *)
(* it comes to stay blocked for one of the reasons above.                   *)
CampaignEnds == sealed ~> (history[ReportPhase].ok \/ []Blocked)
=============================================================================
