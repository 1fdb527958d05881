-------------------------- MODULE PairedEvolution --------------------------
(***************************************************************************)
(* What the evolution loop promises, without its files, worktrees, model   *)
(* calls and restarts: docs/EVOLUTION.md step 7, as the code keeps it.     *)
(* The evaluator produces evidence; the champion is replaced only by a     *)
(* commit whose evidence on some stage shows strictly more native          *)
(* successes than evidence of the replaced champion on that same stage.    *)
(***************************************************************************)
EXTENDS Integers

CONSTANTS
  Commits,    \* everything Git can name
  Stages,     \* the cohorts of the curriculum
  Natives,    \* native success counts a rollout can report
  Costs,      \* execution costs a rollout can report
  Seed        \* the commit the experiment starts from

VARIABLES
  champion,   \* the checkpointed parent of every later candidate
  evidence    \* the complete rollouts measured so far

vars == <<champion, evidence>>

Evidence == [commit: Commits, stage: Stages, native: Natives, cost: Costs]

TypeOK ==
  /\ champion \in Commits
  /\ evidence \subseteq Evidence

(* old and new are a paired comparison that new wins. *)
StrictlyBetter(old, new) ==
  /\ old.stage = new.stage
  /\ new.native > old.native

Init ==
  /\ champion = Seed
  /\ evidence \subseteq Evidence

Measure(e) ==
  /\ evidence' = evidence \cup {e}
  /\ UNCHANGED champion

Replace(old, new) ==
  /\ old.commit = champion
  /\ StrictlyBetter(old, new)
  /\ champion' = new.commit
  /\ UNCHANGED evidence

Next ==
  \/ \E e \in Evidence: Measure(e)
  \/ \E old, new \in evidence: Replace(old, new)

Spec == Init /\ [][Next]_vars
=============================================================================
