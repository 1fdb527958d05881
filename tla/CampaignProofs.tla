--------------------------- MODULE CampaignProofs ---------------------------
(***************************************************************************)
(* What holds of a controlled comparison for any number of episodes,       *)
(* workers, rounds, faults and edits: a complete episode holds one attempt *)
(* of its runner under registered sources, the reports are written about   *)
(* complete methods, and the artifact that is evaluated is one whole state *)
(* of the development, or what a broken-off copy of one left.              *)
(***************************************************************************)
EXTENDS Campaign, FiniteSetTheorems, WellFoundedInduction, TLAPS

Attempt == [tries : SUBSET Nat, resets : Nat, ended : BOOLEAN, complete : BOOLEAN,
            quota : BOOLEAN, source : Nat]
Children == {"idle", "queued", "started", "reset", "ended", "gone"}
Starts   == [method : Methods, job : Jobs, start : Nat]

\* What the argument needs of the types.
Shape ==
    /\ dir \in [Methods -> [Jobs -> Attempt]]
    /\ launched \in [Methods -> [Jobs -> Nat]]
    /\ lib \in [Methods -> Nat] /\ source \in Nat \ {0}
    /\ method \in Methods
    /\ work \in [Jobs -> Children]
    /\ runner \in {"down", "archive", "ports", "run"}
    /\ outlived \subseteq Starts
    /\ orphans \subseteq [method : Methods, job : Jobs, start : Nat, at : {"started", "reset"}]

\* A runner works under a manifest, and nothing is complete before there is one.
Bound ==
    /\ runner # "down" => lib[method] # 0
    /\ \A m \in Methods, j \in Jobs : lib[m] = 0 => ~dir[m][j].complete

\* The start of a child, as those that outlived their runner are remembered.
Start(m, j, n) == [method |-> m, job |-> j, start |-> n]

\* Every orphan is remembered, and no start to come is taken for one.
Known ==
    /\ \A o \in orphans : Start(o.method, o.job, o.start) \in outlived
    /\ \A s \in outlived : s.start <= launched[s.method][s.job]

\* A running episode has a runner and is not complete.
Alone == \A j \in Running : runner = "run" /\ ~dir[method][j].complete

\* What is on disk, but for the writes of orphans, for the episodes of a runner
\* that has archived what it found.
Fresh ==
    /\ runner = "ports" => \A j \in Jobs : ~dir[method][j].complete => Attended(method, j) = {}
    /\ runner = "run" =>
         \A j \in Jobs : work[j] = "queued" /\ ~dir[method][j].complete => Attended(method, j) = {}
    /\ \A j \in Running : /\ Attended(method, j) = {launched[method][j]}
                          /\ dir[method][j].source = lib[method]

Single == \A m \in Methods, j \in Jobs :
              dir[m][j].complete => \E n \in Nat : Attended(m, j) = {n}

Inv == Shape /\ Bound /\ Known /\ Alone /\ Fresh /\ Single /\ MeasuredAsRegistered

\* What is complete stays complete.
Kept == \A m \in Methods, j \in Jobs : dir[m][j].complete => dir'[m][j].complete

-----------------------------------------------------------------------------
\* ---- the directories ----

LEMMA OneDirectory ==
  ASSUME Shape, NEW m \in Methods, NEW j \in Jobs, NEW d \in Attempt,
         dir' = [dir EXCEPT ![m][j] = d]
  PROVE  /\ dir' \in [Methods -> [Jobs -> Attempt]] /\ dir'[m][j] = d
         /\ \A n \in Methods, i \in Jobs : n # m \/ i # j => dir'[n][i] = dir[n][i]
  BY DEF Shape

LEMMA EmptyTyped == Empty \in Attempt /\ ~Empty.complete /\ Empty.tries = {}
  BY DEF Empty, Attempt

\* The attended attempts depend on the tries and on the starts outlived.
LEMMA AttendedSame ==
  ASSUME NEW m, NEW j, dir'[m][j].tries = dir[m][j].tries, outlived' = outlived
  PROVE  Attended(m, j)' = Attended(m, j)
  BY DEF Attended

\* Moving incomplete directories away.
LEMMA Clearing ==
  ASSUME Shape, NEW m \in Methods, NEW moved \in SUBSET Incomplete(m),
         dir' = [dir EXCEPT ![m] = Cleared(m, moved)]
  PROVE  /\ dir' \in [Methods -> [Jobs -> Attempt]]
         /\ \A j \in moved : dir'[m][j] = Empty
         /\ \A n \in Methods, j \in Jobs : n # m \/ j \notin moved => dir'[n][j] = dir[n][j]
         /\ \A n \in Methods, j \in Jobs : dir'[n][j].complete <=> dir[n][j].complete
<1>1. /\ \A j \in moved : j \in Jobs /\ ~dir[m][j].complete
  BY DEF Incomplete, Complete
<1>2. Cleared(m, moved) \in [Jobs -> Attempt]
  BY EmptyTyped DEF Cleared, Shape
<1>3. /\ dir' \in [Methods -> [Jobs -> Attempt]]
      /\ \A j \in moved : dir'[m][j] = Empty
      /\ \A n \in Methods, j \in Jobs : n # m \/ j \notin moved => dir'[n][j] = dir[n][j]
  BY <1>1, <1>2 DEF Cleared, Shape
<1> QED
  BY <1>1, <1>3, EmptyTyped

\* A step that changes no directory, and whose runner stays or ends, changes
\* nothing of what a complete episode is.
LEMMA Unwritten ==
  ASSUME Inv, UNCHANGED <<dir, lib>>, registered \subseteq registered',
         \A m \in Methods, j \in Jobs : dir[m][j].complete => Attended(m, j)' = Attended(m, j)
  PROVE  Single' /\ MeasuredAsRegistered' /\ Kept
<1>1. Single'
  BY DEF Inv, Single
<1>2. MeasuredAsRegistered'
  BY DEF Inv, MeasuredAsRegistered, Complete
<1> QED
  BY <1>1, <1>2 DEF Kept

-----------------------------------------------------------------------------
\* ---- a runner before its first episode ----

LEMMA Starting == ASSUME Inv, NEW m \in Methods, StartRunner(m) PROVE Inv' /\ Kept
<1>1. /\ dir' = dir /\ work' = work /\ UNCHANGED orphanvars
      /\ launched' = launched /\ source' = source /\ registered' = registered
      /\ runner = "down" /\ runner' = "archive" /\ method' = m /\ MayResume(m)
      /\ lib' \in [Methods -> Nat] /\ lib'[m] = source
      /\ \A n \in Methods : n # m => lib'[n] = lib[n]
  BY DEF StartRunner, MayStart, Inv, Shape
<1>2. Shape' /\ Known'
  BY <1>1 DEF Inv, Shape, Known, orphanvars
<1>3. Bound'
  BY <1>1 DEF Inv, Shape, Bound
<1>4. Running' = {} /\ Running = {}
  BY <1>1 DEF Inv, Alone, Running
<1>5. Alone' /\ Fresh'
  BY <1>1, <1>4 DEF Alone, Fresh
<1>6. Single'
  BY <1>1 DEF Inv, Single, Attended, orphanvars
<1>7. MeasuredAsRegistered'
  <2> SUFFICES ASSUME NEW n \in Methods, NEW j \in Jobs, dir[n][j].complete
               PROVE  \/ dir[n][j].source = lib'[n]
                      \/ \E r \in registered : r.method = n /\ r.from = dir[n][j].source /\ j \in r.done
    BY <1>1 DEF MeasuredAsRegistered, Complete
  <2>1. \/ dir[n][j].source = lib[n]
        \/ \E r \in registered : r.method = n /\ r.from = dir[n][j].source /\ j \in r.done
    BY DEF Inv, MeasuredAsRegistered, Complete
  <2>2. ASSUME n = m, dir[n][j].source = lib[n], lib[m] # source
        PROVE  \E r \in registered : r.method = n /\ r.from = dir[n][j].source /\ j \in r.done
    <3>1. Migration(m) \in registered
      BY <1>1, <2>2 DEF MayResume, Inv, Bound
    <3>2. /\ Migration(m).method = n /\ Migration(m).from = dir[n][j].source
          /\ j \in Migration(m).done
      BY <2>2 DEF Migration, Complete
    <3> QED
      BY <3>1, <3>2
  <2> QED
    BY <1>1, <2>1, <2>2
<1> QED
  BY <1>1, <1>2, <1>3, <1>5, <1>6, <1>7 DEF Inv, Kept

\* Archiving touches no complete episode.
LEMMA ArchiveKeeps ==
  ASSUME Inv, NEW moved \in SUBSET Incomplete(method),
         dir' = [dir EXCEPT ![method] = Cleared(method, moved)],
         runner' \in {"down", "ports"}, runner' = "ports" => moved = Incomplete(method),
         runner = "archive",
         UNCHANGED <<launched, lib, registered, method, orphanvars, work, source>>
  PROVE  Inv' /\ Kept
<1>1. /\ dir' \in [Methods -> [Jobs -> Attempt]]
      /\ \A j \in moved : dir'[method][j] = Empty
      /\ \A n \in Methods, j \in Jobs : n # method \/ j \notin moved => dir'[n][j] = dir[n][j]
      /\ \A n \in Methods, j \in Jobs : dir'[n][j].complete <=> dir[n][j].complete
  BY Clearing DEF Inv, Shape
<1>2. \A n \in Methods, j \in Jobs : dir[n][j].complete => dir'[n][j] = dir[n][j]
  BY <1>1, EmptyTyped
<1>3. Shape' /\ Bound' /\ Known'
  BY <1>1 DEF Inv, Shape, Bound, Known, orphanvars
<1>4. Running = {} /\ Running' = {}
  BY DEF Inv, Alone, Running
<1>5. Alone'
  BY <1>4 DEF Alone
<1>6. Fresh'
  <2>1. ASSUME runner' = "ports", NEW j \in Jobs, ~dir'[method][j].complete
        PROVE  Attended(method, j)' = {}
    <3>1. dir'[method][j].tries = {}
      BY <1>1, <2>1, EmptyTyped DEF Incomplete, Complete
    <3> QED
      BY <3>1 DEF Attended
  <2> QED
    BY <1>4, <2>1 DEF Fresh
<1>7. Single'
  <2> SUFFICES ASSUME NEW n \in Methods, NEW j \in Jobs, dir'[n][j].complete
               PROVE  \E k \in Nat : Attended(n, j)' = {k}
    BY DEF Single
  <2>1. dir[n][j].complete /\ dir'[n][j] = dir[n][j]
    BY <1>1, <1>2
  <2>2. Attended(n, j)' = Attended(n, j)
    BY <2>1, AttendedSame DEF orphanvars
  <2> QED
    BY <2>1, <2>2 DEF Inv, Single
<1>8. MeasuredAsRegistered'
  BY <1>1, <1>2 DEF Inv, MeasuredAsRegistered, Complete
<1> QED
  BY <1>1, <1>3, <1>5, <1>6, <1>7, <1>8 DEF Inv, Kept

LEMMA Archiving == ASSUME Inv, Archive \/ KilledArchiving PROVE Inv' /\ Kept
<1>1. CASE Archive
  BY <1>1, ArchiveKeeps DEF Archive, Archived
<1>2. CASE KilledArchiving
  BY <1>2, ArchiveKeeps DEF KilledArchiving
<1> QED
  BY <1>1, <1>2

\* Every job is queued behind free ports.
LEMMA Serving == ASSUME Inv, StartServices PROVE Inv' /\ Kept
<1>1. /\ dir' = dir /\ launched' = launched /\ lib' = lib /\ registered' = registered
      /\ method' = method /\ source' = source /\ runner' = "run" /\ runner = "ports"
      /\ UNCHANGED orphanvars /\ work' = [j \in Jobs |-> "queued"]
  BY DEF StartServices, diskvars
<1>2. Running' = {}
  BY <1>1 DEF Running
<1>3. Shape' /\ Known'
  BY <1>1 DEF Inv, Shape, Children, Known, orphanvars
<1>4. Bound' /\ Alone'
  BY <1>1, <1>2 DEF Inv, Bound, Alone
<1>5. \A m, j : Attended(m, j)' = Attended(m, j)
  BY <1>1 DEF Attended, orphanvars
<1>6. Fresh'
  BY <1>1, <1>2, <1>5 DEF Inv, Fresh
<1> QED
  BY <1>1, <1>3, <1>4, <1>5, <1>6, Unwritten DEF Inv

-----------------------------------------------------------------------------
\* ---- steps that leave the directories alone ----

LEMMA Same ==
  ASSUME Inv, UNCHANGED <<dir, launched, lib, method, orphanvars>>, registered \subseteq registered',
         runner' \in {runner, "down"}, source' \in Nat \ {0},
         work' \in [Jobs -> Children], Running' \subseteq Running,
         Running' = {} \/ runner' = runner,
         \A j \in Jobs : work'[j] = "queued" /\ runner' = "run" => work[j] = "queued"
  PROVE  Inv' /\ Kept
<1>1. Shape' /\ Bound' /\ Known'
  BY DEF Inv, Shape, Bound, Known, orphanvars
<1>2. Alone'
  BY DEF Inv, Alone
<1>3. \A m, j : Attended(m, j)' = Attended(m, j)
  BY DEF Attended, orphanvars
<1>4. Fresh'
  BY <1>3 DEF Inv, Fresh
<1> QED
  BY <1>1, <1>2, <1>3, <1>4, Unwritten DEF Inv

\* The children of a killed runner are remembered; none of their episodes is
\* complete.
LEMMA Killing == ASSUME Inv, Killed PROVE Inv' /\ Kept
<1> DEFINE new == {Start(method, j, launched[method][j]) : j \in Running}
<1>1. /\ UNCHANGED <<dir, launched, lib, registered, method, source>>
      /\ runner' = "down" /\ work' = Idle /\ outlived' = outlived \cup new
      /\ orphans' = orphans \cup Orphaned
  BY DEF Killed, diskvars, Start
<1>2. /\ work' \in [Jobs -> Children] /\ Running' = {}
  BY <1>1 DEF Running, Children, Idle
<1>3. new \subseteq Starts /\ \A s \in new : s.start <= launched[s.method][s.job]
  <2> SUFFICES ASSUME NEW j \in Running
               PROVE  /\ Start(method, j, launched[method][j]) \in Starts
                      /\ launched[method][j] <= launched[method][j]
    BY DEF Start
  <2>1. j \in Jobs /\ method \in Methods /\ launched[method][j] \in Nat
    BY DEF Running, Inv, Shape
  <2> QED
    BY <2>1 DEF Start, Starts
<1>4. /\ Orphaned \subseteq [method : Methods, job : Jobs, start : Nat, at : {"started", "reset"}]
      /\ \A o \in Orphaned : Start(o.method, o.job, o.start) \in new
  <2> SUFFICES ASSUME NEW j \in {i \in Jobs : work[i] \in {"started", "reset"}}
               PROVE  /\ j \in Running /\ j \in Jobs /\ method \in Methods
                      /\ launched[method][j] \in Nat /\ work[j] \in {"started", "reset"}
    BY DEF Orphaned, Start
  <2> QED
    BY DEF Running, Inv, Shape
<1>5. Shape'
  BY <1>1, <1>2, <1>3, <1>4 DEF Inv, Shape
<1>6. Known'
  BY <1>1, <1>3, <1>4 DEF Inv, Known
<1>7. Bound' /\ Alone' /\ Fresh'
  BY <1>1, <1>2 DEF Inv, Bound, Alone, Fresh
<1>8. ASSUME NEW m \in Methods, NEW j \in Jobs, dir[m][j].complete
      PROVE  Attended(m, j)' = Attended(m, j)
  <2>1. \A n : Start(m, j, n) \notin new
    BY <1>8 DEF Start, Inv, Alone
  <2> QED
    BY <1>1, <2>1 DEF Attended, Start
<1> QED
  BY <1>1, <1>5, <1>6, <1>7, <1>8, Unwritten DEF Inv

LEMMA OtherSteps ==
  ASSUME Inv, Interrupted \/ FreePorts \/ Edit \/ Report \/ Mutate \/ UNCHANGED mvars
              \/ \E m \in Methods : Register(m) \/ KilledWriting(m)
  PROVE  Inv' /\ Kept
<1>1. CASE Interrupted
  <2>1. work' \in [Jobs -> Children] /\ Running' = {} /\ \A j \in Jobs : work'[j] # "queued"
    BY <1>1 DEF Interrupted, Running, Children, Idle
  <2> QED
    BY <1>1, <2>1, Same DEF Interrupted, diskvars, Inv, Shape
<1>2. CASE FreePorts
  BY <1>2, Same DEF FreePorts, diskvars, Inv, Shape, Running
<1>3. CASE Edit
  BY <1>3, Same DEF Edit, diskvars, Inv, Shape, Running
<1>4. CASE Mutate
  BY <1>4, Same DEF Mutate, diskvars, Inv, Shape, Running
<1>5. CASE Report
  <2>1. work' \in [Jobs -> Children] /\ Running' = {} /\ \A j \in Jobs : work'[j] # "queued"
    BY <1>5 DEF Report, Running, Children, Idle
  <2> QED
    BY <1>5, <2>1, Same DEF Report, Inv, Shape
<1>6. CASE UNCHANGED mvars
  BY <1>6, Same DEF mvars, diskvars, Inv, Shape, Running
<1>7. CASE \E m \in Methods : Register(m)
  BY <1>7, Same DEF Register, Inv, Shape, Running
<1>8. CASE \E m \in Methods : KilledWriting(m)
  BY <1>8, Same DEF KilledWriting, Inv, Shape, Running
<1> QED
  BY <1>1, <1>2, <1>3, <1>4, <1>5, <1>6, <1>7, <1>8

\* A child that ends without writing anything.
LEMMA Leaving ==
  ASSUME Inv, NEW j \in Jobs, Leaves(j), dir' = dir
  PROVE  Inv' /\ Kept
<1>1. /\ work' \in [Jobs -> Children] /\ Running' \subseteq Running
      /\ \A i \in Jobs : work'[i] = "queued" => work[i] = "queued"
  BY DEF Leaves, Running, Children, Inv, Shape
<1> QED
  BY <1>1, Same DEF Leaves, Inv, Shape

-----------------------------------------------------------------------------
\* ---- steps of an episode ----

\* A step that rewrites the directory of one episode that is not complete.
LEMMA Rewriting ==
  ASSUME Inv, NEW m \in Methods, NEW j \in Jobs, NEW d \in Attempt,
         dir' = [dir EXCEPT ![m][j] = d], ~dir[m][j].complete,
         d.complete => /\ lib[m] # 0 /\ d.source = lib[m]
                       /\ \E n \in Nat : Attended(m, j)' = {n},
         UNCHANGED <<lib, registered, method, outlived, source, runner>>,
         Shape', Known', Alone', Fresh'
  PROVE  Inv' /\ Kept
<1>1. /\ dir' \in [Methods -> [Jobs -> Attempt]] /\ dir'[m][j] = d
      /\ \A n \in Methods, i \in Jobs : n # m \/ i # j => dir'[n][i] = dir[n][i]
  BY DEF Inv, Shape
<1>2. Bound'
  BY <1>1 DEF Inv, Bound
<1>3. Single'
  <2> SUFFICES ASSUME NEW n \in Methods, NEW i \in Jobs, dir'[n][i].complete
               PROVE  \E k \in Nat : Attended(n, i)' = {k}
    BY DEF Single
  <2>1. CASE n = m /\ i = j
    BY <1>1, <2>1
  <2>2. CASE n # m \/ i # j
    <3>1. dir'[n][i] = dir[n][i]
      BY <1>1, <2>2
    <3>2. Attended(n, i)' = Attended(n, i)
      BY <3>1, AttendedSame
    <3> QED
      BY <3>1, <3>2 DEF Inv, Single
  <2> QED
    BY <2>1, <2>2
<1>4. MeasuredAsRegistered'
  <2> SUFFICES ASSUME NEW n \in Methods, NEW i \in Jobs, dir'[n][i].complete
               PROVE  \/ dir'[n][i].source = lib[n]
                      \/ \E r \in registered : r.method = n /\ r.from = dir'[n][i].source /\ i \in r.done
    BY DEF MeasuredAsRegistered, Complete
  <2>1. CASE n = m /\ i = j
    BY <1>1, <2>1
  <2>2. CASE n # m \/ i # j
    BY <1>1, <2>2 DEF Inv, MeasuredAsRegistered, Complete
  <2> QED
    BY <2>1, <2>2
<1>5. Kept
  BY <1>1 DEF Kept
<1> QED
  BY <1>2, <1>3, <1>4, <1>5 DEF Inv

LEMMA Taking == ASSUME Inv, NEW j \in Jobs, Take(j) PROVE Inv' /\ Kept
<1>1. runner = "run" /\ work[j] = "queued"
  BY DEF Take, NextQueued
<1>2. CASE stop \/ dir[method][j].complete
  <2>1. Leaves(j) /\ dir' = dir
    BY <1>2 DEF Take, Leaves
  <2> QED
    BY <2>1, Leaving
<1>3. CASE ~(stop \/ dir[method][j].complete)
  <2> DEFINE n == launched'[method][j]
             d == Tried(j, n)
  <2>1. /\ launched' \in [Methods -> [Jobs -> Nat]] /\ n = launched[method][j] + 1
        /\ \A m \in Methods, i \in Jobs : launched[m][i] <= launched'[m][i]
        /\ \A i \in Jobs : i # j => launched'[method][i] = launched[method][i]
    <3>1. launched' = [launched EXCEPT ![method][j] = @ + 1]
      BY <1>3 DEF Take
    <3>2. launched \in [Methods -> [Jobs -> Nat]] /\ method \in Methods
      BY DEF Inv, Shape
    <3> QED
      BY <3>1, <3>2
  <2>2. n \in Nat /\ dir[method][j] \in Attempt /\ lib[method] \in Nat /\ method \in Methods
    BY <2>1 DEF Inv, Shape
  <2>3. Attended(method, j) = {} /\ ~dir[method][j].complete
    BY <1>1, <1>3 DEF Inv, Fresh
  <2>4. /\ d \in Attempt /\ d.tries = dir[method][j].tries \cup {n}
        /\ d.source = lib[method] /\ ~d.complete
    BY <2>2, <2>3 DEF Tried, Attempt
  <2>5. /\ dir' = [dir EXCEPT ![method][j] = d]
        /\ work' = [work EXCEPT ![j] = "started"]
    BY <1>3 DEF Take
  <2>6. UNCHANGED <<lib, registered, method, orphans, outlived, source, runner>>
    BY DEF Take, orphanvars
  <2>7. Start(method, j, n) \notin outlived
    <3> SUFFICES ASSUME Start(method, j, n) \in outlived PROVE FALSE
      OBVIOUS
    <3>1. n <= launched[method][j]
      BY DEF Inv, Known, Start
    <3> QED
      BY <2>1, <2>2, <3>1 DEF Inv, Shape
  <2> HIDE DEF d, n
  <2>8. /\ dir'[method][j] = d
        /\ \A m \in Methods, i \in Jobs : m # method \/ i # j => dir'[m][i] = dir[m][i]
    BY <2>2, <2>4, <2>5 DEF Inv, Shape
  <2>9. Attended(method, j)' = {n}
    BY <2>3, <2>4, <2>6, <2>7, <2>8 DEF Attended, Start
  <2>10. work' \in [Jobs -> Children] /\ Running' = Running \cup {j}
    BY <1>1, <2>5 DEF Running, Children, Inv, Shape
  <2>11. Shape' /\ Alone'
    BY <1>1, <2>1, <2>2, <2>4, <2>5, <2>6, <2>8, <2>10, OneDirectory DEF Inv, Shape, Alone, Running
  <2>12. Known'
    <3>1. \A s \in outlived : s.start <= launched'[s.method][s.job]
      <4> TAKE s \in outlived
      <4>1. /\ s.method \in Methods /\ s.job \in Jobs /\ s.start \in Nat
            /\ s.start <= launched[s.method][s.job]
        BY DEF Inv, Shape, Known, Starts
      <4> QED
        BY <2>1, <4>1 DEF Inv, Shape
    <3> QED
      BY <2>6, <3>1 DEF Inv, Known
  <2>13. Fresh'
    <3>1. \A i \in Jobs : work'[i] = "queued" => i # j /\ work[i] = "queued"
      BY <2>5 DEF Inv, Shape
    <3>2. \A i \in Jobs : i # j => Attended(method, i)' = Attended(method, i)
      BY <2>2, <2>6, <2>8 DEF Attended
    <3>3. \A i \in Running' : /\ Attended(method, i)' = {launched'[method][i]}
                              /\ dir'[method][i].source = lib[method]
      BY <2>1, <2>2, <2>4, <2>8, <2>9, <2>10, <3>2 DEF Inv, Fresh, Running, n
    <3> QED
      BY <1>1, <2>2, <2>6, <2>8, <3>1, <3>2, <3>3 DEF Inv, Fresh
  <2> QED
    BY <2>2, <2>3, <2>4, <2>5, <2>6, <2>11, <2>12, <2>13, Rewriting
<1> QED
  BY <1>2, <1>3

\* What a child writes of its start keeps the rest of its record.
LEMMA WritesTyped ==
  ASSUME NEW old \in Attempt, NEW n \in Nat,
         NEW d \in {WasReset(old, n), WasRun(old, n)}
  PROVE  /\ d \in Attempt /\ d.complete = old.complete
         /\ d.tries = old.tries \cup {n} /\ d.source = old.source
<1>1. old.tries \cup {n} \in SUBSET Nat /\ old.resets + 1 \in Nat
  BY DEF Attempt
<1>2. CASE d = WasReset(old, n)
  BY <1>1, <1>2 DEF WasReset, Attempt
<1>3. CASE d = WasRun(old, n)
  BY <1>1, <1>3 DEF WasRun, Attempt
<1> QED
  BY <1>2, <1>3

\* A child's writes add nothing to the attempts of its running episode.
LEMMA ChildSteps == ASSUME Inv, NEW j \in Jobs, ChildRuns(j) PROVE Inv' /\ Kept
<1> DEFINE n == launched[method][j]
<1>1. j \in Running /\ ~dir[method][j].complete /\ method \in Methods /\ n \in Nat
      /\ dir[method][j] \in Attempt
  BY DEF ChildRuns, Running, Inv, Alone, Shape
<1>2. PICK d \in {WasReset(dir[method][j], n), WasRun(dir[method][j], n)} :
          dir' = [dir EXCEPT ![method][j] = d]
  BY Zenon DEF ChildRuns
<1>3. /\ d \in Attempt /\ ~d.complete /\ d.tries = dir[method][j].tries \cup {n}
      /\ d.source = dir[method][j].source
  <2> HIDE DEF n
  <2>1. /\ d \in Attempt /\ d.complete = dir[method][j].complete
        /\ d.tries = dir[method][j].tries \cup {n} /\ d.source = dir[method][j].source
    BY <1>1, WritesTyped
  <2> QED
    BY <1>1, <2>1
<1>4. /\ UNCHANGED <<lib, registered, method, orphans, outlived, source, runner, launched>>
      /\ work' \in [Jobs -> Children] /\ Running' \subseteq Running
      /\ \A i \in Jobs : work'[i] = "queued" => i # j /\ work[i] = "queued"
  BY DEF ChildRuns, orphanvars, Running, Children, Inv, Shape
<1>5. /\ dir' \in [Methods -> [Jobs -> Attempt]] /\ dir'[method][j] = d
      /\ \A m \in Methods, i \in Jobs : m # method \/ i # j => dir'[m][i] = dir[m][i]
  BY <1>1, <1>2, <1>3, OneDirectory DEF Inv
<1>6. \A i \in Jobs : i # j => Attended(method, i)' = Attended(method, i)
  BY <1>1, <1>4, <1>5 DEF Attended
<1>7. Attended(method, j)' = Attended(method, j)
  <2>1. n \in dir[method][j].tries
    BY <1>1 DEF Inv, Fresh, Attended
  <2> QED
    BY <1>3, <1>4, <1>5, <2>1 DEF Attended
<1>8. Shape' /\ Known' /\ Alone'
  BY <1>1, <1>3, <1>4, <1>5 DEF Inv, Shape, Known, Alone, Running
<1>9. Fresh'
  <2>1. runner = "run"
    BY <1>1 DEF Inv, Alone
  <2>2. \A i \in Running' : /\ Attended(method, i)' = {launched[method][i]}
                            /\ dir'[method][i].source = lib[method]
    BY <1>1, <1>3, <1>4, <1>5, <1>6, <1>7 DEF Inv, Fresh, Running
  <2> QED
    BY <1>1, <1>4, <1>5, <1>6, <2>1, <2>2 DEF Inv, Fresh
<1> HIDE DEF n
<1> QED
  BY <1>1, <1>2, <1>3, <1>4, <1>8, <1>9, Rewriting

\* An orphan's writes are nobody's attempt.
LEMMA OrphanSteps == ASSUME Inv, NEW o \in orphans, OrphanRuns(o) PROVE Inv' /\ Kept
<1> DEFINE old == dir[o.method][o.job]
<1>1. /\ o.method \in Methods /\ o.job \in Jobs /\ o.start \in Nat /\ o.at \in {"started", "reset"}
      /\ o = [method |-> o.method, job |-> o.job, start |-> o.start, at |-> o.at]
      /\ Start(o.method, o.job, o.start) \in outlived /\ old \in Attempt
  BY DEF Inv, Shape, Known
<1>2. /\ UNCHANGED <<launched, lib, registered, method, outlived, source, runner, work>>
      /\ orphans' \subseteq orphans \cup {[o EXCEPT !.at = "reset"]}
  BY DEF OrphanRuns
<1>3. PICK d : /\ d \in {old, WasReset(old, o.start), WasRun(old, o.start)}
               /\ dir' = [dir EXCEPT ![o.method][o.job] = d]
  <2>1. \/ dir' = [dir EXCEPT ![o.method][o.job] = WasReset(old, o.start)]
        \/ dir' = [dir EXCEPT ![o.method][o.job] = WasRun(old, o.start)]
        \/ dir' = dir
    BY Zenon DEF OrphanRuns
  <2>2. dir = [dir EXCEPT ![o.method][o.job] = old]
    BY <1>1 DEF Inv, Shape
  <2> QED
    BY <2>1, <2>2, Zenon
<1>4. /\ d \in Attempt /\ d.complete = old.complete /\ d.source = old.source
      /\ d.tries \in {old.tries, old.tries \cup {o.start}}
  BY <1>1, <1>3, WritesTyped
<1>5. /\ dir' \in [Methods -> [Jobs -> Attempt]] /\ dir'[o.method][o.job] = d
      /\ \A m \in Methods, i \in Jobs : m # o.method \/ i # o.job => dir'[m][i] = dir[m][i]
  BY <1>1, <1>3, <1>4, OneDirectory DEF Inv
<1>6. ASSUME NEW m \in Methods, NEW i \in Jobs
      PROVE  /\ dir'[m][i].complete = dir[m][i].complete /\ dir'[m][i].source = dir[m][i].source
             /\ Attended(m, i)' = Attended(m, i)
  <2>1. CASE m = o.method /\ i = o.job
    BY <1>1, <1>2, <1>4, <1>5, <2>1 DEF Attended, Start
  <2>2. CASE m # o.method \/ i # o.job
    BY <1>2, <1>5, <2>2 DEF Attended
  <2> QED
    BY <2>1, <2>2
<1>7. /\ [o EXCEPT !.at = "reset"] \in [method : Methods, job : Jobs, start : Nat, at : {"started", "reset"}]
      /\ Start([o EXCEPT !.at = "reset"].method, [o EXCEPT !.at = "reset"].job,
               [o EXCEPT !.at = "reset"].start) \in outlived
  BY <1>1
<1>8. Shape' /\ Known'
  BY <1>2, <1>5, <1>7 DEF Inv, Shape, Known
<1>9. Running' = Running /\ Running \subseteq Jobs /\ method \in Methods
  BY <1>2 DEF Running, Inv, Shape
<1>10. Alone' /\ Fresh'
  BY <1>2, <1>6, <1>9 DEF Inv, Alone, Fresh
<1>11. Bound' /\ Single'
  BY <1>2, <1>6 DEF Inv, Bound, Single
<1>12. MeasuredAsRegistered'
  <2>1. \A m \in Methods : Complete(m)' = Complete(m) /\ Complete(m) \subseteq Jobs
    BY <1>6 DEF Complete
  <2> QED
    BY <1>2, <1>6, <2>1 DEF Inv, MeasuredAsRegistered
<1> QED
  BY <1>6, <1>8, <1>10, <1>11, <1>12 DEF Inv, Kept

\* The evidence gate judges an episode whose one attended attempt is this
\* runner's.
LEMMA Gating ==
  ASSUME Inv, NEW j \in Running, NEW quota \in BOOLEAN, Leaves(j), Gate(j, quota)
  PROVE  Inv' /\ Kept
<1> DEFINE d == Judged(j, quota)
<1>1. /\ j \in Jobs /\ runner = "run" /\ method \in Methods
      /\ ~dir[method][j].complete /\ lib[method] # 0
      /\ Attended(method, j) = {launched[method][j]} /\ dir[method][j].source = lib[method]
  BY DEF Leaves, Inv, Alone, Fresh, Bound, Running, Shape
<1>2. /\ dir[method][j] \in Attempt /\ launched[method][j] \in Nat
  BY <1>1 DEF Inv, Shape
<1>3. /\ Ended(j) \in Attempt /\ Ended(j).tries = dir[method][j].tries
      /\ Ended(j).source = dir[method][j].source
  BY <1>2 DEF Ended, Attempt
<1>4. /\ d \in Attempt /\ d.tries = Ended(j).tries /\ d.source = Ended(j).source
  <2>1. Evident(Ended(j)) \in BOOLEAN
    BY <1>3 DEF Evident, Attempt
  <2> QED
    BY <1>3, <2>1 DEF Judged, Attempt
<1>5. dir' = [dir EXCEPT ![method][j] = d]
  BY DEF Gate
<1> HIDE DEF d
<1>6. /\ UNCHANGED <<launched, lib, registered, method, orphans, outlived, source, runner>>
      /\ work' \in [Jobs -> Children] /\ Running' \subseteq Running \ {j}
      /\ \A i \in Jobs : work'[i] = "queued" => i # j /\ work[i] = "queued"
  BY <1>1 DEF Leaves, orphanvars, Running, Children, Inv, Shape
<1>7. /\ dir' \in [Methods -> [Jobs -> Attempt]] /\ dir'[method][j] = d
      /\ \A m \in Methods, i \in Jobs : m # method \/ i # j => dir'[m][i] = dir[m][i]
  BY <1>1, <1>4, <1>5 DEF Inv, Shape
<1>8. \A i \in Jobs : Attended(method, i)' = Attended(method, i)
  BY <1>1, <1>3, <1>4, <1>6, <1>7 DEF Attended
<1>9. Shape' /\ Known' /\ Alone'
  BY <1>1, <1>6, <1>7 DEF Inv, Shape, Known, Alone, Running
<1>10. Fresh'
  <2>1. \A i \in Running' : i \in Running /\ i # j
    BY <1>6
  <2> QED
    BY <1>1, <1>6, <1>7, <1>8, <2>1 DEF Inv, Fresh, Running
<1> QED
  BY <1>1, <1>2, <1>3, <1>4, <1>5, <1>6, <1>8, <1>9, <1>10, Rewriting

LEMMA EpisodeSteps ==
  ASSUME Inv, NEW j \in Jobs,
         Finishes(j) \/ TimesOut(j) \/ Stopped(j) \/ See(j) \/ Quota(j) \/ QuotaTimesOut(j)
         \/ ChildFails(j)
  PROVE  Inv' /\ Kept
<1>1. CASE Finishes(j)
  BY <1>1, Gating DEF Finishes, Running
<1>2. CASE TimesOut(j)
  BY <1>2, Gating DEF TimesOut
<1>3. CASE Stopped(j)
  BY <1>3, Leaving DEF Stopped
<1>4. CASE See(j)
  BY <1>4, Same DEF See, diskvars, Inv, Shape, Running
<1>5. CASE Quota(j)
  BY <1>5, Leaving DEF Quota
<1>6. CASE QuotaTimesOut(j)
  BY <1>6, Gating DEF QuotaTimesOut
<1>7. CASE ChildFails(j)
  BY <1>7, Leaving DEF ChildFails
<1> QED
  BY <1>1, <1>2, <1>3, <1>4, <1>5, <1>6, <1>7

-----------------------------------------------------------------------------
\* ---- the campaign ----

LEMMA Initially == Init => Inv
<1> SUFFICES ASSUME Init PROVE Inv
  OBVIOUS
<1>1. /\ dir = [m \in Methods |-> [j \in Jobs |-> Empty]]
      /\ launched = [m \in Methods |-> [j \in Jobs |-> 0]]
      /\ lib = [m \in Methods |-> 0] /\ source = 1 /\ work = [j \in Jobs |-> "idle"]
      /\ runner = "down" /\ method = "capx" /\ orphans = {} /\ outlived = {}
  BY DEF Init, MethodInit, Idle
<1>2. Shape
  <2>1. dir \in [Methods -> [Jobs -> Attempt]]
    BY <1>1, EmptyTyped
  <2>2. launched \in [Methods -> [Jobs -> Nat]] /\ lib \in [Methods -> Nat]
    BY <1>1
  <2>3. work \in [Jobs -> Children]
    BY <1>1 DEF Children
  <2>4. source \in Nat \ {0} /\ method \in Methods
    BY <1>1 DEF Methods
  <2>5. runner \in {"down", "archive", "ports", "run"}
    BY <1>1
  <2> QED
    BY <1>1, <2>1, <2>2, <2>3, <2>4, <2>5 DEF Shape
<1>3. Running = {}
  BY <1>1 DEF Running
<1>4. \A m \in Methods, j \in Jobs : ~dir[m][j].complete
  BY <1>1, EmptyTyped
<1> QED
  BY <1>1, <1>2, <1>3, <1>4 DEF Inv, Bound, Known, Alone, Fresh, Single, MeasuredAsRegistered, Complete

\* Every step of the campaign, its faults and its operator is one of the above.
LEMMA Stepwise == ASSUME Inv, [Next]_vars PROVE Inv' /\ Kept
<1>1. CASE UNCHANGED mvars
  BY <1>1, OtherSteps
<1>2. ASSUME all \in MainPhases PROVE MethodOf[all] \in Methods
  BY <1>2 DEF MainPhases, MethodOf, Methods
<1>3. CASE Measure
  BY <1>2, <1>3, Starting DEF Measure
<1>4. CASE Occupied
  <2>1. Running = {} /\ Running' = {}
    BY <1>4 DEF Occupied, Running, Inv, Alone
  <2> QED
    BY <1>4, <2>1, Same DEF Occupied, diskvars, Inv, Shape
<1>5. CASE RunnerStep
  BY <1>4, <1>5, OtherSteps, Archiving, Serving, Taking, ChildSteps, EpisodeSteps
     DEF RunnerStep, Reported
<1>6. CASE Fault
  <2>1. CASE KilledAll \/ \E m \in Methods : Flaw(m)
    BY <1>1, <2>1 DEF KilledAll, Flaw
  <2>2. CASE Broken
    BY <2>2, OtherSteps, Killing, Archiving DEF Broken
  <2>3. CASE KilledStarting
    BY <1>2, <2>3, OtherSteps DEF KilledStarting
  <2>4. CASE Mutate
    BY <2>4, OtherSteps
  <2>5. CASE \E j \in Jobs : Quota(j) \/ QuotaTimesOut(j) \/ ChildFails(j)
    BY <2>5, EpisodeSteps
  <2> QED
    BY <1>6, <2>1, <2>2, <2>3, <2>4, <2>5 DEF Fault
<1>7. CASE Operator \/ PortsFreed
  BY <1>7, OtherSteps DEF Operator, PortsFreed
<1>8. CASE OrphanStep
  BY <1>8, OrphanSteps DEF OrphanStep
<1>9. CASE Developing
  BY <1>1, <1>9 DEF Developing
<1>10. CASE PhaseStep
  BY <1>1, <1>3, <1>10 DEF PhaseStep, Begin, Skip, Attest, Refused, Audit, Analyse
<1> QED
  BY <1>1, <1>5, <1>6, <1>7, <1>8, <1>9, <1>10 DEF Next, vars

-----------------------------------------------------------------------------
\* ---- the report ----

\* A phase behind an audit, or an audit that the history takes for passed,
\* means that the method is complete.
Passed ==
    /\ all \in 0..ReportPhase /\ (child => all \in MainPhases)
    /\ history \in [1..ReportPhase -> [ok : BOOLEAN, source : Nat]]
    /\ audit \in [Methods -> BOOLEAN]
    /\ all > 3 \/ history[3].ok => Complete("capx") = Jobs
    /\ all > 5 \/ history[5].ok => Complete("rats") = Jobs
    /\ ReportMeasured

LEMMA CompleteKept ==
  ASSUME Kept
  PROVE  \A m \in Methods : Complete(m) = Jobs => Complete(m)' = Jobs
  BY DEF Kept, Complete

\* Nothing is passed by a step that leaves phase and history alone, or resets them.
LEMMA NothingPassed ==
  ASSUME Inv, Passed, Kept, all' \in {all, 0}, child' => all' \in MainPhases, audit' \in [Methods -> BOOLEAN],
         history' \in [1..ReportPhase -> [ok : BOOLEAN, source : Nat]],
         \A k \in 1..ReportPhase : history'[k].ok => history[k].ok
  PROVE  Passed'
<1>1. \A m \in Methods : Complete(m) = Jobs => Complete(m)' = Jobs
  BY CompleteKept
<1>2. {3, 5, 6} \subseteq 1..ReportPhase /\ {"capx", "rats"} = Methods
  BY DEF ReportPhase, Methods
<1>3. ReportMeasured'
  BY <1>1, <1>2 DEF ReportMeasured, Passed, ReportPhase
<1>4. /\ all' > 3 \/ history'[3].ok => Complete("capx")' = Jobs
      /\ all' > 5 \/ history'[5].ok => Complete("rats")' = Jobs
  BY <1>1, <1>2 DEF Passed
<1> QED
  BY <1>3, <1>4 DEF Passed, ReportPhase

\* A phase that is recorded, and what its success stands for.
LEMMA Recording ==
  ASSUME Inv, Passed, Kept, NEW ok \in BOOLEAN, all # 0, Record(all, ok), ~child', audit' \in [Methods -> BOOLEAN],
         ok /\ all = 3 => Complete("capx") = Jobs,
         ok /\ all = 5 => Complete("rats") = Jobs
  PROVE  Passed'
<1>1. \A m \in Methods : Complete(m) = Jobs => Complete(m)' = Jobs
  BY CompleteKept
<1>2. {3, 5, 6} \subseteq 1..ReportPhase /\ {"capx", "rats"} = Methods
  BY DEF ReportPhase, Methods
<1>3. all \in 1..ReportPhase /\ source \in Nat
  BY DEF Passed, ReportPhase, Inv, Shape
<1>4. /\ history' \in [1..ReportPhase -> [ok : BOOLEAN, source : Nat]]
      /\ history'[all].ok = ok
      /\ \A k \in 1..ReportPhase : k # all => history'[k] = history[k]
  BY <1>3 DEF Record, Passed
<1>5. all' \in {0, all + 1} /\ (all' # 0 => ok /\ all < ReportPhase)
  BY <1>3 DEF Record
<1>6. /\ all' > 3 \/ history'[3].ok => Complete("capx")' = Jobs
      /\ all' > 5 \/ history'[5].ok => Complete("rats")' = Jobs
  BY <1>1, <1>2, <1>3, <1>4, <1>5 DEF Passed, ReportPhase
<1>7. ReportMeasured'
  BY <1>1, <1>2, <1>3, <1>4 DEF ReportMeasured, Passed, ReportPhase
<1> QED
  BY <1>3, <1>4, <1>5, <1>6, <1>7 DEF Passed, ReportPhase

LEMMA PassedNext == ASSUME Inv, Passed, [Next]_vars PROVE Passed'
<1>1. Kept /\ audit' \in [Methods -> BOOLEAN]
  <2>1. audit \in [Methods -> BOOLEAN]
    BY DEF Passed
  <2>2. CASE Audit \/ KilledAll
    <3>1. Sound(MethodOf[all]) \in BOOLEAN
      BY DEF Sound
    <3>2. \/ audit' = [audit EXCEPT ![MethodOf[all]] = Sound(MethodOf[all])]
          \/ audit' = [audit EXCEPT ![MethodOf[all]] = FALSE] \/ audit' = audit
      BY <2>2 DEF Audit, KilledAll, AuditLost
    <3> QED
      BY <2>1, <3>1, <3>2, Stepwise
  <2>3. CASE ~(Audit \/ KilledAll)
    <3>1. audit' = audit
      BY <2>3 DEF Next, PhaseStep, Begin, Skip, Attest, Measure, Refused, Analyse, RunnerStep,
         Occupied, Reported, Fault, KilledStarting, Flaw, Broken, Elsewhere, Developing,
         OrphanStep, PortsFreed, Operator, cvars, vars
    <3> QED
      BY <2>1, <3>1, Stepwise
  <2> QED
    BY <2>2, <2>3
<1>2. ASSUME UNCHANGED cvars PROVE Passed'
  BY <1>1, <1>2, NothingPassed DEF cvars, Passed
<1>3. CASE PhaseStep
  <2>1. CASE Begin
    BY <1>1, <2>1, CompleteKept DEF Begin, Passed, Preflight, ReportPhase, Methods, mvars, diskvars,
       Complete, ReportMeasured, MainPhases
  <2>2. CASE Skip
    <3>1. Record(all, TRUE) /\ ~child'
      BY <2>2 DEF Skip, Record, Passed
    <3>2. all \in AuditPhases => history[all].ok
      BY <2>2 DEF Skip, Skipped, PhaseCompleted, AuditPhases, MainPhases
    <3> QED
      BY <1>1, <2>2, <3>1, <3>2, Recording DEF Skip, AuditPhases, Passed
  <2>3. CASE Attest
    <3>1. all # 0 /\ all # 3 /\ all # 5 /\ all \notin MainPhases
      BY <2>3 DEF Attest, Preflight, MainPhases
    <3>2. Record(all, TRUE) /\ ~child'
      BY <2>3, <3>1, Zenon DEF Attest, Passed
    <3> QED
      BY <1>1, <3>1, <3>2, Recording
  <2>4. CASE Measure
    BY <1>1, <2>4, NothingPassed DEF Measure, Passed
  <2>5. CASE Refused
    <3>1. all # 0
      BY <2>5 DEF Refused, MainPhases
    <3>2. Record(all, FALSE) /\ ~child'
      BY <2>5, Zenon DEF Refused
    <3> QED
      BY <1>1, <3>1, <3>2, Recording
  <2>6. CASE Audit
    <3> DEFINE ok == audit'[MethodOf[all]]
    <3>1. all \in {3, 5} /\ all # 0 /\ all \notin MainPhases
      BY <2>6 DEF Audit, AuditPhases, MainPhases
    <3>2. Record(all, ok) /\ ~child'
      BY <2>6, <3>1, Zenon DEF Audit, Passed
    <3>3. MethodOf[all] \in Methods /\ MethodOf[3] = "capx" /\ MethodOf[5] = "rats"
      BY <3>1 DEF MethodOf, Methods
    <3>4. audit' = [audit EXCEPT ![MethodOf[all]] = Sound(MethodOf[all])]
      BY <2>6 DEF Audit
    <3>5. audit \in [Methods -> BOOLEAN]
      BY DEF Passed
    <3>6. ok \in BOOLEAN /\ (ok => Complete(MethodOf[all]) = Jobs)
      BY <3>3, <3>4, <3>5 DEF Sound
    <3>7. /\ ok /\ all = 3 => Complete("capx") = Jobs
          /\ ok /\ all = 5 => Complete("rats") = Jobs
      BY <3>3, <3>6
    <3> HIDE DEF ok
    <3> QED
      BY <1>1, <3>1, <3>2, <3>6, <3>7, Recording
  <2>7. CASE Analyse
    <3>1. all # 0 /\ all # 3 /\ all # 5 /\ all \notin MainPhases
      BY <2>7 DEF Analyse, ReportPhase, MainPhases
    <3>2. (Record(all, TRUE) \/ Record(all, FALSE)) /\ ~child'
      BY <2>7, <3>1, Zenon DEF Analyse, Passed
    <3> QED
      BY <1>1, <3>1, <3>2, Recording
  <2> QED
    BY <1>3, <2>1, <2>2, <2>3, <2>4, <2>5, <2>6, <2>7 DEF PhaseStep
<1>4. ASSUME IF child THEN Record(all, FALSE) /\ child' = FALSE ELSE UNCHANGED <<all, history, child>>
      PROVE  Passed'
  <2>1. CASE child
    <3>1. all # 0
      BY <2>1 DEF Passed, MainPhases
    <3> QED
      BY <1>1, <1>4, <2>1, <3>1, Recording
  <2>2. CASE ~child
    BY <1>1, <1>4, <2>2, NothingPassed DEF Passed
  <2> QED
    BY <2>1, <2>2
<1>5. CASE Reported
  <2>1. CASE child
    <3> DEFINE ok == Verdict = "COMPLETE"
    <3>1. all # 0 /\ all # 3 /\ all # 5
      BY <2>1 DEF Passed, MainPhases
    <3>2. ok \in BOOLEAN /\ Record(all, ok) /\ ~child'
      BY <1>5, <2>1, Zenon DEF Reported
    <3> HIDE DEF ok
    <3> QED
      BY <1>1, <3>1, <3>2, Recording
  <2>2. CASE ~child
    BY <1>1, <1>5, <2>2, NothingPassed DEF Reported, Passed
  <2> QED
    BY <2>1, <2>2
<1>6. CASE Occupied \/ Broken
  BY <1>4, <1>6 DEF Occupied, Broken
<1>7. CASE KilledAll
  <2>1. /\ history' \in [1..ReportPhase -> [ok : BOOLEAN, source : Nat]]
        /\ \A k \in 1..ReportPhase : history'[k].ok => history[k].ok
    <3> DEFINE blank == [k \in 1..ReportPhase |-> [ok |-> FALSE, source |-> 0]]
    <3>1. blank \in [1..ReportPhase -> [ok : BOOLEAN, source : Nat]] /\ \A k \in 1..ReportPhase : ~blank[k].ok
      OBVIOUS
    <3>2. history' = history \/ history' = blank
      BY <1>7 DEF KilledAll, NoRow
    <3> HIDE DEF blank
    <3> QED
      BY <3>1, <3>2 DEF Passed
  <2> QED
    BY <1>1, <1>7, <2>1, NothingPassed DEF KilledAll
<1>8. CASE KilledStarting
  <2>1. all # 0 /\ ~child'
    BY <1>8 DEF KilledStarting, MainPhases
  <2>2. Record(all, FALSE)
    BY <1>8, Zenon DEF KilledStarting
  <2> QED
    BY <1>1, <2>1, <2>2, Recording
<1>9. CASE \E m \in Methods : Flaw(m)
  BY <1>1, <1>9, NothingPassed DEF Flaw, Passed
<1>10. CASE RunnerStep
  BY <1>2, <1>5, <1>6, <1>10 DEF RunnerStep, Elsewhere
<1>11. CASE Developing \/ PortsFreed \/ OrphanStep \/ Operator \/ UNCHANGED vars
  BY <1>2, <1>11 DEF Developing, PortsFreed, OrphanStep, Operator, Elsewhere, vars
<1>12. CASE Fault
  BY <1>2, <1>6, <1>7, <1>8, <1>9, <1>12 DEF Fault, Elsewhere
<1> QED
  BY <1>3, <1>10, <1>11, <1>12 DEF Next

-----------------------------------------------------------------------------
\* ---- the theorems ----

LEMMA InvariantHolds == Spec => [](Inv /\ Passed)
<1>1. Init => Passed
  <2> SUFFICES ASSUME Init PROVE Passed
    OBVIOUS
  <2>1. /\ all = 0 /\ child = FALSE /\ audit = [m \in Methods |-> FALSE]
        /\ history = [k \in 1..ReportPhase |-> NoRow] /\ NoRow = [ok |-> FALSE, source |-> 0]
    BY DEF Init, NoRow
  <2>2. /\ history \in [1..ReportPhase -> [ok : BOOLEAN, source : Nat]]
        /\ \A k \in 1..ReportPhase : ~history[k].ok
    BY <2>1
  <2> QED
    BY <2>1, <2>2 DEF Passed, ReportMeasured, ReportPhase
<1>2. Inv /\ Passed /\ [Next]_vars => Inv' /\ Passed'
  BY Stepwise, PassedNext
<1> QED
  BY Initially, <1>1, <1>2, PTL DEF Spec

(* For every number of episodes, workers, launches and kills: a complete   *)
(* episode holds the data of one attempt that ended under its runner, and  *)
(* beside it at most what children wrote that outlived theirs.             *)
THEOREM OneAttendedAlways == Spec => []OneAttended
<1>1. Inv => OneAttended
  <2> SUFFICES ASSUME Single, NEW m \in Methods, NEW j \in Jobs, dir[m][j].complete
               PROVE  Cardinality(Attended(m, j)) = 1
    BY DEF Inv, OneAttended, Complete
  <2>1. PICK n \in Nat : Attended(m, j) = {n}
    BY DEF Single
  <2> QED
    BY <2>1, FS_Singleton
<1> QED
  BY InvariantHolds, <1>1, PTL

(* For every history of edits, launches and migrations: complete episodes  *)
(* were measured under the bound sources or migrated by name.              *)
THEOREM SourcesRegistered == Spec => []MeasuredAsRegistered
<1>1. Inv => MeasuredAsRegistered
  BY DEF Inv
<1> QED
  BY InvariantHolds, <1>1, PTL

(* For every number of episodes, workers and faults: the reports are       *)
(* written about complete methods, whatever became of the history.         *)
THEOREM ReportsAreMeasured == Spec => []ReportMeasured
<1>1. Passed => ReportMeasured
  BY DEF Passed
<1> QED
  BY InvariantHolds, <1>1, PTL

-----------------------------------------------------------------------------
\* ---- the development of the compared method ----

\* A lesson is named by an execution, a file that is absent by 0.
Lessons == SUBSET (Nat \ {0})
Content == [skills : Lessons, memory : Lessons]
Files   == [skills : Lessons \cup {{0}}, memory : SUBSET Nat]

\* The rounds whose work counts.
Done == Valid(iteration, errored)

\* The states rounds left, and what broken-off copies left of them.
Works == {committed[i] : i \in Done} \cup {Snapshot(i) : i \in Done \cap cut}

Positions == {"down", "loop", "round", "snapshot", "copying", "after", "skills", "memory",
              "manifest"}

\* What the argument needs of the types.
DevShape ==
    /\ dev \in Positions
    /\ iteration \in [Iterations -> Nat] /\ snap \in [Iterations -> Files]
    /\ committed \in [Iterations -> Content \cup {NoContent}]
    /\ errored \subseteq {i \in Iterations : iteration[i] # None}
    /\ next \in Nat \ {0} /\ run \in Nat
    /\ live \in Content /\ frozen \in [skills : SUBSET Nat, memory : SUBSET Nat]

\* A snapshot that no copy of was broken off is absent, or it is being made of
\* what the round left, or it is whole.
Copied ==
    /\ dev \in {"snapshot", "copying"} => next \in Done /\ live = committed[next]
    /\ dev = "copying" => snap[next].skills = live.skills
    /\ \A i \in Iterations \ cut :
         \/ snap[i] = NoContent
         \/ dev = "copying" /\ i = next /\ snap[i].memory = NoContent.memory
         \/ /\ ~(dev \in {"snapshot", "copying"} /\ i = next)
            /\ i \in Done /\ Snapshot(i) = committed[i]

\* The wrapper's position.  Once every round counts no round can begin, so what
\* the child sees is a round's, or will be restored.
Developed ==
    /\ dev = "round" => next \in Iterations /\ iteration[next] = None
    /\ dev \in {"round", "snapshot", "copying"} => run # None
    /\ Done = Iterations /\ dev \in {"loop", "after", "down"} =>
         live \in Works \/ (dev = "down" /\ Restorable(iteration, errored))
    /\ dev \in {"skills", "memory", "manifest"} => live \in Works
    /\ dev = "memory" => frozen.skills = live.skills
    /\ dev = "manifest" => frozen = live

\* Behind a manifest the development rests until it is launched again, and what
\* is frozen is a round's or will be replaced by the finalisation of a spent
\* budget.
Sealing ==
    /\ sup # "idle" \/ sealed \/ (manifest /\ ~reopened) => dev = "down"
    /\ sealed => sup = "idle"
    /\ manifest /\ ~reopened /\ termination # "simulator_reset_budget" => frozen \in Works
    /\ (sup = "seal" \/ sealed) /\ ~reopened => manifest /\ frozen \in Works

DevInv == DevShape /\ Copied /\ Developed /\ Sealing

-----------------------------------------------------------------------------
\* ---- the newest counting round ----

LEMMA Least ==
    ASSUME NEW S \in SUBSET Nat, S # {}
    PROVE  \E m \in S : \A n \in S : m <= n
<1>1. PICK m \in S : \A n \in S : <<n, m>> \notin OpToRel(<, Nat)
  BY WFMin, NatLessThanWellFounded
<1>2. \A n \in S : ~ (n < m)
  BY <1>1, Zenon DEF OpToRel
<1>3. \A n \in S : n \in Nat /\ m \in Nat
  OBVIOUS
<1>4. \A n \in S : m <= n
  BY <1>2, <1>3
<1> QED BY <1>4

LEMMA Greatest ==
    ASSUME NEW S \in SUBSET Iterations, S # {}
    PROVE  Max(S) \in S
<1>1. \A n \in S : n \in Nat /\ Rounds - n \in Nat
  BY DevelopmentAssumption DEF Iterations
<1> DEFINE D == {Rounds - n : n \in S}
<1>2. D \in SUBSET Nat /\ D # {}
  BY <1>1
<1>3. PICK d \in D : \A e \in D : d <= e
  <2> HIDE DEF D
  <2> QED BY <1>2, Least
<1>4. PICK m \in S : d = Rounds - m
  OBVIOUS
<1>5. \A n \in S : m >= n
  <2> TAKE n \in S
  <2>1. Rounds - m <= Rounds - n
    BY <1>3, <1>4
  <2> QED BY <1>1, <2>1, DevelopmentAssumption
<1> QED BY <1>5 DEF Max

LEMMA Newest ==
    ASSUME Restorable(iteration, errored)
    PROVE  /\ Max(Done) \in Done /\ Done \subseteq Iterations
           /\ snap[Max(Done)] # NoContent
           /\ Restored(iteration, errored) = Snapshot(Max(Done))
<1>1. Done \in SUBSET Iterations /\ Done # {}
  BY DEF Done, Valid, Restorable
<1>2. Max(Done) \in Done
  BY <1>1, Greatest
<1> QED BY <1>1, <1>2 DEF Restored, Restorable, Done

\* Outside a copy, what is restored is a round's.
LEMMA RestoredLeft ==
    ASSUME DevShape, Copied, dev # "copying", Restorable(iteration, errored)
    PROVE  Restored(iteration, errored) \in Works
<1>1. PICK i \in Done : /\ i \in Iterations /\ snap[i] # NoContent
                        /\ Restored(iteration, errored) = Snapshot(i)
  BY Newest
<1>2. i \in cut \/ Snapshot(i) = committed[i]
  BY <1>1 DEF Copied
<1> QED BY <1>1, <1>2 DEF Works

LEMMA SnapshotTyped ==
    ASSUME DevShape, NEW i \in Iterations, snap[i].skills # NoContent.skills
    PROVE  Snapshot(i) \in Content
<1>1. snap[i] \in Files
  BY DEF DevShape
<1>2. snap[i].skills \in Lessons /\ snap[i].memory \ NoContent.memory \in Lessons
  BY <1>1 DEF Files, Lessons, NoContent
<1>3. Snapshot(i) = [skills |-> snap[i].skills, memory |-> snap[i].memory \ NoContent.memory]
  BY <1>1 DEF Snapshot, Files
<1> QED BY <1>2, <1>3 DEF Content

LEMMA RestoredTyped == ASSUME DevShape PROVE Restored(iteration, errored) \in Content
<1>1. CASE Restorable(iteration, errored)
  BY <1>1, Newest, SnapshotTyped DEF Restorable, Done
<1>2. CASE ~Restorable(iteration, errored)
  BY <1>2 DEF Restored, DevShape
<1> QED BY <1>1, <1>2

\* Renaming the errored iterations changes nothing that counts.
LEMMA Quarantine ==
    ASSUME DevShape
    PROVE  /\ Valid(Quarantined, {}) = Done
           /\ Quarantined \in [Iterations -> Nat]
           /\ Restored(Quarantined, {}) = Restored(iteration, errored)
           /\ Restorable(Quarantined, {}) <=> Restorable(iteration, errored)
<1>1. Valid(Quarantined, {}) = Done
  BY DEF DevShape, Quarantined, Valid, Done
<1>2. Quarantined \in [Iterations -> Nat]
  BY DEF DevShape, Quarantined, None
<1> QED BY <1>1, <1>2 DEF Restored, Restorable, Done

LEMMA AllDone ==
    ASSUME DevShape, Cardinality(Done) = Rounds
    PROVE  Done = Iterations
<1>1. IsFiniteSet(Iterations) /\ Cardinality(Iterations) = Rounds
  BY FS_Interval, DevelopmentAssumption DEF Iterations
<1> QED BY <1>1, FS_Subset DEF Done, Valid

-----------------------------------------------------------------------------
\* ---- the steps of the development ----

\* A step that leaves the rounds' files alone keeps what they say.
LEMMA FilesKept ==
    ASSUME Done' = Done, UNCHANGED <<snap, committed, cut>>
    PROVE  /\ Works' = Works
           /\ Restorable(iteration, errored)' <=> Restorable(iteration, errored)
<1>1. \A i : Snapshot(i)' = Snapshot(i)
  BY DEF Snapshot
<1> QED BY <1>1 DEF Works, Restorable, Done

LEMMA CopiedKept ==
    ASSUME Copied, Done' = Done, UNCHANGED <<snap, committed, cut>>,
           dev' \notin {"snapshot", "copying"}, dev # "copying"
    PROVE  Copied'
<1>1. \A i : Snapshot(i)' = Snapshot(i)
  BY DEF Snapshot
<1> QED BY <1>1 DEF Copied

LEMMA Fewer ==
    ASSUME NEW A \in Lessons, NEW B \in Lessons
    PROVE  \A C \in (SUBSET A) \cup (SUBSET B) : C \in Lessons
<1> TAKE C \in (SUBSET A) \cup (SUBSET B)
<1>1. C \subseteq A \/ C \subseteq B
  OBVIOUS
<1>2. \A x \in C : x \in Nat \ {0}
  BY <1>1 DEF Lessons
<1> QED BY <1>2 DEF Lessons

LEMMA Launches ==
    ASSUME DevInv, Launch \/ KilledRestoring
    PROVE  DevInv'
<1>0. /\ DevShape /\ Copied /\ Developed /\ Sealing /\ dev = "down" /\ sup = "idle" /\ ~sealed
      /\ iteration' = Quarantined /\ errored' = {}
      /\ reopened' = (reopened \/ manifest)
      /\ UNCHANGED <<run, snap, committed, cut, termination, frozen, manifest, sup, sealed>>
  BY DEF DevInv, Launch, KilledRestoring, Relaunch
<1>1. Done' = Done
  <2>1. Done' = Valid(Quarantined, {})
    BY <1>0 DEF Done, Valid
  <2> QED BY <1>0, <2>1, Quarantine
<1>2. /\ Works' = Works
      /\ Restorable(iteration, errored)' <=> Restorable(iteration, errored)
  BY <1>0, <1>1, FilesKept
<1>3. Restored(Quarantined, {}) = Restored(iteration, errored)
      /\ Restored(iteration, errored) \in Content
  BY <1>0, Quarantine, RestoredTyped
<1>4. iteration' \in [Iterations -> Nat]
  BY <1>0, Quarantine
<1>5. dev' \in {"down", "loop"}
  BY <1>0 DEF Launch, KilledRestoring
<1>6. Copied'
  BY <1>0, <1>1, <1>5, CopiedKept
<1>7. Sealing'
  BY <1>0 DEF Sealing
<1>8. CASE Launch
  <2>1. live' = Restored(iteration, errored) /\ next' = 1 /\ dev' = "loop"
    BY <1>3, <1>8 DEF Launch
  <2>2. DevShape'
    BY <1>0, <1>3, <1>4, <2>1 DEF DevShape, Positions
  <2>3. Done = Iterations => live' \in Works'
    <3>1. CASE Restorable(iteration, errored)
      BY <1>0, <1>2, <2>1, <3>1, RestoredLeft
    <3>2. CASE ~Restorable(iteration, errored)
      <4>1. live' = live
        BY <2>1, <3>2 DEF Restored
      <4> QED BY <1>0, <1>2, <3>2, <4>1 DEF Developed
    <3> QED BY <3>1, <3>2
  <2>4. Developed'
    BY <1>1, <2>1, <2>3 DEF Developed
  <2> QED BY <1>6, <1>7, <2>2, <2>4 DEF DevInv
<1>9. CASE KilledRestoring
  <2> DEFINE to == Restored(iteration, errored)
  <2>1. /\ UNCHANGED <<dev, next>> /\ live # to
        /\ \E memory \in (SUBSET live.memory) \cup (SUBSET to.memory) :
             live' = [skills |-> to.skills, memory |-> memory]
    BY <1>3, <1>9 DEF KilledRestoring
  <2>2. live' \in Content
    <3>1. to.skills \in Lessons /\ to.memory \in Lessons /\ live.memory \in Lessons
      BY <1>0, <1>3 DEF DevShape, Content
    <3>2. \A memory \in (SUBSET live.memory) \cup (SUBSET to.memory) : memory \in Lessons
      BY <3>1, Fewer
    <3> HIDE DEF to
    <3> QED BY <2>1, <3>1, <3>2 DEF Content
  <2>3. Restorable(iteration, errored)
    BY <2>1 DEF Restored
  <2>4. DevShape'
    BY <1>0, <1>4, <2>1, <2>2 DEF DevShape
  <2>5. Developed'
    BY <1>0, <1>2, <2>1, <2>3 DEF Developed
  <2> QED BY <1>6, <1>7, <2>4, <2>5 DEF DevInv
<1> QED BY <1>8, <1>9

LEMMA Concludes ==
    ASSUME DevInv, AfterChild
    PROVE  DevInv'
<1>0. /\ DevShape /\ Copied /\ Developed /\ Sealing /\ dev = "after" /\ dev' \in {"down", "skills"}
      /\ live' = (IF exhausted THEN Restored(iteration, errored) ELSE live)
      /\ UNCHANGED <<next, run, iteration, errored, snap, committed, cut>>
      /\ UNCHANGED <<frozen, manifest, reopened, sup, sealed>>
  BY DEF DevInv, AfterChild, childvars, freezevars
<1>1. Done' = Done
  BY <1>0 DEF Done, Valid
<1>2. Works' = Works
  BY <1>0, <1>1, FilesKept
<1>3. DevShape'
  BY <1>0, RestoredTyped DEF DevShape, Positions
<1>4. Restorable(iteration, errored) /\ exhausted => live' \in Works
  BY <1>0, RestoredLeft
<1>5. ~Restorable(iteration, errored) \/ ~exhausted => live' = live
  BY <1>0 DEF Restored
<1>6. Done = Iterations => live' \in Works
  BY <1>0, <1>4, <1>5 DEF Developed
<1>7. dev' = "skills" => live' \in Works
  <2> SUFFICES ASSUME dev' = "skills" PROVE live' \in Works
    OBVIOUS
  <2>1. CASE exhausted
    BY <1>0, <1>4, <2>1 DEF AfterChild
  <2>2. CASE ~exhausted
    <3>1. Cardinality(Done) = Rounds
      BY <2>2 DEF AfterChild, Done
    <3> QED BY <1>0, <1>6, <3>1, AllDone
  <2> QED BY <2>1, <2>2
<1>8. Developed'
  BY <1>0, <1>1, <1>2, <1>6, <1>7 DEF Developed
<1>9. Sealing'
  BY <1>0 DEF Sealing
<1>10. Copied'
  BY <1>0, <1>1, CopiedKept
<1> QED BY <1>3, <1>8, <1>9, <1>10 DEF DevInv

LEMMA Freezes ==
    ASSUME DevInv, FreezeSkills \/ FreezeMemory \/ KilledFreezing \/ WriteManifest
    PROVE  DevInv'
<1>0. /\ DevShape /\ Copied /\ Developed /\ Sealing /\ dev \in {"skills", "memory", "manifest"}
      /\ ~(manifest /\ ~reopened) /\ sup = "idle" /\ ~sealed /\ live \in Works
      /\ UNCHANGED <<next, run, iteration, errored, snap, committed, cut, live, reopened, sup, sealed>>
  BY DEF DevInv, Developed, Sealing, FreezeSkills, FreezeMemory, KilledFreezing, WriteManifest,
     childvars
<1>1. Done' = Done
  BY <1>0 DEF Done, Valid
<1>2. live' \in Works' /\ Works' = Works
  BY <1>0, <1>1, FilesKept
<1>3. dev' \in {"down", "memory", "manifest"}
  BY DEF FreezeSkills, FreezeMemory, KilledFreezing, WriteManifest
<1>4. Copied'
  BY <1>0, <1>1, <1>3, CopiedKept
<1>5. CASE FreezeSkills
  <2>1. /\ frozen' = [frozen EXCEPT !.skills = live.skills] /\ dev' = "memory"
        /\ UNCHANGED manifest
    BY <1>5 DEF FreezeSkills
  <2>2. frozen' \in [skills : SUBSET Nat, memory : SUBSET Nat] /\ frozen'.skills = live.skills
    BY <1>0, <2>1 DEF DevShape, Content, Lessons
  <2> QED BY <1>0, <1>2, <1>4, <2>1, <2>2 DEF DevInv, DevShape, Positions, Developed, Sealing
<1>6. CASE FreezeMemory
  <2>1. dev = "memory" /\ frozen.skills = live.skills /\ UNCHANGED manifest
    BY <1>0, <1>6 DEF FreezeMemory, Developed
  <2>2. CASE frozen' = [frozen EXCEPT !.memory = live.memory] /\ dev' = "manifest"
    <3>1. frozen' = live
      BY <1>0, <2>1, <2>2 DEF DevShape, Content
    <3>2. frozen' \in [skills : SUBSET Nat, memory : SUBSET Nat]
      BY <1>0, <3>1 DEF DevShape, Content, Lessons
    <3> QED BY <1>0, <1>2, <1>4, <2>1, <2>2, <3>1, <3>2
            DEF DevInv, DevShape, Positions, Developed, Sealing
  <2>3. CASE dev' = "down" /\ UNCHANGED frozen
    BY <1>0, <1>2, <1>4, <2>1, <2>3 DEF DevInv, DevShape, Positions, Developed, Sealing
  <2> QED BY <1>6, <2>2, <2>3 DEF FreezeMemory
<1>7. CASE KilledFreezing
  <2>1. dev' = "down" /\ UNCHANGED manifest
        /\ \E part \in SUBSET live.memory : frozen' = [frozen EXCEPT !.memory = part]
    BY <1>7 DEF KilledFreezing
  <2>2. frozen' \in [skills : SUBSET Nat, memory : SUBSET Nat]
    BY <1>0, <2>1 DEF DevShape, Content, Lessons
  <2> QED BY <1>0, <1>2, <1>4, <2>1, <2>2 DEF DevInv, DevShape, Positions, Developed, Sealing
<1>8. CASE WriteManifest
  <2>1. dev = "manifest" /\ dev' = "down" /\ UNCHANGED frozen
    BY <1>8 DEF WriteManifest
  <2>2. frozen' \in Works'
    BY <1>0, <1>2, <2>1 DEF Developed
  <2> QED BY <1>0, <1>2, <1>4, <2>1, <2>2 DEF DevInv, DevShape, Positions, Developed, Sealing
<1> QED BY <1>5, <1>6, <1>7, <1>8

LEMMA RoundsBegin ==
    ASSUME DevInv, BeginRound \/ SkipCompleted \/ Reattempt \/ Learn
    PROVE  DevInv'
<1>0. /\ DevShape /\ Copied /\ Developed /\ Sealing /\ dev \in {"loop", "round"}
      /\ ~(manifest /\ ~reopened) /\ sup = "idle" /\ ~sealed
      /\ UNCHANGED <<iteration, errored, snap, committed, cut>>
      /\ UNCHANGED <<frozen, manifest, reopened, sup, sealed>>
  BY DEF DevInv, Sealing, BeginRound, SkipCompleted, Reattempt, Learn, childvars, freezevars
<1>1. Done' = Done
  BY <1>0 DEF Done, Valid
<1>2. Works' = Works
  BY <1>0, <1>1, FilesKept
<1>3. dev' \in {"loop", "round", "after"}
  BY <1>0 DEF BeginRound, SkipCompleted, Reattempt, Learn, BudgetReached
<1>4. Copied'
  BY <1>0, <1>1, <1>3, CopiedKept
<1>5. CASE BeginRound
  <2>1. /\ next \in Iterations /\ iteration[next] = None /\ UNCHANGED <<live, next>>
        /\ \/ run' = run + 1 /\ dev' = "round"
           \/ run' = run /\ dev' = "after"
    <3>1. next \in Nat \ {0} /\ next <= Rounds /\ iteration[next] = None
      BY <1>0, <1>5 DEF BeginRound, DevShape
    <3> QED BY <1>5, <3>1, DevelopmentAssumption DEF BeginRound, BudgetReached, Iterations
  <2>2. run' \in Nat /\ (dev' = "round" => run' # None)
    BY <1>0, <2>1 DEF DevShape, None
  <2>3. Done # Iterations
    BY <2>1 DEF Done, Valid
  <2> QED BY <1>0, <1>1, <1>4, <2>1, <2>2, <2>3 DEF DevInv, DevShape, Positions, Developed, Sealing
<1>6. CASE SkipCompleted
  <2>1. dev = "loop" /\ dev' \in {"loop", "after"} /\ next' \in Nat \ {0} /\ UNCHANGED <<live, run>>
    BY <1>0, <1>6 DEF SkipCompleted, DevShape
  <2> QED BY <1>0, <1>1, <1>2, <1>4, <2>1 DEF DevInv, DevShape, Positions, Developed, Sealing
<1>7. CASE Reattempt \/ Learn
  <2>1. dev = "round" /\ dev' \in {"round", "after"} /\ UNCHANGED <<next, run>>
    BY <1>7 DEF Reattempt, Learn, BudgetReached
  <2>2. live' \in Content
    BY <1>0, <1>7, <2>1 DEF Reattempt, Learn, DevShape, Developed, Content, Lessons, None
  <2>3. Done # Iterations
    BY <1>0, <2>1 DEF Developed, Done, Valid
  <2> QED BY <1>0, <1>1, <1>4, <2>1, <2>2, <2>3 DEF DevInv, DevShape, Positions, Developed, Sealing
<1> QED BY <1>5, <1>6, <1>7

\* The commit of a round, and the two halves of its snapshot.
LEMMA RoundsCommit ==
    ASSUME DevInv, CommitRound \/ SnapshotSkills \/ SnapshotMemory
    PROVE  DevInv'
<1>0. /\ DevShape /\ Copied /\ Developed /\ Sealing /\ dev \in {"round", "snapshot", "copying"}
      /\ ~(manifest /\ ~reopened) /\ sup = "idle" /\ ~sealed
      /\ UNCHANGED <<run, errored, cut, live, frozen, manifest, reopened, sup, sealed>>
  BY DEF DevInv, Sealing, CommitRound, SnapshotSkills, SnapshotMemory, freezevars
<1>1. CASE CommitRound
  <2>1. /\ next \in Iterations \ Done /\ iteration[next] = None /\ run # None
        /\ iteration' = [iteration EXCEPT ![next] = run]
        /\ committed' = [committed EXCEPT ![next] = live]
        /\ dev = "round" /\ dev' = "snapshot" /\ UNCHANGED <<next, snap>>
    BY <1>0, <1>1 DEF CommitRound, Developed, Done, Valid
  <2>2. Done' = Done \cup {next}
    BY <1>0, <2>1 DEF DevShape, Done, Valid
  <2>3. DevShape'
    BY <1>0, <2>1 DEF DevShape, Positions
  <2>4. committed'[next] = live /\ \A i \in Done : committed'[i] = committed[i]
    BY <1>0, <2>1 DEF DevShape, Done, Valid
  <2>5. Copied'
    <3>1. \A i : Snapshot(i)' = Snapshot(i)
      BY <2>1 DEF Snapshot
    <3> QED BY <1>0, <2>1, <2>2, <2>4, <3>1 DEF Copied
  <2> QED BY <1>0, <2>1, <2>3, <2>5 DEF DevInv, Developed, Sealing
<1>2. ASSUME dev # "round" PROVE next \in Done /\ next \in Iterations /\ live = committed[next] /\ live \in Works
  BY <1>0, <1>2 DEF Copied, Done, Valid, Works
<1>3. CASE SnapshotSkills
  <2>1. /\ dev = "snapshot" /\ dev' = "copying" /\ snap' = [snap EXCEPT ![next].skills = live.skills]
        /\ UNCHANGED <<next, iteration, committed>>
    BY <1>3 DEF SnapshotSkills
  <2>2. Done' = Done
    BY <1>0, <2>1 DEF Done, Valid
  <2>3. /\ snap'[next].skills = live.skills /\ snap'[next].memory = snap[next].memory
        /\ snap'[next] \in Files /\ snap' \in [Iterations -> Files]
        /\ \A i \in Iterations : i # next => snap'[i] = snap[i]
    <3>1. snap[next] \in Files /\ live.skills \in Lessons
      BY <1>0, <1>2, <2>1 DEF DevShape, Content
    <3>2. [snap[next] EXCEPT !.skills = live.skills] \in Files
      BY <3>1 DEF Files
    <3>3. snap' = [snap EXCEPT ![next] = [snap[next] EXCEPT !.skills = live.skills]]
      BY <2>1
    <3> QED BY <1>0, <1>2, <2>1, <3>1, <3>2, <3>3 DEF DevShape, Files
  <2>4. DevShape'
    BY <1>0, <2>1, <2>3 DEF DevShape, Positions
  <2>5. Copied'
    <3> SUFFICES ASSUME NEW i \in Iterations \ cut
                 PROVE  \/ snap'[i] = NoContent
                        \/ i = next /\ snap'[i].memory = NoContent.memory
                        \/ i \in Done /\ Snapshot(i)' = committed[i]
      BY <1>0, <1>2, <2>1, <2>2, <2>3 DEF Copied
    <3>1. CASE i # next
      BY <1>0, <2>1, <2>3, <3>1 DEF Copied, Snapshot
    <3>2. CASE i = next
      <4>1. snap[i] = NoContent
        BY <1>0, <2>1, <3>2 DEF Copied
      <4> QED BY <2>3, <3>2, <4>1 DEF NoContent
    <3> QED BY <3>1, <3>2
  <2> QED BY <1>0, <2>1, <2>4, <2>5 DEF DevInv, Developed, Sealing
<1>4. CASE SnapshotMemory
  <2>1. /\ dev = "copying" /\ dev' = "loop" /\ next' = next + 1
        /\ UNCHANGED <<iteration, committed>>
        /\ snap' = IF snap[next].memory = NoContent.memory
                   THEN [snap EXCEPT ![next].memory = live.memory] ELSE snap
    BY <1>4 DEF SnapshotMemory
  <2>2. Done' = Done
    BY <1>0, <2>1 DEF Done, Valid
  <2>3. /\ snap[next] \in Files /\ snap[next].skills = live.skills /\ live.memory \in Lessons
        /\ next \in Iterations
    BY <1>0, <1>2, <2>1 DEF DevShape, Content, Copied
  <2>4. /\ snap' \in [Iterations -> Files]
        /\ \A i \in Iterations : i # next => snap'[i] = snap[i]
        /\ snap'[next] = [snap[next] EXCEPT !.memory = IF snap[next].memory = NoContent.memory
                                                       THEN live.memory ELSE @]
    <3>1. [snap[next] EXCEPT !.memory = live.memory] \in Files
      BY <2>3 DEF Files, Lessons
    <3>2. snap[next] = [snap[next] EXCEPT !.memory = @]
      BY <2>3 DEF Files
    <3> QED BY <1>0, <2>1, <2>3, <3>1, <3>2 DEF DevShape
  <2>5. DevShape'
    BY <1>0, <2>1, <2>4 DEF DevShape, Positions
  <2>6. Copied'
    <3> SUFFICES ASSUME NEW i \in Iterations \ cut
                 PROVE  snap'[i] = NoContent \/ (i \in Done /\ Snapshot(i)' = committed[i])
      BY <1>0, <2>1, <2>2 DEF Copied
    <3>1. CASE i # next
      BY <1>0, <2>1, <2>4, <3>1 DEF Copied, Snapshot
    <3>2. CASE i = next
      <4>0. snap[i].memory = NoContent.memory
        BY <1>0, <2>1, <3>2 DEF Copied
      <4>1. snap'[i] = [skills |-> live.skills, memory |-> live.memory]
        BY <2>3, <2>4, <3>2, <4>0 DEF Files
      <4>2. live.memory \ NoContent.memory = live.memory
        BY <2>3 DEF Lessons, NoContent
      <4>3. Snapshot(i)' = [skills |-> live.skills, memory |-> live.memory]
        BY <4>1, <4>2 DEF Snapshot
      <4> QED BY <1>0, <1>2, <2>1, <3>2, <4>3 DEF DevShape, Content
    <3> QED BY <3>1, <3>2
  <2>7. live' \in Works'
    BY <1>0, <1>2, <2>1, <2>2 DEF Works
  <2> QED BY <1>0, <2>1, <2>5, <2>6, <2>7 DEF DevInv, Developed, Sealing
<1> QED BY <1>1, <1>3, <1>4

\* A copy that is broken off is remembered.
LEMMA Breaking ==
    ASSUME DevInv, CopyBroken, UNCHANGED committed, dev' \notin {"snapshot", "copying"},
           \/ Done' = Done
           \/ dev \in {"round", "snapshot", "copying"} /\ Done' = Done \ {next}
    PROVE  snap' \in [Iterations -> Files] /\ Copied'
<1>0. DevShape /\ Copied /\ Developed
  BY DEF DevInv
<1>1. /\ snap' \in [Iterations -> Files] /\ cut \subseteq cut' /\ cut' \subseteq cut \cup {next}
      /\ \A i \in Iterations : i # next \/ dev # "copying" => snap'[i] = snap[i]
      /\ dev = "copying" => next \in cut'
  <2>1. CASE dev # "copying"
    BY <1>0, <2>1 DEF CopyBroken, DevShape
  <2>2. CASE dev = "copying"
    <3>1. next \in Iterations /\ snap[next] \in Files
      BY <1>0, <2>2 DEF Copied, Done, Valid, DevShape
    <3>2. CASE UNCHANGED snap
      BY <1>0, <2>2, <3>2 DEF CopyBroken, DevShape
    <3>3. CASE ~UNCHANGED snap
      <4>1. PICK part \in SUBSET live.memory : snap' = [snap EXCEPT ![next].memory = part]
        BY <2>2, <3>3 DEF CopyBroken
      <4>2. [snap[next] EXCEPT !.memory = part] \in Files
        BY <1>0, <3>1 DEF DevShape, Content, Lessons, Files
      <4> QED BY <1>0, <2>2, <3>1, <4>1, <4>2 DEF CopyBroken, DevShape
    <3> QED BY <3>2, <3>3
  <2> QED BY <2>1, <2>2
<1>2. ASSUME NEW i \in Iterations \ cut', snap'[i] # NoContent
      PROVE  i \in Done' /\ Snapshot(i)' = committed[i]
  <2>1. i \notin cut /\ snap'[i] = snap[i] /\ (dev = "copying" => i # next)
    BY <1>1, <1>2
  <2>2. /\ ~(dev \in {"snapshot", "copying"} /\ i = next)
        /\ i \in Done /\ Snapshot(i) = committed[i]
    BY <1>0, <1>2, <2>1 DEF Copied
  <2>3. dev = "round" => i # next
    BY <1>0, <2>2 DEF Developed, Done, Valid
  <2> QED BY <2>1, <2>2, <2>3 DEF Snapshot
<1> QED BY <1>1, <1>2 DEF Copied

LEMMA RoundsEnd ==
    ASSUME DevInv, RoundFails \/ ChildDies \/ Kill
    PROVE  DevInv'
<1>0. /\ DevShape /\ Copied /\ Developed /\ Sealing /\ dev # "down" /\ CopyBroken
      /\ ~(manifest /\ ~reopened) /\ sup = "idle" /\ ~sealed
      /\ UNCHANGED <<run, live, committed, termination, frozen, manifest, reopened, sup, sealed>>
  BY DEF DevInv, Sealing, RoundFails, ChildDies, Kill, freezevars
<1>1. CASE RoundFails
  <2>1. /\ dev \in {"round", "snapshot", "copying"} /\ dev' = "loop" /\ next' = next + 1
        /\ iteration' = [iteration EXCEPT ![next] = run] /\ errored' = errored \cup {next}
    BY <1>1 DEF RoundFails
  <2>2. next \in Iterations /\ run # None
    BY <1>0, <2>1 DEF Developed, Copied, Done, Valid
  <2>3. Done' = Done \ {next}
    BY <1>0, <2>1, <2>2 DEF DevShape, Done, Valid
  <2>4. snap' \in [Iterations -> Files] /\ Copied'
    BY <1>0, <2>1, <2>3, Breaking
  <2>5. DevShape'
    <3>1. iteration' \in [Iterations -> Nat]
      BY <1>0, <2>1 DEF DevShape
    <3>2. errored' \subseteq {i \in Iterations : iteration'[i] # None}
      BY <1>0, <2>1, <2>2 DEF DevShape
    <3>3. next' \in Nat \ {0}
      BY <1>0, <2>1 DEF DevShape
    <3> QED BY <1>0, <2>1, <2>4, <3>1, <3>2, <3>3 DEF DevShape, Positions
  <2> QED BY <1>0, <2>1, <2>2, <2>3, <2>4, <2>5 DEF DevInv, Developed, Sealing
<1>2. CASE ChildDies \/ Kill
  <2>1. /\ dev' \in {"after", "down"} /\ UNCHANGED <<next, iteration, errored>>
    BY <1>2 DEF ChildDies, Kill
  <2>2. Done' = Done
    BY <2>1 DEF Done, Valid
  <2>3. snap' \in [Iterations -> Files] /\ Copied'
    BY <1>0, <2>1, <2>2, Breaking
  <2>4. DevShape'
    BY <1>0, <2>1, <2>3 DEF DevShape, Positions
  <2>5. Done = Iterations => live' \in Works'
    <3>1. CASE dev = "round"
      BY <1>0, <3>1 DEF Developed, Done, Valid
    <3>2. CASE dev \in {"snapshot", "copying"}
      BY <1>0, <2>2, <3>2 DEF Copied, Works
    <3>3. CASE dev \in {"loop", "after", "skills", "memory", "manifest"}
      <4>1. Done = Iterations => live \in Works
        BY <1>0, <3>3 DEF Developed
      <4>2. Works' = Works
        BY <1>0, <2>2, <3>3, FilesKept DEF CopyBroken
      <4> QED BY <1>0, <4>1, <4>2
    <3> QED BY <1>0, <3>1, <3>2, <3>3 DEF DevShape, Positions
  <2> QED BY <1>0, <2>1, <2>2, <2>3, <2>4, <2>5 DEF DevInv, Developed, Sealing
<1> QED BY <1>1, <1>2

LEMMA Seals ==
    ASSUME DevInv, Supervise \/ Finalize \/ KilledSealing \/ Seal
    PROVE  DevInv'
<1>0. /\ DevShape /\ Copied /\ Developed /\ Sealing /\ dev = "down" /\ ~sealed
      /\ UNCHANGED <<dev, next, run, iteration, errored, snap, committed, cut, termination,
                     manifest, reopened>>
  BY DEF DevInv, Sealing, Supervise, Finalize, KilledSealing, Seal, childvars
<1>1. Done' = Done
  BY <1>0 DEF Done, Valid
<1>2. /\ Works' = Works
      /\ Restorable(iteration, errored)' <=> Restorable(iteration, errored)
  BY <1>0, <1>1, FilesKept
<1>3. Copied'
  BY <1>0, <1>1, CopiedKept
<1>4. CASE Supervise \/ Seal
  <2>1. /\ sup' \in {"finalize", "idle"} /\ UNCHANGED <<live, frozen>>
        /\ sealed' => sup = "seal" /\ sup' = "idle"
    BY <1>0, <1>4 DEF Supervise, Seal
  <2> QED BY <1>0, <1>1, <1>2, <1>3, <2>1 DEF DevInv, DevShape, Developed, Sealing
<1>5. CASE Finalize
  <2>1. sup = "finalize" /\ UNCHANGED sealed
        /\ ((sup' = "seal" /\ manifest) \/ sup' = "idle")
    BY <1>5 DEF Finalize
  <2>2. CASE UNCHANGED <<live, frozen>>
    <3>1. sup' = "seal" /\ termination = "simulator_reset_budget" => frozen' \in Works
      BY <1>0, <1>5, RestoredLeft DEF Finalize
    <3> QED BY <1>0, <1>1, <1>2, <1>3, <2>1, <2>2, <3>1 DEF DevInv, DevShape, Developed, Sealing
  <2>3. CASE /\ termination = "simulator_reset_budget" /\ Restorable(iteration, errored)
             /\ live' = Restored(iteration, errored) /\ frozen' = live'
    <3>1. live' \in Works /\ frozen' \in Works /\ live' \in Content
      BY <1>0, <2>3, RestoredLeft, RestoredTyped
    <3>2. frozen' \in [skills : SUBSET Nat, memory : SUBSET Nat]
      BY <2>3, <3>1 DEF Content, Lessons
    <3> QED BY <1>0, <1>1, <1>2, <1>3, <2>1, <2>3, <3>1, <3>2 DEF DevInv, DevShape, Developed, Sealing
  <2> QED BY <1>5, <2>2, <2>3 DEF Finalize
<1>6. CASE KilledSealing
  <2>1. sup' = "idle" /\ UNCHANGED <<live, sealed>>
        /\ \/ UNCHANGED frozen
           \/ \E part \in SUBSET live.memory : frozen' = [skills |-> live.skills, memory |-> part]
    BY <1>6 DEF KilledSealing
  <2>2. manifest /\ termination # "simulator_reset_budget" => UNCHANGED frozen
    BY <1>6 DEF KilledSealing
  <2>3. frozen' \in [skills : SUBSET Nat, memory : SUBSET Nat]
    <3>1. live.skills \in SUBSET Nat /\ live.memory \in SUBSET Nat
      BY <1>0 DEF DevShape, Content, Lessons
    <3>2. \A part \in SUBSET live.memory :
            [skills |-> live.skills, memory |-> part] \in [skills : SUBSET Nat, memory : SUBSET Nat]
      BY <3>1
    <3> QED BY <1>0, <2>1, <3>2 DEF DevShape
  <2> QED BY <1>0, <1>1, <1>2, <1>3, <2>1, <2>2, <2>3 DEF DevInv, DevShape, Developed, Sealing
<1> QED BY <1>4, <1>5, <1>6

\* The phases of the campaign leave the artifact alone.
LEMMA Resting == ASSUME DevInv, UNCHANGED dvars PROVE DevInv'
<1>1. UNCHANGED <<dev, next, run, iteration, errored, snap, live, committed, cut, termination>>
      /\ UNCHANGED <<frozen, manifest, reopened, sup, sealed>>
  BY DEF dvars
<1>2. Done' = Done
  BY <1>1 DEF Done, Valid
<1>3. /\ Works' = Works
      /\ Restorable(iteration, errored)' <=> Restorable(iteration, errored)
  BY <1>1, <1>2, FilesKept
<1>4. Copied'
  <2>1. \A i : Snapshot(i)' = Snapshot(i)
    BY <1>1 DEF Snapshot
  <2> QED BY <1>1, <1>2, <2>1 DEF DevInv, Copied
<1> QED BY <1>1, <1>2, <1>3, <1>4 DEF DevInv, DevShape, Developed, Sealing

LEMMA DevSteps == ASSUME DevInv, DevStep PROVE DevInv'
  BY Launches, Concludes, Freezes, RoundsBegin, RoundsCommit, RoundsEnd, Seals DEF DevStep

LEMMA Inductive == DevInv /\ [Next]_vars => DevInv'
<1> SUFFICES ASSUME DevInv, [Next]_vars PROVE DevInv'
  OBVIOUS
<1>1. CASE DevStep
  BY <1>1, DevSteps
<1>2. CASE UNCHANGED vars \/ PhaseStep \/ RunnerStep \/ OrphanStep \/ PortsFreed \/ Fault \/ Operator
  <2>1. UNCHANGED dvars
    BY <1>2 DEF vars, PhaseStep, Begin, Skip, Attest, Measure, Refused, Audit, Analyse,
       RunnerStep, Occupied, Reported, Elsewhere, OrphanStep, PortsFreed, Fault, KilledAll,
       KilledStarting, Flaw, Broken, Operator
  <2> QED BY <2>1, Resting
<1> QED BY <1>1, <1>2 DEF Next, Developing

LEMMA BeginsWhole == DevInit => DevInv
<1> SUFFICES ASSUME DevInit PROVE DevInv
  OBVIOUS
<1>1. DevShape
  BY DevelopmentAssumption DEF DevInit, DevShape, Positions, Content, Lessons, Files, NoContent, None
<1>2. Done = {} /\ Done # Iterations
  BY DevelopmentAssumption DEF DevInit, Done, Valid, None, Iterations
<1>3. Copied
  BY DEF DevInit, Copied
<1> QED BY <1>1, <1>2, <1>3 DEF DevInv, Developed, Sealing, DevInit

LEMMA WholeIsSealed == DevInv => SealedIsWhole
  BY DEF DevInv, Sealing, Works, SealedIsWhole, Whole, Done

(* For any number of rounds, resets, kills and launches of the development *)
(* (run_rats_development.py and its supervisor) before its manifest: the   *)
(* sealed artifact is what one counting round left, or what a copy of one  *)
(* that was broken off left of it, never two rounds' mixture nor the state *)
(* of a round that was cut off; and no later step of the campaign          *)
(* disturbs it.                                                            *)
THEOREM SealsAreWhole == Spec => []SealedIsWhole
<1>1. Init => DevInv
  BY BeginsWhole DEF Init
<1> QED BY <1>1, Inductive, WholeIsSealed, PTL DEF Spec
=============================================================================
