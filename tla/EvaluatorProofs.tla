--------------------------- MODULE EvaluatorProofs ---------------------------
(***************************************************************************)
(* What holds of an evaluation campaign for any number of episodes,        *)
(* workers, retries and faults: what is published is complete and final,   *)
(* nothing recorded is lost, and, unless a supervisor dies without its     *)
(* workers, no episode is run twice and a pause leaves work.               *)
(***************************************************************************)
EXTENDS Evaluator, TLAPS

\* A process that has an episode.
Holds(p) == State(p).at \in {"taken", "run", "record"}

\* What the argument needs of the types.
Shape ==
  /\ lanes \in [Slots -> [rows : SUBSET Row, torn : BOOLEAN]]
  /\ consolidated \subseteq Row /\ loaded \subseteq Row
  /\ proc \in [Batches -> [Slots -> ProcessState]]
  /\ queue \in [Batches -> SUBSET Episodes]
  /\ resets \in [Episodes -> Nat]
  /\ \A p \in Processes : Holds(p) =>
       State(p).key \in Episodes /\ (State(p).at = "record" => State(p).kind \in Kinds)

\* One scorable row for each episode.
Settled(rows) ==
  /\ {row.key : row \in rows} = Episodes
  /\ \A row \in rows : Scorable(row)
  /\ \A r, s \in rows : r.key = s.key => r = s

\* As long as nobody died rewriting it, records.jsonl is what was published, and
\* so is what a later consolidation loads.
Final ==
  summary # None /\ ~cut =>
    /\ sup # "write" => consolidated = summary
    /\ sup \in {"truncate", "write", "unlink"} => loaded = summary

\* What a consolidation has in its hands.
Consolidating ==
  /\ sup \in {"truncate", "write", "unlink"} => Settled(loaded)
  /\ sup = "unlink" => consolidated = loaded
  /\ summary # None => Settled(summary)
  /\ Final

Inv == Shape /\ Consolidating

-----------------------------------------------------------------------------
\* ---- rows and keys ----

LEMMA Keys ==
  ASSUME NEW e
  PROVE  /\ e \in RecordedKeys <=>
              \/ \E r \in consolidated : Scorable(r) /\ r.key = e
              \/ \E w \in Slots : \E r \in lanes[w].rows : Scorable(r) /\ r.key = e
         /\ e \in KeysOf(LaneRows) <=>
              \E w \in Slots : \E r \in lanes[w].rows : Scorable(r) /\ r.key = e
  BY DEF RecordedKeys, KeysOf, LaneRows

\* The directory records no less, and the same if the rows are the same.
LEMMA KeysGrow ==
  ASSUME consolidated \subseteq consolidated',
         \A w \in Slots : lanes[w].rows \subseteq lanes'[w].rows
  PROVE  RecordedKeys \subseteq RecordedKeys'
  BY DEF RecordedKeys, KeysOf, LaneRows, Scorable

LEMMA KeysSame ==
  ASSUME consolidated = consolidated',
         \A w \in Slots : lanes[w].rows = lanes'[w].rows
  PROVE  RecordedKeys = RecordedKeys'
  BY DEF RecordedKeys, KeysOf, LaneRows, Scorable

LEMMA KeysTyped == ASSUME Shape PROVE RecordedKeys \subseteq Episodes
  BY DEF Shape, RecordedKeys, KeysOf, LaneRows, Row

\* Killing processes tears lines and keeps rows.
LEMMA Torn ==
  ASSUME Shape, NEW P, lanes' \in TornBy(P)
  PROVE  /\ lanes' \in [Slots -> [rows : SUBSET Row, torn : BOOLEAN]]
         /\ \A w \in Slots : lanes'[w].rows = lanes[w].rows
<1>1. PICK T : lanes' = [w \in Slots |-> [lanes[w] EXCEPT !.torn = @ \/ w \in T]]
  BY DEF TornBy
<1>2. ASSUME NEW w \in Slots
      PROVE  /\ lanes'[w] \in [rows : SUBSET Row, torn : BOOLEAN]
             /\ lanes'[w].rows = lanes[w].rows
  <2>1. lanes[w] \in [rows : SUBSET Row, torn : BOOLEAN]
    BY DEF Shape
  <2>2. lanes'[w] = [lanes[w] EXCEPT !.torn = lanes[w].torn \/ w \in T]
    BY <1>1
  <2>3. (lanes[w].torn \/ w \in T) \in BOOLEAN
    OBVIOUS
  <2> QED BY <2>1, <2>2, <2>3
<1>3. DOMAIN lanes' = Slots /\ lanes' = [w \in DOMAIN lanes' |-> lanes'[w]]
  BY <1>1
<1> QED BY <1>2, <1>3

\* A lane with one more row.
LEMMA OneMoreRow ==
  ASSUME NEW lane \in [rows : SUBSET Row, torn : BOOLEAN], NEW row \in Row
  PROVE  /\ Appended(lane, row) \in [rows : SUBSET Row, torn : BOOLEAN]
         /\ lane.rows \subseteq Appended(lane, row).rows
         /\ Appended(lane, row).rows \subseteq lane.rows \cup {row}
  BY DEF Appended

-----------------------------------------------------------------------------
\* ---- one process moves ----

LEMMA Moves ==
  ASSUME Shape, NEW p \in Processes, NEW s \in ProcessState, Becomes(p, s)
  PROVE  /\ proc' \in [Batches -> [Slots -> ProcessState]]
         /\ \A q \in Processes : State(q)' = IF q = p THEN s ELSE State(q)
<1>1. p[1] \in Batches /\ p[2] \in Slots /\ p = <<p[1], p[2]>>
  BY DEF Processes
<1>2. proc' = [proc EXCEPT ![p[1]][p[2]] = s]
  BY DEF Becomes
<1>3. proc' \in [Batches -> [Slots -> ProcessState]]
  BY <1>1, <1>2 DEF Shape
<1>4. ASSUME NEW q \in Processes PROVE State(q)' = IF q = p THEN s ELSE State(q)
  <2>1. q[1] \in Batches /\ q[2] \in Slots /\ q = <<q[1], q[2]>>
    BY DEF Processes
  <2>2. CASE q = p
    BY <1>1, <1>2, <2>2 DEF Shape, State
  <2>3. CASE q[1] # p[1]
    BY <1>1, <1>2, <2>1, <2>3 DEF Shape, State
  <2>4. CASE q[1] = p[1] /\ q[2] # p[2]
    BY <1>1, <1>2, <2>1, <2>4 DEF Shape, State
  <2> QED BY <1>1, <2>1, <2>2, <2>3, <2>4
<1> QED BY <1>3, <1>4

LEMMA Positions ==
  /\ Gone \in ProcessState /\ AtQueue \in ProcessState
  /\ Gone.at = "gone" /\ AtQueue.at = "queue" /\ Gone # AtQueue
  BY DEF Gone, AtQueue, ProcessState

LEMMA Held ==
  ASSUME Shape, NEW p \in Processes, Holds(p),
         NEW at \in {"run", "record"}, NEW kind \in Kinds \cup {None}
  PROVE  /\ Holding(p, at, kind) \in ProcessState
         /\ Holding(p, at, kind).at = at /\ Holding(p, at, kind).key = State(p).key
         /\ Holding(p, at, kind).kind = kind
  BY DEF Shape, Holding, ProcessState

\* A process that goes on, with an episode it has or without one.
LEMMA Working ==
  ASSUME Inv, NEW p \in Processes, NEW s \in ProcessState, Becomes(p, s),
         s.at \in {"taken", "run", "record"} =>
            s.key \in Episodes /\ (s.at = "record" => s.kind \in Kinds),
         lanes' \in [Slots -> [rows : SUBSET Row, torn : BOOLEAN]],
         queue' \in [Batches -> SUBSET Episodes], resets' \in [Episodes -> Nat],
         UNCHANGED <<consolidated, summary, supervisor, cut>>
  PROVE  Inv'
<1>1. proc' \in [Batches -> [Slots -> ProcessState]]
      /\ \A q \in Processes : State(q)' = IF q = p THEN s ELSE State(q)
  BY Moves DEF Inv
<1>2. Shape'
  BY <1>1 DEF Inv, Shape, Holds, supervisor
<1>3. Consolidating'
  BY DEF Inv, Consolidating, Final, Settled, Scorable, supervisor
<1> QED BY <1>2, <1>3 DEF Inv

-----------------------------------------------------------------------------
\* ---- the steps ----

LEMMA WorkerKeeps ==
  ASSUME Inv, NEW p \in Processes, Worker(p)
  PROVE  Inv'
<1> USE DEF Inv, Shape, Holds, supervisor, files, observed
<1>0. State(p) \in ProcessState /\ p[1] \in Batches /\ p[2] \in Slots
  BY DEF Processes, State
<1>1. CASE LeaveQueue(p)
  BY <1>1, Positions, Working DEF LeaveQueue
<1>2. CASE TakePayload(p)
  <2>1. PICK e \in queue[p[1]] :
          /\ queue' = [queue EXCEPT ![p[1]] = @ \ {e}]
          /\ Becomes(p, [at |-> "taken", key |-> e, kind |-> None])
    BY <1>2 DEF TakePayload
  <2>2. e \in Episodes
    BY <1>0
  <2>3. [at |-> "taken", key |-> e, kind |-> None] \in ProcessState
    BY <2>2 DEF ProcessState
  <2>4. queue' \in [Batches -> SUBSET Episodes]
    BY <1>0, <2>1
  <2>5. UNCHANGED <<lanes, consolidated, summary, supervisor, resets, cut>>
    BY <1>2 DEF TakePayload
  <2> QED BY <2>1, <2>2, <2>3, <2>4, <2>5, Working
<1>3. CASE DropPayload(p)
  BY <1>3, Positions, Working DEF DropPayload
<1>4. CASE StartEpisode(p)
  <2>1. Holds(p)
    BY <1>4 DEF StartEpisode
  <2>2. resets' \in [Episodes -> Nat]
    BY <1>4, <2>1 DEF StartEpisode
  <2> QED BY <1>4, <2>1, <2>2, Held, Working DEF StartEpisode
<1>5. CASE FinishEpisode(p)
  <2>1. Holds(p)
    BY <1>5 DEF FinishEpisode
  <2>2. "completed" \in Kinds
    BY DEF Kinds
  <2>3. /\ Becomes(p, Holding(p, "record", "completed"))
        /\ UNCHANGED <<lanes, consolidated, summary, supervisor, queue, resets, cut>>
    BY <1>5 DEF FinishEpisode
  <2>4. /\ Holding(p, "record", "completed") \in ProcessState
        /\ Holding(p, "record", "completed").key = State(p).key
        /\ Holding(p, "record", "completed").kind = "completed"
    BY <2>1, <2>2, Held
  <2> QED BY <2>1, <2>2, <2>3, <2>4, Working
<1>6. CASE AppendRow(p)
  <2>1. RowOf(p) \in Row
    BY <1>6 DEF AppendRow, RowOf, Row
  <2>2. lanes' \in [Slots -> [rows : SUBSET Row, torn : BOOLEAN]]
    BY <1>0, <1>6, <2>1, OneMoreRow DEF AppendRow
  <2> QED BY <1>6, <2>2, Positions, Working DEF AppendRow
<1> QED BY <1>1, <1>2, <1>3, <1>4, <1>5, <1>6 DEF Worker

LEMMA MishapKeeps ==
  ASSUME Inv, NEW p \in Processes, Mishap(p)
  PROVE  Inv'
<1>0. Shape /\ lanes \in [Slots -> [rows : SUBSET Row, torn : BOOLEAN]]
      /\ queue \in [Batches -> SUBSET Episodes] /\ resets \in [Episodes -> Nat]
      /\ (Holds(p) => State(p).key \in Episodes)
  BY DEF Inv, Shape
<1>1. CASE SwallowFailure(p) \/ ReportOutage(p) \/ ReportInvalidResponse(p)
  <2>1. Holds(p)
    BY <1>1 DEF SwallowFailure, ReportOutage, ReportInvalidResponse, Holds
  <2>2. PICK kind \in Kinds : Becomes(p, Holding(p, "record", kind))
    BY <1>1 DEF SwallowFailure, ReportOutage, ReportInvalidResponse, Kinds
  <2>3. UNCHANGED <<lanes, consolidated, summary, supervisor, queue, resets, cut>>
    BY <1>1 DEF SwallowFailure, ReportOutage, ReportInvalidResponse, files, observed
  <2> QED BY <1>0, <2>1, <2>2, <2>3, Held, Working
<1>2. CASE AbortOnOutage(p) \/ AbortOnInitState(p)
  BY <1>0, <1>2, Positions, Working DEF AbortOnOutage, AbortOnInitState, observed
<1>3. CASE WorkerDies(p)
  <2>1. lanes' \in [Slots -> [rows : SUBSET Row, torn : BOOLEAN]]
    BY <1>0, <1>3, Torn DEF WorkerDies
  <2> QED BY <1>0, <1>3, <2>1, Positions, Working DEF WorkerDies, observed
<1> QED BY <1>1, <1>2, <1>3 DEF Mishap

\* What is loaded when every episode has a row and no two rows conflict.
LEMMA Loaded ==
  ASSUME Shape, MissingPayloads = {}, ~Conflicting(consolidated \cup LaneRows)
  PROVE  /\ Settled(UniqueRecords(consolidated \cup LaneRows))
         /\ UniqueRecords(consolidated \cup LaneRows) \subseteq Row
<1> DEFINE rows == consolidated \cup LaneRows
<1>1. rows \subseteq Row
  BY DEF Shape, LaneRows
<1>2. {row.key : row \in UniqueRecords(rows)} = KeysOf(rows)
  BY DEF UniqueRecords, KeysOf
<1>3. KeysOf(rows) = Episodes
  BY KeysTyped DEF MissingPayloads, RecordedKeys
<1>4. \A row \in UniqueRecords(rows) : Scorable(row)
  BY DEF UniqueRecords
<1>5. \A r, s \in UniqueRecords(rows) : r.key = s.key => r = s
  BY DEF UniqueRecords, Conflicting
<1>6. UniqueRecords(rows) \subseteq Row
  BY <1>1 DEF UniqueRecords
<1> QED BY <1>2, <1>3, <1>4, <1>5, <1>6 DEF Settled

\* Processes that start at the queue, or are gone.
LEMMA Started ==
  ASSUME Shape,
         proc' \in [Batches -> [Slots -> ProcessState]],
         queue' \in [Batches -> SUBSET Episodes],
         \A q \in Processes : State(q)' \in {State(q), AtQueue, Gone},
         lanes' \in [Slots -> [rows : SUBSET Row, torn : BOOLEAN]],
         consolidated' \subseteq Row, loaded' \subseteq Row,
         UNCHANGED resets
  PROVE  Shape'
<1>1. ASSUME NEW q \in Processes, Holds(q)'
      PROVE  State(q)'.key \in Episodes /\ (State(q)'.at = "record" => State(q)'.kind \in Kinds)
  <2>1. State(q)' = State(q)
    BY <1>1, Positions DEF Holds
  <2> QED BY <1>1, <2>1 DEF Shape, Holds
<1> QED BY <1>1 DEF Shape

LEMMA Batch ==
  ASSUME Shape, StartBatch(MissingPayloads)
  PROVE  /\ proc' \in [Batches -> [Slots -> ProcessState]]
         /\ queue' \in [Batches -> SUBSET Episodes]
         /\ \A q \in Processes : State(q)' \in {State(q), AtQueue, Gone}
<1> DEFINE crew == [w \in Slots |->
                      IF w <= Cardinality(MissingPayloads) THEN AtQueue ELSE Gone]
<1>1. crew \in [Slots -> ProcessState]
  BY Positions
<1>2. proc' = [proc EXCEPT !["current"] = crew]
  BY DEF StartBatch
<1>3. queue' = [queue EXCEPT !["current"] = MissingPayloads] /\ MissingPayloads \subseteq Episodes
  BY DEF StartBatch, MissingPayloads
<1>4. proc' \in [Batches -> [Slots -> ProcessState]]
  <2> HIDE DEF crew
  <2> QED BY <1>1, <1>2 DEF Shape
<1>5. queue' \in [Batches -> SUBSET Episodes]
  BY <1>3 DEF Shape
<1>6. ASSUME NEW q \in Processes PROVE State(q)' \in {State(q), AtQueue, Gone}
  <2>1. q[1] \in Batches /\ q[2] \in Slots
    BY DEF Processes
  <2>2. CASE q[1] = "current"
    <3>1. State(q)' = crew[q[2]]
      <4> HIDE DEF crew
      <4> QED BY <1>1, <1>2, <2>1, <2>2 DEF Shape, State
    <3> QED BY <2>1, <3>1
  <2>3. CASE q[1] # "current"
    <3> HIDE DEF crew
    <3> QED BY <1>2, <2>1, <2>3 DEF Shape, State
  <2> QED BY <2>2, <2>3
<1> QED BY <1>4, <1>5, <1>6

LEMMA SuperviseKeeps ==
  ASSUME Inv, Supervise
  PROVE  Inv'
<1>0. /\ Shape /\ Consolidating
      /\ lanes \in [Slots -> [rows : SUBSET Row, torn : BOOLEAN]]
      /\ proc \in [Batches -> [Slots -> ProcessState]] /\ queue \in [Batches -> SUBSET Episodes]
      /\ consolidated \subseteq Row /\ loaded \subseteq Row
  BY DEF Inv, Shape
<1>1. UNCHANGED proc => \A q \in Processes : State(q)' = State(q)
  BY DEF State
<1>2. CASE RunPending \/ RetryMissing
  <2>1. /\ proc' \in [Batches -> [Slots -> ProcessState]]
        /\ queue' \in [Batches -> SUBSET Episodes]
        /\ \A q \in Processes : State(q)' \in {State(q), AtQueue, Gone}
    BY <1>0, <1>1, <1>2, Batch DEF RunPending, RetryMissing
  <2>2. /\ UNCHANGED <<files, loaded, resets, cut>> /\ sup' \in {"join", "judge"}
        /\ sup \in {"plan", "judge"}
    BY <1>2 DEF RunPending, RetryMissing, StartBatch, JudgeUnaborted, observed
  <2>3. Shape'
    BY <1>0, <2>1, <2>2, Started DEF files
  <2>4. Consolidating'
    BY <1>0, <2>2 DEF Consolidating, Final, Settled, Scorable, files
  <2> QED BY <2>3, <2>4 DEF Inv
<1>3. CASE Join \/ Abort \/ GiveUp \/ RefuseConflict
  <2>1. /\ UNCHANGED <<lanes, consolidated, summary, workers, cut>>
        /\ sup' \in {"judge", "down"} /\ loaded' \in {loaded, {}}
        /\ sup \in {"join", "judge"}
    BY <1>3 DEF Join, Abort, GiveUp, RefuseConflict, Exit, JudgeUnaborted, files, observed
  <2>2. Shape'
    BY <1>0, <1>1, <2>1, Started DEF workers
  <2>3. Consolidating'
    BY <1>0, <2>1 DEF Consolidating, Final, Settled, Scorable
  <2> QED BY <2>2, <2>3 DEF Inv
<1>4. CASE LoadRecords
  <2>1. /\ Settled(loaded') /\ loaded' \subseteq Row
        /\ loaded' = UniqueRecords(consolidated \cup LaneRows)
        /\ UNCHANGED <<files, workers, cut>> /\ sup' = "truncate" /\ sup = "judge"
    BY <1>0, <1>4, Loaded DEF LoadRecords, JudgeUnaborted, observed
  <2>2. Shape'
    BY <1>0, <1>1, <2>1, Started DEF workers, files
  <2>3. ASSUME summary # None, ~cut PROVE loaded' = summary
    <3>1. summary = consolidated /\ Settled(summary)
      BY <1>0, <1>4, <2>3 DEF Consolidating, Final, LoadRecords, JudgeUnaborted
    <3>2. summary \subseteq loaded'
      BY <2>1, <3>1 DEF Settled, UniqueRecords
    <3>3. ASSUME NEW r \in loaded' PROVE r \in summary
      <4>1. r.key \in Episodes
        BY <2>1, <3>3 DEF Row
      <4>2. \E s \in summary : s.key = r.key
        BY <3>1, <4>1 DEF Settled
      <4> QED BY <2>1, <3>2, <3>3, <4>2 DEF Settled
    <3> QED BY <3>2, <3>3
  <2>4. Consolidating'
    BY <1>0, <2>1, <2>3 DEF Consolidating, Final, Settled, Scorable, files
  <2> QED BY <2>2, <2>4 DEF Inv
<1>5. CASE TruncateRecords \/ WriteRecords
  <2>1. /\ sup \in {"truncate", "write"} /\ sup' \in {"write", "unlink"}
        /\ consolidated' \subseteq loaded
        /\ (sup' = "unlink" => consolidated' = loaded)
        /\ UNCHANGED <<lanes, summary, loaded, workers, cut>>
    BY <1>5 DEF TruncateRecords, WriteRecords, observed
  <2>2. Shape'
    BY <1>0, <1>1, <2>1, Started DEF workers
  <2>3. Consolidating'
    BY <1>0, <2>1 DEF Consolidating, Final, Settled, Scorable
  <2> QED BY <2>2, <2>3 DEF Inv
<1>6. CASE UnlinkLane
  <2>1. EmptyLane \in [rows : SUBSET Row, torn : BOOLEAN]
    BY DEF EmptyLane
  <2>2. lanes' \in [Slots -> [rows : SUBSET Row, torn : BOOLEAN]]
    BY <1>0, <1>6, <2>1 DEF UnlinkLane
  <2>3. UNCHANGED <<consolidated, summary, sup, loaded, workers, cut>>
    BY <1>6 DEF UnlinkLane, observed
  <2>4. Shape'
    BY <1>0, <1>1, <2>2, <2>3, Started DEF workers
  <2>5. Consolidating'
    BY <1>0, <2>3 DEF Consolidating, Final, Settled, Scorable
  <2> QED BY <2>4, <2>5 DEF Inv
<1>7. CASE Publish
  <2>1. /\ sup = "unlink" /\ sup' = "down" /\ summary' = loaded /\ loaded' = {}
        /\ UNCHANGED <<lanes, consolidated, workers, cut>>
    BY <1>7 DEF Publish, Exit, observed
  <2>2. Shape'
    BY <1>0, <1>1, <2>1, Started DEF workers
  <2>3. Consolidating'
    BY <1>0, <2>1 DEF Consolidating, Final, Settled, Scorable
  <2> QED BY <2>2, <2>3 DEF Inv
<1> QED BY <1>2, <1>3, <1>4, <1>5, <1>6, <1>7 DEF Supervise

LEMMA DeathKeeps ==
  ASSUME Inv, HostDies \/ SupervisorDies
  PROVE  Inv'
<1>0. /\ Shape /\ Consolidating
      /\ lanes \in [Slots -> [rows : SUBSET Row, torn : BOOLEAN]]
      /\ proc \in [Batches -> [Slots -> ProcessState]] /\ queue \in [Batches -> SUBSET Episodes]
  BY DEF Inv, Shape
<1>1. /\ UNCHANGED <<consolidated, summary, resets>>
      /\ sup' = "down" /\ loaded' = {}
      /\ cut' = (cut \/ (sup = "write" /\ summary # None))
  BY DEF HostDies, SupervisorDies, DiesWriting, files
<1>2. NoProcess \in [Batches -> [Slots -> ProcessState]]
  BY Positions DEF NoProcess
<1>3. Consolidating'
  BY <1>0, <1>1 DEF Consolidating, Final, Settled, Scorable
<1>4. CASE HostDies
  <2>1. lanes' \in [Slots -> [rows : SUBSET Row, torn : BOOLEAN]]
    BY <1>0, <1>4, Torn DEF HostDies
  <2>2. \A q \in Processes : State(q)' = Gone
    BY <1>4 DEF HostDies, NoProcess, State, Processes
  <2>3. queue' \in [Batches -> SUBSET Episodes]
    BY <1>4 DEF HostDies
  <2>4. Shape'
    BY <1>0, <1>1, <1>2, <1>4, <2>1, <2>2, <2>3, Started DEF HostDies, Shape
  <2> QED BY <1>3, <2>4 DEF Inv
<1>5. CASE SupervisorDies
  <2>1. PICK b \in Batches :
          /\ proc' = [NoProcess EXCEPT !["orphaned"] = proc[b]]
          /\ \E flushed \in SUBSET queue[b] :
               queue' = [b1 \in Batches |-> IF b1 = "orphaned" THEN flushed ELSE {}]
    BY <1>5 DEF SupervisorDies
  <2>2. proc[b] \in [Slots -> ProcessState] /\ queue[b] \subseteq Episodes
    BY <1>0
  <2>3. proc' \in [Batches -> [Slots -> ProcessState]]
    BY <1>2, <2>1, <2>2
  <2>4. queue' \in [Batches -> SUBSET Episodes]
    BY <2>1, <2>2
  <2>5. UNCHANGED lanes
    BY <1>5 DEF SupervisorDies, files
  <2>6. ASSUME NEW q \in Processes, Holds(q)'
        PROVE  State(q)'.key \in Episodes
               /\ (State(q)'.at = "record" => State(q)'.kind \in Kinds)
    <3>1. q[1] \in Batches /\ q[2] \in Slots /\ "orphaned" \in Batches
      BY DEF Processes, Batches
    <3>2. CASE q[1] = "orphaned"
      <4>1. State(q)' = proc[b][q[2]]
        BY <1>2, <2>1, <3>1, <3>2 DEF State
      <4>2. <<b, q[2]>> \in Processes /\ State(<<b, q[2]>>) = proc[b][q[2]]
        BY <3>1 DEF Processes, State
      <4> QED BY <1>0, <2>6, <4>1, <4>2 DEF Shape, Holds
    <3>3. CASE q[1] # "orphaned"
      <4>1. State(q)' = Gone
        BY <2>1, <3>1, <3>3 DEF State, NoProcess
      <4> QED BY <2>6, <4>1, Positions DEF Holds
    <3> QED BY <3>2, <3>3
  <2>7. Shape'
    BY <1>0, <1>1, <2>3, <2>4, <2>5, <2>6 DEF Shape
  <2> QED BY <1>3, <2>7 DEF Inv
<1> QED BY <1>4, <1>5

LEMMA Start ==
  ASSUME Init
  PROVE  Inv
<1>1. \A p \in Processes : State(p) = Gone
  BY DEF Init, NoProcess, State, Processes
<1>2. Shape
  <2>1. proc \in [Batches -> [Slots -> ProcessState]]
    BY Positions DEF Init, NoProcess
  <2>2. lanes \in [Slots -> [rows : SUBSET Row, torn : BOOLEAN]]
    BY DEF Init, EmptyLane
  <2> QED BY <1>1, <2>1, <2>2, Positions DEF Init, Shape, Holds
<1>3. Consolidating
  BY DEF Init, Consolidating, Final
<1> QED BY <1>2, <1>3 DEF Inv

LEMMA Inductive ==
  ASSUME Inv, [Next]_vars
  PROVE  Inv'
<1>1. CASE UNCHANGED vars
  <2>1. UNCHANGED <<lanes, consolidated, summary, sup, loaded, proc, queue, resets, cut>>
    BY <1>1 DEF vars, files, supervisor, workers, observed
  <2>2. Shape'
    BY <2>1 DEF Inv, Shape, Holds, State
  <2>3. Consolidating'
    BY <2>1 DEF Inv, Consolidating, Final, Settled, Scorable
  <2> QED BY <2>2, <2>3 DEF Inv
<1>2. CASE Launch
  <2>1. /\ UNCHANGED <<lanes, consolidated, summary, loaded, proc, queue, resets, cut>>
        /\ sup' = "plan" /\ sup = "down"
    BY <1>2 DEF Launch, workers
  <2>2. Shape'
    BY <2>1 DEF Inv, Shape, Holds, State
  <2>3. Consolidating'
    BY <2>1 DEF Inv, Consolidating, Final, Settled, Scorable
  <2> QED BY <2>2, <2>3 DEF Inv
<1> QED BY <1>1, <1>2, WorkerKeeps, MishapKeeps, SuperviseKeeps, DeathKeeps DEF Next

LEMMA Always == Spec => []Inv
<1>1. Init => Inv
  BY Start
<1>2. Inv /\ [Next]_vars => Inv'
  BY Inductive
<1> QED BY <1>1, <1>2, PTL DEF Spec

-----------------------------------------------------------------------------
\* ---- types ----

\* What Shape does not say of the files, the supervisor and the observations.
Written ==
  /\ sentinel \in Reasons \cup {None}
  /\ summary = None \/ summary \subseteq Row
  /\ status \in {0, 1, 75, None}
  /\ sup \in {"down", "plan", "join", "judge", "truncate", "write", "unlink"}
  /\ retry \in 0..WorkerRetries /\ unlinked \in 0..WorkerCount
  /\ structural \in BOOLEAN /\ cut \in BOOLEAN
  /\ faults \in 0..MaxFaults

LEMMA FaultCounted ==
  ASSUME faults \in 0..MaxFaults, Fault \/ NoFault
  PROVE  faults' \in 0..MaxFaults
  BY CampaignAssumption DEF Fault, NoFault

\* A process changes the sentinel and the observations only.
LEMMA ProcessWrites ==
  ASSUME Written, NEW p \in Processes, Worker(p) \/ Mishap(p)
  PROVE  Written'
<1>1. CASE Worker(p)
  <2>1. UNCHANGED <<sentinel, summary, status, supervisor, observed, faults>>
    BY <1>1 DEF Worker, LeaveQueue, TakePayload, DropPayload, StartEpisode, FinishEpisode,
                AppendRow, files
  <2> QED BY <2>1 DEF Written, supervisor, observed
<1>2. CASE Mishap(p)
  <2>1. UNCHANGED <<summary, status, sup, retry, unlinked>>
    BY <1>2 DEF Mishap, SwallowFailure, ReportOutage, ReportInvalidResponse, AbortOnOutage,
                AbortOnInitState, WorkerDies, files, supervisor
  <2>2. sentinel' \in Reasons \cup {None}
    BY <1>2 DEF Mishap, SwallowFailure, ReportOutage, ReportInvalidResponse, AbortOnOutage,
                AbortOnInitState, WorkerDies, files, Reasons, Written
  <2>3. structural' \in BOOLEAN /\ UNCHANGED cut
    BY <1>2 DEF Mishap, SwallowFailure, ReportOutage, ReportInvalidResponse, AbortOnOutage,
                AbortOnInitState, WorkerDies, Written, observed
  <2>4. Fault \/ NoFault
    BY <1>2 DEF Mishap, SwallowFailure, ReportOutage, ReportInvalidResponse, AbortOnOutage,
                AbortOnInitState, WorkerDies, CallFails, CallRefused
  <2>5. faults' \in 0..MaxFaults
    BY <2>4, FaultCounted DEF Written
  <2> QED BY <2>1, <2>2, <2>3, <2>5 DEF Written
<1> QED BY <1>1, <1>2

LEMMA SupervisorWrites ==
  ASSUME Inv, Written, Supervise
  PROVE  Written'
<1>0. /\ 0 \in 0..WorkerRetries /\ 0 \in 0..WorkerCount
      /\ retry < WorkerRetries => retry + 1 \in 0..WorkerRetries
      /\ unlinked < WorkerCount => unlinked + 1 \in 0..WorkerCount
  BY CampaignAssumption DEF Written
<1>1. CASE RunPending
  BY <1>1 DEF RunPending, StartBatch, files, observed, Written
<1>2. CASE RetryMissing
  BY <1>0, <1>2 DEF RetryMissing, RetriesLeft, StartBatch, files, observed, Written
<1>3. CASE Join \/ LoadRecords
  BY <1>3 DEF Join, LoadRecords, files, observed, Written
<1>4. CASE Abort \/ GiveUp \/ RefuseConflict
  <2>1. /\ sup' = "down" /\ status' \in {1, 75} /\ retry' = 0
        /\ unlinked' = 0 /\ UNCHANGED <<sentinel, summary, observed, faults>>
    BY <1>4 DEF Abort, GiveUp, RefuseConflict, Exit, AbortExitCode
  <2> QED BY <1>0, <2>1 DEF Written, observed
<1>5. CASE TruncateRecords \/ WriteRecords
  BY <1>5 DEF TruncateRecords, WriteRecords, observed, Written
<1>6. CASE UnlinkLane
  BY <1>0, <1>6 DEF UnlinkLane, observed, Written
<1>7. CASE Publish
  <2>1. /\ summary' = loaded /\ sup' = "down" /\ status' = 0 /\ retry' = 0
        /\ unlinked' = 0 /\ UNCHANGED <<sentinel, observed, faults>>
    BY <1>7 DEF Publish, Exit
  <2>2. summary' \subseteq Row
    BY <2>1 DEF Inv, Shape
  <2> QED BY <1>0, <2>1, <2>2 DEF Written, observed
<1> QED BY <1>1, <1>2, <1>3, <1>4, <1>5, <1>6, <1>7 DEF Supervise

LEMMA WrittenInductive ==
  ASSUME Inv, Written, [Next]_vars
  PROVE  Written'
<1>0. 0 \in 0..WorkerRetries /\ 0 \in 0..WorkerCount
  BY CampaignAssumption
<1>1. CASE UNCHANGED vars
  BY <1>1 DEF vars, files, supervisor, observed, Written
<1>2. CASE Launch
  BY <1>2 DEF Launch, SentinelAside, Written
<1>3. CASE HostDies \/ SupervisorDies
  <2>1. /\ UNCHANGED <<sentinel, summary, status, structural>>
        /\ sup' = "down" /\ retry' = 0 /\ unlinked' = 0 /\ Fault
        /\ (cut \in BOOLEAN => cut' \in BOOLEAN)
    BY <1>3 DEF HostDies, SupervisorDies, DiesWriting, files
  <2>2. faults' \in 0..MaxFaults
    BY <2>1, FaultCounted DEF Written
  <2> QED BY <1>0, <2>1, <2>2 DEF Written
<1> QED BY <1>1, <1>2, <1>3, ProcessWrites, SupervisorWrites DEF Next

(* The types of the evaluator's variables, through any number of sessions, *)
(* orphans and deaths.  Among them: the retries of a session stay within   *)
(* --worker-retries, a process that has an episode names one of the        *)
(* campaign's, and an exit status is one the scripts tell apart.           *)
THEOREM EvaluatorTypeCorrect == Spec => []TypeOK
<1>1. ASSUME Init PROVE Written
  <2>1. 0 \in 0..WorkerRetries /\ 0 \in 0..WorkerCount /\ 0 \in 0..MaxFaults /\ FALSE \in BOOLEAN
    BY CampaignAssumption
  <2>2. /\ sentinel = None /\ summary = None /\ status = None /\ sup = "down"
        /\ retry = 0 /\ unlinked = 0 /\ structural = FALSE /\ cut = FALSE /\ faults = 0
    BY <1>1 DEF Init
  <2> QED BY <2>1, <2>2 DEF Written
<1>2. Inv /\ Written => TypeOK
  BY DEF Inv, Shape, Written, TypeOK
<1> QED BY <1>1, <1>2, WrittenInductive, Always, PTL DEF Spec

-----------------------------------------------------------------------------
\* ---- what the output directory promises ----

\* A published summary has one experimental outcome for each episode, with any
\* number of sessions, orphans, torn lines and diagnostic rows (main(), and
\* _load_unique_records).
THEOREM SummariesComplete == Spec => []SummaryComplete
<1>1. Inv => SummaryComplete
  BY DEF Inv, Consolidating, Settled, SummaryComplete
<1> QED BY <1>1, Always, PTL

\* What is published is final: a campaign that is resumed, with orphans of any
\* number of killed supervisors running its episodes again, publishes the same rows
\* or refuses, unless a supervisor died rewriting records.jsonl (the conflict check
\* of _load_unique_records and the order of the writes in main()).
THEOREM PublicationsAreFinal == Spec => PublicationFinal
<1>1. ASSUME Inv, [Next]_vars
      PROVE  [summary # None /\ summary' # summary => cut]_vars
  <2> SUFFICES ASSUME Next, summary # None, ~cut PROVE summary' = summary
    BY <1>1
  <2>1. CASE Publish
    BY <1>1, <2>1 DEF Publish, Inv, Consolidating, Final
  <2>2. CASE Supervise /\ ~Publish
    BY <2>2 DEF Supervise, RunPending, Join, Abort, RetryMissing, GiveUp, LoadRecords,
                RefuseConflict, TruncateRecords, WriteRecords, UnlinkLane, files
  <2>3. CASE \E p \in Processes : Worker(p) \/ Mishap(p)
    BY <2>3 DEF Worker, LeaveQueue, TakePayload, DropPayload, StartEpisode, FinishEpisode,
                AppendRow, Mishap, SwallowFailure, ReportOutage, ReportInvalidResponse,
                AbortOnOutage, AbortOnInitState, WorkerDies, files
  <2>4. CASE Launch \/ HostDies \/ SupervisorDies
    BY <2>4 DEF Launch, HostDies, SupervisorDies, files
  <2> QED BY <2>1, <2>2, <2>3, <2>4 DEF Next
<1> QED BY <1>1, Always, PTL DEF Spec, PublicationFinal

LEMMA StepKeepsRecords ==
  ASSUME Inv, Next, NEW e \in RecordedKeys
  PROVE  e \in RecordedKeys' \/ (sup = "truncate" /\ e \notin KeysOf(LaneRows))
<1>0. Shape /\ lanes \in [Slots -> [rows : SUBSET Row, torn : BOOLEAN]] /\ e \in Episodes
  BY KeysTyped DEF Inv, Shape
<1>1. CASE UNCHANGED <<lanes, consolidated>>
  BY <1>1, KeysSame
<1>2. CASE \E p \in Processes : AppendRow(p)
  <2>1. PICK p \in Processes : AppendRow(p)
    BY <1>2
  <2>2. RowOf(p) \in Row /\ p[2] \in Slots
    BY <1>0, <2>1 DEF AppendRow, RowOf, Row, Shape, Holds, Processes
  <2>3. \A w \in Slots : lanes[w].rows \subseteq lanes'[w].rows
    BY <1>0, <2>1, <2>2, OneMoreRow DEF AppendRow
  <2> QED BY <2>1, <2>3, KeysGrow DEF AppendRow
<1>3. CASE HostDies \/ \E p \in Processes : WorkerDies(p)
  <2>1. \A w \in Slots : lanes'[w].rows = lanes[w].rows
    BY <1>0, <1>3, Torn DEF HostDies, WorkerDies
  <2> QED BY <1>3, <2>1, KeysSame DEF HostDies, WorkerDies
<1>4. CASE TruncateRecords
  <2>1. sup = "truncate" /\ UNCHANGED lanes
    BY <1>4 DEF TruncateRecords
  <2>2. e \in KeysOf(LaneRows) => e \in RecordedKeys'
    BY <2>1, Keys DEF RecordedKeys, KeysOf, LaneRows, Scorable
  <2> QED BY <2>1, <2>2
<1>5. CASE WriteRecords \/ UnlinkLane
  <2>1. Settled(loaded) /\ consolidated' = loaded
    BY <1>5 DEF WriteRecords, UnlinkLane, Inv, Consolidating
  <2>2. PICK r \in loaded : r.key = e /\ Scorable(r)
    BY <1>0, <2>1 DEF Settled
  <2> QED BY <2>1, <2>2 DEF RecordedKeys, KeysOf, LaneRows, Scorable
<1>6. CASE Supervise /\ ~TruncateRecords /\ ~WriteRecords /\ ~UnlinkLane
  BY <1>1, <1>6 DEF Supervise, RunPending, Join, Abort, RetryMissing, GiveUp, LoadRecords,
                    RefuseConflict, Publish, files
<1>7. ASSUME NEW p \in Processes, Worker(p), ~AppendRow(p)
      PROVE  UNCHANGED <<lanes, consolidated>>
  BY <1>7 DEF Worker, LeaveQueue, TakePayload, DropPayload, StartEpisode, FinishEpisode, files
<1>8. ASSUME NEW p \in Processes, Mishap(p), ~WorkerDies(p)
      PROVE  UNCHANGED <<lanes, consolidated>>
  BY <1>8 DEF Mishap, SwallowFailure, ReportOutage, ReportInvalidResponse, AbortOnOutage,
              AbortOnInitState, files
<1>9. CASE Launch \/ SupervisorDies
  BY <1>1, <1>9 DEF Launch, SupervisorDies, files
<1> QED BY <1>1, <1>2, <1>3, <1>4, <1>5, <1>6, <1>7, <1>8, <1>9 DEF Next

\* A recorded episode stays recorded through crashes at any point, but for the
\* truncation of the only copy (consolidation writes records.jsonl before it
\* unlinks the lanes, and _append_worker_row only appends).
THEOREM RecordsKept == Spec => RecordedKept
<1>1. ASSUME Inv, [Next]_vars
      PROVE  [\A e \in RecordedKeys :
                e \in RecordedKeys' \/ (sup = "truncate" /\ e \notin KeysOf(LaneRows))]_vars
  BY <1>1, StepKeepsRecords
<1> QED BY <1>1, Always, PTL DEF Spec, RecordedKept

-----------------------------------------------------------------------------
\* ---- a supervisor that never dies alone ----

\* Only the batch that the supervisor waits for has processes.
Alone == \A p \in Processes : State(p) # Gone => sup = "join" /\ p[1] = "current"

\* An episode is recorded, or queued, or with one process.
Apart ==
  /\ sup = "join" => queue["current"] \cap RecordedKeys = {}
  /\ \A p \in Processes : Holds(p) => State(p).key \notin RecordedKeys \cup queue["current"]
  /\ \A p, q \in Processes : Holds(p) /\ Holds(q) /\ State(p).key = State(q).key => p = q

\* An episode that this session will not record any more.
Forgotten(e) ==
  /\ e \notin RecordedKeys \cup queue["current"]
  /\ \A p \in Processes : Holds(p) /\ State(p).key = e =>
       State(p).at = "record" /\ State(p).kind = "diagnostic"

\* Whoever writes the sentinel leaves its episode behind.
Stranded ==
  /\ sup = "plan" => sentinel = None
  /\ sentinel # None /\ sup \in {"join", "judge"} => \E e \in Episodes : Forgotten(e)
  /\ sup # "down" => status = None

Orderly == Inv /\ Alone /\ Apart /\ Stranded

LEMMA FromAlone ==
  ASSUME Inv, Alone, NEW p \in Processes, State(p) # Gone
  PROVE  sup = "join" /\ p[1] = "current"
  BY DEF Alone

\* A process gives its episode up, having recorded at most that one.
LEMMA Released ==
  ASSUME Inv, Alone, Apart, NEW p \in Processes, State(p) # Gone,
         NEW s \in {Gone, AtQueue}, Becomes(p, s), UNCHANGED <<queue, sup>>,
         \A e \in RecordedKeys' : e \in RecordedKeys \/ (Holds(p) /\ e = State(p).key)
  PROVE  Alone' /\ Apart'
<1>1. s \in ProcessState /\ s.at \in {"gone", "queue"}
  BY Positions
<1>2. \A q \in Processes : State(q)' = IF q = p THEN s ELSE State(q)
  BY <1>1, Moves DEF Inv
<1>3. Alone'
  BY <1>2 DEF Alone
<1>4. \A q \in Processes : Holds(q)' => Holds(q) /\ q # p /\ State(q)' = State(q)
  BY <1>1, <1>2 DEF Holds
<1>5. Apart'
  BY <1>4 DEF Apart
<1> QED BY <1>3, <1>5

\* A process goes on with its episode.
LEMMA Kept ==
  ASSUME Inv, Alone, Apart, NEW p \in Processes, Holds(p),
         NEW s \in ProcessState, s.at \in {"run", "record"}, s.key = State(p).key,
         Becomes(p, s), UNCHANGED <<queue, sup, lanes, consolidated>>
  PROVE  Alone' /\ Apart'
<1>1. \A q \in Processes : State(q)' = IF q = p THEN s ELSE State(q)
  BY Moves DEF Inv
<1>2. RecordedKeys' = RecordedKeys
  BY KeysSame
<1>3. Alone'
  BY <1>1, Positions DEF Alone, Holds
<1>4. \A q \in Processes : Holds(q)' => Holds(q) /\ State(q)'.key = State(q).key
  BY <1>1 DEF Holds
<1>5. Apart'
  BY <1>2, <1>4 DEF Apart
<1> QED BY <1>3, <1>5

\* What a forgotten episode needs to stay forgotten.
LEMMA StillForgotten ==
  ASSUME Inv, NEW p \in Processes, NEW s \in ProcessState, Becomes(p, s), NEW e, Forgotten(e),
         queue'["current"] \subseteq queue["current"], e \notin RecordedKeys',
         s.at \in {"taken", "run", "record"} /\ s.key = e =>
            s.at = "record" /\ s.kind = "diagnostic"
  PROVE  Forgotten(e)'
<1>1. \A q \in Processes : State(q)' = IF q = p THEN s ELSE State(q)
  BY Moves DEF Inv
<1> QED BY <1>1 DEF Forgotten, Holds

\* The only scorable row that AppendRow can add is the one of its process.
LEMMA RowAdded ==
  ASSUME Inv, NEW p \in Processes, AppendRow(p), NEW e \in RecordedKeys'
  PROVE  e \in RecordedKeys \/ (e = State(p).key /\ State(p).kind # "diagnostic")
<1>0. lanes \in [Slots -> [rows : SUBSET Row, torn : BOOLEAN]] /\ p[2] \in Slots
  BY DEF Inv, Shape, Processes
<1>1. RowOf(p) \in Row
  BY DEF Inv, Shape, AppendRow, RowOf, Row, Holds
<1>2. \A w \in Slots : lanes'[w].rows \subseteq lanes[w].rows \cup {RowOf(p)}
  BY <1>0, <1>1, OneMoreRow DEF AppendRow
<1>3. consolidated' = consolidated
  BY DEF AppendRow
<1>4. CASE \E r \in consolidated : Scorable(r) /\ r.key = e
  BY <1>4, Keys
<1>5. CASE \E w \in Slots : \E r \in lanes[w].rows : Scorable(r) /\ r.key = e
  BY <1>5, Keys
<1>6. CASE Scorable(RowOf(p)) /\ RowOf(p).key = e
  BY <1>6 DEF Scorable, RowOf
<1>7. \/ \E r \in consolidated' : Scorable(r) /\ r.key = e
      \/ \E w \in Slots : \E r \in lanes'[w].rows : Scorable(r) /\ r.key = e
  BY DEF RecordedKeys, KeysOf, LaneRows, Scorable
<1> QED BY <1>2, <1>3, <1>4, <1>5, <1>6, <1>7

LEMMA WorkerOrderly ==
  ASSUME Orderly, NEW p \in Processes, Worker(p)
  PROVE  Alone' /\ Apart' /\ Stranded'
<1>0. Inv /\ Alone /\ Apart /\ Stranded /\ Shape
  BY DEF Orderly, Inv
<1>1. State(p) # Gone /\ UNCHANGED <<sentinel, status, sup>>
  BY DEF Worker, LeaveQueue, TakePayload, DropPayload, StartEpisode, FinishEpisode, AppendRow,
         Gone, files, supervisor
<1>2. sup = "join" /\ p[1] = "current"
  BY <1>0, <1>1, FromAlone
<1>3. ASSUME \A e : Forgotten(e) => Forgotten(e)'
      PROVE  Stranded'
  BY <1>0, <1>1, <1>2, <1>3 DEF Stranded
<1>4. CASE LeaveQueue(p) \/ DropPayload(p)
  <2>1. PICK s \in {Gone, AtQueue} : Becomes(p, s)
    BY <1>4 DEF LeaveQueue, DropPayload
  <2>2. UNCHANGED <<lanes, consolidated, queue, sup>> /\ RecordedKeys' = RecordedKeys
    BY <1>4, KeysSame DEF LeaveQueue, DropPayload, files, supervisor
  <2>3. Alone' /\ Apart'
    BY <1>0, <1>1, <2>1, <2>2, Released
  <2>4. \A e : Forgotten(e) => Forgotten(e)'
    BY <1>0, <2>1, <2>2, StillForgotten, Positions DEF Forgotten
  <2> QED BY <1>3, <2>3, <2>4
<1>5. CASE TakePayload(p)
  <2>1. PICK x \in queue[p[1]] :
          /\ queue' = [queue EXCEPT ![p[1]] = @ \ {x}]
          /\ Becomes(p, [at |-> "taken", key |-> x, kind |-> None])
    BY <1>5 DEF TakePayload
  <2> DEFINE s == [at |-> "taken", key |-> x, kind |-> None]
  <2>2. RecordedKeys' = RecordedKeys
    BY <1>5, KeysSame DEF TakePayload, files
  <2>3. x \in Episodes /\ queue'["current"] = queue["current"] \ {x} /\ x \in queue["current"]
    BY <1>0, <1>2, <2>1 DEF Shape, Batches
  <2>4. s \in ProcessState
    BY <2>3 DEF ProcessState
  <2>5. \A q \in Processes : State(q)' = IF q = p THEN s ELSE State(q)
    <3> HIDE DEF s
    <3> QED BY <1>0, <2>1, <2>4, Moves DEF s
  <2>6. Alone'
    BY <1>0, <1>1, <1>2, <2>5 DEF Alone
  <2>7. x \notin RecordedKeys
    BY <1>0, <1>2, <2>3 DEF Apart
  <2>8. \A q \in Processes : Holds(q)' => q = p \/ (Holds(q) /\ State(q)' = State(q))
    BY <2>5 DEF Holds
  <2>9. \A q \in Processes : Holds(q) => State(q).key # x
    BY <1>0, <2>3 DEF Apart
  <2>10. State(p)'.key = x
    BY <2>5
  <2>11. Apart'
    BY <1>0, <1>1, <2>2, <2>3, <2>7, <2>8, <2>9, <2>10 DEF Apart
  <2>12. ASSUME NEW e, Forgotten(e) PROVE Forgotten(e)'
    <3>1. e # x /\ e \notin RecordedKeys'
      BY <2>2, <2>3, <2>12 DEF Forgotten
    <3> QED BY <1>0, <2>1, <2>3, <2>4, <2>12, <3>1, StillForgotten
  <2> QED BY <1>3, <2>6, <2>11, <2>12
<1>6. CASE StartEpisode(p) \/ FinishEpisode(p)
  <2>1. Holds(p) /\ State(p).at # "record"
    BY <1>6 DEF StartEpisode, FinishEpisode, Holds
  <2>2. PICK at \in {"run", "record"}, kind \in Kinds \cup {None} : Becomes(p, Holding(p, at, kind))
    BY <1>6 DEF StartEpisode, FinishEpisode, Kinds
  <2>3. UNCHANGED <<lanes, consolidated, queue, sup>> /\ RecordedKeys' = RecordedKeys
    BY <1>6, KeysSame DEF StartEpisode, FinishEpisode, files, supervisor
  <2>4. Holding(p, at, kind) \in ProcessState /\ Holding(p, at, kind).at = at
        /\ Holding(p, at, kind).key = State(p).key
    BY <1>0, <2>1, Held
  <2>5. Alone' /\ Apart'
    BY <1>0, <2>1, <2>2, <2>3, <2>4, Kept
  <2>6. ASSUME NEW e, Forgotten(e) PROVE Forgotten(e)'
    <3>1. State(p).key # e /\ e \notin RecordedKeys'
      BY <2>1, <2>3, <2>6 DEF Forgotten
    <3> QED BY <1>0, <2>2, <2>3, <2>4, <2>6, <3>1, StillForgotten
  <2> QED BY <1>3, <2>5, <2>6
<1>7. CASE AppendRow(p)
  <2>1. Holds(p) /\ Becomes(p, AtQueue) /\ UNCHANGED <<queue, sup>> /\ State(p).at = "record"
    BY <1>7 DEF AppendRow, Holds, supervisor
  <2>2. \A e \in RecordedKeys' :
          e \in RecordedKeys \/ (e = State(p).key /\ State(p).kind # "diagnostic")
    BY <1>0, <1>7, RowAdded
  <2>3. Alone' /\ Apart'
    BY <1>0, <1>1, <2>1, <2>2, Released
  <2>4. ASSUME NEW e, Forgotten(e) PROVE Forgotten(e)'
    <3>1. e \notin RecordedKeys'
      BY <2>1, <2>2, <2>4 DEF Forgotten
    <3> QED BY <1>0, <2>1, <2>4, <3>1, StillForgotten, Positions
  <2> QED BY <1>3, <2>3, <2>4
<1> QED BY <1>4, <1>5, <1>6, <1>7 DEF Worker

LEMMA MishapOrderly ==
  ASSUME Orderly, NEW p \in Processes, Mishap(p)
  PROVE  Alone' /\ Apart' /\ Stranded'
<1>0. Inv /\ Alone /\ Apart /\ Stranded /\ Shape
      /\ lanes \in [Slots -> [rows : SUBSET Row, torn : BOOLEAN]]
  BY DEF Orderly, Inv, Shape
<1>1. State(p) # Gone /\ UNCHANGED <<status, sup, consolidated, queue>>
  BY DEF Mishap, SwallowFailure, ReportOutage, ReportInvalidResponse, AbortOnOutage,
         AbortOnInitState, WorkerDies, Gone, files, supervisor
<1>2. sup = "join"
  BY <1>0, <1>1, FromAlone
<1>3. RecordedKeys' = RecordedKeys
  <2>1. CASE WorkerDies(p)
    BY <1>0, <1>1, <2>1, Torn, KeysSame DEF WorkerDies
  <2>2. CASE ~WorkerDies(p)
    BY <1>1, <2>2, KeysSame DEF Mishap, SwallowFailure, ReportOutage, ReportInvalidResponse,
                        AbortOnOutage, AbortOnInitState, files
  <2> QED BY <2>1, <2>2
<1>4. CASE SwallowFailure(p) \/ ReportInvalidResponse(p) \/ ReportOutage(p)
  <2>1. Holds(p) /\ State(p).at = "run" /\ UNCHANGED lanes
    BY <1>4 DEF SwallowFailure, ReportOutage, ReportInvalidResponse, Holds, files
  <2>2. PICK kind \in Kinds :
          Becomes(p, Holding(p, "record", kind)) /\ (ReportOutage(p) => kind = "diagnostic")
    BY <1>4 DEF SwallowFailure, ReportOutage, ReportInvalidResponse, Kinds
  <2> DEFINE s == Holding(p, "record", kind)
  <2>3. s \in ProcessState /\ s.at = "record" /\ s.key = State(p).key /\ s.kind = kind
    BY <1>0, <2>1, Held
  <2>4. Alone' /\ Apart'
    BY <1>0, <1>1, <2>1, <2>2, <2>3, Kept
  <2>5. ASSUME ReportOutage(p) PROVE \E e \in Episodes : Forgotten(e)'
    <3>0. PICK k \in Episodes : k = State(p).key
      BY <1>0, <2>1 DEF Shape
    <3>1. k \notin RecordedKeys' \cup queue'["current"]
      BY <1>0, <1>1, <1>3, <2>1, <3>0 DEF Apart
    <3>2. \A q \in Processes : State(q)' = IF q = p THEN s ELSE State(q)
      <4> HIDE DEF s
      <4> QED BY <1>0, <2>2, <2>3, Moves DEF s
    <3>3. \A q \in Processes : Holds(q) /\ State(q).key = k => q = p
      BY <1>0, <2>1, <3>0 DEF Apart
    <3>4. \A q \in Processes : Holds(q)' /\ State(q)'.key = k => q = p
      BY <3>2, <3>3 DEF Holds
    <3>5. State(p)' = s /\ s.kind = "diagnostic" /\ State(p)'.key = k
      BY <2>2, <2>3, <2>5, <3>0, <3>2
    <3> QED BY <2>3, <3>1, <3>4, <3>5 DEF Forgotten
  <2>6. ASSUME NEW e, Forgotten(e), ~ReportOutage(p) PROVE Forgotten(e)'
    <3>1. State(p).key # e /\ e \notin RecordedKeys'
      BY <1>3, <2>1, <2>6 DEF Forgotten
    <3> QED BY <1>0, <1>1, <2>2, <2>3, <2>6, <3>1, StillForgotten
  <2>7. ~ReportOutage(p) => UNCHANGED sentinel
    BY <1>4 DEF SwallowFailure, ReportInvalidResponse, files
  <2>8. Stranded'
    BY <1>0, <1>1, <1>2, <2>5, <2>6, <2>7 DEF Stranded
  <2> QED BY <2>4, <2>8
<1>5. CASE AbortOnOutage(p) \/ AbortOnInitState(p)
  <2>1. Holds(p) /\ Becomes(p, AtQueue) /\ State(p).key \in Episodes
    BY <1>0, <1>5 DEF AbortOnOutage, AbortOnInitState, Holds, Shape
  <2>2. Alone' /\ Apart'
    BY <1>0, <1>1, <1>3, <2>1, Released
  <2>3. \E e \in Episodes : Forgotten(e)'
    <3>0. PICK k \in Episodes : k = State(p).key
      BY <2>1
    <3>1. k \notin RecordedKeys' \cup queue'["current"]
      BY <1>0, <1>1, <1>3, <2>1, <3>0 DEF Apart
    <3>2. \A q \in Processes : State(q)' = IF q = p THEN AtQueue ELSE State(q)
      BY <1>0, <2>1, Moves, Positions
    <3>3. \A q \in Processes : Holds(q) /\ State(q).key = k => q = p
      BY <1>0, <2>1, <3>0 DEF Apart
    <3>4. \A q \in Processes : Holds(q)' => State(q)'.key # k
      BY <3>2, <3>3, Positions DEF Holds
    <3> QED BY <3>1, <3>4 DEF Forgotten
  <2>4. Stranded'
    BY <1>0, <1>1, <1>2, <2>1, <2>3 DEF Stranded
  <2> QED BY <2>2, <2>4
<1>6. CASE WorkerDies(p)
  <2>1. Becomes(p, Gone) /\ UNCHANGED sentinel
    BY <1>6 DEF WorkerDies
  <2>2. Alone' /\ Apart'
    BY <1>0, <1>1, <1>3, <2>1, Released
  <2>3. ASSUME NEW e, Forgotten(e) PROVE Forgotten(e)'
    <3>1. e \notin RecordedKeys'
      BY <1>3, <2>3 DEF Forgotten
    <3> QED BY <1>0, <1>1, <2>1, <2>3, <3>1, StillForgotten, Positions
  <2>4. Stranded'
    BY <1>0, <1>1, <1>2, <2>1, <2>3 DEF Stranded
  <2> QED BY <2>2, <2>4
<1> QED BY <1>4, <1>5, <1>6 DEF Mishap

\* No process is left when the supervisor does not wait for one.
LEMMA Idle ==
  ASSUME \A q \in Processes : State(q)' = Gone
  PROVE  /\ Alone'
         /\ (sup' = "join" => (queue["current"] \cap RecordedKeys)' = {}) => Apart'
  BY Positions DEF Alone, Apart, Holds

LEMMA SuperviseOrderly ==
  ASSUME Orderly, Supervise
  PROVE  Alone' /\ Apart' /\ Stranded'
<1>0. Inv /\ Alone /\ Apart /\ Stranded /\ Shape
  BY DEF Orderly, Inv
<1>1. \A q \in Processes : q[1] \in Batches /\ q[2] \in Slots /\ q = <<q[1], q[2]>>
  BY DEF Processes
<1>2. CASE (RunPending \/ RetryMissing) /\ StartBatch(MissingPayloads)
  <2>1. /\ sup # "join" /\ sup' = "join" /\ UNCHANGED files /\ sentinel = None /\ status = None
    BY <1>0, <1>2 DEF RunPending, RetryMissing, JudgeUnaborted, StartBatch, Stranded
  <2>2. \A q \in Processes : State(q) = Gone
    BY <1>0, <2>1 DEF Alone
  <2>3. RecordedKeys' = RecordedKeys
    BY <2>1, KeysSame DEF files
  <2>4. queue'["current"] = MissingPayloads
    BY <1>0, <1>2 DEF StartBatch, Shape, Batches
  <2>5. \A q \in Processes : q[1] # "current" => State(q)' = State(q)
    BY <1>0, <1>1, <1>2 DEF StartBatch, Shape, State
  <2>6. \A q \in Processes : State(q)' \in {State(q), AtQueue, Gone}
    BY <1>0, <1>2, Batch
  <2>7. Alone'
    BY <2>1, <2>2, <2>5 DEF Alone
  <2>8. \A q \in Processes : ~Holds(q)'
    BY <2>2, <2>6, Positions DEF Holds
  <2>9. Apart'
    BY <2>3, <2>4, <2>8 DEF Apart, MissingPayloads
  <2>10. Stranded'
    BY <2>1 DEF Stranded, files
  <2> QED BY <2>7, <2>9, <2>10
<1>3. CASE RunPending /\ ~StartBatch(MissingPayloads)
  <2>1. sup = "plan" /\ sup' = "judge" /\ UNCHANGED <<files, proc>>
        /\ sentinel = None /\ status = None
    BY <1>0, <1>3 DEF RunPending, Stranded
  <2>2. \A q \in Processes : State(q)' = Gone
    BY <1>0, <2>1 DEF Alone, State
  <2>3. Stranded'
    BY <2>1 DEF Stranded, files
  <2> QED BY <2>1, <2>2, <2>3, Idle
<1>4. CASE Join
  <2>1. /\ sup = "join" /\ sup' = "judge"
        /\ UNCHANGED <<lanes, consolidated, sentinel, status, proc, queue>>
    BY <1>4 DEF Join, files, workers
  <2>2. \A q \in Processes : State(q) = Gone
    BY <1>0, <1>1, <1>4 DEF Join, Alone, State
  <2>3. \A q \in Processes : State(q)' = Gone
    BY <2>1, <2>2 DEF State
  <2>4. ASSUME NEW e, Forgotten(e) PROVE Forgotten(e)'
    BY <2>1, <2>3, <2>4, Positions, KeysSame DEF Forgotten, Holds
  <2>5. Stranded'
    BY <1>0, <2>1, <2>4 DEF Stranded
  <2> QED BY <2>1, <2>3, <2>5, Idle
<1>5. CASE Abort \/ GiveUp \/ RefuseConflict \/ Publish
  <2>1. sup \in {"judge", "unlink"} /\ sup' = "down" /\ UNCHANGED proc
    BY <1>5 DEF Abort, GiveUp, RefuseConflict, Publish, JudgeUnaborted, Exit, workers
  <2>2. \A q \in Processes : State(q)' = Gone
    BY <1>0, <2>1 DEF Alone, State
  <2>3. Stranded'
    BY <2>1 DEF Stranded
  <2> QED BY <2>1, <2>2, <2>3, Idle
<1>6. CASE LoadRecords \/ TruncateRecords \/ WriteRecords \/ UnlinkLane
  <2>1. /\ sup \in {"judge", "truncate", "write", "unlink"}
        /\ sup' \in {"truncate", "write", "unlink"} /\ UNCHANGED <<proc, status>>
    BY <1>6 DEF LoadRecords, TruncateRecords, WriteRecords, UnlinkLane, JudgeUnaborted, files,
                workers, supervisor
  <2>2. \A q \in Processes : State(q)' = Gone
    BY <1>0, <2>1 DEF Alone, State
  <2>3. Stranded'
    BY <1>0, <2>1 DEF Stranded
  <2> QED BY <2>1, <2>2, <2>3, Idle
<1> QED BY <1>2, <1>3, <1>4, <1>5, <1>6 DEF Supervise, RetryMissing

LEMMA OrderlyInductive ==
  ASSUME SupervisorDiesAlone = FALSE, Orderly, [Next]_vars
  PROVE  Orderly'
<1>0. Inv /\ Alone /\ Apart /\ Stranded /\ Inv'
  BY Inductive DEF Orderly
<1>1. CASE UNCHANGED vars
  <2>1. /\ UNCHANGED <<lanes, consolidated, sentinel, status, sup, proc, queue>>
        /\ \A q \in Processes : State(q)' = State(q)
    BY <1>1 DEF vars, files, supervisor, workers, State
  <2>2. RecordedKeys' = RecordedKeys
    BY <2>1, KeysSame
  <2>3. Alone' /\ Apart'
    BY <1>0, <2>1, <2>2 DEF Alone, Apart, Holds
  <2>4. ASSUME NEW e, Forgotten(e) PROVE Forgotten(e)'
    BY <2>1, <2>2, <2>4 DEF Forgotten, Holds
  <2>5. Stranded'
    BY <1>0, <2>1, <2>4 DEF Stranded
  <2> QED BY <1>0, <2>3, <2>5 DEF Orderly
<1>2. CASE Launch
  <2>1. /\ sup = "down" /\ sup' = "plan" /\ sentinel' = None /\ status' = None
        /\ UNCHANGED proc
    BY <1>2 DEF Launch, SentinelAside, workers
  <2>2. \A q \in Processes : State(q)' = Gone
    BY <1>0, <2>1 DEF Alone, State
  <2>3. Stranded'
    BY <2>1 DEF Stranded
  <2> QED BY <1>0, <2>1, <2>2, <2>3, Idle DEF Orderly
<1>3. CASE HostDies
  <2>1. sup' = "down" /\ \A q \in Processes : State(q)' = Gone
    BY <1>3 DEF HostDies, NoProcess, State, Processes
  <2>2. Stranded'
    BY <2>1 DEF Stranded
  <2> QED BY <1>0, <2>1, <2>2, Idle DEF Orderly
<1>4. ~SupervisorDies
  BY DEF SupervisorDies
<1> QED
  BY <1>0, <1>1, <1>2, <1>3, <1>4, WorkerOrderly, MishapOrderly, SuperviseOrderly
     DEF Next, Orderly

LEMMA AlwaysOrderly ==
  ASSUME SupervisorDiesAlone = FALSE
  PROVE  Spec => []Orderly
<1>1. Init => Orderly
  <2> SUFFICES ASSUME Init PROVE Orderly
    OBVIOUS
  <2>1. \A p \in Processes : State(p) = Gone
    BY DEF Init, NoProcess, State, Processes
  <2>2. Alone /\ Apart /\ Stranded
    BY <2>1, Positions DEF Init, Alone, Apart, Stranded, Holds
  <2> QED BY <2>2, Start DEF Orderly
<1>2. Orderly /\ [Next]_vars => Orderly'
  BY OrderlyInductive
<1> QED BY <1>1, <1>2, PTL DEF Spec

\* The one-reset contract: with the supervisor's workers, retries, outages,
\* crashes of workers and of the host, no episode runs in two processes and no
\* recorded episode runs again (run_batch gets the missing payloads only, and
\* join waits for every worker before the next batch).
THEOREM EpisodesResetOnce ==
  ASSUME SupervisorDiesAlone = FALSE
  PROVE  Spec => []OneReset
<1>1. Orderly => OneReset
  BY DEF Orderly, Apart, OneReset, Running, Holds
<1> QED BY <1>1, AlwaysOrderly, PTL

\* A session that pauses with status 75 leaves an episode to resume: no other
\* worker can record the one whose outage wrote the sentinel (the abort branch
\* of main() and the diagnostic rows of _worker).
THEOREM PausesLeaveWork ==
  ASSUME SupervisorDiesAlone = FALSE
  PROVE  Spec => PauseLeavesWork
<1>1. ASSUME Orderly, [Next]_vars
      PROVE  [sup = "judge" /\ status' = 75 => MissingPayloads # {}]_vars
  <2> SUFFICES ASSUME Next, sup = "judge", status' = 75
               PROVE  MissingPayloads # {}
    BY <1>1
  <2>1. Inv /\ Alone /\ Stranded /\ status = None /\ None # 75
    BY <1>1, NoneAssumption DEF Orderly, Stranded
  <2>2. \A p \in Processes : State(p) = Gone
    BY <2>1 DEF Alone
  <2>3. ASSUME NEW p \in Processes PROVE ~Worker(p) /\ ~Mishap(p)
    BY <2>2, Positions DEF Worker, LeaveQueue, TakePayload, DropPayload, StartEpisode,
       FinishEpisode, AppendRow, Mishap, SwallowFailure, ReportOutage, ReportInvalidResponse,
       AbortOnOutage, AbortOnInitState, WorkerDies
  <2>4. ~Launch /\ ~HostDies /\ ~SupervisorDies
    BY <2>1 DEF Launch, HostDies, SupervisorDies, files
  <2>5. Abort
    BY <2>1, <2>3, <2>4 DEF Next, Supervise, RunPending, Join, RetryMissing, GiveUp, LoadRecords,
       RefuseConflict, TruncateRecords, WriteRecords, UnlinkLane, Publish, Exit, files
  <2>6. PICK e \in Episodes : Forgotten(e)
    BY <2>1, <2>5 DEF Abort, Stranded
  <2> QED BY <2>6 DEF Forgotten, MissingPayloads
<1> QED BY <1>1, AlwaysOrderly, PTL DEF Spec, PauseLeavesWork
=============================================================================
