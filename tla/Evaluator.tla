----------------------------- MODULE Evaluator -----------------------------
(***************************************************************************)
(* scripts/eval_full_agent.py: a supervisor runs the missing episodes of a *)
(* campaign in worker processes that share a queue, an output directory    *)
(* and the abort sentinel, and turns what they recorded into a summary.    *)
(*                                                                         *)
(* The output directory is durable and any number of sessions may work on  *)
(* it, each started with --resume after the first.  Workers die below      *)
(* Python, the host dies, or the supervisor dies alone and leaves its      *)
(* workers running as orphans.                                             *)
(*                                                                         *)
(* What an agent does in an episode is abstracted to how the episode ends: *)
(* finished, stopped by a failed model call that the agent swallowed,      *)
(* stopped by one that a tool reported, or left by an exception.  Steps,   *)
(* videos, statistics and the order of the queue are left out.             *)
(***************************************************************************)
EXTENDS Integers, FiniteSets

CONSTANTS
  Episodes,             \* the payload keys of the campaign
  WorkerCount,          \* --workers
  WorkerRetries,        \* --worker-retries
  SupervisorDiesAlone,  \* whether the supervisor may be killed without its workers
  MaxFaults,            \* bound: outages, kills and broken replies
  None                  \* Python's None; for a file, its absence

ASSUME CampaignAssumption ==
  /\ IsFiniteSet(Episodes)
  /\ WorkerCount \in Nat \ {0}
  /\ WorkerRetries \in Nat
  /\ SupervisorDiesAlone \in BOOLEAN
  /\ MaxFaults \in Nat

Slots == 1..WorkerCount
Batches == {"current", "orphaned"}
Processes == Batches \X Slots

ExternalReasons == {"quota_exhausted", "provider_unavailable"}
Reasons == ExternalReasons \cup {"infrastructure_invariant"}

(* A recorded episode; reset tells the rows of repeated runs apart.  An       *)
(* "excused" row is one whose agent swallowed a model call that got no reply. *)
Kinds == {"completed", "excused", "diagnostic"}
Row == [key: Episodes, reset: Nat, kind: Kinds]
ProcessState == [at: {"gone", "queue", "taken", "run", "record"},
                 key: Episodes \cup {None}, kind: Kinds \cup {None}]

ASSUME NoneAssumption == None \notin Episodes \cup Kinds \cup Reasons /\ None \notin {0, 1, 75}

VARIABLES
  (* the output directory *)
  lanes,         \* records.worker*.jsonl: rows, and whether the last line is torn
  consolidated,  \* the rows of records.jsonl
  sentinel,      \* the reason in ABORTED.json, or None
  summary,       \* the rows of summary.json, or None
  status,        \* exit status of the last session, None while or if it has none
  (* the supervisor *)
  sup,           \* where main() is, "down" when there is no supervisor
  retry,         \* retries so far
  loaded,        \* rows that consolidation is writing
  unlinked,      \* how many lanes it has removed
  (* its workers, and those of a dead supervisor *)
  proc,          \* state of each worker process
  queue,         \* payloads left in each batch's queue
  resets,        \* how often each episode was started
  (* observation and bound *)
  structural,    \* an init-state violation occurred in this session
  cut,           \* records.jsonl of a published campaign was left half written
  faults         \* faults so far

files == <<lanes, consolidated, sentinel, summary, status>>
supervisor == <<sup, retry, loaded, unlinked>>
workers == <<proc, queue, resets>>
observed == <<structural, cut>>
vars == <<files, supervisor, workers, observed, faults>>

Fault == faults < MaxFaults /\ faults' = faults + 1
NoFault == UNCHANGED faults
-----------------------------------------------------------------------------
(* What the files say. *)

Scorable(row) == row.kind # "diagnostic"
KeysOf(rows) == {row.key: row \in {r \in rows: Scorable(r)}}
LaneRows == UNION {lanes[w].rows: w \in Slots}

(* _all_recorded_keys: scorable rows of records.jsonl and of the lanes. *)
RecordedKeys == KeysOf(consolidated \cup LaneRows)

MissingFromLanes == Episodes \ KeysOf(LaneRows)  \* mutant

(* The payloads a session still has to run. *)
MissingPayloads == Episodes \ RecordedKeys

NeverConflicting(rows) == FALSE  \* mutant

(* _load_unique_records: two differing scorable rows of one episode. *)
Conflicting(rows) ==
  \E r, s \in rows: r # s /\ r.key = s.key /\ Scorable(r) /\ Scorable(s)

AnyRow(rows) == rows  \* mutant

(* _load_unique_records when every episode has a scorable row. *)
UniqueRecords(rows) == {r \in rows: Scorable(r)}
-----------------------------------------------------------------------------
(* Worker processes: _queue_worker and _worker. *)

Gone == [at |-> "gone", key |-> None, kind |-> None]
AtQueue == [at |-> "queue", key |-> None, kind |-> None]

Becomes(p, state) == proc' = [proc EXCEPT ![p[1]][p[2]] = state]
State(p) == proc[p[1]][p[2]]
Holding(p, at, kind) == [at |-> at, key |-> State(p).key, kind |-> kind]

(* Only the None that run_batch put for this process is left. *)
QueueClosed(p) == queue[p[1]] = {}

(* _queue_worker returns: the sentinel is there, or the queue is closed. *)
LeaveQueue(p) ==
  /\ State(p).at = "queue"
  /\ sentinel # None \/ QueueClosed(p)
  /\ Becomes(p, Gone)
  /\ UNCHANGED <<files, supervisor, queue, resets, observed, faults>>

TakePayload(p) ==
  /\ State(p).at = "queue"
  /\ sentinel = None
  /\ \E e \in queue[p[1]]:
       /\ queue' = [queue EXCEPT ![p[1]] = @ \ {e}]
       /\ Becomes(p, [at |-> "taken", key |-> e, kind |-> None])
  /\ UNCHANGED <<files, supervisor, resets, observed, faults>>

(* _worker looks at the sentinel again before it builds the simulator. *)
DropPayload(p) ==
  /\ State(p).at = "taken"
  /\ sentinel # None
  /\ Becomes(p, AtQueue)
  /\ UNCHANGED <<files, supervisor, queue, resets, observed, faults>>

StartEpisode(p) ==
  /\ State(p).at = "taken"
  /\ sentinel = None
  /\ resets' = [resets EXCEPT ![State(p).key] = @ + 1]
  /\ Becomes(p, Holding(p, "run", None))
  /\ UNCHANGED <<files, supervisor, queue, observed, faults>>

(* The agent stopped by itself, at the deadline, or with an error of its own. *)
FinishEpisode(p) ==
  /\ State(p).at = "run"
  /\ Becomes(p, Holding(p, "record", "completed"))
  /\ UNCHANGED <<files, supervisor, queue, resets, observed, faults>>

(* llm.ask raises: by the sentinel of another worker, always as LLMQuotaError, *)
(* or because the provider fails.  reason is what the sentinel will then say.  *)
CallRefused(reason) == sentinel # None /\ reason = "quota_exhausted" /\ NoFault
CallFails(reason) == CallRefused(reason) \/ Fault

(* run_full_episode, run_episode and their reflections catch the error of a   *)
(* planning, decision or diagnosis call and carry on or stop without report;  *)
(* _worker itself catches an LLMError that is no quota or routing error.      *)
SwallowFailure(p) ==
  /\ State(p).at = "run"
  /\ \E reason \in ExternalReasons: CallFails(reason)
  /\ Becomes(p, Holding(p, "record", "excused"))
  /\ UNCHANGED <<files, supervisor, queue, resets, observed>>

(* Session.run reports the failure of a tool's call; _worker writes the       *)
(* sentinel and keeps the episode as a diagnostic row.                        *)
ReportOutage(p) ==
  /\ State(p).at = "run"
  /\ \E reason \in ExternalReasons: CallFails(reason) /\ sentinel' = reason
  /\ Becomes(p, Holding(p, "record", "diagnostic"))
  /\ UNCHANGED <<lanes, consolidated, summary, status, supervisor, queue, resets, observed>>

(* A tool reports a reply without visual evidence: no sentinel. *)
ReportInvalidResponse(p) ==
  /\ State(p).at = "run"
  /\ Fault
  /\ Becomes(p, Holding(p, "record", "diagnostic"))
  /\ UNCHANGED <<files, supervisor, queue, resets, observed>>

(* A candidate controller lets the error through: the episode has no row. *)
AbortOnOutage(p) ==
  /\ State(p).at = "run"
  /\ \E reason \in ExternalReasons: CallFails(reason) /\ sentinel' = reason
  /\ Becomes(p, AtQueue)
  /\ UNCHANGED <<lanes, consolidated, summary, status, supervisor, queue, resets, observed>>

(* _validate_applied_init_state: the simulator was reset to another state. *)
AbortOnInitState(p) ==
  /\ State(p).at = "run"
  /\ Fault
  /\ sentinel' = "infrastructure_invariant"
  /\ structural' = TRUE /\ UNCHANGED cut
  /\ Becomes(p, AtQueue)
  /\ UNCHANGED <<lanes, consolidated, summary, status, supervisor, queue, resets>>

RowAsScorable(p) ==  \* mutant
  [key |-> State(p).key, reset |-> resets[State(p).key], kind |-> "completed"]

RowOf(p) == [key |-> State(p).key, reset |-> resets[State(p).key], kind |-> State(p).kind]

LaneOverwritten(lane, row) == [rows |-> {row}, torn |-> FALSE]  \* mutant

(* A lane after a row was appended.  After a torn line the row ends up on the *)
(* same line, which then is no JSON.                                          *)
Appended(lane, row) ==
  IF lane.torn
  THEN [lane EXCEPT !.torn = FALSE]
  ELSE [lane EXCEPT !.rows = @ \cup {row}]

AppendRow(p) ==
  /\ State(p).at = "record"
  /\ lanes' = [lanes EXCEPT ![p[2]] = Appended(@, RowOf(p))]
  /\ Becomes(p, AtQueue)
  /\ UNCHANGED <<consolidated, sentinel, summary, status, supervisor, queue, resets,
                 observed, faults>>

(* The lanes after the processes in P were killed: a row that was being       *)
(* written may leave a torn line.                                             *)
TornBy(P) ==
  {[w \in Slots |-> [lanes[w] EXCEPT !.torn = @ \/ w \in T]]:
     T \in SUBSET {p[2]: p \in {q \in P: State(q).at = "record"}}}

(* A native crash of the simulator, or the system's out-of-memory killer. *)
WorkerDies(p) ==
  /\ State(p) # Gone
  /\ Fault
  /\ lanes' \in TornBy({p})
  /\ Becomes(p, Gone)
  /\ UNCHANGED <<consolidated, sentinel, summary, status, supervisor, queue, resets, observed>>

Worker(p) ==
  LeaveQueue(p) \/ TakePayload(p) \/ DropPayload(p) \/ StartEpisode(p) \/ FinishEpisode(p)
  \/ AppendRow(p)

Mishap(p) ==
  SwallowFailure(p) \/ ReportOutage(p) \/ ReportInvalidResponse(p) \/ AbortOnOutage(p)
  \/ AbortOnInitState(p) \/ WorkerDies(p)
-----------------------------------------------------------------------------
(* The supervisor: main(). *)

(* run_batch: one process for each payload, at most WorkerCount. *)
StartBatch(payloads) ==
  /\ queue' = [queue EXCEPT !.current = payloads]
  /\ proc' = [proc EXCEPT !.current =
                [w \in Slots |-> IF w <= Cardinality(payloads) THEN AtQueue ELSE Gone]]
  /\ sup' = "join"

Exit(code) ==
  /\ sup' = "down"
  /\ status' = code
  /\ retry' = 0
  /\ loaded' = {} /\ unlinked' = 0

SentinelKept == sentinel  \* mutant

(* --resume renames the sentinel of the session before. *)
SentinelAside == None

Launch ==
  /\ sup = "down"
  /\ sentinel' = SentinelAside
  /\ status' = None
  /\ structural' = FALSE
  /\ sup' = "plan"
  /\ UNCHANGED <<lanes, consolidated, summary, retry, loaded, unlinked, workers, cut, faults>>

(* The first batch: whatever the directory does not record yet. *)
RunPending ==
  /\ sup = "plan"
  /\ IF MissingPayloads # {}
     THEN StartBatch(MissingPayloads)
     ELSE sup' = "judge" /\ UNCHANGED <<proc, queue>>
  /\ UNCHANGED <<files, retry, loaded, unlinked, resets, observed, faults>>

Join ==
  /\ sup = "join"
  /\ \A w \in Slots: proc["current"][w] = Gone
  /\ sup' = "judge"
  /\ UNCHANGED <<files, retry, loaded, unlinked, workers, observed, faults>>

(* _abort_exit_code. *)
AbortExitCode == IF sentinel \in ExternalReasons THEN 75 ELSE 1

(* checkpoint.json is written for the reader; nothing reads it back. *)
Abort ==
  /\ sup = "judge"
  /\ sentinel # None
  /\ Exit(AbortExitCode)
  /\ UNCHANGED <<lanes, consolidated, sentinel, summary, workers, observed, faults>>

JudgeUnaborted == sup = "judge" /\ sentinel = None
RetriesLeft == retry < WorkerRetries

RetryMissing ==
  /\ JudgeUnaborted
  /\ MissingPayloads # {}
  /\ RetriesLeft
  /\ retry' = retry + 1
  /\ StartBatch(MissingPayloads)
  /\ UNCHANGED <<files, loaded, unlinked, resets, observed, faults>>

GiveUp ==
  /\ JudgeUnaborted
  /\ MissingPayloads # {}
  /\ ~RetriesLeft
  /\ Exit(1)
  /\ UNCHANGED <<lanes, consolidated, sentinel, summary, workers, observed, faults>>

LoadRecords ==
  /\ JudgeUnaborted
  /\ MissingPayloads = {}
  /\ ~Conflicting(consolidated \cup LaneRows)
  /\ loaded' = UniqueRecords(consolidated \cup LaneRows)
  /\ sup' = "truncate"
  /\ UNCHANGED <<files, retry, unlinked, workers, observed, faults>>

(* InfrastructureInvariantError: conflicting resume records. *)
RefuseConflict ==
  /\ JudgeUnaborted
  /\ MissingPayloads = {}
  /\ Conflicting(consolidated \cup LaneRows)
  /\ Exit(1)
  /\ UNCHANGED <<lanes, consolidated, sentinel, summary, workers, observed, faults>>

(* jsonl.write_text opens records.jsonl for writing and fills it by and by. *)
TruncateRecords ==
  /\ sup = "truncate"
  /\ consolidated' \in SUBSET loaded
  /\ sup' = "write"
  /\ UNCHANGED <<lanes, sentinel, summary, status, retry, loaded, unlinked, workers, observed,
                 faults>>

WriteRecords ==
  /\ sup = "write"
  /\ consolidated' = loaded
  /\ sup' = "unlink"
  /\ UNCHANGED <<lanes, sentinel, summary, status, retry, loaded, unlinked, workers, observed,
                 faults>>

EmptyLane == [rows |-> {}, torn |-> FALSE]

(* The lanes are removed one after the other, whatever has been appended to   *)
(* them since they were read.                                                 *)
UnlinkLane ==
  /\ sup = "unlink"
  /\ unlinked < WorkerCount
  /\ unlinked' = unlinked + 1
  /\ lanes' = [lanes EXCEPT ![unlinked + 1] = EmptyLane]
  /\ UNCHANGED <<consolidated, sentinel, summary, status, sup, retry, loaded, workers,
                 observed, faults>>

Publish ==
  /\ sup = "unlink"
  /\ unlinked = WorkerCount
  /\ summary' = loaded
  /\ Exit(0)
  /\ UNCHANGED <<lanes, consolidated, sentinel, workers, observed, faults>>

Supervise ==
  RunPending \/ Join \/ Abort \/ RetryMissing \/ GiveUp \/ LoadRecords \/ RefuseConflict
  \/ TruncateRecords \/ WriteRecords \/ UnlinkLane \/ Publish
-----------------------------------------------------------------------------
(* The host and the operator. *)

(* Whoever dies between the two writes leaves records.jsonl half written.      *)
DiesWriting == cut' = (cut \/ (sup = "write" /\ summary # None)) /\ UNCHANGED structural

NoProcess == [b \in Batches |-> [w \in Slots |-> Gone]]

(* Everything dies: power, a cancelled job, Ctrl-C. *)
HostDies ==
  /\ sup # "down"
  /\ Fault
  /\ lanes' \in TornBy(Processes)
  /\ proc' = NoProcess
  /\ queue' = [b \in Batches |-> {}]
  /\ sup' = "down" /\ retry' = 0 /\ loaded' = {} /\ unlinked' = 0
  /\ DiesWriting
  /\ UNCHANGED <<consolidated, sentinel, summary, status, resets>>

(* A signal to the supervisor alone.  Its workers are no daemons: they go on  *)
(* with what its feeder thread had already written to the pipe.  The model    *)
(* has one batch of orphans at a time.                                        *)
SupervisorDies ==
  /\ SupervisorDiesAlone
  /\ sup # "down"
  /\ Fault
  /\ \E b \in Batches:
       /\ \A c \in Batches \ {b}: proc[c] = NoProcess[c]
       /\ proc' = [NoProcess EXCEPT !.orphaned = proc[b]]
       /\ \E flushed \in SUBSET queue[b]:
            queue' = [b1 \in Batches |-> IF b1 = "orphaned" THEN flushed ELSE {}]
  /\ sup' = "down" /\ retry' = 0 /\ loaded' = {} /\ unlinked' = 0
  /\ DiesWriting
  /\ UNCHANGED <<files, resets>>
-----------------------------------------------------------------------------
Init ==
  /\ lanes = [w \in Slots |-> EmptyLane]
  /\ consolidated = {} /\ sentinel = None /\ summary = None /\ status = None
  /\ sup = "down" /\ retry = 0 /\ loaded = {} /\ unlinked = 0
  /\ proc = NoProcess
  /\ queue = [b \in Batches |-> {}]
  /\ resets = [e \in Episodes |-> 0]
  /\ structural = FALSE /\ cut = FALSE
  /\ faults = 0

Next ==
  \/ Launch
  \/ Supervise
  \/ \E p \in Processes: Worker(p) \/ Mishap(p)
  \/ HostDies
  \/ SupervisorDies

Spec == Init /\ [][Next]_vars

(* The supervisor and each worker keep going, an episode ends by its deadline *)
(* at the latest, and an operator resumes a campaign that stopped.            *)
FairSpec ==
  /\ Spec
  /\ WF_vars(Launch)
  /\ WF_vars(Supervise)
  /\ \A p \in Processes: WF_vars(Worker(p))
-----------------------------------------------------------------------------
TypeOK ==
  /\ lanes \in [Slots -> [rows: SUBSET Row, torn: BOOLEAN]]
  /\ consolidated \subseteq Row
  /\ sentinel \in Reasons \cup {None}
  /\ summary = None \/ summary \subseteq Row
  /\ status \in {0, 1, 75, None}
  /\ sup \in {"down", "plan", "join", "judge", "truncate", "write", "unlink"}
  /\ retry \in 0..WorkerRetries
  /\ loaded \subseteq Row
  /\ proc \in [Batches -> [Slots -> ProcessState]]
  /\ queue \in [Batches -> SUBSET Episodes]
  /\ resets \in [Episodes -> Nat]
  /\ unlinked \in 0..WorkerCount
  /\ structural \in BOOLEAN /\ cut \in BOOLEAN
  /\ faults \in 0..MaxFaults

(* Running(p): p holds an episode whose simulator was reset. *)
Running(p) == State(p).at \in {"run", "record"}

(* A published summary has one row for each episode of the campaign, and that *)
(* row is an experimental outcome: through retries, resumes, diagnostic rows, *)
(* torn lines and orphans that still write to the lanes.                      *)
SummaryComplete ==
  summary # None =>
    /\ {row.key: row \in summary} = Episodes
    /\ \A row \in summary: Scorable(row)
    /\ \A r, s \in summary: r.key = s.key => r = s

(* The one-reset contract: no episode runs in two processes, and none runs    *)
(* that the directory already records.                                        *)
OneReset ==
  \A p \in Processes: Running(p) =>
    /\ State(p).key \notin RecordedKeys
    /\ \A q \in Processes: Running(q) /\ State(q).key = State(p).key => p = q

(* A recorded episode stays recorded in every step but the one that truncates *)
(* records.jsonl, and there if a lane holds it too: the first consolidation   *)
(* survives a crash at any point (a later one, of a campaign that is resumed  *)
(* when it is complete, truncates the only copy).                             *)
RecordedKept ==
  [][\A e \in RecordedKeys:
       e \in RecordedKeys' \/ (sup = "truncate" /\ e \notin KeysOf(LaneRows))]_vars

(* A session that pauses leaves an episode to resume: the outage that wrote   *)
(* the sentinel is never recorded as an outcome.                              *)
PauseLeavesWork ==
  [][sup = "judge" /\ status' = 75 => MissingPayloads # {}]_vars

(* What is published is final: orphans of a killed supervisor may run an      *)
(* episode again and record another outcome, before, during or after a        *)
(* consolidation, but a campaign that is resumed, however often, publishes    *)
(* the same rows again or refuses.  Only a supervisor that dies while it      *)
(* rewrites the published records.jsonl opens them to change.                 *)
PublicationFinal ==
  [][summary # None /\ summary' # summary => cut]_vars
-----------------------------------------------------------------------------
(* Liveness, under FairSpec. *)

(* Outages and crashes come to an end, and then the campaign is published     *)
(* however often it was interrupted: no join waits for ever, no sentinel      *)
(* blocks every later session, the retries of some session suffice.           *)
EventuallyPublished == <>(summary # None)
=============================================================================
