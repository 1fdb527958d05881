----------------------------- MODULE ModelAccess -----------------------------
(***************************************************************************)
(* Hosted-model calls (racap/backends/llm.py, ask): the exact-request      *)
(* cache, the slots that bound the requests in flight over all processes,  *)
(* retries, terminal failures, and the counters of a process by which an   *)
(* evaluator learns of a failure its controller has swallowed.             *)
(***************************************************************************)
EXTENDS Faults, FiniteSets

CONSTANTS
    Callers,     \* processes that ask
    Slots,       \* RACAP_VLM_MAX_CONCURRENCY
    Attempts     \* ask's attempts

ASSUME AccessAssumption == Slots \in Nat \ {0} /\ Attempts \in Nat \ {0}

VARIABLES
    ask,        \* a process' call: its position, request and attempt
    cache,      \* requests with a readable entry; a torn entry reads as a miss
    terminal,   \* _CALL_STATS["terminal_failures"] > 0 in a process
    quota       \* _CALL_STATS["quota_failures"] > 0

accessvars == <<ask, cache, terminal, quota>>

NoCall      == [at |-> "none", request |-> <<>>, attempt |-> 0]
Unanswered  == {"failed", "quota", "unavailable"}
Sending     == {p \in Callers : ask[p].at = "sending"}

AccessInit ==
    /\ ask = [p \in Callers |-> NoCall] /\ cache = {}
    /\ terminal = [p \in Callers |-> FALSE] /\ quota = [p \in Callers |-> FALSE]

\* The cached reply, or the first network attempt.
Ask(p, request) ==
    /\ ask[p].at = "none"
    /\ ask' = [ask EXCEPT ![p] = [at |-> IF request \in cache THEN "answered" ELSE "waiting",
                                  request |-> request, attempt |-> 1]]
    /\ UNCHANGED <<cache, terminal, quota>>

\* A slot is an advisory lock of the process, so that the kernel frees the
\* slot of a process that dies.
Acquire(p) ==
    /\ ask[p].at = "waiting" /\ Cardinality(Sending) < Slots
    /\ ask' = [ask EXCEPT ![p].at = "sending"]
    /\ UNCHANGED <<cache, terminal, quota, faults>>

Reply(p) ==
    /\ ask[p].at = "sending"
    /\ ask' = [ask EXCEPT ![p].at = "answered"] /\ cache' = cache \cup {ask[p].request}
    /\ UNCHANGED <<terminal, quota, faults>>

\* A timeout, another HTTP error or an empty reply: again, or give up.
Transient(p) ==
    /\ ask[p].at = "sending" /\ FaultStrikes
    /\ IF ask[p].attempt < Attempts
       THEN /\ ask' = [ask EXCEPT ![p].at = "waiting", ![p].attempt = @ + 1]
            /\ UNCHANGED terminal
       ELSE /\ ask' = [ask EXCEPT ![p].at = "failed"]
            /\ terminal' = [terminal EXCEPT ![p] = TRUE]
    /\ UNCHANGED <<cache, quota>>

\* Out of quota, or no route to the model: no retry.
Refuse(p) ==
    /\ ask[p].at = "sending" /\ FaultStrikes
    /\ \E why \in {"quota", "unavailable"} :
        /\ ask' = [ask EXCEPT ![p].at = why]
        /\ quota' = [quota EXCEPT ![p] = @ \/ why = "quota"]
    /\ terminal' = [terminal EXCEPT ![p] = TRUE]
    /\ UNCHANGED cache

\* reset_call_stats
ResetStats(p) ==
    /\ terminal' = [terminal EXCEPT ![p] = FALSE] /\ quota' = [quota EXCEPT ![p] = FALSE]
=============================================================================
