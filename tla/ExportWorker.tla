---------------------------- MODULE ExportWorker ----------------------------
(***************************************************************************)
(* The export worker process (worker.py, db/worker.py, otlp/client.py):    *)
(* claim a batch under a fresh lease token, encode it, post it to the OTLP *)
(* collector, record the outcome.  Each database transaction and the HTTP  *)
(* call is a step of its own; between two steps the lease may expire and   *)
(* another worker may claim the same rows.                                 *)
(***************************************************************************)
EXTENDS InboxStore

CONSTANTS
    Worker,             \* export worker processes
    WorkerBatchSize,    \* settings.worker_batch_size
    WorkerMaxAttempts,  \* settings.worker_max_attempts
    AttemptCap,         \* bound: attempt_count saturates here, above the maximum
    Unmappable          \* events build_logs_request cannot encode

ASSUME WorkerAssumption ==
    /\ WorkerBatchSize \in Nat \ {0}
    /\ WorkerMaxAttempts \in Nat \ {0}
    /\ AttemptCap \in Nat
    /\ AttemptCap > WorkerMaxAttempts
    /\ Unmappable \subseteq Event

VARIABLES
    worker,     \* what each export_once call holds in memory
    collected   \* events the collector has accepted at least once

workerVars == <<worker, collected>>

(* ExportResult: success, retryable failure, permanent failure.            *)
ExportResults == {"success", "retryable", "permanent"}

WorkerState ==
    [pc: {"idle", "claimed", "encoded", "answered"},
     owner: Token \cup {NoOwner},
     events: SUBSET Event,          \* the claimed rows it still has to finish
     attempts: [Event -> Nat],      \* their attempt_count as claimed
     result: ExportResults \cup {"none"}]

IdleWorker ==
    [pc |-> "idle", owner |-> NoOwner, events |-> {},
     attempts |-> [e \in Event |-> 0], result |-> "none"]

WorkerTypeOK ==
    /\ worker \in [Worker -> WorkerState]
    /\ collected \subseteq Event

WorkerInit ==
    /\ worker = [w \in Worker |-> IdleWorker]
    /\ collected = {}

-----------------------------------------------------------------------------
(* A new UUID differs from every token a row or a process still holds.     *)
ExportTokensInUse ==
    {inbox[e].lease_owner : e \in Event} \cup {worker[w].owner : w \in Worker}

NewExportOwner == CHOOSE t \in Token : t \notin ExportTokensInUse

CountAttempt(n) == IF n < AttemptCap THEN n + 1 ELSE n

ClaimRow(row, owner, live) ==
    [row EXCEPT !.status = "processing", !.lease_owner = owner, !.live = live,
                !.attempt_count = CountAttempt(@)]

(* Rows another transaction has locked are skipped, so any part of the     *)
(* claimable rows may come back.  The expiry is counted from a clock read  *)
(* in an earlier statement: after a long pause the lease is born expired.  *)
ClaimBatch(w, rows, live) ==
    /\ worker[w].pc = "idle"
    /\ rows # {} /\ Cardinality(rows) <= WorkerBatchSize
    /\ \A e \in rows : Claimable(inbox[e], {"pending"}) /\ ~inbox[e].raw_pruned
    /\ Token \ ExportTokensInUse # {}
    /\ inbox' = [e \in Event |-> IF e \in rows THEN ClaimRow(inbox[e], NewExportOwner, live)
                                               ELSE inbox[e]]
    /\ worker' = [worker EXCEPT ![w] =
          [pc |-> "claimed", owner |-> NewExportOwner, events |-> rows,
           attempts |-> [e \in Event |-> IF e \in rows
                                         THEN CountAttempt(inbox[e].attempt_count) ELSE 0],
           result |-> "none"]]
    /\ UNCHANGED <<job, collected>>

(* Slip: the outcome is written without the fence.                         *)
DeliveredUnfenced(row, owner) ==
    [row EXCEPT !.status = "delivered", !.lease_owner = NoOwner, !.live = FALSE]

MarkDelivered(row, owner) ==
    IF Fenced(row, owner)
    THEN [row EXCEPT !.status = "delivered", !.lease_owner = NoOwner, !.live = FALSE]
    ELSE row

(* Slips: a failure report without the fence, and one attempt too many.    *)
FailedUnfenced(row, owner, attempts, retryable) ==
    [row EXCEPT !.status = IF retryable /\ attempts < WorkerMaxAttempts THEN "pending"
                                                                       ELSE "dead_letter",
                !.due = FALSE, !.lease_owner = NoOwner, !.live = FALSE]

FailedOneMore(row, owner, attempts, retryable) ==
    IF Fenced(row, owner)
    THEN [row EXCEPT !.status = IF retryable /\ attempts <= WorkerMaxAttempts THEN "pending"
                                                                            ELSE "dead_letter",
                     !.due = FALSE, !.lease_owner = NoOwner, !.live = FALSE]
    ELSE row

(* attempts is the count the process remembers from its claim.             *)
MarkFailed(row, owner, attempts, retryable) ==
    LET shouldRetry == retryable /\ attempts < WorkerMaxAttempts
    IN  IF Fenced(row, owner)
        THEN [row EXCEPT !.status = IF shouldRetry THEN "pending" ELSE "dead_letter",
                         !.due = FALSE, !.lease_owner = NoOwner, !.live = FALSE]
        ELSE row

(* Rows that cannot be mapped are dead-lettered in a transaction of their  *)
(* own; the rest of the batch goes on.                                     *)
EncodeIsolatedBatch(w) ==
    LET invalid == worker[w].events \cap Unmappable
        exportable == worker[w].events \ Unmappable
    IN  /\ worker[w].pc = "claimed"
        /\ inbox' = [e \in Event |->
              IF e \in invalid
              THEN MarkFailed(inbox[e], worker[w].owner, worker[w].attempts[e], FALSE)
              ELSE inbox[e]]
        /\ worker' = [worker EXCEPT ![w] =
              IF exportable = {} THEN IdleWorker
              ELSE [@ EXCEPT !.pc = "encoded", !.events = exportable]]
        /\ UNCHANGED <<job, collected>>

(* Slip: any 2xx answer is a success, rejected records or not.             *)
ExportPartialAsSuccess(w, accepted, result) ==
    /\ worker[w].pc = "encoded"
    /\ accepted \subseteq worker[w].events
    /\ result = "success" => accepted # {}
    /\ collected' = collected \cup accepted
    /\ worker' = [worker EXCEPT ![w] = [@ EXCEPT !.pc = "answered", !.result = result]]
    /\ UNCHANGED storeVars

(* client.export: the collector accepts some of the records; only an       *)
(* answer that accepts all of them is a success.  A lost answer is a       *)
(* retryable failure whatever the collector did, a partial rejection is a  *)
(* permanent failure of the whole batch.                                   *)
Export(w, accepted, result) ==
    /\ worker[w].pc = "encoded"
    /\ accepted \subseteq worker[w].events
    /\ result = "success" => accepted = worker[w].events
    /\ collected' = collected \cup accepted
    /\ worker' = [worker EXCEPT ![w] = [@ EXCEPT !.pc = "answered", !.result = result]]
    /\ UNCHANGED storeVars

(* The finalizing transaction: every row of the batch, each one fenced.    *)
RecordOutcome(w) ==
    /\ worker[w].pc = "answered"
    /\ inbox' = [e \in Event |->
          IF e \notin worker[w].events THEN inbox[e]
          ELSE IF worker[w].result = "success" THEN MarkDelivered(inbox[e], worker[w].owner)
          ELSE MarkFailed(inbox[e], worker[w].owner, worker[w].attempts[e],
                          worker[w].result = "retryable")]
    /\ worker' = [worker EXCEPT ![w] = IdleWorker]
    /\ UNCHANGED <<job, collected>>

(* The process dies, or a database error ends the cycle in worker_loop:    *)
(* the claim is forgotten and its rows wait for their lease to expire.     *)
AbandonCycle(w) ==
    /\ worker[w].pc # "idle"
    /\ worker' = [worker EXCEPT ![w] = IdleWorker]
    /\ UNCHANGED <<storeVars, collected>>

ExportStep(w) ==
    \/ \E rows \in SUBSET Event, live \in BOOLEAN : ClaimBatch(w, rows, live)
    \/ EncodeIsolatedBatch(w)
    \/ \E accepted \in SUBSET Event, result \in ExportResults : Export(w, accepted, result)
    \/ RecordOutcome(w)
    \/ AbandonCycle(w)
=============================================================================
