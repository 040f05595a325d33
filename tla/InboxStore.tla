----------------------------- MODULE InboxStore -----------------------------
(***************************************************************************)
(* The two PostgreSQL tables every process shares: inbox_events (the       *)
(* variable inbox) and symbolization_jobs (the variable job), with the     *)
(* transactions that touch nothing else: the committed effect of an ingest *)
(* request and one retention pass.                                         *)
(*                                                                         *)
(* A transaction is one action: its UPDATEs hold their row locks until     *)
(* COMMIT, claims use FOR UPDATE SKIP LOCKED, and a transaction that fails *)
(* leaves the tables as they were.                                         *)
(*                                                                         *)
(* Timestamps are abstracted to what the code's comparisons tell apart:    *)
(* "live" says lease_expires_at > clock_timestamp(), "due" says            *)
(* next_attempt_at <= clock_timestamp(); both flip when the clock passes   *)
(* the stored instant.                                                     *)
(***************************************************************************)
EXTENDS Naturals, FiniteSets

CONSTANTS
    Event,      \* event identities the SDK may send, one inbox row each
    Kind,       \* Kind[e]: what enqueue_symbolization_jobs makes of the event
    Incident,   \* events of _INCIDENT_EVENTS: Java crashes and ANRs
    Token,      \* lease owner tokens
    NoOwner     \* lease_owner IS NULL

VARIABLES inbox, job

Kinds == {"other", "java", "native", "no_identity"}

ASSUME KindAssumption == Kind \in [Event -> Kinds]
ASSUME IncidentAssumption == Incident \subseteq {e \in Event : Kind[e] # "native"}
ASSUME NoOwnerAssumption == NoOwner \notin Token

storeVars == <<inbox, job>>

-----------------------------------------------------------------------------
(* Row shapes.  fingerprint is incident_fingerprint: NULL ("none"), the    *)
(* hash of the stack as sent, or the one of the symbolized stack;          *)
(* has_evidence says raw_incident_fingerprint IS NOT NULL.                 *)

LIVE_STATUSES == {"pending", "processing", "awaiting_symbols"}

FINAL_STATUSES == {"delivered", "dead_letter"}

UNFINISHED_SYMBOL_STATUSES == {"pending", "processing", "symbols_missing"}

FINISHED_SYMBOL_STATUSES ==
    {"disabled", "metadata_missing", "symbolized", "partially_symbolized", "failed"}

InboxRow ==
    [status: LIVE_STATUSES \cup FINAL_STATUSES \cup {"absent"},
     attempt_count: Nat,
     due: BOOLEAN,
     lease_owner: Token \cup {NoOwner},
     live: BOOLEAN,
     fingerprint: {"none", "raw", "symbolized"},
     has_evidence: BOOLEAN,
     raw_pruned: BOOLEAN]

JobRow ==
    [status: UNFINISHED_SYMBOL_STATUSES \cup FINISHED_SYMBOL_STATUSES \cup {"none"},
     attempt_count: Nat,
     due: BOOLEAN,
     lease_owner: Token \cup {NoOwner},
     live: BOOLEAN,
     has_result: BOOLEAN]

AbsentRow ==
    [status |-> "absent", attempt_count |-> 0, due |-> FALSE, lease_owner |-> NoOwner,
     live |-> FALSE, fingerprint |-> "none", has_evidence |-> FALSE, raw_pruned |-> FALSE]

NoJob ==
    [status |-> "none", attempt_count |-> 0, due |-> FALSE, lease_owner |-> NoOwner,
     live |-> FALSE, has_result |-> FALSE]

StoreTypeOK ==
    /\ inbox \in [Event -> InboxRow]
    /\ job \in [Event -> JobRow]

StoreInit ==
    /\ inbox = [e \in Event |-> AbsentRow]
    /\ job = [e \in Event |-> NoJob]

-----------------------------------------------------------------------------
(* Slip: any live claim passes the fence, whoever holds it.                *)
FencedAnyOwner(row, owner) == row.status = "processing" /\ row.live

(* The WHERE clause of every fenced write: only the holder of the row's    *)
(* current, unexpired lease may finish it.                                 *)
Fenced(row, owner) ==
    /\ row.status = "processing"
    /\ row.lease_owner = owner
    /\ row.live

(* Slip: rows parked for symbols count as waiting rows.                    *)
ClaimableParked(row, waiting) ==
    \/ row.status \in waiting \cup {"awaiting_symbols"} /\ row.due
    \/ row.status = "processing" /\ ~row.live

(* The WHERE clause of a claim: due, or abandoned past its lease.          *)
Claimable(row, waiting) ==
    \/ row.status \in waiting /\ row.due
    \/ row.status = "processing" /\ ~row.live

(* A job's status when the ingest transaction creates it.                  *)
NewJobStatus(e, enabled) ==
    CASE Kind[e] = "other"           -> "none"
      [] Kind[e] # "other" /\ ~enabled -> "disabled"
      [] Kind[e] = "no_identity" /\ enabled -> "metadata_missing"
      [] OTHER                       -> "pending"

(* One ingest transaction commits the new events of its batch (none, when  *)
(* the batch repeats known ones): their inbox rows, their jobs, and a row  *)
(* parked when its job has to run first.  evidence are the incidents among *)
(* them with a stack to hash: a Java crash that has only the compatibility *)
(* field stack_trace, or a blank stackTrace, may have a job and no         *)
(* fingerprint.                                                            *)
EnterRow(row, status, evident) ==
    [row EXCEPT !.status = IF status = "pending" THEN "awaiting_symbols" ELSE "pending",
                !.due = TRUE,
                !.fingerprint = IF evident THEN "raw" ELSE "none",
                !.has_evidence = evident]

EnterJob(row, status) == [row EXCEPT !.status = status, !.due = (status = "pending")]

Ingest(events, enabled, evidence) ==
    /\ evidence \subseteq events \cap Incident
    /\ \A e \in events : inbox[e].status = "absent"
    /\ inbox' = [e \in Event |->
          IF e \in events THEN EnterRow(inbox[e], NewJobStatus(e, enabled), e \in evidence)
                          ELSE inbox[e]]
    /\ job' = [e \in Event |->
          IF e \in events THEN EnterJob(job[e], NewJobStatus(e, enabled)) ELSE job[e]]

(* Slip: the parked row is forgotten.                                      *)
ReleaseForgotten(row) == row

(* Make a finished crash eligible for export: part of the transactions     *)
(* that finish its job.                                                    *)
ReleaseInbox(row) ==
    IF row.status = "awaiting_symbols" THEN [row EXCEPT !.status = "pending"] ELSE row

(* Slip: rows are pruned by age alone.                                     *)
PrunableByAge(e) ==
    /\ inbox[e].status # "absent"
    /\ ~inbox[e].raw_pruned
    /\ job[e].status \notin UNFINISHED_SYMBOL_STATUSES

(* One retention pass prunes the raw evidence of rows whose terminal state *)
(* is older than the retention period (any terminal row may be); it may    *)
(* find none.                                                              *)
Prunable(e) ==
    /\ inbox[e].status \in FINAL_STATUSES
    /\ ~inbox[e].raw_pruned
    /\ job[e].status \notin UNFINISHED_SYMBOL_STATUSES

MaintainOnce(rows) ==
    /\ \A e \in rows : Prunable(e)
    /\ inbox' = [e \in Event |->
                    IF e \in rows THEN [inbox[e] EXCEPT !.raw_pruned = TRUE] ELSE inbox[e]]
    /\ job' = [e \in Event |->
                    IF e \in rows THEN [job[e] EXCEPT !.has_result = FALSE] ELSE job[e]]

(* The database clock passes the lease_expires_at or next_attempt_at of    *)
(* some rows.                                                              *)
ClockChanges(row, waiting) == row.live \/ (~row.due /\ row.status \in waiting)

AfterClock(row) ==
    IF row.live THEN [row EXCEPT !.live = FALSE] ELSE [row EXCEPT !.due = TRUE]

InboxClock(rows) ==
    /\ rows # {}
    /\ \A e \in rows : ClockChanges(inbox[e], {"pending"})
    /\ inbox' = [e \in Event |-> IF e \in rows THEN AfterClock(inbox[e]) ELSE inbox[e]]
    /\ UNCHANGED job

JobClock(rows) ==
    /\ rows # {}
    /\ \A e \in rows : ClockChanges(job[e], {"pending", "symbols_missing"})
    /\ job' = [e \in Event |-> IF e \in rows THEN AfterClock(job[e]) ELSE job[e]]
    /\ UNCHANGED inbox
=============================================================================
