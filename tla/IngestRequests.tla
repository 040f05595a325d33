--------------------------- MODULE IngestRequests ---------------------------
(***************************************************************************)
(* POST /events (api/ingest.py, db/inbox.py, db/quota.py, the capacity     *)
(* check of db/maintenance.py) as PostgreSQL runs it: every request is a   *)
(* READ COMMITTED transaction whose statements interleave with those of    *)
(* the other requests.  Three kinds of lock order them: the quota row of a *)
(* key and minute, the unique index entries of uncommitted events, and the *)
(* advisory lock of the capacity check; all are held to COMMIT or          *)
(* ROLLBACK.                                                               *)
(*                                                                         *)
(* The committed tables are those of InboxStore, so the commit of a        *)
(* request is its Ingest; stored adds what _assert_existing_matches        *)
(* compares.  The pipeline behind the inbox appears as Finalize.           *)
(***************************************************************************)
EXTENDS InboxStore, Sequences, FiniteSetsExt

CONSTANTS
    Request,            \* requests the SDKs send, again and again until answered
    Batch,              \* Batch[r]: its sequence of [event, content] records
    Key,                \* Key[r]: the ingest key it authenticates with
    RequestsPerMinute,  \* principal.requests_per_minute
    EventsPerMinute,    \* principal.events_per_minute
    Content,            \* payload, scope and occurrence identity of an event
    Size,               \* Size[c]: payload_size_bytes
    NoContent,          \* no committed row
    TooLarge,           \* contents over MAX_EVENT_JSON_BYTES
    MaxLiveEvents,      \* settings.inbox_max_live_events
    MaxRawBytes,        \* settings.inbox_max_raw_bytes
    WindowKept,         \* minutes after which an ingest_rate_windows row expires
    LastMinute          \* bound: the last minute the clock reaches

ASSUME RequestAssumption ==
    /\ IsFiniteSet(Event) /\ IsFiniteSet(Request)
    /\ Batch \in [Request -> Seq([event: Event, content: Content])]
    /\ \A r \in Request : Batch[r] # << >>
    /\ RequestsPerMinute \in Nat /\ EventsPerMinute \in Nat
    /\ NoContent \notin Content /\ TooLarge \subseteq Content
    /\ Size \in [Content -> Nat]
    /\ MaxLiveEvents \in Nat /\ MaxRawBytes \in Nat
    /\ WindowKept \in Nat /\ LastMinute \in Nat

VARIABLES
    stored,     \* committed content of every event
    quota,      \* committed ingest_rate_windows: requests and events
    minute,     \* the wall clock, in quota windows
    req         \* what each request's handler holds

requestVars == <<stored, quota, minute, req>>

Keys == {Key[r] : r \in Request}

Minutes == 0..LastMinute

Count(r) == Len(Batch[r])

Events(r) == {Batch[r][i].event : i \in 1..Count(r)}

Answers == {"acked", "conflict", "too_large", "quota_exceeded", "capacity", "internal_error"}

(* pc names the next statement of the handler.                             *)
RequestState ==
    [pc: {"idle", "charge", "read", "insert", "reread", "lock", "count", "commit", "answered"},
     window: Minutes,           \* observed minute
     known: SUBSET Event,       \* rows the first SELECT returned
     next: Nat,                 \* index of the next row to insert
     inserted: SUBSET Event,    \* uncommitted rows
     answer: Answers \cup {"none"}]

IdleRequest ==
    [pc |-> "idle", window |-> 0, known |-> {}, next |-> 1, inserted |-> {}, answer |-> "none"]

RequestTypeOK ==
    /\ StoreTypeOK
    /\ stored \in [Event -> Content \cup {NoContent}]
    /\ quota \in [Keys \X Minutes -> [requests: Nat, events: Nat]]
    /\ minute \in Minutes
    /\ req \in [Request -> RequestState]

RequestInit ==
    /\ StoreInit
    /\ stored = [e \in Event |-> NoContent]
    /\ quota = [w \in Keys \X Minutes |-> [requests |-> 0, events |-> 0]]
    /\ minute = 0
    /\ req = [r \in Request |-> IdleRequest]

-----------------------------------------------------------------------------
(* Who holds what.                                                         *)

(* The row of ingest_rate_windows a request is charged to.                 *)
Window(r) == <<Key[r], req[r].window>>

(* Slip: an answered request keeps its quota row.                          *)
HoldsQuotaLeaked(r) == req[r].pc \notin {"idle", "charge"}

(* The quota row, from its UPSERT to the end of the transaction.           *)
HoldsQuota(r) == req[r].pc \in {"read", "insert", "reread", "lock", "count", "commit"}

(* Slip: the window is read without waiting for the row.                   *)
QuotaUnlocked(r) == r \in Request

QuotaFree(r) ==
    \A q \in Request \ {r} : ~(HoldsQuota(q) /\ Window(q) = Window(r))

(* The event whose index entry request r inserts next.                     *)
NextEvent(r) == Batch[r][req[r].next].event

(* The requests whose uncommitted row makes that INSERT wait.              *)
Blockers(r) ==
    {q \in Request \ {r} : req[r].pc = "insert" /\ NextEvent(r) \in req[q].inserted}

(* The advisory lock, which a batch of known events never takes.           *)
HoldsLock(r) == req[r].pc \in {"count", "commit"} /\ req[r].inserted # {}

LockFree == \A q \in Request : ~HoldsLock(q)

(* Requests that wait for each other in a cycle: the database aborts one.  *)
InDeadlock(r) ==
    \E S \in SUBSET Request : r \in S /\ UNION {Blockers(q) : q \in S} = S

-----------------------------------------------------------------------------
(* The handler, one statement per action.                                  *)

Answered(r, answer) == [IdleRequest EXCEPT !.pc = "answered", !.answer = answer]

Abort(r, answer) ==
    /\ req' = [req EXCEPT ![r] = Answered(r, answer)]
    /\ UNCHANGED <<storeVars, stored, quota, minute>>

Proceed(r, state) ==
    /\ req' = [req EXCEPT ![r] = state]
    /\ UNCHANGED <<storeVars, stored, quota, minute>>

(* consume_quota up to its UPSERT: limits no window can satisfy, and the   *)
(* minute observed from the API server's clock.                            *)
ObserveMinute(r) ==
    /\ req[r].pc = "idle"
    /\ IF RequestsPerMinute < 1 \/ Count(r) > EventsPerMinute
       THEN Abort(r, "quota_exceeded")
       ELSE Proceed(r, [req[r] EXCEPT !.pc = "charge", !.window = minute])

(* The UPSERT waits for the window's row, then counts itself in or gives   *)
(* up; the count is committed with the batch or not at all.                *)
WithinLimits(r) ==
    LET row == quota[Window(r)]
    IN  /\ row.requests + 1 <= RequestsPerMinute
        /\ row.events + Count(r) <= EventsPerMinute

ConsumeQuota(r) ==
    /\ req[r].pc = "charge"
    /\ QuotaFree(r)
    /\ IF WithinLimits(r) THEN Proceed(r, [req[r] EXCEPT !.pc = "read"])
                          ELSE Abort(r, "quota_exceeded")

(* Two records of a batch disagree about one event.                        *)
SelfConflict(r) ==
    \E i, j \in 1..Count(r) : /\ Batch[r][i].event = Batch[r][j].event
                              /\ Batch[r][i].content # Batch[r][j].content

(* Some of these committed rows differ from what the batch says.           *)
Differs(r, events) ==
    \E i \in 1..Count(r) : /\ Batch[r][i].event \in events
                           /\ stored[Batch[r][i].event] # Batch[r][i].content

(* Slip: known events are skipped unread.                                  *)
ReadExistingUncompared(r) ==
    /\ req[r].pc = "read"
    /\ ~SelfConflict(r)
    /\ Proceed(r, [req[r] EXCEPT !.pc = "insert",
                                 !.known = {e \in Events(r) : stored[e] # NoContent}])

(* _prepare_unique_events and the first SELECT of insert_batch.            *)
ReadExisting(r) ==
    LET known == {e \in Events(r) : stored[e] # NoContent}
    IN  /\ req[r].pc = "read"
        /\ \/ /\ \E i \in 1..Count(r) : Batch[r][i].content \in TooLarge
              /\ Abort(r, "too_large")
           \/ /\ SelfConflict(r) \/ Differs(r, known)
              /\ Abort(r, "conflict")
           \/ /\ \A i \in 1..Count(r) : Batch[r][i].content \notin TooLarge
              /\ ~SelfConflict(r) /\ ~Differs(r, known)
              /\ Proceed(r, [req[r] EXCEPT !.pc = "insert", !.known = known])

(* INSERT ... ON CONFLICT DO NOTHING takes its rows in batch order; it     *)
(* waits while another transaction has an uncommitted row for the event.   *)
InsertRow(r) ==
    LET e == NextEvent(r)
        inserted == IF stored[e] = NoContent THEN req[r].inserted \cup {e} ELSE req[r].inserted
    IN  /\ req[r].pc = "insert"
        /\ Blockers(r) = {}
        /\ Proceed(r, [req[r] EXCEPT !.inserted = inserted, !.next = req[r].next + 1,
                                     !.pc = IF req[r].next = Count(r) THEN "reread" ELSE "insert"])

(* Rows that lost the unique-key race are read again and compared.  The    *)
(* jobs of the new rows follow; only a batch with new rows is admitted.    *)
Raced(r) == Events(r) \ (req[r].inserted \cup req[r].known)

(* Slip: rows that lost the race are taken for duplicates.                 *)
RereadUncompared(r) ==
    /\ req[r].pc = "reread"
    /\ Proceed(r, [req[r] EXCEPT !.pc = IF req[r].inserted = {} THEN "commit" ELSE "lock"])

RereadRaced(r) ==
    /\ req[r].pc = "reread"
    /\ IF \E e \in Raced(r) : stored[e] = NoContent THEN Abort(r, "internal_error")
       ELSE IF Differs(r, Raced(r)) THEN Abort(r, "conflict")
       ELSE Proceed(r, [req[r] EXCEPT !.pc = IF req[r].inserted = {} THEN "commit" ELSE "lock"])

(* Slip: the counts are taken without the advisory lock.                   *)
LockSkipped(r) ==
    /\ req[r].pc = "lock"
    /\ Proceed(r, [req[r] EXCEPT !.pc = "count"])

(* check_inbox_capacity: the advisory lock, then the counts of everything  *)
(* committed and of the transaction's own rows.                            *)
LockCapacity(r) ==
    /\ req[r].pc = "lock"
    /\ LockFree
    /\ Proceed(r, [req[r] EXCEPT !.pc = "count"])

Live == {e \in Event : inbox[e].status \in LIVE_STATUSES}

Bytes(contents, events) == MapThenSumSet(LAMBDA e : Size[contents[e]], events)

RawBytes == Bytes(stored, {e \in Event : stored[e] # NoContent /\ ~inbox[e].raw_pruned})

ContentIn(r) == [e \in Events(r) |-> Batch[r][CHOOSE i \in 1..Count(r) : Batch[r][i].event = e].content]

Fits(r) ==
    /\ Cardinality(Live) + Cardinality(req[r].inserted) <= MaxLiveEvents
    /\ RawBytes + Bytes(ContentIn(r), req[r].inserted) <= MaxRawBytes

CheckCapacity(r) ==
    /\ req[r].pc = "count"
    /\ IF Fits(r) THEN Proceed(r, [req[r] EXCEPT !.pc = "commit"]) ELSE Abort(r, "capacity")

(* Waiting for the lock or counting takes longer than ten seconds.         *)
CapacityTimeout(r) ==
    /\ req[r].pc \in {"lock", "count"}
    /\ Abort(r, "capacity")

(* session.commit: rows, jobs and quota become visible together, and only  *)
(* then is the request acknowledged.                                       *)
CommitBatch(r, enabled, evidence) ==
    /\ req[r].pc = "commit"
    /\ Ingest(req[r].inserted, enabled, evidence)
    /\ stored' = [e \in Event |-> IF e \in req[r].inserted THEN ContentIn(r)[e] ELSE stored[e]]
    /\ quota' = [quota EXCEPT ![Window(r)] =
                    [requests |-> quota[Window(r)].requests + 1,
                     events |-> quota[Window(r)].events + Count(r)]]
    /\ req' = [req EXCEPT ![r] = Answered(r, "acked")]
    /\ UNCHANGED minute

(* A statement fails: a deadlock victim, or any other database error.      *)
Deadlocked(r) ==
    /\ InDeadlock(r)
    /\ Abort(r, "internal_error")

(* The API process dies or the client goes away: the transaction is rolled *)
(* back and nobody is answered.                                            *)
LoseConnection(r) ==
    /\ req[r].pc \notin {"idle", "answered"}
    /\ Proceed(r, IdleRequest)

(* The answer was lost or asks for a retry: the SDK sends the batch again. *)
Resend(r) ==
    /\ req[r].pc = "answered"
    /\ Proceed(r, IdleRequest)

HandlerStep(r) ==
    \/ ObserveMinute(r)
    \/ ConsumeQuota(r)
    \/ ReadExisting(r)
    \/ InsertRow(r)
    \/ RereadRaced(r)
    \/ LockCapacity(r)
    \/ CheckCapacity(r)
    \/ CapacityTimeout(r)
    \/ \E enabled \in BOOLEAN, evidence \in SUBSET Event : CommitBatch(r, enabled, evidence)
    \/ Deadlocked(r)

RequestStep(r) == HandlerStep(r) \/ LoseConnection(r) \/ Resend(r)

(* The pipeline behind the inbox ends a row; retention prunes it.          *)
Finalize(e) ==
    /\ inbox[e].status \in LIVE_STATUSES
    /\ \E status \in FINAL_STATUSES :
          inbox' = [inbox EXCEPT ![e] = [inbox[e] EXCEPT !.status = status]]
    /\ job' = [job EXCEPT ![e] = IF job[e].status \in UNFINISHED_SYMBOL_STATUSES
                                 THEN [job[e] EXCEPT !.status = "failed"] ELSE job[e]]

(* One retention pass also deletes rate windows past their age; the DELETE *)
(* waits for a window some transaction holds.                              *)
ExpiredWindows ==
    {w \in Keys \X Minutes :
        /\ w[2] + WindowKept < minute
        /\ \A r \in Request : HoldsQuota(r) => Window(r) # w}

Maintain(rows, windows) ==
    /\ MaintainOnce(rows)
    /\ windows \subseteq ExpiredWindows
    /\ quota' = [w \in Keys \X Minutes |->
                    IF w \in windows THEN [requests |-> 0, events |-> 0] ELSE quota[w]]
    /\ UNCHANGED <<stored, minute, req>>

Tick ==
    /\ minute < LastMinute
    /\ minute' = minute + 1
    /\ UNCHANGED <<storeVars, stored, quota, req>>

RequestNext ==
    \/ \E r \in Request : RequestStep(r)
    \/ \E e \in Event : Finalize(e) /\ UNCHANGED requestVars
    \/ \E rows \in SUBSET Event, windows \in SUBSET ExpiredWindows : Maintain(rows, windows)
    \/ Tick

requestAllVars == <<inbox, job, stored, quota, minute, req>>

RequestSpec == RequestInit /\ [][RequestNext]_requestAllVars

-----------------------------------------------------------------------------
(* A 2xx answer means that every event of the batch is committed with the  *)
(* content that was sent, also for events another request inserted first   *)
(* and for rows that were finished and pruned since.                       *)
AckedIsStored ==
    \A r \in Request : req[r].answer = "acked" =>
        \A i \in 1..Count(r) : stored[Batch[r][i].event] = Batch[r][i].content

(* The re-read after a lost unique-key race finds every row: the           *)
(* RuntimeError of insert_batch is unreachable.                            *)
RacedRowsVisible ==
    \A r \in Request : req[r].pc = "reread" => \A e \in Raced(r) : stored[e] # NoContent

(* Concurrent admissions never overshoot the live event limit: the count   *)
(* of one misses the uncommitted rows of the others, which the advisory    *)
(* lock makes harmless.                                                    *)
LiveWithinCapacity == Cardinality(Live) <= MaxLiveEvents

(* Concurrent requests of one key never overdraw a minute, whichever       *)
(* server they reach and however late they commit.                         *)
QuotaRespected ==
    \A w \in Keys \X Minutes : /\ quota[w].requests <= RequestsPerMinute
                               /\ quota[w].events <= EventsPerMinute

-----------------------------------------------------------------------------
(* The strengthening that makes the invariants above inductive.            *)

(* An event has committed content exactly when it has a row.               *)
RowsMatchContents ==
    \A e \in Event : inbox[e].status = "absent" <=> stored[e] = NoContent

(* An uncommitted row belongs to one open transaction, and to no committed *)
(* event.                                                                  *)
UncommittedRows ==
    \A r \in Request :
        /\ req[r].inserted \subseteq Events(r)
        /\ \A e \in req[r].inserted : stored[e] = NoContent
        /\ \A q \in Request \ {r} : req[q].inserted \cap req[r].inserted = {}
        /\ req[r].pc \in {"idle", "charge", "read", "answered"} =>
              req[r].inserted = {} /\ req[r].next = 1
        /\ req[r].pc = "lock" => req[r].inserted # {}

OpenIsUnanswered ==
    \A r \in Request : req[r].pc # "answered" => req[r].answer = "none"

(* What the first SELECT returned has been compared with the batch.        *)
ReadCompared ==
    \A r \in Request :
        req[r].pc \in {"insert", "reread", "lock", "count", "commit"} =>
            /\ ~SelfConflict(r)
            /\ ~Differs(r, req[r].known)

(* Every event the INSERT has passed is stored or is the transaction's own. *)
PassedRows ==
    \A r \in Request :
        req[r].pc \in {"insert", "reread"} =>
            /\ IF req[r].pc = "insert" THEN req[r].next \in 1..Count(r)
                                       ELSE req[r].next = Count(r) + 1
            /\ \A i \in 1..(req[r].next - 1) :
                  Batch[r][i].event \in req[r].inserted \/ stored[Batch[r][i].event] # NoContent

(* After the re-read every event is the transaction's own or agrees.       *)
RaceCompared ==
    \A r \in Request :
        req[r].pc \in {"lock", "count", "commit"} =>
            \A i \in 1..Count(r) :
                \/ Batch[r][i].event \in req[r].inserted
                \/ stored[Batch[r][i].event] = Batch[r][i].content

(* A charged window has room for its holder, and one holder only.          *)
WindowHeld ==
    \A r \in Request : HoldsQuota(r) => WithinLimits(r) /\ QuotaFree(r)

(* One transaction at a time is between its capacity check and its end,    *)
(* and what it checked still holds.                                        *)
AdmissionSerial ==
    /\ \A q, r \in Request : HoldsLock(q) /\ HoldsLock(r) => q = r
    /\ \A r \in Request :
          req[r].pc = "commit" /\ req[r].inserted # {} =>
              Cardinality(Live) + Cardinality(req[r].inserted) <= MaxLiveEvents

StorageInv ==
    /\ RowsMatchContents /\ UncommittedRows /\ OpenIsUnanswered
    /\ ReadCompared /\ PassedRows /\ RaceCompared /\ AckedIsStored

(* The inductive invariant.                                                *)
RequestInv ==
    /\ RequestTypeOK
    /\ StorageInv
    /\ WindowHeld /\ QuotaRespected
    /\ AdmissionSerial /\ LiveWithinCapacity

-----------------------------------------------------------------------------
Contract == INSTANCE IngestContract WITH
    content <- stored,
    answer <- [r \in Request |-> req[r].answer],
    Refusals <- Answers \ {"acked", "conflict"}

(* The interleaved transactions behave as if each batch were stored in one *)
(* atomic, idempotent step.                                                *)
ImplementsContract == Contract!ContractSpec

-----------------------------------------------------------------------------
(* Fairness: a handler goes on, and the database grants its locks in queue *)
(* order, so a request that could go on again and again does.              *)
RequestFairSpec == RequestSpec /\ \A r \in Request : SF_requestAllVars(HandlerStep(r))

(* No transaction waits for ever: not for a quota row, not for the unique  *)
(* key of another batch that waits for one of its own, not for capacity.   *)
EveryTransactionEnds ==
    \A r \in Request :
        req[r].pc \notin {"idle", "answered"} ~> req[r].pc \in {"idle", "answered"}
=============================================================================
