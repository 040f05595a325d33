---------------------------- MODULE IngestProofs ----------------------------
(***************************************************************************)
(* Proofs about IngestRequests for any finite sets of requests and events, *)
(* any batches, keys and limits: the inductive invariant and what follows  *)
(* from it, and that the interleaved transactions implement the atomic,    *)
(* idempotent storage of whole batches that IngestContract promises.       *)
(***************************************************************************)
EXTENDS IngestRequests, FiniteSetTheorems, SequenceTheorems, TLAPS

-----------------------------------------------------------------------------
(* Batches.                                                                *)

LEMMA BatchTypes ==
    ASSUME NEW r \in Request
    PROVE  /\ Count(r) \in Nat /\ Count(r) >= 1
           /\ \A i \in 1..Count(r) : Batch[r][i].event \in Event /\ Batch[r][i].content \in Content
           /\ \A i \in 1..Count(r) : Batch[r][i].event \in Events(r)
           /\ \A e \in Events(r) : \E i \in 1..Count(r) : Batch[r][i].event = e
           /\ Events(r) \subseteq Event
<1>1. Batch[r] \in Seq([event: Event, content: Content]) /\ Batch[r] # << >>
    BY RequestAssumption
<1>2. Count(r) \in Nat /\ Count(r) >= 1
    BY <1>1 DEF Count
<1>3. \A i \in 1..Count(r) : Batch[r][i] \in [event: Event, content: Content]
    BY <1>1, ElementOfSeq, Zenon DEF Count
<1> QED BY <1>2, <1>3 DEF Events

(* What the batch says of one of its events, when it does not disagree     *)
(* with itself.                                                            *)
LEMMA ContentInBatch ==
    ASSUME NEW r \in Request, ~SelfConflict(r), NEW i \in 1..Count(r)
    PROVE  ContentIn(r)[Batch[r][i].event] = Batch[r][i].content
<1> DEFINE e == Batch[r][i].event
           k == CHOOSE j \in 1..Count(r) : Batch[r][j].event = e
<1>1. k \in 1..Count(r) /\ Batch[r][k].event = e
    OBVIOUS
<1>2. Batch[r][k].content = Batch[r][i].content
    BY <1>1 DEF SelfConflict
<1>3. e \in Events(r)
    BY BatchTypes
<1> QED BY <1>2, <1>3 DEF ContentIn

-----------------------------------------------------------------------------
(* The part of the invariant that speaks of request r, for a state st that *)
(* r may enter.                                                            *)

HeldAt == {"read", "insert", "reread", "lock", "count", "commit"}

RowsOK(r, st) ==
    /\ st.inserted \subseteq Events(r)
    /\ \A e \in st.inserted : stored[e] = NoContent
    /\ \A q \in Request \ {r} : req[q].inserted \cap st.inserted = {}
    /\ st.pc \in {"idle", "charge", "read", "answered"} => st.inserted = {} /\ st.next = 1
    /\ st.pc = "lock" => st.inserted # {}

ComparedOK(r, st) ==
    /\ st.pc \in {"insert", "reread", "lock", "count", "commit"} =>
          ~SelfConflict(r) /\ ~Differs(r, st.known)
    /\ st.pc \in {"insert", "reread"} =>
          /\ IF st.pc = "insert" THEN st.next \in 1..Count(r) ELSE st.next = Count(r) + 1
          /\ \A i \in 1..(st.next - 1) :
                Batch[r][i].event \in st.inserted \/ stored[Batch[r][i].event] # NoContent
    /\ st.pc \in {"lock", "count", "commit"} =>
          \A i \in 1..Count(r) : \/ Batch[r][i].event \in st.inserted
                                 \/ stored[Batch[r][i].event] = Batch[r][i].content

AnswerOK(r, st) ==
    /\ st.pc # "answered" => st.answer = "none"
    /\ st.answer = "acked" =>
          \A i \in 1..Count(r) : stored[Batch[r][i].event] = Batch[r][i].content

WindowOK(r, st) ==
    st.pc \in HeldAt =>
        /\ quota[<<Key[r], st.window>>].requests + 1 <= RequestsPerMinute
        /\ quota[<<Key[r], st.window>>].events + Count(r) <= EventsPerMinute
        /\ \A q \in Request \ {r} :
              ~(HoldsQuota(q) /\ Window(q) = <<Key[r], st.window>>)

LockOK(r, st) ==
    /\ st.pc \in {"count", "commit"} /\ st.inserted # {} =>
          \A q \in Request \ {r} : ~HoldsLock(q)
    /\ st.pc = "commit" /\ st.inserted # {} =>
          Cardinality(Live) + Cardinality(st.inserted) <= MaxLiveEvents

StateOK(r, st) ==
    RowsOK(r, st) /\ ComparedOK(r, st) /\ AnswerOK(r, st) /\ WindowOK(r, st) /\ LockOK(r, st)

LEMMA InvIsLocal ==
    ASSUME RequestInv, NEW r \in Request
    PROVE  req[r] \in RequestState /\ StateOK(r, req[r])
<1>1. req[r] \in RequestState
    BY DEF RequestInv, RequestTypeOK
<1>2. RowsOK(r, req[r])
    BY DEF RequestInv, StorageInv, UncommittedRows, RowsOK
<1>3. ComparedOK(r, req[r])
    BY DEF RequestInv, StorageInv, ReadCompared, PassedRows, RaceCompared, ComparedOK
<1>4. AnswerOK(r, req[r])
    BY DEF RequestInv, StorageInv, OpenIsUnanswered, AckedIsStored, AnswerOK
<1>5. WindowOK(r, req[r])
    BY DEF RequestInv, WindowHeld, WithinLimits, QuotaFree, Window, WindowOK, HoldsQuota, HeldAt
<1>6. LockOK(r, req[r])
    BY DEF RequestInv, AdmissionSerial, HoldsLock, LockOK
<1> QED BY <1>1, <1>2, <1>3, <1>4, <1>5, <1>6 DEF StateOK

(* A request that moves on to such a state leaves the invariant intact.    *)
LEMMA LocalStep ==
    ASSUME RequestInv, NEW r \in Request, NEW st \in RequestState, StateOK(r, st),
           Proceed(r, st)
    PROVE  RequestInv'
<1>1. /\ req' \in [Request -> RequestState]
      /\ req'[r] = st
      /\ \A q \in Request \ {r} : req'[q] = req[q]
      /\ inbox' = inbox /\ job' = job /\ stored' = stored /\ quota' = quota /\ minute' = minute
    BY DEF Proceed, RequestInv, RequestTypeOK, storeVars
<1>2. \A q \in Request : q = r \/ req'[q] = req[q]
    BY <1>1
<1>3. RequestTypeOK'
    BY <1>1 DEF RequestInv, RequestTypeOK, StoreTypeOK
<1>4. RowsMatchContents'
    BY <1>1 DEF RequestInv, StorageInv, RowsMatchContents
<1>5. UncommittedRows'
    BY <1>1 DEF RequestInv, StorageInv, UncommittedRows, StateOK, RowsOK
<1>6. OpenIsUnanswered' /\ AckedIsStored'
    BY <1>1, <1>2 DEF RequestInv, StorageInv, OpenIsUnanswered, AckedIsStored, StateOK, AnswerOK
<1>7. ReadCompared' /\ PassedRows' /\ RaceCompared'
    BY <1>1, <1>2 DEF RequestInv, StorageInv, ReadCompared, PassedRows, RaceCompared,
                      StateOK, ComparedOK, SelfConflict, Differs
<1>8. WindowHeld' /\ QuotaRespected'
    BY <1>1, <1>2 DEF RequestInv, WindowHeld, WithinLimits, QuotaFree, Window, HoldsQuota, HeldAt,
                      StateOK, WindowOK, QuotaRespected
<1>9. AdmissionSerial' /\ LiveWithinCapacity'
    <2>1. Live' = Live
        BY <1>1 DEF Live
    <2>2. /\ HoldsLock(r)' => \A q \in Request \ {r} : ~HoldsLock(q)
          /\ \A q \in Request \ {r} : HoldsLock(q)' = HoldsLock(q)
        BY <1>1 DEF HoldsLock, StateOK, LockOK
    <2>3. \A p, q \in Request : HoldsLock(p)' /\ HoldsLock(q)' => p = q
        BY <2>2 DEF RequestInv, AdmissionSerial
    <2>4. \A q \in Request : req'[q].pc = "commit" /\ req'[q].inserted # {} =>
             Cardinality(Live) + Cardinality(req'[q].inserted) <= MaxLiveEvents
        BY <1>1, <1>2 DEF RequestInv, AdmissionSerial, StateOK, LockOK
    <2> QED BY <2>1, <2>3, <2>4 DEF RequestInv, AdmissionSerial, LiveWithinCapacity
<1> QED BY <1>3, <1>4, <1>5, <1>6, <1>7, <1>8, <1>9 DEF RequestInv, StorageInv

(* Ending a transaction without a commit is such a move.                   *)
LEMMA EndStates ==
    ASSUME NEW r \in Request, NEW answer \in Answers \ {"acked"}
    PROVE  /\ IdleRequest \in RequestState /\ StateOK(r, IdleRequest)
           /\ Answered(r, answer) \in RequestState /\ StateOK(r, Answered(r, answer))
<1>1. 0 \in Minutes
    BY RequestAssumption DEF Minutes
<1>2. IdleRequest \in RequestState /\ Answered(r, answer) \in RequestState
    BY <1>1 DEF IdleRequest, Answered, RequestState, Answers
<1>3. StateOK(r, IdleRequest)
    BY DEF IdleRequest, StateOK, RowsOK, ComparedOK, AnswerOK, WindowOK, HeldAt, LockOK
<1>4. StateOK(r, Answered(r, answer))
    BY DEF IdleRequest, Answered, StateOK, RowsOK, ComparedOK, AnswerOK, WindowOK, HeldAt,
           LockOK, Answers
<1> QED BY <1>2, <1>3, <1>4

LEMMA AbortStep ==
    ASSUME RequestInv, NEW r \in Request, NEW answer \in Answers \ {"acked"}, Abort(r, answer)
    PROVE  RequestInv'
BY EndStates, LocalStep DEF Abort, Proceed

-----------------------------------------------------------------------------
(* The steps of the handler.                                               *)

LEMMA ObserveMinuteStep ==
    ASSUME RequestInv, NEW r \in Request, ObserveMinute(r)
    PROVE  RequestInv'
<1>1. req[r] \in RequestState /\ StateOK(r, req[r]) /\ req[r].pc = "idle"
    BY InvIsLocal DEF ObserveMinute
<1>2. CASE Abort(r, "quota_exceeded")
    BY <1>2, AbortStep DEF Answers
<1>3. CASE Proceed(r, [req[r] EXCEPT !.pc = "charge", !.window = minute])
    <2> DEFINE st == [req[r] EXCEPT !.pc = "charge", !.window = minute]
    <2>1. minute \in Minutes
        BY DEF RequestInv, RequestTypeOK
    <2>2. st \in RequestState
        BY <1>1, <2>1 DEF RequestState
    <2>3. st.pc = "charge" /\ st.inserted = {} /\ st.next = 1 /\ st.answer = "none"
        BY <1>1 DEF RequestState, StateOK, RowsOK, AnswerOK
    <2> HIDE DEF st
    <2>4. StateOK(r, st)
        BY <2>2, <2>3 DEF StateOK, RowsOK, ComparedOK, AnswerOK, WindowOK, HeldAt, LockOK
    <2> QED BY <1>3, <2>2, <2>4, LocalStep DEF st
<1> QED BY <1>2, <1>3 DEF ObserveMinute

LEMMA ConsumeQuotaStep ==
    ASSUME RequestInv, NEW r \in Request, ConsumeQuota(r)
    PROVE  RequestInv'
<1>1. req[r] \in RequestState /\ StateOK(r, req[r]) /\ req[r].pc = "charge" /\ QuotaFree(r)
    BY InvIsLocal DEF ConsumeQuota
<1>2. CASE Abort(r, "quota_exceeded")
    BY <1>2, AbortStep DEF Answers
<1>3. CASE WithinLimits(r) /\ Proceed(r, [req[r] EXCEPT !.pc = "read"])
    <2> DEFINE st == [req[r] EXCEPT !.pc = "read"]
    <2>1. st \in RequestState
        BY <1>1 DEF RequestState
    <2>2. /\ st.pc = "read" /\ st.inserted = {} /\ st.next = 1 /\ st.answer = "none"
          /\ st.window = req[r].window
        BY <1>1 DEF RequestState, StateOK, RowsOK, AnswerOK
    <2> HIDE DEF st
    <2>3. WindowOK(r, st)
        BY <1>1, <1>3, <2>2 DEF WithinLimits, QuotaFree, Window, WindowOK
    <2>4. StateOK(r, st)
        BY <2>2, <2>3 DEF StateOK, RowsOK, ComparedOK, AnswerOK, LockOK
    <2> QED BY <1>3, <2>1, <2>4, LocalStep DEF st
<1> QED BY <1>2, <1>3 DEF ConsumeQuota

LEMMA ReadExistingStep ==
    ASSUME RequestInv, NEW r \in Request, ReadExisting(r)
    PROVE  RequestInv'
<1> DEFINE known == {e \in Events(r) : stored[e] # NoContent}
           st == [req[r] EXCEPT !.pc = "insert", !.known = known]
<1>1. req[r] \in RequestState /\ StateOK(r, req[r]) /\ req[r].pc = "read"
    BY InvIsLocal DEF ReadExisting
<1>2. CASE Abort(r, "too_large") \/ Abort(r, "conflict")
    BY <1>2, AbortStep DEF Answers
<1>3. CASE ~SelfConflict(r) /\ ~Differs(r, known) /\ Proceed(r, st)
    <2>1. st \in RequestState
        BY <1>1, BatchTypes DEF RequestState
    <2>2. /\ st.pc = "insert" /\ st.inserted = {} /\ st.answer = "none"
          /\ st.window = req[r].window /\ st.known = known /\ st.next = 1
        BY <1>1, <1>3 DEF RequestState, StateOK, RowsOK, AnswerOK
    <2> HIDE DEF st
    <2>3. ComparedOK(r, st)
        BY <1>3, <2>2, BatchTypes DEF ComparedOK
    <2>4. StateOK(r, st)
        BY <1>1, <2>2, <2>3 DEF StateOK, RowsOK, AnswerOK, WindowOK, HeldAt, LockOK
    <2> QED BY <1>3, <2>1, <2>4, LocalStep DEF st
<1> QED BY <1>2, <1>3 DEF ReadExisting

LEMMA InsertRowStep ==
    ASSUME RequestInv, NEW r \in Request, InsertRow(r)
    PROVE  RequestInv'
<1> DEFINE e == NextEvent(r)
           ins == IF stored[e] = NoContent THEN req[r].inserted \cup {e} ELSE req[r].inserted
           pc == IF req[r].next = Count(r) THEN "reread" ELSE "insert"
           st == [req[r] EXCEPT !.inserted = ins, !.next = req[r].next + 1, !.pc = pc]
<1>1. /\ req[r] \in RequestState /\ StateOK(r, req[r]) /\ req[r].pc = "insert"
      /\ Blockers(r) = {} /\ Proceed(r, st)
    BY InvIsLocal DEF InsertRow
<1>2. /\ req[r].next \in 1..Count(r) /\ e \in Events(r) /\ e \in Event
      /\ e = Batch[r][req[r].next].event
    BY <1>1, BatchTypes DEF StateOK, ComparedOK, NextEvent
<1>3. \A q \in Request \ {r} : e \notin req[q].inserted
    BY <1>1 DEF Blockers
<1>4. req[r].inserted \subseteq Event /\ ins \subseteq Event
    BY <1>1, <1>2 DEF RequestState
<1>5. st \in RequestState
    <2>1. req[r].next + 1 \in Nat /\ pc \in {"reread", "insert"} /\ ins \in SUBSET Event
        BY <1>1, <1>4 DEF RequestState
    <2> HIDE DEF ins, pc
    <2> QED BY <1>1, <2>1 DEF RequestState
<1>6. /\ st.pc = pc /\ st.inserted = ins /\ st.next = req[r].next + 1
      /\ st.answer = req[r].answer /\ st.window = req[r].window /\ st.known = req[r].known
    BY <1>1 DEF RequestState
<1>7. pc \in {"reread", "insert"}
    OBVIOUS
<1>8. \A x \in ins : x \in req[r].inserted \/ (x = e /\ stored[x] = NoContent)
    OBVIOUS
<1>9. req[r].inserted \subseteq ins /\ (e \in ins \/ stored[e] # NoContent)
    OBVIOUS
<1> HIDE DEF st, ins
<1>10. RowsOK(r, st)
    BY <1>1, <1>2, <1>3, <1>6, <1>7, <1>8 DEF StateOK, RowsOK
<1>11. \A i \in 1..(st.next - 1) :
          Batch[r][i].event \in st.inserted \/ stored[Batch[r][i].event] # NoContent
    <2> SUFFICES ASSUME NEW i \in 1..(st.next - 1)
                 PROVE  Batch[r][i].event \in st.inserted \/ stored[Batch[r][i].event] # NoContent
        OBVIOUS
    <2>1. Count(r) \in Nat /\ (i \in 1..(req[r].next - 1) \/ i = req[r].next)
        BY <1>2, <1>6, BatchTypes
    <2> QED BY <1>1, <1>2, <1>6, <1>9, <2>1 DEF StateOK, ComparedOK
<1>12. IF st.pc = "insert" THEN st.next \in 1..Count(r) ELSE st.next = Count(r) + 1
    BY <1>2, <1>6, BatchTypes
<1>13. ComparedOK(r, st)
    BY <1>1, <1>6, <1>7, <1>11, <1>12 DEF StateOK, ComparedOK
<1>14. AnswerOK(r, st) /\ WindowOK(r, st) /\ LockOK(r, st)
    BY <1>1, <1>6, <1>7 DEF StateOK, AnswerOK, WindowOK, HeldAt, LockOK
<1> QED BY <1>1, <1>5, <1>10, <1>13, <1>14, LocalStep DEF StateOK

LEMMA RereadRacedStep ==
    ASSUME RequestInv, NEW r \in Request, RereadRaced(r)
    PROVE  RequestInv'
<1> DEFINE pc == IF req[r].inserted = {} THEN "commit" ELSE "lock"
           st == [req[r] EXCEPT !.pc = pc]
<1>1. req[r] \in RequestState /\ StateOK(r, req[r]) /\ req[r].pc = "reread"
    BY InvIsLocal DEF RereadRaced
<1>2. CASE Abort(r, "internal_error") \/ Abort(r, "conflict")
    BY <1>2, AbortStep DEF Answers
<1>3. CASE ~Differs(r, Raced(r)) /\ Proceed(r, st)
    <2>1. st \in RequestState
        BY <1>1 DEF RequestState
    <2>2. /\ st.pc = pc /\ st.inserted = req[r].inserted /\ st.next = req[r].next
          /\ st.answer = "none" /\ st.window = req[r].window /\ st.known = req[r].known
        BY <1>1 DEF RequestState, StateOK, AnswerOK
    <2>3. pc \in {"commit", "lock"} /\ (pc = "commit" <=> req[r].inserted = {})
        OBVIOUS
    <2> HIDE DEF st, pc
    <2>4. \A i \in 1..Count(r) :
             \/ Batch[r][i].event \in req[r].inserted
             \/ stored[Batch[r][i].event] = Batch[r][i].content
        BY <1>1, <1>3, BatchTypes DEF StateOK, ComparedOK, Differs, Raced
    <2>5. RowsOK(r, st) /\ ComparedOK(r, st) /\ AnswerOK(r, st)
        BY <1>1, <2>2, <2>3, <2>4 DEF StateOK, RowsOK, ComparedOK, AnswerOK
    <2>6. WindowOK(r, st) /\ LockOK(r, st)
        BY <1>1, <2>2, <2>3 DEF StateOK, WindowOK, HeldAt, LockOK
    <2> QED BY <1>3, <2>1, <2>5, <2>6, LocalStep DEF st, pc, StateOK
<1> QED BY <1>2, <1>3 DEF RereadRaced

LEMMA LockCapacityStep ==
    ASSUME RequestInv, NEW r \in Request, LockCapacity(r)
    PROVE  RequestInv'
<1> DEFINE st == [req[r] EXCEPT !.pc = "count"]
<1>1. /\ req[r] \in RequestState /\ StateOK(r, req[r]) /\ req[r].pc = "lock"
      /\ LockFree /\ Proceed(r, st)
    BY InvIsLocal DEF LockCapacity
<1>2. st \in RequestState
    BY <1>1 DEF RequestState
<1>3. /\ st.pc = "count" /\ st.inserted = req[r].inserted /\ st.next = req[r].next
      /\ st.answer = req[r].answer /\ st.window = req[r].window /\ st.known = req[r].known
    BY <1>1 DEF RequestState
<1> HIDE DEF st
<1>4. RowsOK(r, st) /\ ComparedOK(r, st) /\ AnswerOK(r, st)
    BY <1>1, <1>3 DEF StateOK, RowsOK, ComparedOK, AnswerOK
<1>5. WindowOK(r, st) /\ LockOK(r, st)
    BY <1>1, <1>3 DEF StateOK, WindowOK, HeldAt, LockOK, LockFree
<1> QED BY <1>1, <1>2, <1>4, <1>5, LocalStep DEF StateOK

LEMMA CheckCapacityStep ==
    ASSUME RequestInv, NEW r \in Request, CheckCapacity(r)
    PROVE  RequestInv'
<1> DEFINE st == [req[r] EXCEPT !.pc = "commit"]
<1>1. req[r] \in RequestState /\ StateOK(r, req[r]) /\ req[r].pc = "count"
    BY InvIsLocal DEF CheckCapacity
<1>2. CASE Abort(r, "capacity")
    BY <1>2, AbortStep DEF Answers
<1>3. CASE Fits(r) /\ Proceed(r, st)
    <2>1. st \in RequestState
        BY <1>1 DEF RequestState
    <2>2. /\ st.pc = "commit" /\ st.inserted = req[r].inserted /\ st.next = req[r].next
          /\ st.answer = req[r].answer /\ st.window = req[r].window /\ st.known = req[r].known
        BY <1>1 DEF RequestState
    <2> HIDE DEF st
    <2>3. Cardinality(Live) + Cardinality(req[r].inserted) <= MaxLiveEvents
        BY <1>3 DEF Fits
    <2>4. RowsOK(r, st) /\ ComparedOK(r, st) /\ AnswerOK(r, st)
        BY <1>1, <2>2 DEF StateOK, RowsOK, ComparedOK, AnswerOK
    <2>5. WindowOK(r, st) /\ LockOK(r, st)
        BY <1>1, <2>2, <2>3 DEF StateOK, WindowOK, HeldAt, LockOK
    <2> QED BY <1>3, <2>1, <2>4, <2>5, LocalStep DEF st, StateOK
<1> QED BY <1>2, <1>3 DEF CheckCapacity

LEMMA EndingSteps ==
    ASSUME RequestInv, NEW r \in Request,
           CapacityTimeout(r) \/ Deadlocked(r) \/ LoseConnection(r) \/ Resend(r)
    PROVE  RequestInv'
<1>1. CASE CapacityTimeout(r)
    BY <1>1, AbortStep DEF CapacityTimeout, Answers
<1>2. CASE Deadlocked(r)
    BY <1>2, AbortStep DEF Deadlocked, Answers
<1>3. "conflict" \in Answers \ {"acked"}
    BY DEF Answers
<1>4. CASE LoseConnection(r) \/ Resend(r)
    BY <1>3, <1>4, EndStates, LocalStep DEF LoseConnection, Resend
<1> QED BY <1>1, <1>2, <1>4

-----------------------------------------------------------------------------
(* The commit.                                                             *)

LEMMA EnteredRows ==
    ASSUME NEW e \in Event, NEW enabled \in BOOLEAN, NEW evident \in BOOLEAN,
           NEW row \in InboxRow, NEW jrow \in JobRow
    PROVE  /\ EnterRow(row, NewJobStatus(e, enabled), evident) \in InboxRow
           /\ EnterRow(row, NewJobStatus(e, enabled), evident).status \in LIVE_STATUSES
           /\ EnterJob(jrow, NewJobStatus(e, enabled)) \in JobRow
<1>1. NewJobStatus(e, enabled) \in {"none", "disabled", "metadata_missing", "pending"}
    BY KindAssumption DEF NewJobStatus, Kinds
<1>2. /\ EnterRow(row, NewJobStatus(e, enabled), evident) \in InboxRow
      /\ EnterRow(row, NewJobStatus(e, enabled), evident).status \in LIVE_STATUSES
    BY DEF EnterRow, InboxRow, LIVE_STATUSES
<1>3. \A st \in {"none", "disabled", "metadata_missing", "pending"} :
         EnterJob(jrow, st) \in JobRow
    BY DEF EnterJob, JobRow, UNFINISHED_SYMBOL_STATUSES, FINISHED_SYMBOL_STATUSES
<1> QED BY <1>1, <1>2, <1>3

(* What a commit changes, in the terms of the invariant.                   *)
LEMMA CommitEffect ==
    ASSUME RequestInv, NEW r \in Request, NEW enabled \in BOOLEAN,
           NEW evidence \in SUBSET Event, CommitBatch(r, enabled, evidence)
    PROVE  /\ RequestTypeOK'
           /\ req'[r] = Answered(r, "acked")
           /\ \A q \in Request \ {r} : req'[q] = req[q]
           /\ \A e \in Event : e \notin req[r].inserted =>
                 stored'[e] = stored[e] /\ inbox'[e] = inbox[e]
           /\ \A e \in req[r].inserted :
                 stored'[e] \in Content /\ inbox'[e].status \in LIVE_STATUSES
           /\ \A i \in 1..Count(r) : stored'[Batch[r][i].event] = Batch[r][i].content
<1> USE DEF RequestInv
<1>1. req[r] \in RequestState /\ StateOK(r, req[r]) /\ req[r].pc = "commit"
    BY InvIsLocal DEF CommitBatch
<1>2. /\ inbox \in [Event -> InboxRow] /\ job \in [Event -> JobRow]
      /\ req[r].inserted \subseteq Events(r) /\ req[r].inserted \subseteq Event
    BY <1>1 DEF RequestTypeOK, StoreTypeOK, StateOK, RowsOK, RequestState
<1>3. /\ inbox' \in [Event -> InboxRow] /\ job' \in [Event -> JobRow]
      /\ \A e \in Event : e \notin req[r].inserted => inbox'[e] = inbox[e]
      /\ \A e \in req[r].inserted : inbox'[e].status \in LIVE_STATUSES
    <2>1. \A e \in Event :
             /\ EnterRow(inbox[e], NewJobStatus(e, enabled), e \in evidence) \in InboxRow
             /\ EnterRow(inbox[e], NewJobStatus(e, enabled), e \in evidence).status \in LIVE_STATUSES
             /\ EnterJob(job[e], NewJobStatus(e, enabled)) \in JobRow
        <3> TAKE e \in Event
        <3> (e \in evidence) \in BOOLEAN
            OBVIOUS
        <3> inbox[e] \in InboxRow /\ job[e] \in JobRow
            BY <1>2
        <3> QED BY EnteredRows
    <2> QED BY <1>2, <2>1 DEF CommitBatch, Ingest
<1>4. \A i \in 1..Count(r) : ContentIn(r)[Batch[r][i].event] = Batch[r][i].content
    BY <1>1, ContentInBatch DEF StateOK, ComparedOK
<1>5. \A e \in req[r].inserted : ContentIn(r)[e] \in Content
    BY <1>2, <1>4, BatchTypes
<1>6. /\ stored' \in [Event -> Content \cup {NoContent}]
      /\ \A e \in Event : e \notin req[r].inserted => stored'[e] = stored[e]
      /\ \A e \in req[r].inserted : stored'[e] = ContentIn(r)[e]
    BY <1>2, <1>5 DEF CommitBatch, RequestTypeOK
<1>7. \A i \in 1..Count(r) : stored'[Batch[r][i].event] = Batch[r][i].content
    BY <1>1, <1>4, <1>6, BatchTypes DEF StateOK, ComparedOK
<1>8. Answered(r, "acked") \in RequestState
    <2>1. 0 \in Minutes
        BY RequestAssumption DEF Minutes
    <2> QED BY <2>1 DEF IdleRequest, Answered, RequestState, Answers
<1>9. /\ req' \in [Request -> RequestState]
      /\ req'[r] = Answered(r, "acked")
      /\ \A q \in Request \ {r} : req'[q] = req[q]
    BY <1>8 DEF CommitBatch, RequestTypeOK
<1>10. quota' \in [Keys \X Minutes -> [requests: Nat, events: Nat]] /\ minute' = minute
    <2>1. Window(r) \in Keys \X Minutes
        BY <1>1 DEF Window, Keys, RequestState
    <2>2. /\ quota[Window(r)].requests + 1 \in Nat
          /\ quota[Window(r)].events + Count(r) \in Nat
        BY <2>1, BatchTypes DEF RequestTypeOK
    <2> QED BY <2>1, <2>2 DEF CommitBatch, RequestTypeOK
<1>11. RequestTypeOK'
    BY <1>3, <1>6, <1>9, <1>10 DEF RequestTypeOK, StoreTypeOK
<1> QED BY <1>3, <1>5, <1>6, <1>7, <1>9, <1>11

LEMMA CommitStorage ==
    ASSUME RequestInv, NEW r \in Request, NEW enabled \in BOOLEAN,
           NEW evidence \in SUBSET Event, CommitBatch(r, enabled, evidence)
    PROVE  StorageInv'
<1> USE DEF RequestInv, StorageInv
<1>0. /\ NoContent \notin Content
      /\ \A q \in Request : \A i \in 1..Count(q) : Batch[q][i].content # NoContent
    BY RequestAssumption, BatchTypes
<1>1. \A e \in Event : stored[e] # NoContent => stored'[e] = stored[e]
    BY CommitEffect DEF UncommittedRows
<1>2. /\ req'[r].pc = "answered" /\ req'[r].inserted = {} /\ req'[r].next = 1
      /\ req'[r].answer = "acked"
    BY CommitEffect DEF Answered, IdleRequest
<1>3. \A q \in Request : q = r \/ req'[q] = req[q]
    BY CommitEffect
<1>4. RowsMatchContents'
    BY CommitEffect, <1>0 DEF RowsMatchContents, LIVE_STATUSES
<1>5. UncommittedRows'
    <2>1. \A q \in Request \ {r} : \A e \in req[q].inserted : stored'[e] = NoContent
        BY CommitEffect, BatchTypes DEF UncommittedRows
    <2> QED BY <1>2, <1>3, <2>1 DEF UncommittedRows
<1>6. OpenIsUnanswered' /\ AckedIsStored'
    <2>1. \A q \in Request : \A i \in 1..Count(q) :
             stored[Batch[q][i].event] = Batch[q][i].content =>
                 stored'[Batch[q][i].event] = Batch[q][i].content
        BY <1>0, <1>1, BatchTypes
    <2> QED BY CommitEffect, <1>2, <1>3, <2>1 DEF OpenIsUnanswered, AckedIsStored
<1>7. ReadCompared' /\ PassedRows' /\ RaceCompared'
    <2>1. \A q \in Request : \A i \in 1..Count(q) :
             stored[Batch[q][i].event] # NoContent =>
                 stored'[Batch[q][i].event] = stored[Batch[q][i].event]
        BY <1>1, BatchTypes
    <2>2. ReadCompared'
        <3> SUFFICES ASSUME NEW q \in Request,
                            req'[q].pc \in {"insert", "reread", "lock", "count", "commit"}
                     PROVE  ~SelfConflict(q) /\ ~Differs(q, req[q].known)' /\ req'[q] = req[q]
            BY DEF ReadCompared, SelfConflict, Differs
        <3>1. req'[q] = req[q] /\ ~SelfConflict(q) /\ ~Differs(q, req[q].known)
            BY <1>2, <1>3 DEF ReadCompared
        <3> QED BY <1>0, <2>1, <3>1 DEF Differs
    <2>3. PassedRows'
        <3>1. \A q \in Request \ {r} : req[q].pc \in {"insert", "reread"} =>
                 req[q].next - 1 \in 0..Count(q)
            BY BatchTypes DEF PassedRows
        <3> QED BY <1>2, <1>3, <2>1, <3>1, BatchTypes DEF PassedRows
    <2>4. RaceCompared'
        BY <1>0, <1>2, <1>3, <2>1 DEF RaceCompared
    <2> QED BY <2>2, <2>3, <2>4
<1> QED BY <1>4, <1>5, <1>6, <1>7

LEMMA CommitWindow ==
    ASSUME RequestInv, NEW r \in Request, NEW enabled \in BOOLEAN,
           NEW evidence \in SUBSET Event, CommitBatch(r, enabled, evidence)
    PROVE  WindowHeld' /\ QuotaRespected'
<1> USE DEF RequestInv
<1>1. req[r] \in RequestState /\ HoldsQuota(r)
    BY DEF CommitBatch, HoldsQuota, RequestTypeOK
<1>2. Window(r) \in Keys \X Minutes /\ WithinLimits(r) /\ QuotaFree(r)
    BY <1>1 DEF Window, Keys, RequestState, WindowHeld
<1>3. quota \in [Keys \X Minutes -> [requests: Nat, events: Nat]]
    BY DEF RequestTypeOK
<1>4. \A w \in Keys \X Minutes : w # Window(r) => quota'[w] = quota[w]
    BY <1>2, <1>3 DEF CommitBatch
<1>5. /\ quota'[Window(r)].requests = quota[Window(r)].requests + 1
      /\ quota'[Window(r)].events = quota[Window(r)].events + Count(r)
    BY <1>2, <1>3 DEF CommitBatch
<1>6. QuotaRespected'
    BY <1>2, <1>4, <1>5 DEF QuotaRespected, WithinLimits
<1>7. req'[r].pc = "answered" /\ \A q \in Request : q = r \/ req'[q] = req[q]
    BY CommitEffect DEF Answered, IdleRequest
<1>8. WindowHeld'
    <2> SUFFICES ASSUME NEW q \in Request, HoldsQuota(q)'
                 PROVE  WithinLimits(q)' /\ QuotaFree(q)'
        BY DEF WindowHeld
    <2>1. q # r /\ req'[q] = req[q] /\ HoldsQuota(q) /\ Window(q)' = Window(q)
        BY <1>7 DEF HoldsQuota, Window
    <2>2. WithinLimits(q) /\ QuotaFree(q) /\ Window(q) # Window(r)
        BY <1>1, <2>1 DEF WindowHeld, QuotaFree
    <2>3. Window(q) \in Keys \X Minutes
        BY <2>1 DEF Window, Keys, RequestTypeOK, RequestState
    <2>4. WithinLimits(q)'
        BY <1>4, <2>1, <2>2, <2>3 DEF WithinLimits
    <2>5. QuotaFree(q)'
        BY <1>7, <2>1, <2>2 DEF QuotaFree, HoldsQuota, Window
    <2> QED BY <2>4, <2>5
<1> QED BY <1>6, <1>8

LEMMA LiveIsFinite == IsFiniteSet(Live) /\ Cardinality(Live) \in Nat
<1>1. Live \in SUBSET Event
    BY DEF Live
<1> QED BY <1>1, RequestAssumption, FS_Subset, FS_CardinalityType

LEMMA CommitAdmission ==
    ASSUME RequestInv, NEW r \in Request, NEW enabled \in BOOLEAN,
           NEW evidence \in SUBSET Event, CommitBatch(r, enabled, evidence)
    PROVE  AdmissionSerial' /\ LiveWithinCapacity'
<1> USE DEF RequestInv
<1>1. req[r] \in RequestState /\ req[r].pc = "commit" /\ req[r].inserted \subseteq Event
    BY DEF CommitBatch, RequestTypeOK, RequestState
<1>2. req'[r].pc = "answered" /\ \A q \in Request : q = r \/ req'[q] = req[q]
    BY CommitEffect DEF Answered, IdleRequest
<1>3. Live' = Live \cup req[r].inserted
    BY CommitEffect, <1>1 DEF Live
<1>4. CASE req[r].inserted = {}
    <2>1. Live' = Live
        BY <1>3, <1>4
    <2> QED BY <1>2, <2>1 DEF AdmissionSerial, LiveWithinCapacity, HoldsLock
<1>5. CASE req[r].inserted # {}
    <2>1. \A q \in Request : ~HoldsLock(q)'
        BY <1>1, <1>2, <1>5 DEF AdmissionSerial, HoldsLock
    <2>2. AdmissionSerial'
        BY <2>1 DEF AdmissionSerial, HoldsLock
    <2>3. IsFiniteSet(Live) /\ IsFiniteSet(req[r].inserted)
        BY <1>1, LiveIsFinite, RequestAssumption, FS_Subset
    <2>4. /\ Cardinality(Live \cup req[r].inserted)
               = Cardinality(Live) + Cardinality(req[r].inserted)
                 - Cardinality(Live \cap req[r].inserted)
          /\ Cardinality(Live) \in Nat /\ Cardinality(req[r].inserted) \in Nat
          /\ Cardinality(Live \cap req[r].inserted) \in Nat
        BY <2>3, FS_Union, FS_Intersection, FS_CardinalityType
    <2>5. Cardinality(Live) + Cardinality(req[r].inserted) <= MaxLiveEvents
        BY <1>1, <1>5 DEF AdmissionSerial
    <2>6. LiveWithinCapacity'
        BY <1>3, <2>4, <2>5, RequestAssumption DEF LiveWithinCapacity
    <2> QED BY <2>2, <2>6
<1> QED BY <1>4, <1>5

LEMMA CommitStep ==
    ASSUME RequestInv, NEW r \in Request, NEW enabled \in BOOLEAN,
           NEW evidence \in SUBSET Event, CommitBatch(r, enabled, evidence)
    PROVE  RequestInv'
BY CommitEffect, CommitStorage, CommitWindow, CommitAdmission DEF RequestInv

-----------------------------------------------------------------------------
(* The steps of the pipeline, of retention and of the clock.               *)

(* Rows that only leave the live statuses give capacity back.              *)
LEMMA FewerLive ==
    ASSUME RequestInv, \A e \in Event : inbox'[e].status \in LIVE_STATUSES =>
                                        inbox[e].status \in LIVE_STATUSES,
           UNCHANGED req
    PROVE  AdmissionSerial' /\ LiveWithinCapacity'
<1>1. Live' \in SUBSET Live
    BY DEF Live
<1>2. Cardinality(Live') \in Nat /\ Cardinality(Live') <= Cardinality(Live)
    BY <1>1, LiveIsFinite, FS_Subset, FS_CardinalityType
<1>3. LiveWithinCapacity'
    BY <1>2, LiveIsFinite, RequestAssumption DEF RequestInv, LiveWithinCapacity
<1>4. ASSUME NEW r \in Request, req[r].pc = "commit", req[r].inserted # {}
      PROVE  Cardinality(Live') + Cardinality(req[r].inserted) <= MaxLiveEvents
    <2>1. IsFiniteSet(req[r].inserted)
        BY RequestAssumption, FS_Subset DEF RequestInv, RequestTypeOK, RequestState
    <2>2. Cardinality(req[r].inserted) \in Nat
        BY <2>1, FS_CardinalityType
    <2>3. Cardinality(Live) + Cardinality(req[r].inserted) <= MaxLiveEvents
        BY <1>4 DEF RequestInv, AdmissionSerial
    <2> QED BY <1>2, <2>2, <2>3, LiveIsFinite, RequestAssumption
<1>5. AdmissionSerial'
    BY <1>4 DEF RequestInv, AdmissionSerial, HoldsLock
<1> QED BY <1>3, <1>5

LEMMA FinalizeStep ==
    ASSUME RequestInv, NEW e \in Event, Finalize(e), UNCHANGED requestVars
    PROVE  RequestInv'
<1> USE DEF RequestInv
<1>1. /\ inbox \in [Event -> InboxRow] /\ job \in [Event -> JobRow]
      /\ stored' = stored /\ quota' = quota /\ minute' = minute /\ req' = req
    BY DEF RequestTypeOK, StoreTypeOK, requestVars
<1>2. PICK status \in FINAL_STATUSES :
         inbox' = [inbox EXCEPT ![e] = [inbox[e] EXCEPT !.status = status]]
    BY DEF Finalize
<1>3. /\ inbox'[e] = [inbox[e] EXCEPT !.status = status]
      /\ inbox' \in [Event -> InboxRow]
    BY <1>1, <1>2 DEF InboxRow
<1>4. inbox'[e].status = status
    BY <1>1, <1>3 DEF InboxRow
<1>5. \A d \in Event : d # e => inbox'[d] = inbox[d]
    BY <1>1, <1>2
<1>6. job' \in [Event -> JobRow]
    <2>1. [job[e] EXCEPT !.status = "failed"] \in JobRow
        BY <1>1 DEF JobRow, FINISHED_SYMBOL_STATUSES
    <2> QED BY <1>1, <2>1 DEF Finalize
<1>7. RequestTypeOK'
    BY <1>1, <1>3, <1>6 DEF RequestTypeOK, StoreTypeOK
<1>8. RowsMatchContents'
    BY <1>1, <1>4, <1>5 DEF StorageInv, RowsMatchContents, Finalize, LIVE_STATUSES, FINAL_STATUSES
<1>9. StorageInv'
    BY <1>1, <1>8 DEF StorageInv, UncommittedRows, OpenIsUnanswered, ReadCompared, PassedRows,
                      RaceCompared, AckedIsStored, SelfConflict, Differs
<1>10. WindowHeld' /\ QuotaRespected'
    BY <1>1 DEF WindowHeld, QuotaRespected, HoldsQuota, WithinLimits, QuotaFree, Window
<1>11. \A d \in Event : inbox'[d].status \in LIVE_STATUSES => inbox[d].status \in LIVE_STATUSES
    BY <1>4, <1>5 DEF Finalize
<1>12. AdmissionSerial' /\ LiveWithinCapacity'
    BY <1>1, <1>11, FewerLive
<1> QED BY <1>7, <1>9, <1>10, <1>12

LEMMA MaintainStep ==
    ASSUME RequestInv, NEW rows \in SUBSET Event, NEW windows \in SUBSET ExpiredWindows,
           Maintain(rows, windows)
    PROVE  RequestInv'
<1> USE DEF RequestInv
<1>1. /\ inbox \in [Event -> InboxRow] /\ job \in [Event -> JobRow]
      /\ stored' = stored /\ minute' = minute /\ req' = req
    BY DEF RequestTypeOK, StoreTypeOK, Maintain
<1>2. /\ inbox' \in [Event -> InboxRow] /\ job' \in [Event -> JobRow]
      /\ \A d \in Event : inbox'[d].status = inbox[d].status
    <2>1. \A row \in InboxRow : /\ [row EXCEPT !.raw_pruned = TRUE] \in InboxRow
                                /\ [row EXCEPT !.raw_pruned = TRUE].status = row.status
        BY DEF InboxRow
    <2>2. \A row \in JobRow : [row EXCEPT !.has_result = FALSE] \in JobRow
        BY DEF JobRow
    <2> QED BY <1>1, <2>1, <2>2 DEF Maintain, MaintainOnce
<1>3. /\ quota' \in [Keys \X Minutes -> [requests: Nat, events: Nat]]
      /\ \A w \in Keys \X Minutes : w \notin windows => quota'[w] = quota[w]
      /\ \A w \in Keys \X Minutes : w \in windows => quota'[w] = [requests |-> 0, events |-> 0]
    BY DEF Maintain, RequestTypeOK
<1>4. RequestTypeOK'
    BY <1>1, <1>2, <1>3 DEF RequestTypeOK, StoreTypeOK
<1>5. StorageInv'
    BY <1>1, <1>2 DEF StorageInv, RowsMatchContents, UncommittedRows, OpenIsUnanswered,
                      ReadCompared, PassedRows, RaceCompared, AckedIsStored, SelfConflict, Differs
<1>6. QuotaRespected'
    <2> SUFFICES ASSUME NEW w \in Keys \X Minutes
                 PROVE  /\ quota'[w].requests <= RequestsPerMinute
                        /\ quota'[w].events <= EventsPerMinute
        BY DEF QuotaRespected
    <2>1. CASE w \notin windows
        BY <1>3, <2>1 DEF QuotaRespected
    <2>2. CASE w \in windows
        <3>1. quota'[w].requests = 0 /\ quota'[w].events = 0
            BY <1>3, <2>2
        <3>2. RequestsPerMinute \in Nat /\ EventsPerMinute \in Nat
            BY RequestAssumption
        <3> QED BY <3>1, <3>2
    <2> QED BY <2>1, <2>2
<1>7. WindowHeld'
    <2> SUFFICES ASSUME NEW r \in Request, HoldsQuota(r)
                 PROVE  WithinLimits(r)' /\ QuotaFree(r)'
        BY <1>1 DEF WindowHeld, HoldsQuota
    <2>1. WithinLimits(r) /\ QuotaFree(r) /\ Window(r)' = Window(r)
        BY <1>1 DEF WindowHeld, Window
    <2>2. Window(r) \in Keys \X Minutes /\ Window(r) \notin windows
        BY DEF Window, Keys, RequestTypeOK, RequestState, ExpiredWindows
    <2>3. WithinLimits(r)'
        BY <1>3, <2>1, <2>2 DEF WithinLimits
    <2>4. QuotaFree(r)'
        BY <1>1, <2>1 DEF QuotaFree, HoldsQuota, Window
    <2> QED BY <2>3, <2>4
<1>8. AdmissionSerial' /\ LiveWithinCapacity'
    BY <1>1, <1>2, FewerLive
<1> QED BY <1>4, <1>5, <1>6, <1>7, <1>8

LEMMA IdleSteps ==
    ASSUME RequestInv, Tick \/ UNCHANGED requestAllVars
    PROVE  RequestInv'
<1> USE DEF RequestInv
<1>1. /\ inbox' = inbox /\ job' = job /\ stored' = stored /\ quota' = quota /\ req' = req
      /\ minute' \in Minutes
    BY RequestAssumption DEF Tick, requestAllVars, storeVars, RequestTypeOK, Minutes
<1>2. RequestTypeOK'
    BY <1>1 DEF RequestTypeOK, StoreTypeOK
<1>3. StorageInv'
    BY <1>1 DEF StorageInv, RowsMatchContents, UncommittedRows, OpenIsUnanswered,
                ReadCompared, PassedRows, RaceCompared, AckedIsStored, SelfConflict, Differs
<1>4. WindowHeld' /\ QuotaRespected'
    BY <1>1 DEF WindowHeld, QuotaRespected, HoldsQuota, WithinLimits, QuotaFree, Window
<1>5. AdmissionSerial' /\ LiveWithinCapacity'
    BY <1>1, FewerLive
<1> QED BY <1>2, <1>3, <1>4, <1>5

LEMMA RequestInvInit == RequestInit => RequestInv
<1> SUFFICES ASSUME RequestInit PROVE RequestInv
    OBVIOUS
<1> USE DEF RequestInit
<1>1. 0 \in Minutes
    BY RequestAssumption DEF Minutes
<1>2. StoreTypeOK
    BY DEF StoreInit, StoreTypeOK, AbsentRow, NoJob, InboxRow, JobRow
<1>3. RequestTypeOK
    BY <1>1, <1>2 DEF RequestTypeOK, IdleRequest, RequestState
<1>4. \A r \in Request : StateOK(r, req[r])
    <2>1. "conflict" \in Answers \ {"acked"}
        BY DEF Answers
    <2> QED BY <2>1, EndStates
<1>5. StorageInv
    <2>1. RowsMatchContents
        BY DEF StoreInit, AbsentRow, RowsMatchContents
    <2>2. \A r \in Request : req[r].pc = "idle" /\ req[r].inserted = {} /\ req[r].next = 1
                             /\ req[r].answer = "none"
        BY DEF IdleRequest
    <2> QED BY <2>1, <2>2 DEF StorageInv, UncommittedRows, OpenIsUnanswered, ReadCompared,
                              PassedRows, RaceCompared, AckedIsStored
<1>6. WindowHeld /\ QuotaRespected
    BY RequestAssumption DEF WindowHeld, HoldsQuota, QuotaRespected, IdleRequest
<1>7. AdmissionSerial
    BY DEF AdmissionSerial, HoldsLock, IdleRequest
<1>8. LiveWithinCapacity
    <2>1. Live = {}
        BY DEF Live, StoreInit, AbsentRow, LIVE_STATUSES
    <2> QED BY <2>1, FS_EmptySet, RequestAssumption DEF LiveWithinCapacity
<1> QED BY <1>3, <1>5, <1>6, <1>7, <1>8 DEF RequestInv

LEMMA RequestInvStep == RequestInv /\ [RequestNext]_requestAllVars => RequestInv'
<1> SUFFICES ASSUME RequestInv, [RequestNext]_requestAllVars PROVE RequestInv'
    OBVIOUS
<1>1. ASSUME NEW r \in Request, HandlerStep(r) PROVE RequestInv'
    <2>1. CASE ObserveMinute(r) BY <2>1, ObserveMinuteStep
    <2>2. CASE ConsumeQuota(r) BY <2>2, ConsumeQuotaStep
    <2>3. CASE ReadExisting(r) BY <2>3, ReadExistingStep
    <2>4. CASE InsertRow(r) BY <2>4, InsertRowStep
    <2>5. CASE RereadRaced(r) BY <2>5, RereadRacedStep
    <2>6. CASE LockCapacity(r) BY <2>6, LockCapacityStep
    <2>7. CASE CheckCapacity(r) BY <2>7, CheckCapacityStep
    <2>8. CASE CapacityTimeout(r) \/ Deadlocked(r) BY <2>8, EndingSteps
    <2>9. CASE \E enabled \in BOOLEAN, evidence \in SUBSET Event : CommitBatch(r, enabled, evidence)
        BY <2>9, CommitStep
    <2> QED BY <1>1, <2>1, <2>2, <2>3, <2>4, <2>5, <2>6, <2>7, <2>8, <2>9 DEF HandlerStep
<1>2. ASSUME NEW r \in Request, LoseConnection(r) \/ Resend(r) PROVE RequestInv'
    BY <1>2, EndingSteps
<1>3. ASSUME NEW e \in Event, Finalize(e) /\ UNCHANGED requestVars PROVE RequestInv'
    BY <1>3, FinalizeStep
<1>4. ASSUME NEW rows \in SUBSET Event, NEW windows \in SUBSET ExpiredWindows,
             Maintain(rows, windows)
      PROVE  RequestInv'
    BY <1>4, MaintainStep
<1>5. CASE Tick \/ UNCHANGED requestAllVars
    BY <1>5, IdleSteps
<1> QED BY <1>1, <1>2, <1>3, <1>4, <1>5 DEF RequestNext, RequestStep

-----------------------------------------------------------------------------
(* The strengthened invariant of POST /events holds for all batches.       *)
THEOREM RequestsInductive == RequestSpec => []RequestInv
BY RequestInvInit, RequestInvStep, PTL DEF RequestSpec

(* Every variable of the ingest model keeps its type.                      *)
THEOREM RequestsTypeCorrect == RequestSpec => []RequestTypeOK
<1>1. RequestInv => RequestTypeOK
    BY DEF RequestInv
<1> QED BY <1>1, RequestsInductive, PTL

(* A 2xx answer is given only for a batch that is committed as sent.       *)
THEOREM AcksAreDurable == RequestSpec => []AckedIsStored
<1>1. RequestInv => AckedIsStored
    BY DEF RequestInv, StorageInv
<1> QED BY <1>1, RequestsInductive, PTL

(* insert_batch never meets an invisible conflicting row.                  *)
THEOREM RacesAreVisible == RequestSpec => []RacedRowsVisible
<1>1. RequestInv => RacedRowsVisible
    <2> SUFFICES ASSUME RequestInv, NEW r \in Request, req[r].pc = "reread",
                        NEW e \in Raced(r)
                 PROVE  stored[e] # NoContent
        BY DEF RacedRowsVisible
    <2>1. req[r].next = Count(r) + 1
        BY DEF RequestInv, StorageInv, PassedRows
    <2>2. PICK i \in 1..Count(r) : Batch[r][i].event = e
        BY BatchTypes DEF Raced
    <2>3. i \in 1..(req[r].next - 1)
        BY <2>1, BatchTypes
    <2> QED BY <2>2, <2>3 DEF RequestInv, StorageInv, PassedRows, Raced
<1> QED BY <1>1, RequestsInductive, PTL

(* No minute of any key is overdrawn, for any number of servers.           *)
THEOREM QuotasHold == RequestSpec => []QuotaRespected
<1>1. RequestInv => QuotaRespected
    BY DEF RequestInv
<1> QED BY <1>1, RequestsInductive, PTL

(* The live event limit holds under any number of concurrent admissions.   *)
THEOREM CapacityHolds == RequestSpec => []LiveWithinCapacity
<1>1. RequestInv => LiveWithinCapacity
    BY DEF RequestInv
<1> QED BY <1>1, RequestsInductive, PTL

-----------------------------------------------------------------------------
(* The refinement of IngestContract.                                       *)

(* The answers a client sees, the abstract variable answer.                *)
AnswersSeen == [r \in Request |-> req[r].answer]

RefusalsGiven == Answers \ {"acked", "conflict"}

(* A step of one request changes at most the answer to that request.       *)
LEMMA AnswerChanges ==
    ASSUME RequestInv, NEW r \in Request, NEW st, req' = [req EXCEPT ![r] = st]
    PROVE  AnswersSeen' = [AnswersSeen EXCEPT ![r] = st.answer]
<1>1. req \in [Request -> RequestState]
    BY DEF RequestInv, RequestTypeOK
<1>2. \A q \in Request : req'[q] = IF q = r THEN st ELSE req[q]
    BY <1>1
<1>3. \A q \in Request : req'[q].answer = IF q = r THEN st.answer ELSE req[q].answer
    <2>1. ASSUME NEW q \in Request, q = r PROVE req'[q] = st
        BY <1>2, <2>1
    <2>2. ASSUME NEW q \in Request, q # r PROVE req'[q] = req[q]
        BY <1>2, <2>2
    <2> QED BY <2>1, <2>2
<1>4. AnswersSeen' = [q \in Request |-> IF q = r THEN st.answer ELSE req[q].answer]
    BY <1>3, Zenon DEF AnswersSeen
<1> QED BY <1>4 DEF AnswersSeen

LEMMA SameAnswer ==
    ASSUME RequestInv, NEW r \in Request, NEW st, Proceed(r, st), st.answer = req[r].answer
    PROVE  UNCHANGED <<stored, AnswersSeen>>
<1>1. AnswersSeen' = [AnswersSeen EXCEPT ![r] = st.answer]
    BY AnswerChanges DEF Proceed
<1>2. AnswersSeen' = AnswersSeen
    BY <1>1 DEF AnswersSeen
<1> QED BY <1>2 DEF Proceed

LEMMA AbortAnswer ==
    ASSUME RequestInv, NEW r \in Request, NEW a, Abort(r, a), req[r].pc # "answered"
    PROVE  /\ AnswersSeen[r] = "none"
           /\ AnswersSeen' = [AnswersSeen EXCEPT ![r] = a]
           /\ stored' = stored
<1>1. Answered(r, a).answer = a
    BY DEF Answered, IdleRequest
<1>2. AnswersSeen' = [AnswersSeen EXCEPT ![r] = a]
    BY <1>1, AnswerChanges DEF Abort
<1> QED BY <1>2 DEF Abort, AnswersSeen, RequestInv, StorageInv, OpenIsUnanswered

LEMMA AbortRefuses ==
    ASSUME RequestInv, NEW r \in Request, NEW a \in RefusalsGiven, Abort(r, a),
           req[r].pc # "answered"
    PROVE  Contract!ContractNext
BY AbortAnswer DEF Contract!ContractNext, Contract!Refuse, AnswersSeen, RefusalsGiven

(* A conflict is answered only when there is one.                          *)
LEMMA AbortConflicts ==
    ASSUME RequestInv, NEW r \in Request, Abort(r, "conflict"), req[r].pc # "answered",
           NEW events, events \subseteq {e \in Event : stored[e] # NoContent},
           SelfConflict(r) \/ Differs(r, events)
    PROVE  Contract!ContractNext
<1>1. \A i \in 1..Count(r) : Batch[r][i] \in Contract!Records(r)
    BY DEF Contract!Records, Count
<1>2. \/ \E x \in Contract!Records(r) : stored[x.event] \notin {NoContent, x.content}
      \/ \E x, y \in Contract!Records(r) : x.event = y.event /\ x # y
    <2>1. CASE SelfConflict(r)
        BY <1>1, <2>1 DEF SelfConflict
    <2>2. CASE Differs(r, events)
        BY <1>1, <2>2 DEF Differs
    <2> QED BY <2>1, <2>2
<1>3. Contract!ReportConflict(r)
    BY <1>2, AbortAnswer DEF Contract!ReportConflict, AnswersSeen
<1> QED BY <1>3 DEF Contract!ContractNext

LEMMA CommitAcknowledges ==
    ASSUME RequestInv, NEW r \in Request, NEW enabled \in BOOLEAN,
           NEW evidence \in SUBSET Event, CommitBatch(r, enabled, evidence)
    PROVE  Contract!ContractNext
<1> DEFINE R == Contract!Records(r)
<1>1. StateOK(r, req[r]) /\ req[r].pc = "commit"
    BY InvIsLocal DEF CommitBatch
<1>2. /\ \A x \in R : \E i \in 1..Count(r) : x = Batch[r][i]
      /\ \A i \in 1..Count(r) : Batch[r][i] \in R
    BY DEF Contract!Records, Count
<1>3. \A i \in 1..Count(r) : Batch[r][i] \in [event: Event, content: Content]
    BY RequestAssumption, ElementOfSeq, Zenon DEF Count
<1>4. \A x \in R : x.event \in Event /\ stored'[x.event] = x.content
    BY <1>2, <1>3, CommitEffect
<1>5. \A x, y \in R : x.event = y.event => x = y
    <2> SUFFICES ASSUME NEW x \in R, NEW y \in R, x.event = y.event PROVE x = y
        OBVIOUS
    <2>1. x \in [event: Event, content: Content] /\ y \in [event: Event, content: Content]
        BY <1>2, <1>3
    <2>2. x.content = y.content
        BY <1>4
    <2> QED BY <2>1, <2>2
<1>6. \A x \in R : stored[x.event] \in {NoContent, x.content}
    BY <1>1, <1>2 DEF StateOK, RowsOK, ComparedOK
<1>7. \A e \in Event : (\E x \in R : x.event = e) =>
         stored'[e] = (CHOOSE x \in R : x.event = e).content
    BY <1>4, Zenon
<1>8. \A e \in Event : ~(\E x \in R : x.event = e) => stored'[e] = stored[e]
    <2>1. \A e \in req[r].inserted : \E x \in R : x.event = e
        BY <1>1, <1>2, BatchTypes DEF StateOK, RowsOK
    <2> QED BY <2>1, CommitEffect
<1>9. stored' = [e \in Event |-> IF \E x \in R : x.event = e
                                 THEN (CHOOSE x \in R : x.event = e).content ELSE stored[e]]
    <2>1. stored' \in [Event -> Content \cup {NoContent}]
        BY CommitEffect DEF RequestTypeOK
    <2> HIDE DEF R
    <2> QED BY <1>7, <1>8, <2>1
<1>10. Answered(r, "acked").answer = "acked"
    BY DEF Answered, IdleRequest
<1>11. AnswersSeen' = [AnswersSeen EXCEPT ![r] = "acked"]
    BY <1>10, AnswerChanges DEF CommitBatch
<1>12. AnswersSeen[r] = "none"
    BY <1>1 DEF AnswersSeen, StateOK, AnswerOK
<1>13. Contract!Acknowledge(r)
    BY <1>5, <1>6, <1>9, <1>11, <1>12 DEF Contract!Acknowledge, AnswersSeen
<1> QED BY <1>13 DEF Contract!ContractNext

-----------------------------------------------------------------------------
LEMMA ContractInitHolds == RequestInit => Contract!ContractInit
BY DEF RequestInit, IdleRequest, Contract!ContractInit

(* Every step of a request is one abstract step or a stuttering one.       *)
LEMMA HandlerContract ==
    ASSUME RequestInv, NEW r \in Request, HandlerStep(r)
    PROVE  Contract!ContractNext \/ UNCHANGED <<stored, AnswersSeen>>
<1>0. req[r] \in RequestState
    BY InvIsLocal
<1> USE DEF RefusalsGiven, Answers
<1>1. CASE ObserveMinute(r)
    <2>1. CASE Abort(r, "quota_exceeded")
        BY <1>1, <2>1, AbortRefuses DEF ObserveMinute
    <2>2. [req[r] EXCEPT !.pc = "charge", !.window = minute].answer = req[r].answer
        BY <1>0 DEF RequestState
    <2> QED BY <1>1, <2>1, <2>2, SameAnswer DEF ObserveMinute
<1>2. CASE ConsumeQuota(r)
    <2>1. CASE Abort(r, "quota_exceeded")
        BY <1>2, <2>1, AbortRefuses DEF ConsumeQuota
    <2>2. [req[r] EXCEPT !.pc = "read"].answer = req[r].answer
        BY <1>0 DEF RequestState
    <2> QED BY <1>2, <2>1, <2>2, SameAnswer DEF ConsumeQuota
<1>3. CASE ReadExisting(r)
    <2> DEFINE known == {e \in Events(r) : stored[e] # NoContent}
    <2>1. req[r].pc = "read" /\ known \subseteq {e \in Event : stored[e] # NoContent}
        BY <1>3, BatchTypes DEF ReadExisting
    <2>2. CASE Abort(r, "too_large")
        BY <2>1, <2>2, AbortRefuses
    <2>3. CASE (SelfConflict(r) \/ Differs(r, known)) /\ Abort(r, "conflict")
        BY <2>1, <2>3, AbortConflicts
    <2>4. [req[r] EXCEPT !.pc = "insert", !.known = known].answer = req[r].answer
        BY <1>0 DEF RequestState
    <2> QED BY <1>3, <2>2, <2>3, <2>4, SameAnswer DEF ReadExisting
<1>4. CASE InsertRow(r)
    <2> DEFINE ins == IF stored[NextEvent(r)] = NoContent
                      THEN req[r].inserted \cup {NextEvent(r)} ELSE req[r].inserted
               st == [req[r] EXCEPT !.inserted = ins, !.next = req[r].next + 1,
                          !.pc = IF req[r].next = Count(r) THEN "reread" ELSE "insert"]
    <2>1. Proceed(r, st)
        BY <1>4 DEF InsertRow
    <2>2. st.answer = req[r].answer
        BY <1>0 DEF RequestState
    <2> HIDE DEF st
    <2> QED BY <2>1, <2>2, SameAnswer
<1>5. CASE RereadRaced(r)
    <2> DEFINE st == [req[r] EXCEPT !.pc = IF req[r].inserted = {} THEN "commit" ELSE "lock"]
    <2>1. req[r].pc = "reread" /\ Raced(r) \subseteq Event
        BY <1>5, BatchTypes DEF RereadRaced, Raced
    <2>2. CASE Abort(r, "internal_error")
        BY <2>1, <2>2, AbortRefuses
    <2>3. CASE /\ ~(\E e \in Raced(r) : stored[e] = NoContent)
               /\ Differs(r, Raced(r)) /\ Abort(r, "conflict")
        BY <2>1, <2>3, AbortConflicts
    <2>4. st.answer = req[r].answer
        BY <1>0 DEF RequestState
    <2>5. CASE Proceed(r, st)
        BY <2>4, <2>5, SameAnswer
    <2> QED BY <1>5, <2>2, <2>3, <2>5 DEF RereadRaced
<1>6. CASE LockCapacity(r)
    <2>1. [req[r] EXCEPT !.pc = "count"].answer = req[r].answer
        BY <1>0 DEF RequestState
    <2> QED BY <1>6, <2>1, SameAnswer DEF LockCapacity
<1>7. CASE CheckCapacity(r)
    <2>1. CASE Abort(r, "capacity")
        BY <1>7, <2>1, AbortRefuses DEF CheckCapacity
    <2>2. [req[r] EXCEPT !.pc = "commit"].answer = req[r].answer
        BY <1>0 DEF RequestState
    <2> QED BY <1>7, <2>1, <2>2, SameAnswer DEF CheckCapacity
<1>8. CASE CapacityTimeout(r)
    BY <1>8, AbortRefuses DEF CapacityTimeout
<1>9. CASE \E enabled \in BOOLEAN, evidence \in SUBSET Event : CommitBatch(r, enabled, evidence)
    BY <1>9, CommitAcknowledges
<1>10. CASE Deadlocked(r)
    <2>1. req[r].pc # "answered"
        <3>1. PICK S \in SUBSET Request : r \in S /\ UNION {Blockers(q) : q \in S} = S
            BY <1>10 DEF Deadlocked, InDeadlock
        <3>2. PICK q \in S : r \in Blockers(q)
            BY <3>1
        <3>3. req[r].inserted # {}
            BY <3>2 DEF Blockers
        <3> QED BY <3>3 DEF RequestInv, StorageInv, UncommittedRows
    <2> QED BY <1>10, <2>1, AbortRefuses DEF Deadlocked
<1> QED BY <1>1, <1>2, <1>3, <1>4, <1>5, <1>6, <1>7, <1>8, <1>9, <1>10 DEF HandlerStep

LEMMA ContractStep ==
    RequestInv /\ [RequestNext]_requestAllVars
        => [Contract!ContractNext]_(Contract!contractVars)
<1> SUFFICES ASSUME RequestInv, [RequestNext]_requestAllVars
             PROVE  Contract!ContractNext \/ UNCHANGED <<stored, AnswersSeen>>
    BY DEF Contract!contractVars, AnswersSeen
<1>1. ASSUME NEW r \in Request, LoseConnection(r) \/ Resend(r)
      PROVE  Contract!ContractNext
    <2>1. Proceed(r, IdleRequest) /\ IdleRequest.answer = "none"
        BY <1>1 DEF LoseConnection, Resend, IdleRequest
    <2>2. AnswersSeen' = [AnswersSeen EXCEPT ![r] = "none"] /\ stored' = stored
        BY <2>1, AnswerChanges DEF Proceed
    <2> QED BY <2>2 DEF Contract!ContractNext, Contract!AskAgain, AnswersSeen
<1>2. CASE UNCHANGED <<stored, req>>
    BY <1>2 DEF AnswersSeen
<1>3. ASSUME NEW r \in Request, HandlerStep(r)
      PROVE  Contract!ContractNext \/ UNCHANGED <<stored, AnswersSeen>>
    BY <1>3, HandlerContract
<1> QED BY <1>1, <1>2, <1>3 DEF RequestNext, RequestStep, requestVars, requestAllVars,
                                Maintain, Tick

(* The whole ingest protocol implements the contract, for all batches.     *)
THEOREM IngestImplementsContract == RequestSpec => ImplementsContract
BY ContractInitHolds, ContractStep, RequestsInductive, PTL
   DEF RequestSpec, ImplementsContract, Contract!ContractSpec
=============================================================================
