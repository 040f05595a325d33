----------------------------- MODULE EvidenceReads -----------------------------
(***************************************************************************)
(* The audited operations of an investigator (api/query.py): reading one   *)
(* event's raw payload or its metadata, and recording a release decision.  *)
(* Each commits an audit row before it answers; meanwhile retention prunes *)
(* raw evidence in transactions of its own.                                *)
(*                                                                         *)
(* READ COMMITTED, one statement per step.  The session keeps the columns  *)
(* it loaded after COMMIT (expire_on_commit=False), so an answer is built  *)
(* from what the request's statements read.                                *)
(***************************************************************************)
EXTENDS Naturals, FiniteSets

CONSTANTS
    Row,
    Reader,     \* requests for one event
    Target,     \* Target[r]: the event it names
    Purpose,    \* Purpose[r]: "raw" or "metadata"
    Foreign,    \* requests whose credential has another scope than the event
    Decider     \* requests that record a release decision

ASSUME ReaderAssumption ==
    /\ Target \in [Reader -> Row]
    /\ Purpose \in [Reader -> {"raw", "metadata"}]
    /\ Foreign \subseteq Reader
    /\ Reader \cap Decider = {}

VARIABLES
    evidence,   \* raw evidence of the inbox row: "absent", "kept" or "pruned"
    result,     \* result_json of its symbolization job: "null" or "stored"
    reader,     \* what each read request holds
    atStart,    \* history: the evidence when the request was received
    decider,    \* progress of each decision request
    nextId,     \* the sequence of release_decisions.id
    decisions,  \* ids of committed release_decisions
    audits      \* committed rows of audit_log: <<request, object, result>>

evidenceVars == <<evidence, result, reader, atStart, decider, nextId, decisions, audits>>

ReadAnswers == {"none", "raw", "metadata", "not_found", "expired", "error"}

(* pc is the next step: the row, its job, the audit row, the answer.       *)
ReaderState ==
    [pc: {"idle", "event", "job", "audit", "answer", "done"},
     event: {"none", "absent", "kept", "pruned"},   \* raw_pruned_at as loaded
     result: {"null", "stored"},                    \* result_json as loaded
     answer: ReadAnswers]

(* id is 0 until the row is flushed.                                       *)
DeciderState == [pc: {"idle", "flushed", "done"}, id: Nat, answer: {"none", "created", "error"}]

IdleReader == [pc |-> "idle", event |-> "none", result |-> "null", answer |-> "none"]

IdleDecider == [pc |-> "idle", id |-> 0, answer |-> "none"]

EvidenceTypeOK ==
    /\ evidence \in [Row -> {"absent", "kept", "pruned"}]
    /\ result \in [Row -> {"null", "stored"}]
    /\ reader \in [Reader -> ReaderState]
    /\ atStart \in [Reader -> {"absent", "kept", "pruned"}]
    /\ decider \in [Decider -> DeciderState]
    /\ nextId \in Nat \ {0}
    /\ decisions \subseteq 1..(nextId - 1)

EvidenceInit ==
    /\ evidence = [e \in Row |-> "absent"]
    /\ result = [e \in Row |-> "null"]
    /\ reader = [r \in Reader |-> IdleReader]
    /\ atStart = [r \in Reader |-> "absent"]
    /\ decider = [d \in Decider |-> IdleDecider]
    /\ nextId = 1 /\ decisions = {} /\ audits = {}

-----------------------------------------------------------------------------
(* What other transactions do to the row: ingest commits it, the           *)
(* symbolizer stores a result, retention removes both.                     *)
IngestEvidence(e) ==
    /\ evidence[e] = "absent"
    /\ evidence' = [evidence EXCEPT ![e] = "kept"]
    /\ UNCHANGED <<result, reader, atStart, decider, nextId, decisions, audits>>

StoreResult(e) ==
    /\ evidence[e] = "kept"
    /\ result[e] = "null"
    /\ result' = [result EXCEPT ![e] = "stored"]
    /\ UNCHANGED <<evidence, reader, atStart, decider, nextId, decisions, audits>>

(* Slip: the result of symbolization is left behind.                       *)
PruneEvidenceOnly(e) ==
    /\ evidence[e] = "kept"
    /\ evidence' = [evidence EXCEPT ![e] = "pruned"]
    /\ UNCHANGED <<result, reader, atStart, decider, nextId, decisions, audits>>

PruneEvidence(e) ==
    /\ evidence[e] = "kept"
    /\ evidence' = [evidence EXCEPT ![e] = "pruned"]
    /\ result' = [result EXCEPT ![e] = "null"]
    /\ UNCHANGED <<reader, atStart, decider, nextId, decisions, audits>>

-----------------------------------------------------------------------------
Advance(r, state) ==
    /\ reader' = [reader EXCEPT ![r] = state]
    /\ UNCHANGED <<evidence, result, decider, nextId, decisions>>

(* The request arrives, is authenticated and validated.                    *)
ReceiveRead(r) ==
    /\ reader[r].pc = "idle"
    /\ Advance(r, [reader[r] EXCEPT !.pc = "event"])
    /\ atStart' = [atStart EXCEPT ![r] = evidence[Target[r]]]
    /\ UNCHANGED audits

(* get_scoped_event: the row, if the credential's scope has it.            *)
LoadEvent(r) ==
    /\ reader[r].pc = "event"
    /\ LET row == IF r \in Foreign THEN "absent" ELSE evidence[Target[r]] IN
       Advance(r, [reader[r] EXCEPT !.pc = IF row = "absent" THEN "audit" ELSE "job",
                                    !.event = row])
    /\ UNCHANGED <<atStart, audits>>

(* lazy="selectin": the job is loaded by a second statement.               *)
LoadJob(r) ==
    /\ reader[r].pc = "job"
    /\ Advance(r, [reader[r] EXCEPT !.pc = "audit", !.result = result[Target[r]]])
    /\ UNCHANGED <<atStart, audits>>

AuditResult(r) ==
    IF reader[r].event = "absent" THEN "not_found"
    ELSE IF reader[r].event = "pruned" /\ Purpose[r] = "raw" THEN "expired"
    ELSE "success"

CommitReadAudit(r) ==
    /\ reader[r].pc = "audit"
    /\ audits' = audits \cup {<<r, Target[r], AuditResult(r)>>}
    /\ Advance(r, [reader[r] EXCEPT !.pc = "answer"])
    /\ UNCHANGED atStart

(* Slip: the instance is expired by COMMIT and loaded again.               *)
AnswerOfReloaded(r) ==
    IF reader[r].event = "absent" THEN "not_found"
    ELSE IF Purpose[r] = "metadata" THEN "metadata"
    ELSE IF evidence[Target[r]] = "pruned" THEN "expired" ELSE "raw"

AnswerOf(r) ==
    IF reader[r].event = "absent" THEN "not_found"
    ELSE IF Purpose[r] = "metadata" THEN "metadata"
    ELSE IF reader[r].event = "pruned" THEN "expired" ELSE "raw"

AnswerRead(r) ==
    /\ reader[r].pc = "answer"
    /\ Advance(r, [reader[r] EXCEPT !.pc = "done", !.answer = AnswerOf(r)])
    /\ UNCHANGED <<atStart, audits>>

(* The request is refused, a statement or the COMMIT fails, or the client  *)
(* goes away: the open transaction is rolled back.                         *)
FailRead(r) ==
    /\ reader[r].pc \in {"event", "job", "audit", "answer"}
    /\ Advance(r, [reader[r] EXCEPT !.pc = "done", !.answer = "error"])
    /\ UNCHANGED <<atStart, audits>>

-----------------------------------------------------------------------------
Decide(d, state) ==
    /\ decider' = [decider EXCEPT ![d] = state]
    /\ UNCHANGED <<evidence, result, reader, atStart>>

(* create_release_decision: flush() inserts the row in the open            *)
(* transaction and takes its id from the sequence.                         *)
FlushDecision(d) ==
    /\ decider[d].pc = "idle"
    /\ Decide(d, [decider[d] EXCEPT !.pc = "flushed", !.id = nextId])
    /\ nextId' = nextId + 1
    /\ UNCHANGED <<decisions, audits>>

(* The decision and its audit row are committed together.                  *)
CommitDecision(d) ==
    /\ decider[d].pc = "flushed"
    /\ decisions' = decisions \cup {decider[d].id}
    /\ audits' = audits \cup {<<d, decider[d].id, "success">>}
    /\ Decide(d, [decider[d] EXCEPT !.pc = "done", !.answer = "created"])
    /\ UNCHANGED nextId

(* A refused or failed request records nothing; its id is lost.            *)
FailDecision(d) ==
    /\ decider[d].pc \in {"idle", "flushed"}
    /\ Decide(d, [decider[d] EXCEPT !.pc = "done", !.answer = "error"])
    /\ UNCHANGED <<nextId, decisions, audits>>

EvidenceNext ==
    \/ \E e \in Row : IngestEvidence(e) \/ StoreResult(e) \/ PruneEvidence(e)
    \/ \E r \in Reader :
          \/ ReceiveRead(r) \/ LoadEvent(r) \/ LoadJob(r)
          \/ CommitReadAudit(r) \/ AnswerRead(r) \/ FailRead(r)
    \/ \E d \in Decider : FlushDecision(d) \/ CommitDecision(d) \/ FailDecision(d)

EvidenceSpec == EvidenceInit /\ [][EvidenceNext]_evidenceVars

-----------------------------------------------------------------------------
(* The results the log holds for a request.                                *)
Logged(r) == {a[3] : a \in {x \in audits : x[1] = r}}

(* The audit log tells what the investigator got: raw evidence leaves the  *)
(* server only after a committed "success" row, an expired or unknown      *)
(* event is logged as such, even when retention prunes the row between     *)
(* the read, the COMMIT and the answer.                                    *)
AuditTellsAnswer ==
    \A r \in Reader :
        CASE reader[r].answer \in {"raw", "metadata"} -> Logged(r) = {"success"}
          [] reader[r].answer = "not_found"           -> Logged(r) = {"not_found"}
          [] reader[r].answer = "expired"             -> Logged(r) = {"expired"}
          [] OTHER                                    -> Cardinality(Logged(r)) <= 1

(* A request received after retention pruned the event gets no raw         *)
(* payload, and no symbolized stack either.                                *)
NothingAfterPrune ==
    \A r \in Reader : reader[r].answer # "none" /\ atStart[r] = "pruned" =>
        reader[r].answer # "raw" /\ reader[r].result = "null"

(* Release decisions and their audit rows are the same set: a request      *)
(* that dies between the INSERT and the COMMIT leaves neither.             *)
DecisionsAudited ==
    decisions = {a[2] : a \in {x \in audits : x[1] \in Decider}}

(* The audited operations leave nothing out: types, retention, decisions.  *)
EvidenceInv ==
    /\ EvidenceTypeOK
    /\ NothingAfterPrune
    /\ DecisionsAudited

-----------------------------------------------------------------------------
(* What the proofs need in between.  A row without raw evidence has no     *)
(* result.                                                                 *)
ResultsNeedEvidence == \A e \in Row : evidence[e] # "kept" => result[e] = "null"

(* What a request has loaded: nothing before its statements, and nothing   *)
(* raw when the row was pruned before it came.                             *)
LoadsHeld ==
    \A r \in Reader :
        /\ reader[r].pc \in {"idle", "event"} => reader[r].event = "none" /\ reader[r].result = "null"
        /\ reader[r].pc \in {"job", "audit", "answer"} => reader[r].event # "none"
        /\ reader[r].pc # "idle" /\ atStart[r] = "pruned" =>
              /\ evidence[Target[r]] = "pruned"
              /\ reader[r].event # "kept" /\ reader[r].result = "null"

(* The log has a row of a request from its COMMIT on, with the result its  *)
(* answer is built from; a request that failed may have left one.          *)
LogHeld ==
    \A r \in Reader :
        /\ reader[r].pc # "done" => reader[r].answer = "none"
        /\ reader[r].pc \in {"idle", "event", "job", "audit"} => Logged(r) = {}
        /\ reader[r].pc = "answer" => Logged(r) = {AuditResult(r)}
        /\ reader[r].pc = "done" =>
              \/ reader[r].answer = "error" /\ Logged(r) \subseteq {AuditResult(r)}
              \/ /\ reader[r].answer = AnswerOf(r) /\ Logged(r) = {AuditResult(r)}
                 /\ reader[r].event # "none"

(* A flushed decision has an id the sequence has given.                    *)
IdsHeld == \A d \in Decider : decider[d].pc = "flushed" => decider[d].id \in 1..(nextId - 1)

EvidenceHeld ==
    /\ EvidenceTypeOK
    /\ ResultsNeedEvidence
    /\ LoadsHeld
    /\ LogHeld
    /\ IdsHeld
    /\ DecisionsAudited
================================================================================
