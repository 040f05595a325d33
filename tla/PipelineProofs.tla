--------------------------- MODULE PipelineProofs ---------------------------
(***************************************************************************)
(* Proofs about Pipeline for any sets of events, processes and artifacts.  *)
(***************************************************************************)
EXTENDS Pipeline, FiniteSetTheorems, TLAPS

-----------------------------------------------------------------------------
(* Type correctness.                                                       *)

(* A fresh lease token is a token that no row and no process holds.        *)
LEMMA FreshExportOwner ==
    ASSUME Token \ ExportTokensInUse # {}
    PROVE  NewExportOwner \in Token /\ NewExportOwner \notin ExportTokensInUse
BY DEF NewExportOwner

LEMMA FreshSymbolOwner ==
    ASSUME Token \ SymbolTokensInUse # {}
    PROVE  NewSymbolOwner \in Token /\ NewSymbolOwner \notin SymbolTokensInUse
BY DEF NewSymbolOwner

(* What the row operators return is a row.                                 *)
LEMMA RowOperatorTypes ==
    ASSUME NEW row \in InboxRow, NEW owner \in Token \cup {NoOwner},
           NEW n \in Nat, NEW b \in BOOLEAN
    PROVE  /\ ReleaseInbox(row) \in InboxRow
           /\ AfterClock(row) \in InboxRow
           /\ MarkDelivered(row, owner) \in InboxRow
           /\ MarkFailed(row, owner, n, b) \in InboxRow
           /\ ClaimRow(row, owner, b) \in InboxRow
<1> USE DEF InboxRow, LIVE_STATUSES, FINAL_STATUSES
<1>1. ReleaseInbox(row) \in InboxRow
    BY DEF ReleaseInbox
<1>2. AfterClock(row) \in InboxRow
    BY DEF AfterClock
<1>3. MarkDelivered(row, owner) \in InboxRow
    BY DEF MarkDelivered
<1>4. MarkFailed(row, owner, n, b) \in InboxRow
    BY DEF MarkFailed
<1>5. CountAttempt(row.attempt_count) \in Nat
    BY WorkerAssumption DEF CountAttempt
<1>6. ClaimRow(row, owner, b) \in InboxRow
    BY <1>5 DEF ClaimRow
<1> QED BY <1>1, <1>2, <1>3, <1>4, <1>6

LEMMA JobOperatorTypes ==
    ASSUME NEW row \in JobRow
    PROVE  /\ AfterClock(row) \in JobRow /\ Unleased(row) \in JobRow
           /\ SpendAttempt(row) \in JobRow
<1>1. AfterClock(row) \in JobRow /\ Unleased(row) \in JobRow
    BY DEF JobRow, AfterClock, Unleased
<1>2. row.attempt_count + 1 \in Nat
    BY DEF JobRow
<1>3. SpendAttempt(row) \in JobRow
    BY <1>2 DEF JobRow, SpendAttempt
<1> QED BY <1>1, <1>3

LEMMA JobRowUpdates ==
    ASSUME NEW row \in JobRow, NEW b \in BOOLEAN,
           NEW st \in UNFINISHED_SYMBOL_STATUSES \cup FINISHED_SYMBOL_STATUSES \cup {"none"}
    PROVE  /\ [row EXCEPT !.status = st, !.due = b] \in JobRow
           /\ [row EXCEPT !.status = st, !.has_result = b] \in JobRow
BY DEF JobRow

(* A new event's job status, and its rows.                                 *)
LEMMA EnterTypes ==
    ASSUME NEW e \in Event, NEW enabled \in BOOLEAN, NEW evident \in BOOLEAN,
           NEW row \in InboxRow, NEW jrow \in JobRow
    PROVE  /\ NewJobStatus(e, enabled) \in {"none", "disabled", "metadata_missing", "pending"}
           /\ EnterRow(row, NewJobStatus(e, enabled), evident) \in InboxRow
           /\ EnterJob(jrow, NewJobStatus(e, enabled)) \in JobRow
<1>1. NewJobStatus(e, enabled) \in {"none", "disabled", "metadata_missing", "pending"}
    BY KindAssumption DEF NewJobStatus, Kinds
<1>2. EnterRow(row, NewJobStatus(e, enabled), evident) \in InboxRow
    BY DEF EnterRow, InboxRow, LIVE_STATUSES
<1>3. \A st \in {"none", "disabled", "metadata_missing", "pending"} :
         EnterJob(jrow, st) \in JobRow
    BY DEF EnterJob, JobRow, UNFINISHED_SYMBOL_STATUSES, FINISHED_SYMBOL_STATUSES
<1> QED BY <1>1, <1>2, <1>3

LEMMA TypeInit == Init => TypeOK
<1> SUFFICES ASSUME Init PROVE TypeOK
    OBVIOUS
<1>1. StoreTypeOK
    BY DEF Init, StoreInit, StoreTypeOK, AbsentRow, NoJob, InboxRow, JobRow
<1>2. WorkerTypeOK
    BY DEF Init, WorkerInit, WorkerTypeOK, IdleWorker, WorkerState
<1>3. SymbolizerTypeOK
    BY DEF Init, SymbolizerInit, SymbolizerTypeOK, IdleSymbolizer, SymbolizerState
<1> QED BY <1>1, <1>2, <1>3 DEF TypeOK

LEMMA StoreStepType ==
    ASSUME StoreTypeOK, StoreStep
    PROVE  StoreTypeOK'
<1>1. CASE \E events \in SUBSET Event, enabled \in BOOLEAN, evidence \in SUBSET Event :
              Ingest(events, enabled, evidence)
    <2> PICK events \in SUBSET Event, enabled \in BOOLEAN, evidence \in SUBSET Event :
                Ingest(events, enabled, evidence)
        BY <1>1
    <2>1. \A e \in Event : (e \in evidence) \in BOOLEAN
        OBVIOUS
    <2>2. \A e \in Event :
             /\ EnterRow(inbox[e], NewJobStatus(e, enabled), e \in evidence) \in InboxRow
             /\ EnterJob(job[e], NewJobStatus(e, enabled)) \in JobRow
        BY <2>1, EnterTypes DEF StoreTypeOK
    <2> QED BY <2>2 DEF Ingest, StoreTypeOK
<1>2. CASE \E rows \in SUBSET Event : MaintainOnce(rows)
    <2> PICK rows \in SUBSET Event : MaintainOnce(rows)
        BY <1>2
    <2>1. \A e \in Event : [inbox[e] EXCEPT !.raw_pruned = TRUE] \in InboxRow
        BY DEF StoreTypeOK, InboxRow
    <2>2. \A e \in Event : [job[e] EXCEPT !.has_result = FALSE] \in JobRow
        BY DEF StoreTypeOK, JobRow
    <2> QED BY <2>1, <2>2 DEF MaintainOnce, StoreTypeOK
<1>3. CASE \E rows \in SUBSET Event : InboxClock(rows)
    <2>1. \A e \in Event : AfterClock(inbox[e]) \in InboxRow
        BY DEF StoreTypeOK, InboxRow, AfterClock
    <2> QED BY <1>3, <2>1 DEF InboxClock, StoreTypeOK
<1>4. CASE \E rows \in SUBSET Event : JobClock(rows)
    BY <1>4, JobOperatorTypes DEF JobClock, StoreTypeOK
<1> QED BY <1>1, <1>2, <1>3, <1>4 DEF StoreStep

LEMMA ExportStepType ==
    ASSUME StoreTypeOK, WorkerTypeOK, NEW w \in Worker, ExportStep(w)
    PROVE  StoreTypeOK' /\ WorkerTypeOK'
<1> USE DEF StoreTypeOK, WorkerTypeOK
<1>0. IdleWorker \in WorkerState
    BY DEF IdleWorker, WorkerState
<1>1. CASE \E rows \in SUBSET Event, live \in BOOLEAN : ClaimBatch(w, rows, live)
    <2> PICK rows \in SUBSET Event, live \in BOOLEAN : ClaimBatch(w, rows, live)
        BY <1>1
    <2>1. NewExportOwner \in Token
        BY FreshExportOwner DEF ClaimBatch
    <2>2. inbox' \in [Event -> InboxRow] /\ job' = job
        <3>1. \A e \in Event : ClaimRow(inbox[e], NewExportOwner, live) \in InboxRow
            BY <2>1, RowOperatorTypes
        <3> QED BY <3>1 DEF ClaimBatch
    <2>3. \A e \in Event : CountAttempt(inbox[e].attempt_count) \in Nat
        BY WorkerAssumption DEF CountAttempt, InboxRow
    <2>4. worker' \in [Worker -> WorkerState] /\ collected' = collected
        BY <2>1, <2>3 DEF ClaimBatch, WorkerState
    <2> QED BY <2>2, <2>4
<1>2. CASE EncodeIsolatedBatch(w)
    <2>1. inbox' \in [Event -> InboxRow] /\ job' = job
        <3>1. \A e \in Event :
                 MarkFailed(inbox[e], worker[w].owner, worker[w].attempts[e], FALSE) \in InboxRow
            BY RowOperatorTypes DEF WorkerState
        <3> QED BY <1>2, <3>1 DEF EncodeIsolatedBatch
    <2>2. worker' \in [Worker -> WorkerState] /\ collected' = collected
        BY <1>2, <1>0 DEF EncodeIsolatedBatch, WorkerState
    <2> QED BY <2>1, <2>2
<1>3. CASE \E accepted \in SUBSET Event, result \in ExportResults : Export(w, accepted, result)
    <2> PICK accepted \in SUBSET Event, result \in ExportResults : Export(w, accepted, result)
        BY <1>3
    <2>1. [worker[w] EXCEPT !.pc = "answered", !.result = result] \in WorkerState
        BY DEF WorkerState
    <2> QED BY <2>1 DEF Export, storeVars
<1>4. CASE RecordOutcome(w)
    <2>1. inbox' \in [Event -> InboxRow] /\ job' = job
        <3>1. \A e \in Event : /\ MarkDelivered(inbox[e], worker[w].owner) \in InboxRow
                               /\ \A b \in BOOLEAN :
                                     MarkFailed(inbox[e], worker[w].owner,
                                                worker[w].attempts[e], b) \in InboxRow
            BY RowOperatorTypes DEF WorkerState
        <3>2. (worker[w].result = "retryable") \in BOOLEAN
            OBVIOUS
        <3> QED BY <1>4, <3>1, <3>2 DEF RecordOutcome
    <2>2. worker' \in [Worker -> WorkerState] /\ collected' = collected
        BY <1>4, <1>0 DEF RecordOutcome
    <2> QED BY <2>1, <2>2
<1>5. CASE AbandonCycle(w)
    BY <1>5, <1>0 DEF AbandonCycle, storeVars
<1> QED BY <1>1, <1>2, <1>3, <1>4, <1>5 DEF ExportStep

LEMMA SymbolStepType ==
    ASSUME StoreTypeOK, SymbolizerTypeOK, SymbolizerMemory, NEW s \in Symbolizer, SymbolStep(s)
    PROVE  StoreTypeOK' /\ SymbolizerTypeOK'
<1> USE DEF StoreTypeOK, SymbolizerTypeOK
<1> DEFINE e == symbolizer[s].job
<1>0. IdleSymbolizer \in SymbolizerState
    BY DEF IdleSymbolizer, SymbolizerState
<1>1. \A b \in BOOLEAN : FailingWith(symbolizer[s], b) \in SymbolizerState
    BY DEF FailingWith, SymbolizerState
<1>2. AfterCommit(s) => symbolizer' \in [Symbolizer -> SymbolizerState]
    BY <1>0, <1>1 DEF AfterCommit
<1>4. CASE \E x \in Event, live \in BOOLEAN : ClaimSymbolizationJob(s, x, live)
    <2> PICK x \in Event, live \in BOOLEAN : ClaimSymbolizationJob(s, x, live)
        BY <1>4
    <2>1. NewSymbolOwner \in Token
        BY FreshSymbolOwner DEF ClaimSymbolizationJob
    <2>2. [job[x] EXCEPT !.status = "processing", !.lease_owner = NewSymbolOwner, !.live = live]
             \in JobRow
        BY <2>1 DEF JobRow, UNFINISHED_SYMBOL_STATUSES
    <2>3. [IdleSymbolizer EXCEPT !.pc = "claimed", !.owner = NewSymbolOwner, !.job = x,
                                 !.attempts = job[x].attempt_count] \in SymbolizerState
        BY <2>1, <1>0 DEF SymbolizerState, JobRow
    <2> QED BY <2>2, <2>3 DEF ClaimSymbolizationJob
<1>5. CASE ResolveArtifacts(s)
    <2>1. \A pc \in {"missing", "failing", "resolved"} :
             [symbolizer[s] EXCEPT !.pc = pc, !.retryable = FALSE] \in SymbolizerState
        BY DEF SymbolizerState
    <2> QED BY <1>5, <2>1 DEF ResolveArtifacts, storeVars
<1>6. CASE MarkSymbolsMissing(s)
    <2>1. \A x \in Event :
             [Unleased(job[x]) EXCEPT !.status = "symbols_missing", !.due = FALSE] \in JobRow
        BY JobOperatorTypes, JobRowUpdates DEF UNFINISHED_SYMBOL_STATUSES
    <2> QED BY <1>6, <1>2, <2>1 DEF MarkSymbolsMissing
<1>7. CASE StartSymbolizationAttempt(s)
    <2>1. \A x \in Event : SpendAttempt(job[x]) \in JobRow
        BY JobOperatorTypes
    <2>2. symbolizer[s].attempts + 1 \in Nat
        BY DEF SymbolizerState
    <2>3. \A left \in SUBSET Artifact :
             [symbolizer[s] EXCEPT !.pc = "started", !.left = left,
                                   !.attempts = symbolizer[s].attempts + 1] \in SymbolizerState
        BY <2>2 DEF SymbolizerState
    <2>4. job' \in [Event -> JobRow]
        BY <1>7, <2>1 DEF StartSymbolizationAttempt
    <2>5. e \in Event
        BY <1>7 DEF StartSymbolizationAttempt, SymbolizerMemory
    <2>6. Needs[e] \in SUBSET Artifact
        BY <2>5, SymbolizerAssumption
    <2>7. symbolizer' \in [Symbolizer -> SymbolizerState]
        BY <1>0, <1>7, <2>3, <2>6 DEF StartSymbolizationAttempt
    <2> QED BY <1>7, <2>4, <2>7 DEF StartSymbolizationAttempt
<1>8. CASE \E a \in Artifact, status \in {"symbolized", "partially_symbolized"} :
              RunTool(s, a, status)
    <2> PICK a \in Artifact, status \in {"symbolized", "partially_symbolized"} :
                RunTool(s, a, status)
        BY <1>8
    <2>1. /\ [symbolizer[s] EXCEPT !.pc = "finished", !.left = {}, !.status = status]
                \in SymbolizerState
          /\ [symbolizer[s] EXCEPT !.left = symbolizer[s].left \ {a}] \in SymbolizerState
        BY DEF SymbolizerState
    <2>2. tool_runs' \in [Event -> [Artifact -> Nat]]
        <3>1. tool_runs' = [tool_runs EXCEPT ![e] =
                              [tool_runs[e] EXCEPT ![a] = tool_runs[e][a] + 1]]
            BY DEF RunTool
        <3>2. e \in Event
            BY DEF RunTool, SymbolizerMemory
        <3>3. tool_runs[e] \in [Artifact -> Nat] /\ tool_runs[e][a] + 1 \in Nat
            BY <3>2
        <3>4. [tool_runs[e] EXCEPT ![a] = tool_runs[e][a] + 1] \in [Artifact -> Nat]
            BY <3>3
        <3> QED BY <3>1, <3>4
    <2>3. symbolizer' \in [Symbolizer -> SymbolizerState]
        BY <1>1, <2>1 DEF RunTool
    <2> QED BY <2>2, <2>3 DEF RunTool, storeVars
<1>9. CASE MarkSymbolized(s)
    <2>1. /\ symbolizer[s].pc = "finished"
          /\ AfterCommit(s)
          /\ UNCHANGED <<registered, tool_runs>>
        BY <1>9 DEF MarkSymbolized
    <2>2. \A x \in Event, st \in {"none", "symbolized", "partially_symbolized"} :
             [Unleased(job[x]) EXCEPT !.status = st, !.has_result = TRUE] \in JobRow
        BY JobOperatorTypes, JobRowUpdates DEF FINISHED_SYMBOL_STATUSES
    <2>3. symbolizer[s].status \in {"none", "symbolized", "partially_symbolized"}
        BY DEF SymbolizerState
    <2>4. job' \in [Event -> JobRow]
        BY <1>9, <2>2, <2>3 DEF MarkSymbolized
    <2>5. \A x \in Event : PublishFingerprint(inbox[x], x) \in InboxRow
        BY DEF PublishFingerprint, InboxRow
    <2>6. \A row \in InboxRow : ReleaseInbox(row) \in InboxRow
        BY DEF ReleaseInbox, InboxRow, LIVE_STATUSES
    <2>7. inbox' \in [Event -> InboxRow]
        BY <1>9, <2>5, <2>6 DEF MarkSymbolized
    <2> QED BY <1>2, <2>1, <2>4, <2>7
<1>10. CASE MarkSymbolizationFailed(s)
    <2>1. \A x \in Event, st \in {"pending", "failed"} :
             [Unleased(job[x]) EXCEPT !.status = st, !.due = FALSE] \in JobRow
        BY JobOperatorTypes, JobRowUpdates
           DEF UNFINISHED_SYMBOL_STATUSES, FINISHED_SYMBOL_STATUSES
    <2>2. job' \in [Event -> JobRow]
        BY <1>10, <2>1 DEF MarkSymbolizationFailed
    <2>3. \A x \in Event : ReleaseInbox(inbox[x]) \in InboxRow
        BY DEF ReleaseInbox, InboxRow, LIVE_STATUSES
    <2>4. inbox' \in [Event -> InboxRow]
        BY <1>10, <2>3 DEF MarkSymbolizationFailed
    <2> QED BY <1>0, <1>10, <2>2, <2>4 DEF MarkSymbolizationFailed
<1>11. CASE \E b \in BOOLEAN, n \in 0..SymbolizerMaxAttempts : ProcessFails(s, b, n)
    <2> PICK b \in BOOLEAN, n \in 0..SymbolizerMaxAttempts : ProcessFails(s, b, n)
        BY <1>11
    <2>1. n \in Nat
        BY SymbolizerAssumption
    <2>2. [FailingWith(symbolizer[s], b) EXCEPT !.attempts = n] \in SymbolizerState
        BY <1>1, <2>1 DEF SymbolizerState
    <2> QED BY <2>2 DEF ProcessFails, storeVars
<1>12. CASE AbandonJob(s)
    BY <1>0, <1>12 DEF AbandonJob, storeVars
<1> QED BY <1>4, <1>5, <1>6, <1>7, <1>8, <1>9, <1>10, <1>11, <1>12 DEF SymbolStep

LEMMA RegisterArtifactType ==
    ASSUME StoreTypeOK, SymbolizerTypeOK, NEW a \in Artifact, RegisterArtifact(a)
    PROVE  StoreTypeOK' /\ SymbolizerTypeOK'
<1>1. \A e \in Event : [job[e] EXCEPT !.status = "pending", !.due = TRUE] \in JobRow
    BY DEF StoreTypeOK, JobRow, UNFINISHED_SYMBOL_STATUSES
<1> QED BY <1>1 DEF RegisterArtifact, StoreTypeOK, SymbolizerTypeOK

LEMMA TypeStep == TypeOK /\ SymbolizerMemory /\ [Next]_vars => TypeOK'
<1> SUFFICES ASSUME TypeOK, SymbolizerMemory, [Next]_vars PROVE TypeOK'
    OBVIOUS
<1> USE DEF TypeOK
<1>1. CASE StoreStep /\ UNCHANGED <<workerVars, symbolizerVars>>
    BY <1>1, StoreStepType
       DEF workerVars, symbolizerVars, WorkerTypeOK, SymbolizerTypeOK
<1>2. CASE \E w \in Worker : ExportStep(w) /\ UNCHANGED symbolizerVars
    BY <1>2, ExportStepType DEF symbolizerVars, SymbolizerTypeOK
<1>3. CASE \E s \in Symbolizer : SymbolStep(s) /\ UNCHANGED workerVars
    BY <1>3, SymbolStepType DEF workerVars, WorkerTypeOK
<1>4. CASE \E a \in Artifact : RegisterArtifact(a) /\ UNCHANGED workerVars
    BY <1>4, RegisterArtifactType DEF workerVars, WorkerTypeOK
<1>5. CASE UNCHANGED vars
    BY <1>5 DEF vars, StoreTypeOK, WorkerTypeOK, SymbolizerTypeOK
<1> QED BY <1>1, <1>2, <1>3, <1>4, <1>5 DEF Next

-----------------------------------------------------------------------------
(* What one step of the system can do to one event: every action is one of *)
(* these six changes to the pair of rows of that event.                    *)
KeepsFacts(e) ==
    /\ inbox'[e].status = inbox[e].status
    /\ inbox'[e].fingerprint = inbox[e].fingerprint
    /\ inbox'[e].has_evidence = inbox[e].has_evidence
    /\ inbox'[e].raw_pruned = inbox[e].raw_pruned
    /\ job'[e].status = job[e].status
    /\ job'[e].has_result = job[e].has_result

Enters(e) ==
    /\ inbox[e].status = "absent"
    /\ \/ inbox'[e].status = "awaiting_symbols" /\ job'[e].status = "pending"
       \/ /\ inbox'[e].status = "pending"
          /\ job'[e].status \in {"none", "disabled", "metadata_missing"}
    /\ inbox'[e].fingerprint = IF inbox'[e].has_evidence THEN "raw" ELSE "none"
    /\ inbox'[e].raw_pruned = inbox[e].raw_pruned
    /\ job'[e].has_result = job[e].has_result

Prunes(e) ==
    /\ inbox[e].status \in FINAL_STATUSES
    /\ inbox'[e].status = inbox[e].status
    /\ inbox'[e].fingerprint = inbox[e].fingerprint
    /\ inbox'[e].has_evidence = inbox[e].has_evidence
    /\ job'[e].status = job[e].status
    /\ ~job'[e].has_result

MovesInExport(e) ==
    /\ inbox[e].status \in {"pending", "processing"}
    /\ inbox'[e].status \in {"pending", "processing", "delivered", "dead_letter"}
    /\ inbox'[e].fingerprint = inbox[e].fingerprint
    /\ inbox'[e].has_evidence = inbox[e].has_evidence
    /\ inbox'[e].raw_pruned = inbox[e].raw_pruned
    /\ job'[e] = job[e]

MovesInSymbols(e) ==
    /\ job[e].status \in UNFINISHED_SYMBOL_STATUSES
    /\ job'[e].status \in UNFINISHED_SYMBOL_STATUSES
    /\ job'[e].has_result = job[e].has_result
    /\ inbox'[e] = inbox[e]

FinishesSymbols(e) ==
    /\ job[e].status = "processing"
    /\ inbox'[e].has_evidence = inbox[e].has_evidence
    /\ inbox'[e].raw_pruned = inbox[e].raw_pruned
    /\ inbox'[e].status = IF inbox[e].status = "awaiting_symbols" THEN "pending"
                                                                 ELSE inbox[e].status
    /\ \/ /\ job'[e].status = "failed"
          /\ inbox'[e].fingerprint = inbox[e].fingerprint
          /\ job'[e].has_result = job[e].has_result
       \/ /\ job'[e].status = "symbolized"
          /\ inbox'[e].fingerprint = IF Kind[e] = "java" /\ inbox[e].fingerprint # "none"
                                     THEN "symbolized" ELSE inbox[e].fingerprint
       \/ /\ job'[e].status = "partially_symbolized"
          /\ Kind[e] = "native"
          /\ inbox'[e].fingerprint = inbox[e].fingerprint

EventStep(e) ==
    \/ KeepsFacts(e)
    \/ Enters(e)
    \/ Prunes(e)
    \/ MovesInExport(e)
    \/ MovesInSymbols(e)
    \/ FinishesSymbols(e)

LEMMA StoreEventStep ==
    ASSUME TypeOK, StoreStep, NEW e \in Event
    PROVE  EventStep(e)
<1> USE DEF TypeOK, StoreTypeOK
<1>0. inbox[e] \in InboxRow /\ job[e] \in JobRow
    OBVIOUS
<1>1. CASE \E events \in SUBSET Event, enabled \in BOOLEAN, evidence \in SUBSET Event :
              Ingest(events, enabled, evidence)
    <2> PICK events \in SUBSET Event, enabled \in BOOLEAN, evidence \in SUBSET Event :
                Ingest(events, enabled, evidence)
        BY <1>1
    <2>1. CASE e \in events
        <3> DEFINE status  == NewJobStatus(e, enabled)
                   evident == e \in evidence
        <3>1. status \in {"none", "disabled", "metadata_missing", "pending"}
            BY <1>0, EnterTypes
        <3>2. /\ inbox[e].status = "absent"
              /\ inbox'[e] = EnterRow(inbox[e], status, evident)
              /\ job'[e] = EnterJob(job[e], status)
            BY <2>1 DEF Ingest
        <3> HIDE DEF status
        <3>3. /\ inbox'[e].status = IF status = "pending" THEN "awaiting_symbols" ELSE "pending"
              /\ inbox'[e].fingerprint = IF evident THEN "raw" ELSE "none"
              /\ inbox'[e].has_evidence = evident
              /\ inbox'[e].raw_pruned = inbox[e].raw_pruned
            BY <1>0, <3>2 DEF EnterRow, InboxRow
        <3>4. job'[e].status = status /\ job'[e].has_result = job[e].has_result
            BY <1>0, <3>2 DEF EnterJob, JobRow
        <3>5. Enters(e)
            BY <3>1, <3>2, <3>3, <3>4 DEF Enters
        <3> QED BY <3>5 DEF EventStep
    <2>2. CASE e \notin events
        BY <2>2 DEF Ingest, EventStep, KeepsFacts
    <2> QED BY <2>1, <2>2
<1>2. CASE \E rows \in SUBSET Event : MaintainOnce(rows)
    <2> PICK rows \in SUBSET Event : MaintainOnce(rows)
        BY <1>2
    <2>1. CASE e \in rows
        <3>1. Prunes(e)
            BY <1>0, <2>1 DEF MaintainOnce, Prunable, Prunes, InboxRow, JobRow
        <3> QED BY <3>1 DEF EventStep
    <2>2. CASE e \notin rows
        BY <2>2 DEF MaintainOnce, EventStep, KeepsFacts
    <2> QED BY <2>1, <2>2
<1>3. CASE \E rows \in SUBSET Event : InboxClock(rows)
    <2>1. inbox'[e] \in {inbox[e], AfterClock(inbox[e])} /\ job' = job
        BY <1>3 DEF InboxClock
    <2>2. KeepsFacts(e)
        BY <1>0, <2>1 DEF AfterClock, KeepsFacts, InboxRow
    <2> QED BY <2>2 DEF EventStep
<1>4. CASE \E rows \in SUBSET Event : JobClock(rows)
    <2>1. job'[e] \in {job[e], AfterClock(job[e])} /\ inbox' = inbox
        BY <1>4 DEF JobClock
    <2>2. KeepsFacts(e)
        BY <1>0, <2>1 DEF AfterClock, KeepsFacts, JobRow
    <2> QED BY <2>2 DEF EventStep
<1> QED BY <1>1, <1>2, <1>3, <1>4 DEF StoreStep

LEMMA ExportEventStep ==
    ASSUME TypeOK, NEW w \in Worker, ExportStep(w), NEW e \in Event
    PROVE  EventStep(e)
<1> USE DEF TypeOK, StoreTypeOK
<1>0. inbox[e] \in InboxRow /\ job' = job
    BY DEF ExportStep, ClaimBatch, EncodeIsolatedBatch, Export, RecordOutcome, AbandonCycle,
           storeVars
<1>1. CASE inbox'[e] = inbox[e]
    BY <1>0, <1>1 DEF EventStep, KeepsFacts
<1>2. ASSUME NEW live, inbox'[e] = ClaimRow(inbox[e], NewExportOwner, live),
             Claimable(inbox[e], {"pending"})
      PROVE  MovesInExport(e)
    BY <1>0, <1>2 DEF ClaimRow, Claimable, MovesInExport, InboxRow
<1>3. ASSUME NEW owner, inbox'[e] = MarkDelivered(inbox[e], owner)
      PROVE  MovesInExport(e) \/ inbox'[e] = inbox[e]
    BY <1>0, <1>3 DEF MarkDelivered, Fenced, MovesInExport, InboxRow
<1>4. ASSUME NEW owner, NEW n, NEW b, inbox'[e] = MarkFailed(inbox[e], owner, n, b)
      PROVE  MovesInExport(e) \/ inbox'[e] = inbox[e]
    BY <1>0, <1>4 DEF MarkFailed, Fenced, MovesInExport, InboxRow
<1>5. MovesInExport(e) \/ inbox'[e] = inbox[e]
    <2>1. CASE \E rows \in SUBSET Event, live \in BOOLEAN : ClaimBatch(w, rows, live)
        BY <1>2, <2>1 DEF ClaimBatch
    <2>2. CASE EncodeIsolatedBatch(w)
        BY <1>4, <2>2 DEF EncodeIsolatedBatch
    <2>3. CASE \E a \in SUBSET Event, r \in ExportResults : Export(w, a, r)
        BY <2>3 DEF Export, storeVars
    <2>4. CASE RecordOutcome(w)
        BY <1>3, <1>4, <2>4 DEF RecordOutcome
    <2>5. CASE AbandonCycle(w)
        BY <2>5 DEF AbandonCycle, storeVars
    <2> QED BY <2>1, <2>2, <2>3, <2>4, <2>5 DEF ExportStep
<1> QED BY <1>1, <1>5 DEF EventStep

LEMMA SymbolEventStep ==
    ASSUME TypeOK, SymbolizerMemory, NEW s \in Symbolizer, SymbolStep(s), NEW e \in Event
    PROVE  EventStep(e)
<1> USE DEF TypeOK, StoreTypeOK
<1>0. inbox[e] \in InboxRow /\ job[e] \in JobRow
    OBVIOUS
<1> DEFINE x == symbolizer[s].job
<1>1. CASE \E y \in Event, live \in BOOLEAN : ClaimSymbolizationJob(s, y, live)
    <2> PICK y \in Event, live \in BOOLEAN : ClaimSymbolizationJob(s, y, live)
        BY <1>1
    <2>1. CASE y = e
        <3>1. MovesInSymbols(e)
            BY <1>0, <2>1 DEF ClaimSymbolizationJob, Claimable, MovesInSymbols, JobRow,
                              UNFINISHED_SYMBOL_STATUSES
        <3> QED BY <3>1 DEF EventStep
    <2>2. CASE y # e
        BY <2>2 DEF ClaimSymbolizationJob, EventStep, KeepsFacts
    <2> QED BY <2>1, <2>2
<1>2. CASE UNCHANGED storeVars
    BY <1>2 DEF storeVars, EventStep, KeepsFacts
<1>3. CASE MarkSymbolsMissing(s)
    <2>1. CASE x = e /\ Fenced(job[e], symbolizer[s].owner)
        <3>1. /\ job'[e] = [Unleased(job[e]) EXCEPT !.status = "symbols_missing", !.due = FALSE]
              /\ inbox' = inbox
            BY <1>3, <2>1 DEF MarkSymbolsMissing
        <3>2. MovesInSymbols(e)
            BY <1>0, <2>1, <3>1 DEF Unleased, Fenced, MovesInSymbols, JobRow,
                                    UNFINISHED_SYMBOL_STATUSES
        <3> QED BY <3>2 DEF EventStep
    <2>2. CASE ~(x = e /\ Fenced(job[e], symbolizer[s].owner))
        <3>1. job'[e] = job[e] /\ inbox' = inbox
            BY <1>3, <2>2 DEF MarkSymbolsMissing
        <3> QED BY <3>1 DEF EventStep, KeepsFacts
    <2> QED BY <2>1, <2>2
<1>4. CASE StartSymbolizationAttempt(s)
    <2>1. job'[e] \in {job[e], SpendAttempt(job[e])} /\ inbox' = inbox
        BY <1>4 DEF StartSymbolizationAttempt
    <2>2. KeepsFacts(e)
        BY <1>0, <2>1 DEF SpendAttempt, KeepsFacts, JobRow
    <2> QED BY <2>2 DEF EventStep
<1>5. CASE MarkSymbolized(s)
    <2>1. CASE x = e /\ Fenced(job[e], symbolizer[s].owner)
        <3>1. /\ job'[e] = [Unleased(job[e]) EXCEPT !.status = symbolizer[s].status,
                                                   !.has_result = TRUE]
              /\ inbox'[e] = ReleaseInbox(PublishFingerprint(inbox[e], e))
            BY <1>5, <2>1 DEF MarkSymbolized
        <3>2. job'[e].status = symbolizer[s].status /\ job[e].status = "processing"
            BY <1>0, <2>1, <3>1 DEF Unleased, Fenced, JobRow
        <3>3. /\ inbox'[e].raw_pruned = inbox[e].raw_pruned
              /\ inbox'[e].has_evidence = inbox[e].has_evidence
              /\ inbox'[e].fingerprint =
                    IF Kind[e] = "java" /\ inbox[e].fingerprint # "none"
                    THEN "symbolized" ELSE inbox[e].fingerprint
              /\ inbox'[e].status = IF inbox[e].status = "awaiting_symbols" THEN "pending"
                                                                 ELSE inbox[e].status
            BY <1>0, <3>1 DEF ReleaseInbox, PublishFingerprint, InboxRow
        <3>4. \/ symbolizer[s].status = "symbolized"
              \/ symbolizer[s].status = "partially_symbolized" /\ Kind[e] = "native"
            BY <1>5, <2>1 DEF MarkSymbolized, SymbolizerMemory
        <3>5. FinishesSymbols(e)
            BY <3>2, <3>3, <3>4 DEF FinishesSymbols
        <3> QED BY <3>5 DEF EventStep
    <2>2. CASE ~(x = e /\ Fenced(job[e], symbolizer[s].owner))
        <3>1. job'[e] = job[e] /\ inbox'[e] = inbox[e]
            BY <1>5, <2>2 DEF MarkSymbolized
        <3> QED BY <3>1 DEF EventStep, KeepsFacts
    <2> QED BY <2>1, <2>2
<1>6. CASE MarkSymbolizationFailed(s)
    <2> DEFINE again == symbolizer[s].retryable /\ symbolizer[s].attempts < SymbolizerMaxAttempts
    <2>1. CASE x = e /\ Fenced(job[e], symbolizer[s].owner) /\ again
        <3>1. /\ job'[e] = [Unleased(job[e]) EXCEPT !.status = "pending", !.due = FALSE]
              /\ inbox' = inbox
            BY <1>6, <2>1 DEF MarkSymbolizationFailed
        <3>2. MovesInSymbols(e)
            BY <1>0, <2>1, <3>1 DEF Unleased, Fenced, MovesInSymbols, JobRow,
                                    UNFINISHED_SYMBOL_STATUSES
        <3> QED BY <3>2 DEF EventStep
    <2>2. CASE x = e /\ Fenced(job[e], symbolizer[s].owner) /\ ~again
        <3>1. /\ job'[e] = [Unleased(job[e]) EXCEPT !.status = "failed", !.due = FALSE]
              /\ inbox'[e] = ReleaseInbox(inbox[e])
            BY <1>6, <2>2 DEF MarkSymbolizationFailed
        <3>2. FinishesSymbols(e)
            BY <1>0, <2>2, <3>1 DEF Unleased, Fenced, FinishesSymbols, ReleaseInbox, InboxRow,
                                    JobRow
        <3> QED BY <3>2 DEF EventStep
    <2>3. CASE ~(x = e /\ Fenced(job[e], symbolizer[s].owner))
        <3>1. job'[e] = job[e] /\ inbox'[e] = inbox[e]
            BY <1>6, <2>3 DEF MarkSymbolizationFailed
        <3> QED BY <3>1 DEF EventStep, KeepsFacts
    <2> QED BY <2>1, <2>2, <2>3
<1> QED BY <1>1, <1>2, <1>3, <1>4, <1>5, <1>6
        DEF SymbolStep, ResolveArtifacts, RunTool, ProcessFails, AbandonJob

LEMMA EventSteps ==
    ASSUME TypeOK, SymbolizerMemory, [Next]_vars, NEW e \in Event
    PROVE  EventStep(e)
<1>1. CASE StoreStep
    BY <1>1, StoreEventStep
<1>2. CASE \E w \in Worker : ExportStep(w)
    BY <1>2, ExportEventStep
<1>3. CASE \E s \in Symbolizer : SymbolStep(s)
    BY <1>3, SymbolEventStep
<1>4. CASE \E a \in Artifact : RegisterArtifact(a)
    <2>1. job[e] \in JobRow
        BY DEF TypeOK, StoreTypeOK
    <2>2. CASE job[e].status = "symbols_missing"
        <3>1. inbox' = inbox /\ (\/ job'[e] = job[e]
                                 \/ job'[e] = [job[e] EXCEPT !.status = "pending", !.due = TRUE])
            BY <1>4 DEF RegisterArtifact
        <3>2. job'[e].status \in {"symbols_missing", "pending"}
              /\ job'[e].has_result = job[e].has_result
            BY <2>1, <2>2, <3>1 DEF JobRow
        <3>3. MovesInSymbols(e)
            BY <2>2, <3>1, <3>2 DEF MovesInSymbols, UNFINISHED_SYMBOL_STATUSES
        <3> QED BY <3>3 DEF EventStep
    <2>3. CASE job[e].status # "symbols_missing"
        BY <1>4, <2>3 DEF RegisterArtifact, EventStep, KeepsFacts
    <2> QED BY <2>2, <2>3
<1>5. CASE UNCHANGED vars
    BY <1>5 DEF vars, EventStep, KeepsFacts
<1> QED BY <1>1, <1>2, <1>3, <1>4, <1>5 DEF Next

(* What one step of symbolizer s does to its own memory: it forgets the    *)
(* job, claims one under a fresh token, or moves on with the same job.     *)
Forgets(s) == symbolizer'[s] = IdleSymbolizer

Claims(s) ==
    /\ symbolizer'[s].pc = "claimed"
    /\ symbolizer'[s].job \in Event
    /\ symbolizer'[s].owner \in Token
    /\ symbolizer'[s].owner \notin SymbolTokensInUse

MovesOn(s) ==
    /\ symbolizer[s].pc # "idle"
    /\ symbolizer'[s].job = symbolizer[s].job
    /\ symbolizer'[s].owner = symbolizer[s].owner
    /\ symbolizer'[s].pc \in {"missing", "resolved", "started", "finished", "failing"}
    /\ symbolizer'[s].pc = "started" => symbolizer[s].pc \in {"resolved", "started"}
    /\ symbolizer'[s].pc = "finished" =>
          \/ symbolizer'[s].status = "symbolized"
          \/ /\ symbolizer'[s].status = "partially_symbolized"
             /\ Kind[symbolizer[s].job] = "native"

LEMMA SymbolMemoryStep ==
    ASSUME TypeOK, NEW s \in Symbolizer, SymbolStep(s)
    PROVE  /\ Forgets(s) \/ Claims(s) \/ MovesOn(s)
           /\ \A t \in Symbolizer \ {s} : symbolizer'[t] = symbolizer[t]
<1>0. symbolizer[s] \in SymbolizerState /\ symbolizer \in [Symbolizer -> SymbolizerState]
    BY DEF TypeOK, SymbolizerTypeOK
<1>1. \A b, n : /\ FailingWith(symbolizer[s], b).pc = "failing"
                /\ FailingWith(symbolizer[s], b).job = symbolizer[s].job
                /\ FailingWith(symbolizer[s], b).owner = symbolizer[s].owner
                /\ LET f == [FailingWith(symbolizer[s], b) EXCEPT !.attempts = n]
                   IN  f.pc = "failing" /\ f.job = symbolizer[s].job
                                        /\ f.owner = symbolizer[s].owner
    BY <1>0 DEF FailingWith, SymbolizerState
<1>2. ASSUME NEW b, symbolizer[s].pc # "idle",
             symbolizer'[s] = FailingWith(symbolizer[s], b)
      PROVE  MovesOn(s)
    BY <1>1, <1>2 DEF MovesOn
<1>3. CASE \E y \in Event, live \in BOOLEAN : ClaimSymbolizationJob(s, y, live)
    <2> PICK y \in Event, live \in BOOLEAN : ClaimSymbolizationJob(s, y, live)
        BY <1>3
    <2>1. NewSymbolOwner \in Token /\ NewSymbolOwner \notin SymbolTokensInUse
        BY FreshSymbolOwner DEF ClaimSymbolizationJob
    <2>2. symbolizer' = [symbolizer EXCEPT ![s] =
              [IdleSymbolizer EXCEPT !.pc = "claimed", !.owner = NewSymbolOwner, !.job = y,
                                     !.attempts = job[y].attempt_count]]
        BY DEF ClaimSymbolizationJob
    <2>3. Claims(s)
        BY <1>0, <2>1, <2>2 DEF Claims, IdleSymbolizer
    <2> QED BY <1>0, <2>2, <2>3
<1>4. CASE ResolveArtifacts(s)
    <2>1. PICK pc \in {"missing", "failing", "resolved"} :
             symbolizer' = [symbolizer EXCEPT ![s] =
                [symbolizer[s] EXCEPT !.pc = pc, !.retryable = FALSE]]
        BY <1>0, <1>4 DEF ResolveArtifacts
    <2>2. symbolizer[s].pc # "idle"
        BY <1>4 DEF ResolveArtifacts
    <2>3. MovesOn(s)
        BY <1>0, <2>1, <2>2 DEF MovesOn, SymbolizerState
    <2> QED BY <1>0, <2>1, <2>3
<1>5. CASE AfterCommit(s) /\ symbolizer[s].pc # "idle"
    BY <1>0, <1>2, <1>5 DEF AfterCommit, Forgets
<1>6. CASE StartSymbolizationAttempt(s)
    <2>1. symbolizer[s].pc = "resolved"
        BY <1>6 DEF StartSymbolizationAttempt
    <2>2. PICK r \in {IdleSymbolizer,
                      [symbolizer[s] EXCEPT !.pc = "started", !.left = Needs[symbolizer[s].job],
                                            !.attempts = symbolizer[s].attempts + 1]} :
             symbolizer' = [symbolizer EXCEPT ![s] = r]
        BY <1>6 DEF StartSymbolizationAttempt
    <2>3. symbolizer'[s] = r
        BY <1>0, <2>2
    <2>4. ASSUME r # IdleSymbolizer
          PROVE  MovesOn(s)
        BY <1>0, <2>1, <2>3, <2>4 DEF MovesOn, SymbolizerState
    <2> QED BY <1>0, <2>2, <2>3, <2>4 DEF Forgets
<1>7. CASE \E a \in Artifact, st \in {"symbolized", "partially_symbolized"} : RunTool(s, a, st)
    <2> PICK a \in Artifact, st \in {"symbolized", "partially_symbolized"} : RunTool(s, a, st)
        BY <1>7
    <2>1. symbolizer[s].pc = "started"
        BY DEF RunTool
    <2>0. CASE symbolizer' = [symbolizer EXCEPT ![s] =
                    [symbolizer[s] EXCEPT !.left = symbolizer[s].left \ {a}]]
        <3>1. symbolizer'[s] = [symbolizer[s] EXCEPT !.left = symbolizer[s].left \ {a}]
            BY <1>0, <2>0
        <3>2. MovesOn(s)
            BY <1>0, <2>1, <3>1 DEF MovesOn, SymbolizerState
        <3> QED BY <1>0, <2>0, <3>2
    <2>2. CASE symbolizer' = [symbolizer EXCEPT ![s] =
                    [symbolizer[s] EXCEPT !.pc = "finished", !.left = {}, !.status = st]]
        <3>1. symbolizer'[s] = [symbolizer[s] EXCEPT !.pc = "finished", !.left = {},
                                                     !.status = st]
            BY <1>0, <2>2
        <3>2. MovesOn(s)
            BY <1>0, <2>1, <3>1 DEF MovesOn, RunTool, SymbolizerState
        <3> QED BY <1>0, <2>2, <3>2
    <2>3. CASE \E b \in BOOLEAN :
                 symbolizer' = [symbolizer EXCEPT ![s] = FailingWith(symbolizer[s], b)]
        BY <1>0, <1>2, <2>1, <2>3
    <2> QED BY <2>0, <2>2, <2>3 DEF RunTool
<1>8. CASE \E b \in BOOLEAN, n \in 0..SymbolizerMaxAttempts : ProcessFails(s, b, n)
    <2> PICK b \in BOOLEAN, n \in 0..SymbolizerMaxAttempts : ProcessFails(s, b, n)
        BY <1>8
    <2>1. symbolizer' = [symbolizer EXCEPT ![s] =
              [FailingWith(symbolizer[s], b) EXCEPT !.attempts = n]]
        BY DEF ProcessFails
    <2>2. symbolizer[s].pc # "idle"
        BY DEF ProcessFails
    <2>3. MovesOn(s)
        BY <1>0, <1>1, <2>1, <2>2 DEF MovesOn
    <2> QED BY <1>0, <2>1, <2>3
<1>9. CASE MarkSymbolizationFailed(s) \/ AbandonJob(s)
    BY <1>0, <1>9 DEF MarkSymbolizationFailed, AbandonJob, Forgets
<1> QED BY <1>3, <1>4, <1>5, <1>6, <1>7, <1>8, <1>9
        DEF SymbolStep, MarkSymbolsMissing, MarkSymbolized

(* What symbolizers remember stays consistent with the job they hold.      *)
LEMMA SymbolizerMemoryStep ==
    ASSUME TypeOK, SymbolizerMemory, [Next]_vars
    PROVE  SymbolizerMemory'
<1>1. CASE UNCHANGED symbolizer
    BY <1>1 DEF SymbolizerMemory
<1>2. ASSUME NEW s \in Symbolizer, SymbolStep(s)
      PROVE  SymbolizerMemory'
    <2>1. \A t \in Symbolizer \ {s} : symbolizer'[t] = symbolizer[t]
        BY <1>2, SymbolMemoryStep
    <2>2. CASE Forgets(s)
        BY <2>1, <2>2 DEF Forgets, IdleSymbolizer, SymbolizerMemory
    <2>3. CASE Claims(s)
        BY <2>1, <2>3 DEF Claims, SymbolizerMemory
    <2>4. CASE MovesOn(s)
        BY <2>1, <2>4 DEF MovesOn, SymbolizerMemory
    <2> QED BY <1>2, <2>2, <2>3, <2>4, SymbolMemoryStep
<1> QED BY <1>1, <1>2 DEF Next, vars, symbolizerVars, RegisterArtifact

(* Every reachable state of the pipeline is well typed: no handler stores  *)
(* a status, an owner or a count the tables cannot hold.                   *)
THEOREM TypeCorrect == Spec => []TypeOK
<1>1. Init => TypeOK /\ SymbolizerMemory
    BY TypeInit DEF Init, SymbolizerInit, IdleSymbolizer, SymbolizerMemory
<1>2. TypeOK /\ SymbolizerMemory /\ [Next]_vars => TypeOK' /\ SymbolizerMemory'
    BY TypeStep, SymbolizerMemoryStep
<1> QED BY <1>1, <1>2, PTL DEF Spec

LEMMA StatusStep ==
    ASSUME TypeOK, StatusInv, [Next]_vars
    PROVE  StatusInv'
<1>0. SymbolizerMemory /\ SymbolizerMemory'
    BY SymbolizerMemoryStep DEF StatusInv
<1>1. \A e \in Event : EventStep(e)
    BY <1>0, EventSteps
<1> USE DEF EventStep, KeepsFacts, Enters, Prunes, MovesInExport, MovesInSymbols, FinishesSymbols,
            UNFINISHED_SYMBOL_STATUSES, FINAL_STATUSES
<1>2. AbsentIsBlank'
    BY <1>1 DEF StatusInv, AbsentIsBlank, ParkedIffUnfinished
<1>3. ParkedIffUnfinished'
    BY <1>1 DEF StatusInv, AbsentIsBlank, ParkedIffUnfinished
<1>4. FingerprintFollowsResult'
    BY <1>1 DEF StatusInv, AbsentIsBlank, ParkedIffUnfinished, FingerprintFollowsResult
<1>5. PrunedEvidenceStaysGone'
    BY <1>1 DEF StatusInv, AbsentIsBlank, ParkedIffUnfinished, PrunedEvidenceStaysGone
<1> QED BY <1>0, <1>2, <1>3, <1>4, <1>5 DEF StatusInv

LEMMA StatusInit == Init => StatusInv
BY DEF Init, StoreInit, SymbolizerInit, AbsentRow, NoJob, IdleSymbolizer, StatusInv,
       AbsentIsBlank, ParkedIffUnfinished, FingerprintFollowsResult, PrunedEvidenceStaysGone,
       SymbolizerMemory, UNFINISHED_SYMBOL_STATUSES, FINAL_STATUSES

LEMMA StatusInductive == Spec => [](TypeOK /\ StatusInv)
<1>1. Init => TypeOK /\ StatusInv
    BY TypeInit, StatusInit
<1>2. TypeOK /\ StatusInv /\ [Next]_vars => TypeOK' /\ StatusInv'
    BY TypeStep, StatusStep DEF StatusInv
<1> QED BY <1>1, <1>2, PTL DEF Spec

(* An acknowledged crash is parked exactly while its job is unfinished,    *)
(* for any number of workers, symbolizers and events: nothing is exported  *)
(* before its symbols and nothing is parked with nobody to release it.     *)
THEOREM Parking == Spec => []ParkedIffUnfinished
<1>1. StatusInv => ParkedIffUnfinished
    BY DEF StatusInv
<1> QED BY StatusInductive, <1>1, PTL

(* The canonical fingerprint of a Java crash with stack evidence appears   *)
(* with the symbolized result of the current lease holder and at no other  *)
(* time; a crash without evidence never gets one.                          *)
THEOREM Fingerprints == Spec => []FingerprintFollowsResult
<1>1. StatusInv => FingerprintFollowsResult
    BY DEF StatusInv
<1> QED BY StatusInductive, <1>1, PTL

(* Retention prunes final rows only and what it pruned stays pruned,       *)
(* whatever symbolizers are still running.                                 *)
THEOREM Retention == Spec => []PrunedEvidenceStaysGone
<1>1. StatusInv => PrunedEvidenceStaysGone
    BY DEF StatusInv
<1> QED BY StatusInductive, <1>1, PTL

(* No step of any process reopens a delivered or dead-lettered row, or a   *)
(* finished symbolization job.                                             *)
THEOREM Finality == Spec => FinalIsFinal
<1> DEFINE Stays(e) ==
      /\ inbox[e].status \in FINAL_STATUSES => inbox'[e].status = inbox[e].status
      /\ job[e].status \in FINISHED_SYMBOL_STATUSES => job'[e].status = job[e].status
<1>1. ASSUME TypeOK, StatusInv, [Next]_vars
      PROVE  \A e \in Event : Stays(e)
    <2> TAKE e \in Event
    <2>1. EventStep(e)
        BY <1>1, EventSteps DEF StatusInv
    <2>2. inbox[e].status = "absent" => job[e].status = "none"
        BY <1>1 DEF StatusInv, AbsentIsBlank
    <2> QED BY <2>1, <2>2 DEF EventStep, KeepsFacts, Enters, Prunes, MovesInExport,
               MovesInSymbols, FinishesSymbols, FINAL_STATUSES, FINISHED_SYMBOL_STATUSES,
               UNFINISHED_SYMBOL_STATUSES
<1>2. TypeOK /\ StatusInv /\ [Next]_vars => [\A e \in Event : Stays(e)]_vars
    BY <1>1
<1> QED BY <1>2, StatusInductive, PTL DEF Spec, FinalIsFinal
=============================================================================
