----------------------- MODULE PipelineDeliveryProofs -----------------------
(***************************************************************************)
(* Proofs about what the pipeline hands to the collector: delivered rows   *)
(* were accepted there, retries keep within the budget, crashes wait for   *)
(* their symbols, and the whole implements the abstract Delivery promise;  *)
(* and about leases: tokens are never shared, a live claim ends with its   *)
(* holder, and every tool run has an attempt of its own.                   *)
(***************************************************************************)
EXTENDS PipelineProofs

-----------------------------------------------------------------------------
(* A step of another component leaves row e alone, lets it enter, or       *)
(* releases it.                                                            *)
OutsideExport(e) ==
    /\ inbox'[e].attempt_count = inbox[e].attempt_count
    /\ inbox'[e].lease_owner = inbox[e].lease_owner
    /\ \/ inbox'[e].status = inbox[e].status
       \/ /\ inbox[e].status \in {"absent", "awaiting_symbols"}
          /\ inbox'[e].status \in {"awaiting_symbols", "pending"}

LEMMA OtherStepsOutside ==
    ASSUME TypeOK, NEW e \in Event,
           \/ StoreStep
           \/ \E s \in Symbolizer : SymbolStep(s)
           \/ \E a \in Artifact : RegisterArtifact(a)
           \/ UNCHANGED vars
    PROVE  OutsideExport(e)
<1>0. inbox \in [Event -> InboxRow] /\ inbox[e] \in InboxRow
    BY DEF TypeOK, StoreTypeOK
<1>1. CASE \E events \in SUBSET Event, enabled \in BOOLEAN, evidence \in SUBSET Event :
              Ingest(events, enabled, evidence)
    <2> PICK events \in SUBSET Event, enabled \in BOOLEAN, evidence \in SUBSET Event :
                Ingest(events, enabled, evidence)
        BY <1>1
    <2>1. CASE e \in events
        BY <1>0, <2>1 DEF Ingest, EnterRow, OutsideExport, InboxRow
    <2>2. CASE e \notin events
        BY <2>2 DEF Ingest, OutsideExport
    <2> QED BY <2>1, <2>2
<1>2. CASE \E rows \in SUBSET Event : MaintainOnce(rows)
    <2>1. inbox'[e] \in {inbox[e], [inbox[e] EXCEPT !.raw_pruned = TRUE]}
        BY <1>2 DEF MaintainOnce
    <2> QED BY <1>0, <2>1 DEF OutsideExport, InboxRow
<1>3. CASE \E rows \in SUBSET Event : InboxClock(rows)
    <2>1. inbox'[e] \in {inbox[e], AfterClock(inbox[e])}
        BY <1>3 DEF InboxClock
    <2> QED BY <1>0, <2>1 DEF AfterClock, OutsideExport, InboxRow
<1>4. CASE UNCHANGED inbox
    BY <1>4 DEF OutsideExport
<1>5. ASSUME NEW s \in Symbolizer, MarkSymbolized(s) \/ MarkSymbolizationFailed(s)
      PROVE  OutsideExport(e)
    <2>1. inbox'[e] \in {inbox[e], ReleaseInbox(inbox[e]),
                         ReleaseInbox(PublishFingerprint(inbox[e], e))}
        BY <1>0, <1>5 DEF MarkSymbolized, MarkSymbolizationFailed
    <2> QED BY <1>0, <2>1 DEF ReleaseInbox, PublishFingerprint, OutsideExport, InboxRow
<1> QED BY <1>1, <1>2, <1>3, <1>4, <1>5
        DEF StoreStep, JobClock, SymbolStep, ClaimSymbolizationJob, ResolveArtifacts,
            MarkSymbolsMissing, StartSymbolizationAttempt, RunTool, ProcessFails, AbandonJob,
            RegisterArtifact, storeVars, vars

LEMMA ExportInvOther ==
    ASSUME TypeOK, ExportInv, UNCHANGED workerVars, \A e \in Event : OutsideExport(e)
    PROVE  ExportInv'
<1>0. worker \in [Worker -> WorkerState]
    BY DEF TypeOK, WorkerTypeOK
<1> USE DEF OutsideExport, workerVars, ExportInv
<1>1. ClaimedIsReleased'
    BY DEF ClaimedIsReleased
<1>2. SuccessIsCollected'
    BY DEF SuccessIsCollected
<1>3. DeliveredWasCollected'
    BY DEF DeliveredWasCollected
<1>4. WaitingHasBudget'
    BY DEF WaitingHasBudget
<1>5. RememberedAttempts'
    BY <1>0 DEF RememberedAttempts, WorkerState
<1> QED BY <1>1, <1>2, <1>3, <1>4, <1>5

(* What finishing a claimed row can do to it: nothing when the lease is    *)
(* lost, else it ends, or it waits again when its budget allows.           *)
Finishes(e, w) ==
    \/ inbox'[e] = inbox[e]
    \/ /\ Fenced(inbox[e], worker[w].owner)
       /\ inbox'[e].attempt_count = inbox[e].attempt_count
       /\ inbox'[e].raw_pruned = inbox[e].raw_pruned
       /\ \/ /\ inbox'[e].status = "delivered"
             /\ worker[w].pc = "answered" /\ worker[w].result = "success"
          \/ inbox'[e].status = "dead_letter"
          \/ inbox'[e].status = "pending" /\ worker[w].attempts[e] < WorkerMaxAttempts

LEMMA FinishRow ==
    ASSUME TypeOK, NEW w \in Worker, EncodeIsolatedBatch(w) \/ RecordOutcome(w), NEW e \in Event
    PROVE  IF e \in worker[w].events THEN Finishes(e, w) ELSE inbox'[e] = inbox[e]
<1>0. inbox[e] \in InboxRow
    BY DEF TypeOK, StoreTypeOK
<1>1. ASSUME NEW b, inbox'[e] = MarkFailed(inbox[e], worker[w].owner, worker[w].attempts[e], b)
      PROVE  Finishes(e, w)
    BY <1>0, <1>1 DEF MarkFailed, Finishes, InboxRow
<1>2. ASSUME inbox'[e] = MarkDelivered(inbox[e], worker[w].owner),
             worker[w].pc = "answered", worker[w].result = "success"
      PROVE  Finishes(e, w)
    BY <1>0, <1>2 DEF MarkDelivered, Finishes, InboxRow
<1>3. CASE EncodeIsolatedBatch(w)
    <2>1. CASE e \in worker[w].events \cap Unmappable
        BY <1>1, <1>3, <2>1 DEF EncodeIsolatedBatch
    <2>2. CASE e \notin worker[w].events \cap Unmappable
        BY <1>3, <2>2 DEF EncodeIsolatedBatch, Finishes
    <2> QED BY <2>1, <2>2
<1>4. CASE RecordOutcome(w)
    BY <1>1, <1>2, <1>4 DEF RecordOutcome
<1> QED BY <1>3, <1>4

(* After it finished rows, a worker holds no more rows than before.        *)
LEMMA ExportInvFinish ==
    ASSUME TypeOK, ExportInv, NEW w \in Worker, EncodeIsolatedBatch(w) \/ RecordOutcome(w)
    PROVE  ExportInv'
<1>0. /\ worker \in [Worker -> WorkerState] /\ worker[w] \in WorkerState
      /\ \A e \in Event : inbox[e] \in InboxRow
    BY DEF TypeOK, WorkerTypeOK, StoreTypeOK
<1>1. /\ worker'[w] = IdleWorker \/ worker'[w] = [worker[w] EXCEPT !.pc = "encoded",
                                             !.events = worker[w].events \ Unmappable]
      /\ \A v \in Worker \ {w} : worker'[v] = worker[v]
      /\ collected' = collected
    <2>1. CASE EncodeIsolatedBatch(w)
        <3>1. PICK r \in {IdleWorker, [worker[w] EXCEPT !.pc = "encoded",
                                          !.events = worker[w].events \ Unmappable]} :
                 worker' = [worker EXCEPT ![w] = r] /\ collected' = collected
            BY <2>1 DEF EncodeIsolatedBatch
        <3> QED BY <1>0, <3>1
    <2>2. CASE RecordOutcome(w)
        BY <1>0, <2>2 DEF RecordOutcome
    <2> QED BY <2>1, <2>2
<1>2. /\ worker'[w].pc # "answered"
      /\ worker'[w].events \subseteq worker[w].events
      /\ worker'[w].events # {} => /\ worker'[w].owner = worker[w].owner
                                   /\ worker'[w].attempts = worker[w].attempts
    <2>1. CASE worker'[w] = IdleWorker
        BY <2>1 DEF IdleWorker
    <2>2. CASE worker'[w] = [worker[w] EXCEPT !.pc = "encoded",
                                             !.events = worker[w].events \ Unmappable]
        <3>1. /\ worker'[w].pc = "encoded"
              /\ worker'[w].events = worker[w].events \ Unmappable
              /\ worker'[w].owner = worker[w].owner
              /\ worker'[w].attempts = worker[w].attempts
            BY <1>0, <2>2 DEF WorkerState
        <3> QED BY <3>1
    <2> QED BY <1>1, <2>1, <2>2
<1>3. \A e \in Event : IF e \in worker[w].events THEN Finishes(e, w) ELSE inbox'[e] = inbox[e]
    BY FinishRow
<1>4. \A v \in Worker : worker'[v].events \subseteq worker[v].events
    BY <1>1, <1>2
<1>5. \A e \in Event : \/ inbox'[e] = inbox[e]
                        \/ /\ e \in worker[w].events
                           /\ inbox[e].status = "processing"
                           /\ inbox[e].lease_owner = worker[w].owner
                           /\ inbox'[e].attempt_count = inbox[e].attempt_count
                           /\ \/ /\ inbox'[e].status = "delivered"
                                 /\ worker[w].pc = "answered" /\ worker[w].result = "success"
                              \/ inbox'[e].status = "dead_letter"
                              \/ /\ inbox'[e].status = "pending"
                                 /\ worker[w].attempts[e] < WorkerMaxAttempts
    BY <1>3 DEF Finishes, Fenced
<1>6. ClaimedIsReleased'
    BY <1>1, <1>4, <1>5 DEF ClaimedIsReleased, ExportInv
<1>7. SuccessIsCollected'
    BY <1>1, <1>2 DEF SuccessIsCollected, ExportInv
<1>8. DeliveredWasCollected'
    BY <1>1, <1>5 DEF DeliveredWasCollected, SuccessIsCollected, ExportInv
<1>9. WaitingHasBudget'
    BY <1>5 DEF WaitingHasBudget, RememberedAttempts, ExportInv
<1>10. RememberedAttempts'
    <2> SUFFICES ASSUME NEW v \in Worker, NEW e \in worker'[v].events,
                        inbox'[e].status = "processing",
                        inbox'[e].lease_owner = worker'[v].owner
                 PROVE  inbox'[e].attempt_count = worker'[v].attempts[e]
        BY DEF RememberedAttempts
    <2>1. e \in worker[v].events /\ e \in Event
        BY <1>0, <1>4 DEF WorkerState
    <2>2. worker'[v].owner = worker[v].owner /\ worker'[v].attempts = worker[v].attempts
        BY <1>1, <1>2
    <2>3. inbox'[e] = inbox[e]
        BY <1>5, <2>1
    <2> QED BY <2>1, <2>2, <2>3 DEF RememberedAttempts, ExportInv
<1> QED BY <1>6, <1>7, <1>8, <1>9, <1>10 DEF ExportInv

LEMMA ExportInvClaim ==
    ASSUME TypeOK, ExportInv, NEW w \in Worker, NEW rows \in SUBSET Event, NEW live \in BOOLEAN,
           ClaimBatch(w, rows, live)
    PROVE  ExportInv'
<1>0. /\ worker \in [Worker -> WorkerState]
      /\ \A e \in Event : inbox[e] \in InboxRow
    BY DEF TypeOK, WorkerTypeOK, StoreTypeOK
<1>1. NewExportOwner \notin ExportTokensInUse
    BY FreshExportOwner DEF ClaimBatch
<1>2. \A v \in Worker : worker[v].owner # NewExportOwner
    BY <1>1 DEF ExportTokensInUse
<1>3. \A e \in rows : /\ inbox'[e].status = "processing"
                       /\ inbox'[e].lease_owner = NewExportOwner
                       /\ inbox'[e].attempt_count = CountAttempt(inbox[e].attempt_count)
    BY <1>0 DEF ClaimBatch, ClaimRow, InboxRow
<1>4. \A e \in Event \ rows : inbox'[e] = inbox[e]
    BY DEF ClaimBatch
<1>5. /\ worker'[w].pc = "claimed"
      /\ worker'[w].events = rows
      /\ \A e \in rows : worker'[w].attempts[e] = CountAttempt(inbox[e].attempt_count)
      /\ \A v \in Worker \ {w} : worker'[v] = worker[v]
      /\ collected' = collected
    BY <1>0 DEF ClaimBatch
<1>6. ClaimedIsReleased'
    BY <1>3, <1>4, <1>5 DEF ClaimedIsReleased, ExportInv
<1>7. SuccessIsCollected'
    BY <1>5 DEF SuccessIsCollected, ExportInv
<1>8. DeliveredWasCollected'
    BY <1>3, <1>4, <1>5 DEF DeliveredWasCollected, ExportInv
<1>9. WaitingHasBudget'
    BY <1>3, <1>4 DEF WaitingHasBudget, ExportInv
<1>10. RememberedAttempts'
    <2> SUFFICES ASSUME NEW v \in Worker, NEW e \in worker'[v].events,
                        inbox'[e].status = "processing",
                        inbox'[e].lease_owner = worker'[v].owner
                 PROVE  inbox'[e].attempt_count = worker'[v].attempts[e]
        BY DEF RememberedAttempts
    <2>1. CASE v = w
        BY <1>3, <1>5, <2>1
    <2>2. CASE v # w
        <3>1. worker'[v] = worker[v] /\ e \in Event
            BY <1>0, <1>5, <2>2 DEF WorkerState
        <3>2. e \notin rows
            BY <1>2, <1>3, <3>1
        <3> QED BY <1>4, <3>1, <3>2 DEF RememberedAttempts, ExportInv
    <2> QED BY <2>1, <2>2
<1> QED BY <1>6, <1>7, <1>8, <1>9, <1>10 DEF ExportInv

LEMMA ExportInvAnswer ==
    ASSUME TypeOK, ExportInv, NEW w \in Worker,
           \/ AbandonCycle(w)
           \/ \E a \in SUBSET Event, r \in ExportResults : Export(w, a, r)
    PROVE  ExportInv'
<1>0. worker \in [Worker -> WorkerState] /\ worker[w] \in WorkerState
    BY DEF TypeOK, WorkerTypeOK
<1>1. inbox' = inbox /\ \A v \in Worker \ {w} : worker'[v] = worker[v]
    BY <1>0 DEF AbandonCycle, Export, storeVars
<1>2. \/ worker'[w] = IdleWorker /\ collected' = collected
      \/ /\ worker'[w].owner = worker[w].owner
         /\ worker'[w].events = worker[w].events
         /\ worker'[w].attempts = worker[w].attempts
         /\ collected \subseteq collected'
         /\ collected' \subseteq collected \cup worker[w].events
         /\ worker'[w].result = "success" => worker[w].events \subseteq collected'
    <2>1. CASE AbandonCycle(w)
        BY <1>0, <2>1 DEF AbandonCycle
    <2>2. ASSUME NEW a \in SUBSET Event, NEW r \in ExportResults, Export(w, a, r)
          PROVE  /\ worker'[w] = [worker[w] EXCEPT !.pc = "answered", !.result = r]
                 /\ collected' = collected \cup a
                 /\ a \subseteq worker[w].events
                 /\ r = "success" => a = worker[w].events
        BY <1>0, <2>2 DEF Export
    <2>3. CASE \E a \in SUBSET Event, r \in ExportResults : Export(w, a, r)
        <3> PICK a \in SUBSET Event, r \in ExportResults : Export(w, a, r)
            BY <2>3
        <3>0. worker'[w] = [worker[w] EXCEPT !.pc = "answered", !.result = r]
            BY <2>2
        <3>1. /\ worker'[w].owner = worker[w].owner
              /\ worker'[w].events = worker[w].events
              /\ worker'[w].attempts = worker[w].attempts
              /\ worker'[w].result = r
            BY <1>0, <3>0 DEF WorkerState
        <3> QED BY <2>2, <3>1
    <2> QED BY <2>1, <2>3
<1>3. \A v \in Worker : \/ worker'[v] = IdleWorker
                         \/ /\ worker'[v].owner = worker[v].owner
                            /\ worker'[v].events = worker[v].events
                            /\ worker'[v].attempts = worker[v].attempts
    BY <1>1, <1>2
<1>4. IdleWorker.events = {} /\ IdleWorker.pc = "idle"
    BY DEF IdleWorker
<1>5. ClaimedIsReleased'
    BY <1>1, <1>2, <1>3, <1>4 DEF ClaimedIsReleased, ExportInv
<1>6. SuccessIsCollected'
    BY <1>1, <1>2, <1>4 DEF SuccessIsCollected, ExportInv
<1>7. DeliveredWasCollected'
    BY <1>1, <1>2 DEF DeliveredWasCollected, ExportInv
<1>8. WaitingHasBudget'
    BY <1>1 DEF WaitingHasBudget, ExportInv
<1>9. RememberedAttempts'
    BY <1>1, <1>3, <1>4 DEF RememberedAttempts, ExportInv
<1> QED BY <1>5, <1>6, <1>7, <1>8, <1>9 DEF ExportInv

LEMMA ExportInvStep ==
    ASSUME TypeOK, ExportInv, [Next]_vars
    PROVE  ExportInv'
<1>1. CASE \E w \in Worker : ExportStep(w)
    BY <1>1, ExportInvClaim, ExportInvFinish, ExportInvAnswer DEF ExportStep
<1>2. CASE ~\E w \in Worker : ExportStep(w)
    <2>1. UNCHANGED workerVars
        BY <1>2 DEF Next, vars, workerVars
    <2>2. \A e \in Event : OutsideExport(e)
        BY <1>2, OtherStepsOutside DEF Next
    <2> QED BY <2>1, <2>2, ExportInvOther
<1> QED BY <1>1, <1>2

LEMMA ExportInit == Init => ExportInv
<1> SUFFICES ASSUME Init PROVE ExportInv
    OBVIOUS
<1>1. /\ \A e \in Event : inbox[e].status = "absent" /\ inbox[e].attempt_count = 0
      /\ \A w \in Worker : worker[w].events = {} /\ worker[w].pc = "idle"
      /\ collected = {}
    BY DEF Init, StoreInit, WorkerInit, AbsentRow, IdleWorker
<1>2. 0 < WorkerMaxAttempts
    BY WorkerAssumption
<1> QED BY <1>1, <1>2 DEF ExportInv, ClaimedIsReleased, SuccessIsCollected,
               DeliveredWasCollected, WaitingHasBudget, RememberedAttempts

LEMMA ExportInductive == Spec => [](TypeOK /\ StatusInv /\ ExportInv)
<1>1. Init => ExportInv
    BY ExportInit
<1>2. TypeOK /\ ExportInv /\ [Next]_vars => ExportInv'
    BY ExportInvStep
<1> QED BY <1>1, <1>2, StatusInductive, PTL DEF Spec

(* A delivered row is one the collector accepted, for any interleaving of  *)
(* workers, lost leases, partial answers and crashes.                      *)
THEOREM NoFalseDelivery == Spec => []DeliveredWasCollected
<1>1. ExportInv => DeliveredWasCollected
    BY DEF ExportInv
<1> QED BY ExportInductive, <1>1, PTL

(* The collector never sees a crash whose symbolization is unfinished.     *)
THEOREM SymbolsFirst == Spec => []ExportAfterSymbols
<1>1. TypeOK /\ StatusInv /\ ExportInv => ExportAfterSymbols
    BY DEF TypeOK, WorkerTypeOK, StatusInv, ExportInv, ParkedIffUnfinished, ClaimedIsReleased,
           ExportAfterSymbols
<1> QED BY ExportInductive, <1>1, PTL

(* A row is offered again only while its committed attempt count is below  *)
(* the maximum, although the deciding count was read at claim time.        *)
THEOREM RetriesBounded == Spec => []RetryBudgetLeft
<1>1. ExportInv => RetryBudgetLeft
    BY DEF ExportInv, WaitingHasBudget, RetryBudgetLeft
<1> QED BY ExportInductive, <1>1, PTL

-----------------------------------------------------------------------------
(* The refinement: every step is one step of Delivery or none.             *)

LEMMA PromiseInit == Init => Promise!DeliveryInit
<1> SUFFICES ASSUME Init PROVE Promise!DeliveryInit
    OBVIOUS
<1>1. \A e \in Event : inbox[e].status = "absent" /\ ~inbox[e].raw_pruned
    BY DEF Init, StoreInit, AbsentRow
<1>2. PromiseOf("absent") = "unknown"
    BY DEF PromiseOf, LIVE_STATUSES
<1>3. PromisedState = [e \in Event |-> "unknown"]
    BY <1>1, <1>2 DEF PromisedState
<1>4. {e \in Event : inbox[e].raw_pruned} = {}
    BY <1>1
<1> QED BY <1>3, <1>4 DEF Init, WorkerInit, Promise!DeliveryInit

LEMMA PromiseValues ==
    /\ PromiseOf("absent") = "unknown"
    /\ \A st \in LIVE_STATUSES : PromiseOf(st) = "accepted"
    /\ PromiseOf("delivered") = "delivered"
    /\ PromiseOf("dead_letter") = "dead"
BY DEF PromiseOf, LIVE_STATUSES

(* A step that keeps the promise of every event, the collector and the     *)
(* pruned rows is a stuttering step of Delivery.                           *)
LEMMA PromiseStutters ==
    ASSUME \A e \in Event : /\ PromiseOf(inbox'[e].status) = PromiseOf(inbox[e].status)
                            /\ inbox'[e].raw_pruned = inbox[e].raw_pruned,
           collected' = collected
    PROVE  UNCHANGED Promise!deliveryVars
<1>1. PromisedState' = PromisedState
    BY DEF PromisedState
<1>2. {e \in Event : inbox[e].raw_pruned}' = {e \in Event : inbox[e].raw_pruned}
    OBVIOUS
<1> QED BY <1>1, <1>2 DEF Promise!deliveryVars

LEMMA PromiseStoreStep ==
    ASSUME TypeOK, StoreStep, UNCHANGED workerVars
    PROVE  [Promise!DeliveryNext]_(Promise!deliveryVars)
<1>0. collected' = collected /\ \A e \in Event : inbox[e] \in InboxRow
    BY DEF workerVars, TypeOK, StoreTypeOK
<1>1. CASE \E events \in SUBSET Event, enabled \in BOOLEAN, evidence \in SUBSET Event :
              Ingest(events, enabled, evidence)
    <2> PICK events \in SUBSET Event, enabled \in BOOLEAN, evidence \in SUBSET Event :
                Ingest(events, enabled, evidence)
        BY <1>1
    <2>1. \A e \in events : /\ e \in Event
                            /\ inbox[e].status = "absent"
                            /\ inbox'[e].status \in {"awaiting_symbols", "pending"}
                            /\ inbox'[e].raw_pruned = inbox[e].raw_pruned
        BY <1>0 DEF Ingest, EnterRow, InboxRow
    <2>2. \A e \in Event \ events : inbox'[e] = inbox[e]
        BY DEF Ingest
    <2>3. \A e \in events : /\ PromiseOf(inbox'[e].status) = "accepted"
                            /\ PromiseOf(inbox[e].status) = "unknown"
        BY <2>1, PromiseValues DEF LIVE_STATUSES
    <2>4. PromisedState' = [e \in Event |-> IF e \in events THEN "accepted" ELSE PromisedState[e]]
        BY <2>2, <2>3 DEF PromisedState
    <2>5. \A e \in events : PromisedState[e] = "unknown"
        BY <2>1, <2>3 DEF PromisedState
    <2>6. {e \in Event : inbox[e].raw_pruned}' = {e \in Event : inbox[e].raw_pruned}
        BY <2>1, <2>2
    <2>7. Promise!Accept(events)
        BY <1>0, <2>4, <2>5, <2>6 DEF Promise!Accept
    <2> QED BY <2>7 DEF Promise!DeliveryNext
<1>2. CASE \E rows \in SUBSET Event : MaintainOnce(rows)
    <2> PICK rows \in SUBSET Event : MaintainOnce(rows)
        BY <1>2
    <2>1. \A e \in Event : /\ inbox'[e].status = inbox[e].status
                           /\ inbox'[e].raw_pruned = IF e \in rows THEN TRUE
                                                                  ELSE inbox[e].raw_pruned
        BY <1>0 DEF MaintainOnce, InboxRow
    <2>2. PromisedState' = PromisedState
        BY <2>1 DEF PromisedState
    <2>3. {e \in Event : inbox[e].raw_pruned}' = {e \in Event : inbox[e].raw_pruned} \cup rows
        BY <2>1
    <2>4. \A e \in rows : PromisedState[e] \in Promise!Final
        <3>1. \A e \in rows : e \in Event /\ inbox[e].status \in {"delivered", "dead_letter"}
            BY DEF MaintainOnce, Prunable, FINAL_STATUSES
        <3> QED BY <3>1, PromiseValues DEF PromisedState, Promise!Final
    <2>5. Promise!Expire(rows)
        BY <1>0, <2>2, <2>3, <2>4 DEF Promise!Expire
    <2> QED BY <2>5 DEF Promise!DeliveryNext
<1>3. CASE \E rows \in SUBSET Event : InboxClock(rows)
    <2>1. \A e \in Event : inbox'[e] \in {inbox[e], AfterClock(inbox[e])}
        BY <1>3 DEF InboxClock
    <2>2. \A e \in Event : /\ inbox'[e].status = inbox[e].status
                           /\ inbox'[e].raw_pruned = inbox[e].raw_pruned
        BY <1>0, <2>1 DEF AfterClock, InboxRow
    <2> QED BY <1>0, <2>2, PromiseStutters
<1>4. CASE \E rows \in SUBSET Event : JobClock(rows)
    BY <1>0, <1>4, PromiseStutters DEF JobClock
<1> QED BY <1>1, <1>2, <1>3, <1>4 DEF StoreStep

LEMMA PromiseExportStep ==
    ASSUME TypeOK, ExportInv, NEW w \in Worker, ExportStep(w)
    PROVE  [Promise!DeliveryNext]_(Promise!deliveryVars)
<1>0. \A e \in Event : inbox[e] \in InboxRow
    BY DEF TypeOK, StoreTypeOK
<1>1. CASE \E rows \in SUBSET Event, live \in BOOLEAN : ClaimBatch(w, rows, live)
    <2> PICK rows \in SUBSET Event, live \in BOOLEAN : ClaimBatch(w, rows, live)
        BY <1>1
    <2>1. \A e \in rows : /\ inbox[e].status \in LIVE_STATUSES
                          /\ inbox'[e].status \in LIVE_STATUSES
                          /\ inbox'[e].raw_pruned = inbox[e].raw_pruned
        BY <1>0 DEF ClaimBatch, ClaimRow, Claimable, InboxRow, LIVE_STATUSES
    <2>2. \A e \in Event : e \in rows \/ inbox'[e] = inbox[e]
        BY DEF ClaimBatch
    <2>3. collected' = collected
        BY DEF ClaimBatch
    <2>4. \A e \in Event : /\ PromiseOf(inbox'[e].status) = PromiseOf(inbox[e].status)
                           /\ inbox'[e].raw_pruned = inbox[e].raw_pruned
        BY <2>1, <2>2, PromiseValues
    <2> QED BY <2>3, <2>4, PromiseStutters
<1>2. CASE \E a \in SUBSET Event, r \in ExportResults : Export(w, a, r)
    <2> PICK a \in SUBSET Event, r \in ExportResults : Export(w, a, r)
        BY <1>2
    <2>1. inbox' = inbox /\ collected' = collected \cup a /\ a \subseteq worker[w].events
        BY DEF Export, storeVars
    <2>2. \A e \in a : e \in Event /\ inbox[e].status \in LIVE_STATUSES \cup FINAL_STATUSES
        BY <1>0, <2>1 DEF ExportInv, ClaimedIsReleased, InboxRow
    <2>3. \A e \in a : PromisedState[e] # "unknown"
        BY <2>2, PromiseValues DEF PromisedState, FINAL_STATUSES
    <2>4. Promise!Receive(a)
        BY <2>1, <2>3 DEF Promise!Receive, PromisedState
    <2> QED BY <2>4 DEF Promise!DeliveryNext
<1>3. CASE EncodeIsolatedBatch(w) \/ RecordOutcome(w)
    <2> DEFINE done == {e \in Event : inbox'[e].status \in FINAL_STATUSES
                                      /\ inbox'[e] # inbox[e]}
    <2>0. collected' = collected
        BY <1>3 DEF EncodeIsolatedBatch, RecordOutcome
    <2>1. \A e \in Event :
             \/ inbox'[e] = inbox[e]
             \/ /\ e \in worker[w].events
                /\ inbox[e].status = "processing"
                /\ inbox'[e].raw_pruned = inbox[e].raw_pruned
                /\ \/ /\ inbox'[e].status = "delivered"
                      /\ worker[w].pc = "answered" /\ worker[w].result = "success"
                   \/ inbox'[e].status \in {"dead_letter", "pending"}
        BY <1>3, FinishRow DEF Finishes, Fenced
    <2>2. {e \in Event : inbox[e].raw_pruned}' = {e \in Event : inbox[e].raw_pruned}
        BY <2>1
    <2>3. \A e \in done : PromisedState[e] = "accepted"
        BY <2>1, PromiseValues DEF PromisedState, LIVE_STATUSES
    <2>4. \A e \in Event \ done : PromiseOf(inbox'[e].status) = PromiseOf(inbox[e].status)
        BY <2>1, PromiseValues DEF LIVE_STATUSES, FINAL_STATUSES
    <2>5. CASE RecordOutcome(w) /\ worker[w].result = "success"
        <3>1. \A e \in done : inbox'[e].status = "delivered"
            <4>1. \A e \in Event : \/ inbox'[e] = inbox[e]
                                   \/ inbox'[e] = MarkDelivered(inbox[e], worker[w].owner)
                BY <2>5 DEF RecordOutcome
            <4> QED BY <1>0, <4>1 DEF MarkDelivered, InboxRow
        <3>2. done \subseteq collected
            BY <2>1, <2>5 DEF RecordOutcome, ExportInv, SuccessIsCollected
        <3>3. PromisedState' = [e \in Event |-> IF e \in done THEN "delivered"
                                                              ELSE PromisedState[e]]
            BY <2>4, <3>1, PromiseValues DEF PromisedState
        <3>4. Promise!Deliver(done)
            BY <2>0, <2>2, <2>3, <3>2, <3>3 DEF Promise!Deliver
        <3> QED BY <3>4 DEF Promise!DeliveryNext
    <2>6. CASE EncodeIsolatedBatch(w) \/ (RecordOutcome(w) /\ worker[w].result # "success")
        <3>1. \A e \in done : inbox'[e].status = "dead_letter"
            BY <2>1, <2>6 DEF EncodeIsolatedBatch, FINAL_STATUSES
        <3>2. PromisedState' = [e \in Event |-> IF e \in done THEN "dead" ELSE PromisedState[e]]
            BY <2>4, <3>1, PromiseValues DEF PromisedState
        <3>3. Promise!GiveUp(done)
            BY <2>0, <2>2, <2>3, <3>2 DEF Promise!GiveUp
        <3> QED BY <3>3 DEF Promise!DeliveryNext
    <2> QED BY <1>3, <2>5, <2>6
<1>4. CASE AbandonCycle(w)
    BY <1>4, PromiseStutters DEF AbandonCycle, storeVars
<1> QED BY <1>1, <1>2, <1>3, <1>4 DEF ExportStep

LEMMA PromiseSymbolStep ==
    ASSUME TypeOK, StatusInv, UNCHANGED workerVars,
           (\E s \in Symbolizer : SymbolStep(s)) \/ \E a \in Artifact : RegisterArtifact(a)
    PROVE  UNCHANGED Promise!deliveryVars
<1>1. collected' = collected
    BY DEF workerVars
<1> DEFINE Released(e) == /\ \/ inbox'[e].status = inbox[e].status
                             \/ /\ inbox[e].status = "awaiting_symbols"
                                /\ inbox'[e].status = "pending"
                          /\ inbox'[e].raw_pruned = inbox[e].raw_pruned
<1>2. \A e \in Event : Released(e)
    <2> TAKE e \in Event
    <2>0. inbox[e] \in InboxRow /\ inbox \in [Event -> InboxRow]
        BY DEF TypeOK, StoreTypeOK
    <2>1. CASE UNCHANGED inbox
        BY <2>1
    <2>2. ASSUME NEW s \in Symbolizer, MarkSymbolized(s) \/ MarkSymbolizationFailed(s)
          PROVE  Released(e)
        <3>1. inbox'[e] \in {inbox[e], ReleaseInbox(inbox[e]),
                             ReleaseInbox(PublishFingerprint(inbox[e], e))}
            BY <2>0, <2>2 DEF MarkSymbolized, MarkSymbolizationFailed
        <3> QED BY <2>0, <3>1 DEF ReleaseInbox, PublishFingerprint, InboxRow
    <2> QED BY <2>1, <2>2
            DEF SymbolStep, ClaimSymbolizationJob, ResolveArtifacts, MarkSymbolsMissing,
                StartSymbolizationAttempt, RunTool, ProcessFails, AbandonJob, RegisterArtifact,
                storeVars
<1>4. \A e \in Event : PromiseOf(inbox'[e].status) = PromiseOf(inbox[e].status)
    BY <1>2, PromiseValues DEF LIVE_STATUSES
<1> QED BY <1>1, <1>2, <1>4, PromiseStutters

(* The pipeline implements at-least-once delivery: an accepted event ends  *)
(* delivered or dead and stays so, delivered ones are with the collector,  *)
(* which sees accepted events only, and evidence expires after the end.    *)
THEOREM PipelineImplementsDelivery == Spec => ImplementsDelivery
<1>1. Init => Promise!DeliveryInit
    BY PromiseInit
<1>2. TypeOK /\ StatusInv /\ ExportInv /\ [Next]_vars
         => [Promise!DeliveryNext]_(Promise!deliveryVars)
    <2> SUFFICES ASSUME TypeOK, StatusInv, ExportInv, [Next]_vars
                 PROVE  [Promise!DeliveryNext]_(Promise!deliveryVars)
        OBVIOUS
    <2>1. CASE StoreStep /\ UNCHANGED <<workerVars, symbolizerVars>>
        BY <2>1, PromiseStoreStep
    <2>2. CASE \E w \in Worker : ExportStep(w)
        BY <2>2, PromiseExportStep
    <2>3. CASE /\ UNCHANGED workerVars
               /\ \/ \E s \in Symbolizer : SymbolStep(s)
                  \/ \E a \in Artifact : RegisterArtifact(a)
        BY <2>3, PromiseSymbolStep
    <2>4. CASE UNCHANGED vars
        BY <2>4, PromiseStutters DEF vars
    <2> QED BY <2>1, <2>2, <2>3, <2>4 DEF Next
<1> QED BY <1>1, <1>2, ExportInductive, PTL
        DEF Spec, ImplementsDelivery, Promise!DeliverySpec

-----------------------------------------------------------------------------
(* Tokens.                                                                 *)

LEMMA WorkerMemoryStep ==
    ASSUME TypeOK, NEW w \in Worker, ExportStep(w)
    PROVE  /\ \A v \in Worker \ {w} : worker'[v] = worker[v]
           /\ \/ worker'[w] = IdleWorker
              \/ /\ worker'[w].owner \in Token
                 /\ worker'[w].owner \notin ExportTokensInUse
              \/ /\ worker'[w].owner = worker[w].owner
                 /\ worker'[w].events \subseteq worker[w].events
<1>0. worker \in [Worker -> WorkerState] /\ worker[w] \in WorkerState
    BY DEF TypeOK, WorkerTypeOK
<1>1. CASE \E rows \in SUBSET Event, live \in BOOLEAN : ClaimBatch(w, rows, live)
    <2>1. NewExportOwner \in Token /\ NewExportOwner \notin ExportTokensInUse
        BY <1>1, FreshExportOwner DEF ClaimBatch
    <2> QED BY <1>0, <1>1, <2>1 DEF ClaimBatch
<1>2. CASE EncodeIsolatedBatch(w)
    <2>1. PICK r \in {IdleWorker, [worker[w] EXCEPT !.pc = "encoded",
                                      !.events = worker[w].events \ Unmappable]} :
             worker' = [worker EXCEPT ![w] = r]
        BY <1>2 DEF EncodeIsolatedBatch
    <2>2. worker'[w] = r
        BY <1>0, <2>1
    <2>3. r # IdleWorker => /\ r.owner = worker[w].owner
                            /\ r.events \subseteq worker[w].events
        BY <1>0 DEF WorkerState
    <2> QED BY <1>0, <2>1, <2>2, <2>3
<1>3. CASE \E a \in SUBSET Event, r \in ExportResults : Export(w, a, r)
    <2>1. PICK r \in ExportResults :
             worker' = [worker EXCEPT ![w] = [worker[w] EXCEPT !.pc = "answered", !.result = r]]
        BY <1>0, <1>3 DEF Export
    <2>2. worker'[w] = [worker[w] EXCEPT !.pc = "answered", !.result = r]
        BY <1>0, <2>1
    <2>3. worker'[w].owner = worker[w].owner /\ worker'[w].events = worker[w].events
        BY <1>0, <2>2 DEF WorkerState
    <2> QED BY <1>0, <2>1, <2>3
<1>4. CASE RecordOutcome(w) \/ AbandonCycle(w)
    BY <1>0, <1>4 DEF RecordOutcome, AbandonCycle
<1> QED BY <1>1, <1>2, <1>3, <1>4 DEF ExportStep

LEMMA OwnersStep ==
    ASSUME TypeOK, OwnersDistinct, [Next]_vars
    PROVE  OwnersDistinct'
<1>0. /\ IdleWorker.events = {} /\ IdleWorker.owner = NoOwner
      /\ IdleSymbolizer.job = NoJobHeld /\ IdleSymbolizer.owner = NoOwner
    BY DEF IdleWorker, IdleSymbolizer
<1>1. ASSUME NEW w \in Worker, ExportStep(w), UNCHANGED symbolizer
      PROVE  OwnersDistinct'
    <2>1. \A v \in Worker \ {w} : worker'[v] = worker[v]
        BY <1>1, WorkerMemoryStep
    <2>2. CASE worker'[w] = IdleWorker
        BY <1>0, <1>1, <2>1, <2>2 DEF OwnersDistinct
    <2>3. CASE worker'[w].owner \in Token /\ worker'[w].owner \notin ExportTokensInUse
        <3>1. \A v \in Worker : worker[v].owner # worker'[w].owner
            BY <2>3 DEF ExportTokensInUse
        <3> QED BY <1>1, <2>1, <2>3, <3>1, NoOwnerAssumption DEF OwnersDistinct
    <2>4. CASE worker'[w].owner = worker[w].owner /\ worker'[w].events \subseteq worker[w].events
        BY <1>1, <2>1, <2>4 DEF OwnersDistinct
    <2> QED BY <1>1, <2>2, <2>3, <2>4, WorkerMemoryStep
<1>2. ASSUME NEW s \in Symbolizer, SymbolStep(s), UNCHANGED worker
      PROVE  OwnersDistinct'
    <2>1. \A t \in Symbolizer \ {s} : symbolizer'[t] = symbolizer[t]
        BY <1>2, SymbolMemoryStep
    <2>2. CASE Forgets(s)
        BY <1>0, <1>2, <2>1, <2>2 DEF Forgets, OwnersDistinct
    <2>3. CASE Claims(s)
        <3>1. \A t \in Symbolizer : symbolizer[t].owner # symbolizer'[s].owner
            BY <2>3 DEF Claims, SymbolTokensInUse
        <3> QED BY <1>2, <2>1, <2>3, <3>1, NoOwnerAssumption DEF Claims, OwnersDistinct
    <2>4. CASE MovesOn(s)
        BY <1>2, <2>1, <2>4 DEF MovesOn, OwnersDistinct
    <2> QED BY <1>2, <2>2, <2>3, <2>4, SymbolMemoryStep
<1>3. CASE UNCHANGED <<worker, symbolizer>>
    BY <1>3 DEF OwnersDistinct
<1> QED BY <1>1, <1>2, <1>3 DEF Next, vars, workerVars, symbolizerVars, RegisterArtifact

LEMMA OwnersInductive == Spec => [](TypeOK /\ StatusInv /\ OwnersDistinct)
<1>1. Init => OwnersDistinct
    BY DEF Init, WorkerInit, SymbolizerInit, IdleWorker, IdleSymbolizer, OwnersDistinct
<1>2. TypeOK /\ OwnersDistinct /\ [Next]_vars => OwnersDistinct'
    BY OwnersStep
<1> QED BY <1>1, <1>2, StatusInductive, PTL DEF Spec

-----------------------------------------------------------------------------
(* Live claims.                                                            *)

(* Row e stays under the same live claim, or that claim expires.           *)
RowClaimKept(e) ==
    \/ inbox'[e] = [inbox[e] EXCEPT !.live = FALSE]
    \/ /\ inbox'[e].status = inbox[e].status
       /\ inbox'[e].lease_owner = inbox[e].lease_owner
       /\ inbox'[e].live = inbox[e].live

JobClaimKept(e) ==
    \/ job'[e] = [job[e] EXCEPT !.live = FALSE]
    \/ /\ job'[e].status = job[e].status
       /\ job'[e].lease_owner = job[e].lease_owner
       /\ job'[e].live = job[e].live

LEMMA RowClaims ==
    ASSUME TypeOK, OwnersDistinct, [Next]_vars, NEW w \in Worker, NEW e \in Event,
           HoldsRow(w, e), worker'[w] = worker[w]
    PROVE  RowClaimKept(e)
<1>0. /\ inbox[e] \in InboxRow /\ inbox \in [Event -> InboxRow]
      /\ worker \in [Worker -> WorkerState] /\ worker[w] \in WorkerState
    BY DEF TypeOK, StoreTypeOK, WorkerTypeOK
<1>1. /\ inbox[e].status = "processing" /\ inbox[e].live
      /\ inbox[e].lease_owner = worker[w].owner /\ worker[w].owner # NoOwner
    BY DEF HoldsRow, Fenced, OwnersDistinct
<1>2. CASE UNCHANGED inbox
    BY <1>2 DEF RowClaimKept
<1>3. CASE StoreStep
    <2>1. CASE \E events \in SUBSET Event, enabled \in BOOLEAN, evidence \in SUBSET Event :
                  Ingest(events, enabled, evidence)
        BY <1>0, <1>1, <2>1 DEF Ingest, RowClaimKept
    <2>2. CASE \E rows \in SUBSET Event : MaintainOnce(rows)
        BY <1>1, <2>2 DEF MaintainOnce, Prunable, FINAL_STATUSES, RowClaimKept
    <2>3. CASE \E rows \in SUBSET Event : InboxClock(rows)
        BY <1>1, <2>3 DEF InboxClock, AfterClock, RowClaimKept
    <2> QED BY <1>2, <1>3, <2>1, <2>2, <2>3 DEF StoreStep, JobClock
<1>4. ASSUME NEW v \in Worker, ExportStep(v)
      PROVE  RowClaimKept(e)
    <2>1. CASE \E rows \in SUBSET Event, live \in BOOLEAN : ClaimBatch(v, rows, live)
        BY <1>1, <2>1 DEF ClaimBatch, Claimable, RowClaimKept
    <2>2. CASE EncodeIsolatedBatch(v) \/ RecordOutcome(v)
        <3>1. v # w
            <4>1. worker'[v].pc # worker[v].pc
                <5>1. CASE EncodeIsolatedBatch(v)
                    <6>1. PICK r \in {IdleWorker, [worker[v] EXCEPT !.pc = "encoded",
                                          !.events = worker[v].events \ Unmappable]} :
                             worker' = [worker EXCEPT ![v] = r]
                        BY <5>1 DEF EncodeIsolatedBatch
                    <6>2. r.pc \in {"idle", "encoded"}
                        <7>1. worker[v] \in WorkerState
                            BY <1>0
                        <7>2. [worker[v] EXCEPT !.pc = "encoded",
                                  !.events = worker[v].events \ Unmappable].pc = "encoded"
                            BY <7>1 DEF WorkerState
                        <7>3. IdleWorker.pc = "idle"
                            BY DEF IdleWorker
                        <7> QED BY <6>1, <7>2, <7>3
                    <6> QED BY <1>0, <5>1, <6>1, <6>2 DEF EncodeIsolatedBatch
                <5>2. CASE RecordOutcome(v)
                    BY <1>0, <5>2 DEF RecordOutcome, IdleWorker
                <5> QED BY <2>2, <5>1, <5>2
            <4> QED BY <4>1
        <3>2. worker[v].owner # worker[w].owner
            BY <1>1, <3>1 DEF OwnersDistinct
        <3>3. inbox'[e] = inbox[e]
            BY <1>1, <2>2, <3>2, FinishRow DEF Finishes, Fenced
        <3> QED BY <3>3 DEF RowClaimKept
    <2>3. CASE UNCHANGED inbox
        BY <2>3 DEF RowClaimKept
    <2> QED BY <1>4, <2>1, <2>2, <2>3 DEF ExportStep, Export, AbandonCycle, storeVars
<1>5. ASSUME NEW s \in Symbolizer, MarkSymbolized(s) \/ MarkSymbolizationFailed(s)
      PROVE  RowClaimKept(e)
    <2>1. inbox'[e] \in {inbox[e], ReleaseInbox(inbox[e]),
                         ReleaseInbox(PublishFingerprint(inbox[e], e))}
        BY <1>0, <1>5 DEF MarkSymbolized, MarkSymbolizationFailed
    <2> QED BY <1>0, <1>1, <2>1 DEF ReleaseInbox, PublishFingerprint, RowClaimKept, InboxRow
<1>6. ASSUME NEW s \in Symbolizer, SymbolStep(s)
      PROVE  RowClaimKept(e)
    BY <1>2, <1>5, <1>6
       DEF SymbolStep, ClaimSymbolizationJob, ResolveArtifacts, MarkSymbolsMissing,
           StartSymbolizationAttempt, RunTool, ProcessFails, AbandonJob, storeVars
<1> QED BY <1>2, <1>3, <1>4, <1>6 DEF Next, RegisterArtifact, vars

LEMMA JobClaims ==
    ASSUME TypeOK, StatusInv, OwnersDistinct, [Next]_vars, NEW s \in Symbolizer, NEW e \in Event,
           HoldsJob(s, e), symbolizer'[s] = symbolizer[s]
    PROVE  JobClaimKept(e)
<1>0. /\ job[e] \in JobRow /\ job \in [Event -> JobRow]
      /\ symbolizer \in [Symbolizer -> SymbolizerState] /\ symbolizer[s] \in SymbolizerState
    BY DEF TypeOK, StoreTypeOK, SymbolizerTypeOK
<1>1. /\ job[e].status = "processing" /\ job[e].live
      /\ job[e].lease_owner = symbolizer[s].owner /\ symbolizer[s].owner # NoOwner
    BY SymbolizerAssumption DEF HoldsJob, Fenced, OwnersDistinct
<1>2. CASE UNCHANGED job
    BY <1>2 DEF JobClaimKept
<1>3. CASE StoreStep
    <2>1. CASE \E events \in SUBSET Event, enabled \in BOOLEAN, evidence \in SUBSET Event :
                  Ingest(events, enabled, evidence)
        <3>1. inbox[e].status # "absent"
            BY <1>1 DEF StatusInv, AbsentIsBlank
        <3> QED BY <1>0, <2>1, <3>1 DEF Ingest, JobClaimKept
    <2>2. CASE \E rows \in SUBSET Event : MaintainOnce(rows)
        <3>1. job'[e] \in {job[e], [job[e] EXCEPT !.has_result = FALSE]}
            BY <2>2 DEF MaintainOnce
        <3> QED BY <1>0, <3>1 DEF JobClaimKept, JobRow
    <2>3. CASE \E rows \in SUBSET Event : JobClock(rows)
        BY <1>1, <2>3 DEF JobClock, AfterClock, JobClaimKept
    <2> QED BY <1>2, <1>3, <2>1, <2>2, <2>3 DEF StoreStep, InboxClock
<1>4. ASSUME NEW t \in Symbolizer, SymbolStep(t)
      PROVE  JobClaimKept(e)
    <2>1. CASE \E y \in Event, live \in BOOLEAN : ClaimSymbolizationJob(t, y, live)
        BY <1>0, <1>1, <2>1 DEF ClaimSymbolizationJob, Claimable, JobClaimKept
    <2>2. CASE MarkSymbolsMissing(t) \/ MarkSymbolized(t) \/ MarkSymbolizationFailed(t)
        <3>1. t # s
            <4>1. symbolizer'[t].pc # symbolizer[t].pc
                <5>1. CASE AfterCommit(t) /\ symbolizer[t].pc \in {"missing", "finished"}
                    <6>1. \/ symbolizer'[t] = IdleSymbolizer
                          \/ symbolizer'[t] = FailingWith(symbolizer[t], TRUE)
                        BY <1>0, <5>1 DEF AfterCommit
                    <6>2. FailingWith(symbolizer[t], TRUE).pc = "failing"
                        BY <1>0 DEF FailingWith, SymbolizerState
                    <6>3. IdleSymbolizer.pc = "idle"
                        BY DEF IdleSymbolizer
                    <6> QED BY <5>1, <6>1, <6>2, <6>3
                <5>2. CASE MarkSymbolizationFailed(t)
                    BY <1>0, <5>2 DEF MarkSymbolizationFailed, IdleSymbolizer
                <5> QED BY <2>2, <5>1, <5>2 DEF MarkSymbolsMissing, MarkSymbolized
            <4> QED BY <4>1
        <3>2. symbolizer[t].owner # symbolizer[s].owner
            BY <1>1, <3>1 DEF OwnersDistinct
        <3>3. ~Fenced(job[e], symbolizer[t].owner)
            BY <1>1, <3>2 DEF Fenced
        <3>4. job'[e] = job[e]
            BY <1>0, <2>2, <3>3 DEF MarkSymbolsMissing, MarkSymbolized, MarkSymbolizationFailed
        <3> QED BY <3>4 DEF JobClaimKept
    <2>3. CASE StartSymbolizationAttempt(t)
        <3>1. job'[e] \in {job[e], SpendAttempt(job[e])}
            BY <1>0, <2>3 DEF StartSymbolizationAttempt
        <3> QED BY <1>0, <3>1 DEF SpendAttempt, JobClaimKept, JobRow
    <2> QED BY <1>2, <1>4, <2>1, <2>2, <2>3
            DEF SymbolStep, ResolveArtifacts, RunTool, ProcessFails, AbandonJob, storeVars
<1>5. ASSUME NEW v \in Worker, ExportStep(v)
      PROVE  JobClaimKept(e)
    BY <1>2, <1>5 DEF ExportStep, ClaimBatch, EncodeIsolatedBatch, Export, RecordOutcome,
           AbandonCycle, storeVars
<1>6. ASSUME NEW a \in Artifact, RegisterArtifact(a)
      PROVE  JobClaimKept(e)
    BY <1>1, <1>6 DEF RegisterArtifact, JobClaimKept
<1> QED BY <1>2, <1>3, <1>4, <1>5, <1>6 DEF Next, vars

(* A claim under a live lease ends only by a step of its holder or by the  *)
(* clock: no other worker or symbolizer, upload or retention pass takes it *)
(* away.                                                                   *)
THEOREM LeasesProtect == Spec => ClaimEndsWithHolder
<1> DEFINE Kept ==
      /\ \A w \in Worker, e \in Event :
            HoldsRow(w, e) /\ ~HoldsRow(w, e)' =>
                worker'[w] # worker[w] \/ inbox'[e] = [inbox[e] EXCEPT !.live = FALSE]
      /\ \A s \in Symbolizer, e \in Event :
            HoldsJob(s, e) /\ ~HoldsJob(s, e)' =>
                symbolizer'[s] # symbolizer[s] \/ job'[e] = [job[e] EXCEPT !.live = FALSE]
<1>1. ASSUME TypeOK, StatusInv, OwnersDistinct, [Next]_vars
      PROVE  Kept
    <2>1. ASSUME NEW w \in Worker, NEW e \in Event, HoldsRow(w, e), ~HoldsRow(w, e)',
                 worker'[w] = worker[w]
          PROVE  inbox'[e] = [inbox[e] EXCEPT !.live = FALSE]
        <3>1. RowClaimKept(e)
            BY <1>1, <2>1, RowClaims
        <3> QED BY <2>1, <3>1 DEF RowClaimKept, HoldsRow, Fenced
    <2>2. ASSUME NEW s \in Symbolizer, NEW e \in Event, HoldsJob(s, e), ~HoldsJob(s, e)',
                 symbolizer'[s] = symbolizer[s]
          PROVE  job'[e] = [job[e] EXCEPT !.live = FALSE]
        <3>1. JobClaimKept(e)
            BY <1>1, <2>2, JobClaims
        <3> QED BY <2>2, <3>1 DEF JobClaimKept, HoldsJob, Fenced
    <2> QED BY <2>1, <2>2
<1>2. TypeOK /\ StatusInv /\ OwnersDistinct /\ [Next]_vars => [Kept]_vars
    BY <1>1
<1> QED BY <1>2, OwnersInductive, PTL DEF Spec, ClaimEndsWithHolder

-----------------------------------------------------------------------------
(* The tool budget.                                                        *)

(* A step that neither starts nor runs: nobody new is about to run, the    *)
(* committed attempts and the runs stay.                                   *)
NoRun ==
    /\ tool_runs' = tool_runs
    /\ \A e \in Event : /\ job'[e].attempt_count = job[e].attempt_count
                         /\ \A a \in Artifact : AboutToRun(e, a)' \subseteq AboutToRun(e, a)

LEMMA AboutToRunFinite ==
    ASSUME NEW e, NEW a
    PROVE  /\ IsFiniteSet(AboutToRun(e, a))
           /\ Cardinality(AboutToRun(e, a)) \in Nat
<1>1. AboutToRun(e, a) \subseteq Symbolizer
    BY DEF AboutToRun
<1> QED BY <1>1, FS_Subset, FS_CardinalityType, SymbolizerAssumption

(* The runs for artifact a of event e are paid for.                        *)
PaidFor(e, a) == tool_runs[e][a] + Cardinality(AboutToRun(e, a)) <= job[e].attempt_count

LEMMA PaidKept ==
    ASSUME TypeOK, NEW e \in Event, NEW a \in Artifact, PaidFor(e, a),
           tool_runs'[e][a] = tool_runs[e][a],
           job'[e].attempt_count = job[e].attempt_count,
           AboutToRun(e, a)' \subseteq AboutToRun(e, a)
    PROVE  PaidFor(e, a)'
<1>1. /\ IsFiniteSet(AboutToRun(e, a)) /\ Cardinality(AboutToRun(e, a)) \in Nat
    BY AboutToRunFinite
<1>2. /\ Cardinality(AboutToRun(e, a)') <= Cardinality(AboutToRun(e, a))
      /\ Cardinality(AboutToRun(e, a)') \in Nat
    BY <1>1, FS_Subset, FS_CardinalityType
<1>3. tool_runs[e][a] \in Nat /\ job[e].attempt_count \in Nat
    BY DEF TypeOK, StoreTypeOK, SymbolizerTypeOK, JobRow
<1> QED BY <1>1, <1>2, <1>3 DEF PaidFor

LEMMA PaidNoRun ==
    ASSUME TypeOK, RunsArePaid, NoRun
    PROVE  RunsArePaid'
<1>1. ASSUME NEW e \in Event, NEW a \in Artifact
      PROVE  PaidFor(e, a)'
    <2>1. PaidFor(e, a)
        BY <1>1 DEF RunsArePaid, PaidFor
    <2> QED BY <1>1, <2>1, PaidKept DEF NoRun
<1> QED BY <1>1 DEF RunsArePaid, NoRun, PaidFor

(* Attempts committed for event e are spent by StartSymbolizationAttempt   *)
(* alone.                                                                  *)
LEMMA AttemptsKept ==
    ASSUME TypeOK, [Next]_vars, ~\E s \in Symbolizer : StartSymbolizationAttempt(s),
           NEW e \in Event
    PROVE  job'[e].attempt_count = job[e].attempt_count
<1>0. job[e] \in JobRow /\ job \in [Event -> JobRow]
    BY DEF TypeOK, StoreTypeOK
<1>1. CASE StoreStep
    <2>1. ASSUME NEW events \in SUBSET Event, NEW enabled \in BOOLEAN,
                 NEW evidence \in SUBSET Event, Ingest(events, enabled, evidence)
          PROVE  job'[e].attempt_count = job[e].attempt_count
        <3>1. job'[e] \in {job[e], EnterJob(job[e], NewJobStatus(e, enabled))}
            BY <2>1 DEF Ingest
        <3> QED BY <1>0, <3>1 DEF EnterJob, JobRow
    <2>2. ASSUME NEW rows \in SUBSET Event, MaintainOnce(rows)
          PROVE  job'[e].attempt_count = job[e].attempt_count
        <3>1. job'[e] \in {job[e], [job[e] EXCEPT !.has_result = FALSE]}
            BY <2>2 DEF MaintainOnce
        <3> QED BY <1>0, <3>1 DEF JobRow
    <2>3. ASSUME NEW rows \in SUBSET Event, JobClock(rows)
          PROVE  job'[e].attempt_count = job[e].attempt_count
        <3>1. job'[e] \in {job[e], AfterClock(job[e])}
            BY <2>3 DEF JobClock
        <3> QED BY <1>0, <3>1 DEF AfterClock, JobRow
    <2> QED BY <1>1, <2>1, <2>2, <2>3 DEF StoreStep, InboxClock
<1>2. ASSUME NEW s \in Symbolizer, SymbolStep(s)
      PROVE  job'[e].attempt_count = job[e].attempt_count
    <2>1. CASE \E y \in Event, live \in BOOLEAN : ClaimSymbolizationJob(s, y, live)
        <3> PICK y \in Event, live \in BOOLEAN : ClaimSymbolizationJob(s, y, live)
            BY <2>1
        <3>1. job'[e] = job[e] \/ job'[e] = [job[e] EXCEPT !.status = "processing",
                                         !.lease_owner = NewSymbolOwner, !.live = live]
            BY <1>0 DEF ClaimSymbolizationJob
        <3> QED BY <1>0, <3>1 DEF JobRow
    <2>2. CASE UNCHANGED job
        BY <2>2
    <2>3. CASE MarkSymbolsMissing(s) \/ MarkSymbolized(s) \/ MarkSymbolizationFailed(s)
        <3> DEFINE u == Unleased(job[e])
        <3>1. \/ job'[e] = job[e]
              \/ job'[e] = [u EXCEPT !.status = "symbols_missing", !.due = FALSE]
              \/ job'[e] = [u EXCEPT !.status = symbolizer[s].status, !.has_result = TRUE]
              \/ job'[e] = [u EXCEPT !.status = "pending", !.due = FALSE]
              \/ job'[e] = [u EXCEPT !.status = "failed", !.due = FALSE]
            <4>1. CASE MarkSymbolsMissing(s)
                BY <1>0, <4>1 DEF MarkSymbolsMissing
            <4>2. CASE MarkSymbolized(s)
                BY <1>0, <4>2 DEF MarkSymbolized
            <4>3. CASE MarkSymbolizationFailed(s)
                BY <1>0, <4>3 DEF MarkSymbolizationFailed
            <4> QED BY <2>3, <4>1, <4>2, <4>3
        <3>2. Unleased(job[e]) \in JobRow
              /\ Unleased(job[e]).attempt_count = job[e].attempt_count
            BY <1>0, JobOperatorTypes DEF Unleased, JobRow
        <3> QED BY <3>1, <3>2 DEF JobRow
    <2> QED BY <1>2, <2>1, <2>2, <2>3
            DEF SymbolStep, ResolveArtifacts, RunTool, ProcessFails, AbandonJob, storeVars
<1>3. ASSUME NEW a \in Artifact, RegisterArtifact(a)
      PROVE  job'[e].attempt_count = job[e].attempt_count
    <2>1. job'[e] \in {job[e], [job[e] EXCEPT !.status = "pending", !.due = TRUE]}
        BY <1>3 DEF RegisterArtifact
    <2> QED BY <1>0, <2>1 DEF JobRow
<1>4. ASSUME NEW v \in Worker, ExportStep(v)
      PROVE  job'[e].attempt_count = job[e].attempt_count
    BY <1>4 DEF ExportStep, ClaimBatch, EncodeIsolatedBatch, Export, RecordOutcome,
           AbandonCycle, storeVars
<1>5. CASE UNCHANGED vars
    BY <1>5 DEF vars
<1> QED BY <1>1, <1>2, <1>3, <1>4, <1>5 DEF Next

(* Committing an attempt pays for one run of each artifact of the crash.   *)
LEMMA PaidStart ==
    ASSUME TypeOK, StatusInv, RunsArePaid, NEW s \in Symbolizer, StartSymbolizationAttempt(s)
    PROVE  RunsArePaid'
<1>0. symbolizer \in [Symbolizer -> SymbolizerState] /\ job \in [Event -> JobRow]
      /\ SymbolizerMaxAttempts \in Nat
    BY SymbolizerAssumption DEF TypeOK, StoreTypeOK, SymbolizerTypeOK
<1>1. PICK x \in Event : /\ x = symbolizer[s].job /\ symbolizer[s].pc = "resolved"
                         /\ symbolizer[s] \in SymbolizerState
    BY <1>0 DEF StartSymbolizationAttempt, StatusInv, SymbolizerMemory
<1>2. tool_runs' = tool_runs
    BY DEF StartSymbolizationAttempt
<1>3. CASE job' = job /\ symbolizer' = [symbolizer EXCEPT ![s] = IdleSymbolizer]
    <2>1. \A e \in Event, a \in Artifact : AboutToRun(e, a)' \subseteq AboutToRun(e, a)
        BY <1>0, <1>3 DEF AboutToRun, IdleSymbolizer
    <2> QED BY <1>2, <1>3, <2>1, PaidNoRun DEF NoRun
<1>4. CASE /\ job[x].attempt_count < SymbolizerMaxAttempts
           /\ job' = [job EXCEPT ![x] = SpendAttempt(job[x])]
           /\ symbolizer' = [symbolizer EXCEPT ![s] =
                 [symbolizer[s] EXCEPT !.pc = "started", !.left = Needs[x],
                                       !.attempts = symbolizer[s].attempts + 1]]
    <2>1. symbolizer'[s] = [symbolizer[s] EXCEPT !.pc = "started", !.left = Needs[x],
                                                 !.attempts = symbolizer[s].attempts + 1]
        BY <1>0, <1>4
    <2>2. symbolizer'[s].pc = "started" /\ symbolizer'[s].job = x
        BY <1>1, <2>1 DEF SymbolizerState
    <2>3. \A t \in Symbolizer \ {s} : symbolizer'[t] = symbolizer[t]
        BY <1>0, <1>4
    <2>4. \A a \in Artifact : /\ AboutToRun(x, a)' \subseteq AboutToRun(x, a) \cup {s}
                              /\ s \notin AboutToRun(x, a)
        BY <1>1, <2>3 DEF AboutToRun
    <2>5. \A e \in Event \ {x}, a \in Artifact : AboutToRun(e, a)' \subseteq AboutToRun(e, a)
        BY <2>2, <2>3 DEF AboutToRun
    <2>6. /\ job'[x].attempt_count = job[x].attempt_count + 1
          /\ job[x].attempt_count \in Nat
          /\ \A e \in Event \ {x} : job'[e] = job[e]
        BY <1>0, <1>1, <1>4 DEF SpendAttempt, JobRow
    <2>7. job'[x].attempt_count <= SymbolizerMaxAttempts
        BY <1>0, <1>4, <2>6
    <2>8. ASSUME NEW a \in Artifact
          PROVE  PaidFor(x, a)'
        <3>1. /\ IsFiniteSet(AboutToRun(x, a)) /\ Cardinality(AboutToRun(x, a)) \in Nat
            BY AboutToRunFinite
        <3>2. /\ IsFiniteSet(AboutToRun(x, a) \cup {s})
              /\ Cardinality(AboutToRun(x, a) \cup {s}) = Cardinality(AboutToRun(x, a)) + 1
            BY <2>4, <2>8, <3>1, FS_AddElement
        <3>3. /\ Cardinality(AboutToRun(x, a)') <= Cardinality(AboutToRun(x, a)) + 1
              /\ Cardinality(AboutToRun(x, a)') \in Nat
            BY <2>4, <2>8, <3>2, FS_Subset, FS_CardinalityType
        <3>4. tool_runs[x][a] \in Nat /\ tool_runs'[x][a] = tool_runs[x][a]
            BY <1>1, <1>2, <2>8 DEF TypeOK, SymbolizerTypeOK
        <3>5. tool_runs[x][a] + Cardinality(AboutToRun(x, a)) <= job[x].attempt_count
            BY <1>1, <2>8 DEF RunsArePaid
        <3> QED BY <2>6, <3>1, <3>3, <3>4, <3>5 DEF PaidFor
    <2>9. ASSUME NEW e \in Event, e # x, NEW a \in Artifact
          PROVE  PaidFor(e, a)'
        <3>1. PaidFor(e, a)
            BY <2>9 DEF RunsArePaid, PaidFor
        <3> QED BY <1>2, <2>5, <2>6, <2>9, <3>1, PaidKept
    <2>10. \A e \in Event : job'[e].attempt_count <= SymbolizerMaxAttempts
        BY <2>6, <2>7 DEF RunsArePaid
    <2> QED BY <2>8, <2>9, <2>10 DEF RunsArePaid, PaidFor
<1> QED BY <1>1, <1>3, <1>4 DEF StartSymbolizationAttempt

(* One run of the tool uses what was paid for it, and no other artifact's. *)
LEMMA PaidRun ==
    ASSUME TypeOK, StatusInv, RunsArePaid, NEW s \in Symbolizer, NEW b \in Artifact, NEW st,
           RunTool(s, b, st)
    PROVE  RunsArePaid'
<1>0. /\ symbolizer \in [Symbolizer -> SymbolizerState] /\ job \in [Event -> JobRow]
      /\ tool_runs \in [Event -> [Artifact -> Nat]]
    BY DEF TypeOK, StoreTypeOK, SymbolizerTypeOK
<1>1. PICK x \in Event : /\ x = symbolizer[s].job /\ symbolizer[s].pc = "started"
                         /\ symbolizer[s] \in SymbolizerState /\ b \in symbolizer[s].left
    BY <1>0 DEF RunTool, StatusInv, SymbolizerMemory
<1>2. /\ job' = job
      /\ tool_runs' = [tool_runs EXCEPT ![x] =
                          [tool_runs[x] EXCEPT ![b] = tool_runs[x][b] + 1]]
    BY <1>1 DEF RunTool, storeVars
<1>3. /\ tool_runs'[x][b] = tool_runs[x][b] + 1
      /\ \A e \in Event, a \in Artifact : e # x \/ a # b => tool_runs'[e][a] = tool_runs[e][a]
    BY <1>0, <1>1, <1>2
<1>4. /\ symbolizer'[s].pc = "started" =>
            /\ symbolizer'[s].job = x
            /\ symbolizer'[s].left = symbolizer[s].left \ {b}
      /\ \A t \in Symbolizer \ {s} : symbolizer'[t] = symbolizer[t]
    <2>1. PICK r : /\ symbolizer' = [symbolizer EXCEPT ![s] = r]
                   /\ \/ r = [symbolizer[s] EXCEPT !.left = symbolizer[s].left \ {b}]
                      \/ r = [symbolizer[s] EXCEPT !.pc = "finished", !.left = {}, !.status = st]
                      \/ \E c \in BOOLEAN : r = FailingWith(symbolizer[s], c)
        BY DEF RunTool
    <2>2. [symbolizer[s] EXCEPT !.pc = "finished", !.left = {}, !.status = st].pc = "finished"
        BY <1>1 DEF SymbolizerState
    <2>3. \A c : FailingWith(symbolizer[s], c).pc = "failing"
        BY <1>1 DEF FailingWith, SymbolizerState
    <2>4. LET r0 == [symbolizer[s] EXCEPT !.left = symbolizer[s].left \ {b}]
          IN  r0.job = x /\ r0.left = symbolizer[s].left \ {b}
        BY <1>1 DEF SymbolizerState
    <2>5. symbolizer'[s] = r /\ \A t \in Symbolizer \ {s} : symbolizer'[t] = symbolizer[t]
        BY <1>0, <2>1
    <2> QED BY <2>1, <2>2, <2>3, <2>4, <2>5
<1>5. \A e \in Event, a \in Artifact : AboutToRun(e, a)' \subseteq AboutToRun(e, a)
    BY <1>1, <1>4 DEF AboutToRun
<1>6. AboutToRun(x, b)' \subseteq AboutToRun(x, b) \ {s} /\ s \in AboutToRun(x, b)
    BY <1>1, <1>4 DEF AboutToRun
<1>7. PaidFor(x, b)'
    <2>1. /\ IsFiniteSet(AboutToRun(x, b)) /\ Cardinality(AboutToRun(x, b)) \in Nat
        BY AboutToRunFinite
    <2>2. /\ IsFiniteSet(AboutToRun(x, b) \ {s})
          /\ Cardinality(AboutToRun(x, b) \ {s}) = Cardinality(AboutToRun(x, b)) - 1
        BY <1>6, <2>1, FS_RemoveElement
    <2>3. /\ Cardinality(AboutToRun(x, b)') <= Cardinality(AboutToRun(x, b)) - 1
          /\ Cardinality(AboutToRun(x, b)') \in Nat
        BY <1>6, <2>2, FS_Subset, FS_CardinalityType
    <2>4. tool_runs[x][b] \in Nat /\ job[x].attempt_count \in Nat
        BY <1>0, <1>1 DEF JobRow
    <2>5. tool_runs[x][b] + Cardinality(AboutToRun(x, b)) <= job[x].attempt_count
        BY <1>1 DEF RunsArePaid
    <2> QED BY <1>2, <1>3, <2>1, <2>3, <2>4, <2>5 DEF PaidFor
<1>8. ASSUME NEW e \in Event, NEW a \in Artifact, e # x \/ a # b
      PROVE  PaidFor(e, a)'
    <2>1. PaidFor(e, a)
        BY <1>8 DEF RunsArePaid, PaidFor
    <2> QED BY <1>2, <1>3, <1>5, <1>8, <2>1, PaidKept
<1> QED BY <1>2, <1>7, <1>8 DEF RunsArePaid, PaidFor

LEMMA PaidStep ==
    ASSUME TypeOK, StatusInv, RunsArePaid, [Next]_vars
    PROVE  RunsArePaid'
<1>0. symbolizer \in [Symbolizer -> SymbolizerState]
    BY DEF TypeOK, SymbolizerTypeOK
<1>1. CASE UNCHANGED <<symbolizer, tool_runs>>
    <2>1. \A e \in Event, a \in Artifact : AboutToRun(e, a)' = AboutToRun(e, a)
        BY <1>1 DEF AboutToRun
    <2>2. ~\E s \in Symbolizer : StartSymbolizationAttempt(s)
        <3> SUFFICES ASSUME NEW s \in Symbolizer, StartSymbolizationAttempt(s) PROVE FALSE
            OBVIOUS
        <3> DEFINE left == Needs[symbolizer[s].job]
        <3>1. PICK r \in {IdleSymbolizer, [symbolizer[s] EXCEPT !.pc = "started", !.left = left,
                                               !.attempts = symbolizer[s].attempts + 1]} :
                 symbolizer' = [symbolizer EXCEPT ![s] = r]
            BY DEF StartSymbolizationAttempt
        <3> HIDE DEF left
        <3>2. symbolizer[s] \in SymbolizerState /\ symbolizer[s].pc = "resolved"
            BY <1>0 DEF StartSymbolizationAttempt
        <3>3. [symbolizer[s] EXCEPT !.pc = "started", !.left = left,
                                    !.attempts = symbolizer[s].attempts + 1].pc = "started"
            BY <3>2 DEF SymbolizerState
        <3>4. IdleSymbolizer.pc = "idle"
            BY DEF IdleSymbolizer
        <3> QED BY <1>0, <1>1, <3>1, <3>2, <3>3, <3>4
    <2>3. NoRun
        BY <1>1, <2>1, <2>2, AttemptsKept DEF NoRun
    <2> QED BY <2>3, PaidNoRun
<1>2. CASE \E s \in Symbolizer : StartSymbolizationAttempt(s)
    BY <1>2, PaidStart
<1>3. CASE \E s \in Symbolizer, a \in Artifact, st \in {"symbolized", "partially_symbolized"} :
              RunTool(s, a, st)
    BY <1>3, PaidRun
<1>4. ASSUME NEW s \in Symbolizer, SymbolStep(s), UNCHANGED tool_runs,
             ~\E a \in Artifact, st \in {"symbolized", "partially_symbolized"} :
                RunTool(s, a, st),
             ~\E t \in Symbolizer : StartSymbolizationAttempt(t)
      PROVE  RunsArePaid'
    <2>1. \A t \in Symbolizer \ {s} : symbolizer'[t] = symbolizer[t]
        BY <1>4, SymbolMemoryStep
    <2>2. symbolizer'[s].pc # "started"
        <3>1. symbolizer[s] \in SymbolizerState
            BY <1>0
        <3>2. \A b, n : /\ FailingWith(symbolizer[s], b).pc = "failing"
                        /\ [FailingWith(symbolizer[s], b) EXCEPT !.attempts = n].pc = "failing"
            BY <3>1 DEF FailingWith, SymbolizerState
        <3>3. IdleSymbolizer.pc = "idle"
            BY DEF IdleSymbolizer
        <3>4. CASE \E y \in Event, live \in BOOLEAN : ClaimSymbolizationJob(s, y, live)
            BY <1>0, <3>4 DEF ClaimSymbolizationJob, IdleSymbolizer
        <3>5. CASE ResolveArtifacts(s)
            <4>1. PICK pc \in {"missing", "failing", "resolved"} :
                     symbolizer'[s] = [symbolizer[s] EXCEPT !.pc = pc, !.retryable = FALSE]
                BY <1>0, <3>5 DEF ResolveArtifacts
            <4> QED BY <3>1, <4>1 DEF SymbolizerState
        <3>6. CASE AfterCommit(s)
            BY <1>0, <3>2, <3>3, <3>6 DEF AfterCommit
        <3>8. CASE \E b \in BOOLEAN, n \in 0..SymbolizerMaxAttempts : ProcessFails(s, b, n)
            BY <1>0, <3>2, <3>8 DEF ProcessFails
        <3>9. CASE MarkSymbolizationFailed(s) \/ AbandonJob(s)
            BY <1>0, <3>3, <3>9 DEF MarkSymbolizationFailed, AbandonJob
        <3> QED BY <1>4, <3>4, <3>5, <3>6, <3>8, <3>9
                DEF SymbolStep, MarkSymbolsMissing, MarkSymbolized
    <2>3. \A e \in Event, a \in Artifact : AboutToRun(e, a)' \subseteq AboutToRun(e, a)
        BY <2>1, <2>2 DEF AboutToRun
    <2> QED BY <1>4, <2>3, AttemptsKept, PaidNoRun DEF NoRun
<1> QED BY <1>1, <1>2, <1>3, <1>4
        DEF Next, vars, symbolizerVars, RegisterArtifact, SymbolStep, ClaimSymbolizationJob,
            ResolveArtifacts, MarkSymbolsMissing, MarkSymbolized, MarkSymbolizationFailed,
            ProcessFails, AbandonJob

LEMMA PaidInit == Init => RunsArePaid
<1> SUFFICES ASSUME Init PROVE RunsArePaid
    OBVIOUS
<1>1. \A e \in Event : /\ \A a \in Artifact : AboutToRun(e, a) = {} /\ tool_runs[e][a] = 0
                       /\ job[e].attempt_count = 0
    BY DEF Init, StoreInit, SymbolizerInit, NoJob, IdleSymbolizer, AboutToRun
<1>2. Cardinality({}) = 0
    BY FS_EmptySet
<1>3. SymbolizerMaxAttempts \in Nat
    BY SymbolizerAssumption
<1>4. ASSUME NEW e \in Event
      PROVE  job[e].attempt_count <= SymbolizerMaxAttempts
    BY <1>1, <1>3, <1>4
<1>5. ASSUME NEW e \in Event, NEW a \in Artifact
      PROVE  tool_runs[e][a] + Cardinality(AboutToRun(e, a)) <= job[e].attempt_count
    <2>1. AboutToRun(e, a) = {} /\ tool_runs[e][a] = 0 /\ job[e].attempt_count = 0
        BY <1>1, <1>5
    <2>2. Cardinality(AboutToRun(e, a)) = 0
        BY <1>2, <2>1
    <2> QED BY <2>1, <2>2
<1> QED BY <1>4, <1>5 DEF RunsArePaid

(* The whole strengthening is inductive.                                   *)
THEOREM Inductive == Spec => []IInv
<1>1. Init => RunsArePaid
    BY PaidInit
<1>2. TypeOK /\ StatusInv /\ RunsArePaid /\ [Next]_vars => RunsArePaid'
    BY PaidStep
<1>3. Spec => []RunsArePaid
    BY <1>1, <1>2, StatusInductive, PTL DEF Spec
<1>4. TypeOK /\ StatusInv /\ ExportInv /\ OwnersDistinct /\ RunsArePaid => IInv
    BY DEF IInv
<1> QED BY <1>3, <1>4, ExportInductive, OwnersInductive, PTL

(* The tool runs at most SymbolizerMaxAttempts times for each artifact of  *)
(* a crash, however many symbolizers crash, time out or lose their lease:  *)
(* every run has an attempt of its own, committed before it, which it      *)
(* shares with the runs for the other modules of the crash only.           *)
THEOREM ToolRunsBounded == Spec => []ToolBudget
<1>1. TypeOK /\ RunsArePaid => ToolBudget
    <2> SUFFICES ASSUME TypeOK, RunsArePaid, NEW e \in Event, NEW a \in Artifact
                 PROVE  tool_runs[e][a] <= SymbolizerMaxAttempts
        BY DEF ToolBudget
    <2>1. /\ tool_runs[e][a] \in Nat /\ job[e].attempt_count \in Nat
          /\ Cardinality(AboutToRun(e, a)) \in Nat /\ SymbolizerMaxAttempts \in Nat
        BY AboutToRunFinite, SymbolizerAssumption
           DEF TypeOK, StoreTypeOK, SymbolizerTypeOK, JobRow
    <2> QED BY <2>1 DEF RunsArePaid
<1> QED BY <1>1, Inductive, PTL DEF IInv
=============================================================================
