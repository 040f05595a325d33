------------------------------ MODULE Pipeline ------------------------------
(***************************************************************************)
(* The durable pipeline: ingest commits, export workers, symbolizers,      *)
(* artifact uploads and retention over the shared inbox and job tables.    *)
(***************************************************************************)
EXTENDS ExportWorker, SymbolWorker

vars == <<inbox, job, worker, collected, symbolizer, registered, tool_runs>>

Init == StoreInit /\ WorkerInit /\ SymbolizerInit

(* Steps that touch the two tables only.                                   *)
StoreStep ==
    \/ \E events \in SUBSET Event, enabled \in BOOLEAN, evidence \in SUBSET Event :
          Ingest(events, enabled, evidence)
    \/ \E rows \in SUBSET Event : MaintainOnce(rows)
    \/ \E rows \in SUBSET Event : InboxClock(rows)
    \/ \E rows \in SUBSET Event : JobClock(rows)

Next ==
    \/ StoreStep /\ UNCHANGED <<workerVars, symbolizerVars>>
    \/ \E w \in Worker : ExportStep(w) /\ UNCHANGED symbolizerVars
    \/ \E s \in Symbolizer : SymbolStep(s) /\ UNCHANGED workerVars
    \/ \E a \in Artifact : RegisterArtifact(a) /\ UNCHANGED workerVars

Spec == Init /\ [][Next]_vars

-----------------------------------------------------------------------------
(* Every variable has its type.                                            *)
TypeOK == StoreTypeOK /\ WorkerTypeOK /\ SymbolizerTypeOK

(* An acknowledged crash waits for symbols exactly as long as its job is   *)
(* unfinished: it is never exported early, and no finished, failed or lost *)
(* job leaves it parked with nobody to release it (_release_inbox and      *)
(* enqueue_symbolization_jobs keep the two tables in step).                *)
ParkedIffUnfinished ==
    \A e \in Event :
        inbox[e].status = "awaiting_symbols" <=> job[e].status \in UNFINISHED_SYMBOL_STATUSES

(* The collector never sees a crash whose symbolization is still open,     *)
(* also not from a worker whose lease was lost.                            *)
ExportAfterSymbols ==
    \A e \in collected : job[e].status \notin UNFINISHED_SYMBOL_STATUSES

(* A row is delivered only after the collector accepted that very event:   *)
(* not for a partial rejection, not for a row that could not be encoded,   *)
(* not through another worker's answer.                                    *)
DeliveredWasCollected ==
    \A e \in Event : inbox[e].status = "delivered" => e \in collected

(* A row offered for another attempt still has attempts left, although the *)
(* count that decided it was read in an earlier transaction.               *)
RetryBudgetLeft ==
    \A e \in Event :
        inbox[e].status = "pending" => inbox[e].attempt_count < WorkerMaxAttempts

(* The symbolization tool never runs more often for an artifact of a crash *)
(* than attempts are configured (symbolizer_max_attempts), however often   *)
(* symbolizers crash, time out or lose their lease: once per attempt for a *)
(* Java crash, once per attempt and module for a Native one.               *)
ToolBudget ==
    \A e \in Event, a \in Artifact : tool_runs[e][a] <= SymbolizerMaxAttempts

(* The Issue of an accepted crash changes to the canonical one exactly     *)
(* with its symbolized result, never by a symbolizer that lost its lease;  *)
(* a crash without stack evidence has no Issue, also not after a result.   *)
FingerprintFollowsResult ==
    \A e \in Event : inbox[e].status # "absent" =>
        inbox[e].fingerprint =
            IF ~inbox[e].has_evidence THEN "none"
            ELSE IF Kind[e] = "java" /\ job[e].status = "symbolized" THEN "symbolized"
            ELSE "raw"

(* Pruned rows are final, hold no symbolizer output, and no late           *)
(* symbolizer puts any back.                                               *)
PrunedEvidenceStaysGone ==
    \A e \in Event :
        inbox[e].raw_pruned => /\ inbox[e].status \in FINAL_STATUSES
                               /\ ~job[e].has_result

-----------------------------------------------------------------------------
(* The strengthening that makes the invariants above inductive.            *)

(* An event nobody sent has no job, and no evidence was derived from it.   *)
AbsentIsBlank ==
    \A e \in Event :
        inbox[e].status = "absent" => /\ job[e].status = "none"
                                      /\ inbox[e].fingerprint = "none"
                                      /\ ~inbox[e].has_evidence
                                      /\ ~inbox[e].raw_pruned
                                      /\ ~job[e].has_result

(* What a worker has claimed, or the collector has seen, has been released *)
(* for export.                                                             *)
ClaimedIsReleased ==
    \A e \in Event :
        (e \in collected \/ \E w \in Worker : e \in worker[w].events)
            => inbox[e].status \notin {"absent", "awaiting_symbols"}

(* A worker that was answered "success" saw the collector accept it all.   *)
SuccessIsCollected ==
    \A w \in Worker :
        worker[w].pc = "answered" /\ worker[w].result = "success"
            => worker[w].events \subseteq collected

(* A row that may still be offered has attempts left.                      *)
WaitingHasBudget ==
    \A e \in Event :
        inbox[e].status \in {"absent", "awaiting_symbols", "pending"}
            => inbox[e].attempt_count < WorkerMaxAttempts

(* The attempt count a worker remembers is the row's, while it owns it.    *)
RememberedAttempts ==
    \A w \in Worker : \A e \in worker[w].events :
        inbox[e].status = "processing" /\ inbox[e].lease_owner = worker[w].owner
            => inbox[e].attempt_count = worker[w].attempts[e]

(* No two processes hold the same lease token, and a claim has one.        *)
OwnersDistinct ==
    /\ \A w \in Worker : worker[w].events # {} => worker[w].owner # NoOwner
    /\ \A v, w \in Worker :
          v # w /\ worker[v].owner = worker[w].owner => worker[v].owner = NoOwner
    /\ \A s \in Symbolizer : symbolizer[s].job # NoJobHeld => symbolizer[s].owner # NoOwner
    /\ \A s, t \in Symbolizer :
          s # t /\ symbolizer[s].owner = symbolizer[t].owner => symbolizer[s].owner = NoOwner

(* A busy symbolizer has a job; a partial result is a Native one.          *)
SymbolizerMemory ==
    \A s \in Symbolizer :
        /\ symbolizer[s].pc # "idle" => symbolizer[s].job \in Event
        /\ symbolizer[s].pc = "finished" =>
              \/ symbolizer[s].status = "symbolized"
              \/ /\ symbolizer[s].status = "partially_symbolized"
                 /\ Kind[symbolizer[s].job] = "native"

(* Of the tool runs for one artifact of a crash, each one, and each        *)
(* symbolizer that has it still to do, has its own committed attempt.      *)
AboutToRun(e, a) ==
    {s \in Symbolizer : /\ symbolizer[s].pc = "started" /\ symbolizer[s].job = e
                        /\ a \in symbolizer[s].left}

RunsArePaid ==
    \A e \in Event :
        /\ \A a \in Artifact :
              tool_runs[e][a] + Cardinality(AboutToRun(e, a)) <= job[e].attempt_count
        /\ job[e].attempt_count <= SymbolizerMaxAttempts

StatusInv ==
    /\ AbsentIsBlank
    /\ ParkedIffUnfinished
    /\ FingerprintFollowsResult
    /\ PrunedEvidenceStaysGone
    /\ SymbolizerMemory

ExportInv ==
    /\ ClaimedIsReleased
    /\ SuccessIsCollected
    /\ DeliveredWasCollected
    /\ WaitingHasBudget
    /\ RememberedAttempts

(* The inductive invariant.                                                *)
IInv == TypeOK /\ StatusInv /\ ExportInv /\ OwnersDistinct /\ RunsArePaid

-----------------------------------------------------------------------------
(* Worker w holds the current, unexpired claim on row e.                   *)
HoldsRow(w, e) == e \in worker[w].events /\ Fenced(inbox[e], worker[w].owner)

HoldsJob(s, e) == symbolizer[s].job = e /\ Fenced(job[e], symbolizer[s].owner)

(* Delivered and dead-lettered rows, and finished jobs, never leave that   *)
(* state: no late worker, failure report, upload or replay reopens them.   *)
FinalIsFinal ==
    [][\A e \in Event :
          /\ inbox[e].status \in FINAL_STATUSES => inbox'[e].status = inbox[e].status
          /\ job[e].status \in FINISHED_SYMBOL_STATUSES => job'[e].status = job[e].status]_vars

(* A live claim ends by its holder's own step or by its expiry, never by   *)
(* another process.                                                        *)
ClaimEndsWithHolder ==
    [][/\ \A w \in Worker, e \in Event :
             HoldsRow(w, e) /\ ~HoldsRow(w, e)' =>
                 worker'[w] # worker[w] \/ inbox'[e] = [inbox[e] EXCEPT !.live = FALSE]
       /\ \A s \in Symbolizer, e \in Event :
             HoldsJob(s, e) /\ ~HoldsJob(s, e)' =>
                 symbolizer'[s] # symbolizer[s] \/ job'[e] = [job[e] EXCEPT !.live = FALSE]]_vars

-----------------------------------------------------------------------------
(* What a client was promised of an event whose row has this status.       *)
PromiseOf(status) ==
    CASE status = "absent"          -> "unknown"
      [] status \in LIVE_STATUSES   -> "accepted"
      [] status = "delivered"       -> "delivered"
      [] status = "dead_letter"     -> "dead"

PromisedState == [e \in Event |-> PromiseOf(inbox[e].status)]

Promise == INSTANCE Delivery WITH
    state <- PromisedState,
    received <- collected,
    expired <- {e \in Event : inbox[e].raw_pruned}

(* The pipeline implements at-least-once delivery of accepted events.      *)
ImplementsDelivery == Promise!DeliverySpec

-----------------------------------------------------------------------------
(* Fairness.  The clock runs.  A process that has claimed something takes  *)
(* its next step or dies: every await of a cycle has a timeout.  Processes *)
(* are restarted and poll for ever, so a row or job that is claimable      *)
(* again and again is claimed (rows are taken in id order, locks are held  *)
(* briefly).  Crashes and lost leases may repeat but not for ever at the   *)
(* same point: of infinitely many cycles that could take a step under a    *)
(* live lease, some do.                                                    *)
ClockPassesRow(e) ==
    /\ \E rows \in SUBSET Event : e \in rows /\ InboxClock(rows)
    /\ UNCHANGED <<workerVars, symbolizerVars>>

ClockPassesJob(e) ==
    /\ \E rows \in SUBSET Event : e \in rows /\ JobClock(rows)
    /\ UNCHANGED <<workerVars, symbolizerVars>>

ClaimsRow(e) ==
    \E w \in Worker : /\ \E rows \in SUBSET Event : e \in rows /\ ClaimBatch(w, rows, TRUE)
                      /\ UNCHANGED symbolizerVars

(* The steps of export_once, each taken by a worker that holds row e.      *)
EncodesRow(e) ==
    \E w \in Worker : HoldsRow(w, e) /\ EncodeIsolatedBatch(w) /\ UNCHANGED symbolizerVars

ExportsRow(e) ==
    \E w \in Worker : /\ HoldsRow(w, e)
                      /\ \E accepted \in SUBSET Event, result \in ExportResults :
                            Export(w, accepted, result)
                      /\ UNCHANGED symbolizerVars

RecordsRow(e) ==
    \E w \in Worker : HoldsRow(w, e) /\ RecordOutcome(w) /\ UNCHANGED symbolizerVars

ClaimsJob(e) ==
    \E s \in Symbolizer : ClaimSymbolizationJob(s, e, TRUE) /\ UNCHANGED workerVars

(* The steps of _process_claim, each taken by a symbolizer that holds e.   *)
JobSteps == {"resolve", "park", "start", "run", "complete", "fail"}

JobStep(s, n) ==
    \/ n = "resolve" /\ ResolveArtifacts(s)
    \/ n = "park" /\ MarkSymbolsMissing(s)
    \/ n = "start" /\ StartSymbolizationAttempt(s)
    \/ n = "run" /\ \E a \in Artifact, status \in {"symbolized", "partially_symbolized"} :
                      RunTool(s, a, status)
    \/ n = "complete" /\ MarkSymbolized(s)
    \/ n = "fail" /\ MarkSymbolizationFailed(s)

AdvancesJob(e, n) ==
    \E s \in Symbolizer : HoldsJob(s, e) /\ JobStep(s, n) /\ UNCHANGED workerVars

WorkerMoves(w) ==
    worker[w].pc # "idle" /\ ExportStep(w) /\ UNCHANGED symbolizerVars

SymbolizerMoves(s) ==
    symbolizer[s].pc # "idle" /\ SymbolStep(s) /\ UNCHANGED workerVars

Fairness ==
    /\ \A w \in Worker : WF_vars(WorkerMoves(w))
    /\ \A s \in Symbolizer : WF_vars(SymbolizerMoves(s))
    /\ \A e \in Event :
           /\ WF_vars(ClockPassesRow(e))
           /\ WF_vars(ClockPassesJob(e))
           /\ SF_vars(ClaimsRow(e))
           /\ SF_vars(EncodesRow(e))
           /\ SF_vars(ExportsRow(e))
           /\ SF_vars(RecordsRow(e))
           /\ SF_vars(ClaimsJob(e))
           /\ \A n \in JobSteps : SF_vars(AdvancesJob(e, n))

FairSpec == Spec /\ Fairness

(* Once the artifacts of an accepted event are registered it ends as       *)
(* delivered or dead-lettered: also when they were registered while its    *)
(* job was being looked up, which the upload's wake-up misses.             *)
EventuallyFinal ==
    \A e \in Event :
        (inbox[e].status \in LIVE_STATUSES /\ Needs[e] \subseteq registered)
            ~> inbox[e].status \in FINAL_STATUSES
=============================================================================
