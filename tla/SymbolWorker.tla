---------------------------- MODULE SymbolWorker ----------------------------
(***************************************************************************)
(* The symbolizer process (symbolizer_worker.py, db/symbolization.py) and  *)
(* the upload transaction that wakes it.  One claim is taken at a time; it *)
(* is resolved, its attempt is spent, the tool runs once for each artifact *)
(* of the crash (the mapping of a Java crash, the ELF file of each module  *)
(* of a Native one), the result is recorded.  Each transaction and each    *)
(* tool run is a step of its own, and the lease deadline may cancel the    *)
(* job between any two of them or while a COMMIT is in flight.             *)
(***************************************************************************)
EXTENDS InboxStore

CONSTANTS
    Symbolizer,             \* symbolizer processes
    SymbolizerMaxAttempts,  \* settings.symbolizer_max_attempts
    Artifact,               \* symbol artifact identities
    Needs,                  \* Needs[e]: artifacts that cover every frame of e,
                            \* one per module (ABI and build ID) of a Native crash
    NoJobHeld               \* no job claimed

ASSUME SymbolizerAssumption ==
    /\ IsFiniteSet(Symbolizer)
    /\ SymbolizerMaxAttempts \in Nat \ {0}
    /\ Needs \in [Event -> SUBSET Artifact]
    /\ \A e \in Event : /\ Kind[e] = "java" => \E a \in Artifact : Needs[e] = {a}
                         /\ Kind[e] = "native" => Needs[e] # {}
    /\ NoJobHeld \notin Event

VARIABLES
    symbolizer,     \* what each symbolize_once call holds in memory
    registered,     \* rows of symbol_artifacts
    tool_runs       \* history: executions of the tool per event and artifact

symbolizerVars == <<symbolizer, registered, tool_runs>>

SymbolizerState ==
    [pc: {"idle", "claimed", "missing", "resolved", "started", "finished", "failing"},
     owner: Token \cup {NoOwner},
     job: Event \cup {NoJobHeld},
     attempts: Nat,             \* job.attempt_count in memory
     left: SUBSET Artifact,     \* module groups the loop has still to run
     status: {"none", "symbolized", "partially_symbolized"},
     retryable: BOOLEAN]

IdleSymbolizer ==
    [pc |-> "idle", owner |-> NoOwner, job |-> NoJobHeld, attempts |-> 0,
     left |-> {}, status |-> "none", retryable |-> FALSE]

SymbolizerTypeOK ==
    /\ symbolizer \in [Symbolizer -> SymbolizerState]
    /\ registered \subseteq Artifact
    /\ tool_runs \in [Event -> [Artifact -> Nat]]

SymbolizerInit ==
    /\ symbolizer = [s \in Symbolizer |-> IdleSymbolizer]
    /\ registered = {}
    /\ tool_runs = [e \in Event |-> [a \in Artifact |-> 0]]

-----------------------------------------------------------------------------
SymbolTokensInUse ==
    {job[e].lease_owner : e \in Event} \cup {symbolizer[s].owner : s \in Symbolizer}

NewSymbolOwner == CHOOSE t \in Token : t \notin SymbolTokensInUse

(* The row of job e with its lease given up.                               *)
Unleased(row) == [row EXCEPT !.lease_owner = NoOwner, !.live = FALSE]

(* Slip: only pending jobs are claimed; a parked one waits for an upload.  *)
ClaimOnlyPending(s, e, live) ==
    /\ symbolizer[s].pc = "idle"
    /\ Claimable(job[e], {"pending"})
    /\ Token \ SymbolTokensInUse # {}
    /\ job' = [job EXCEPT ![e] = [@ EXCEPT !.status = "processing",
                                           !.lease_owner = NewSymbolOwner, !.live = live]]
    /\ symbolizer' = [symbolizer EXCEPT ![s] =
          [IdleSymbolizer EXCEPT !.pc = "claimed", !.owner = NewSymbolOwner, !.job = e,
                                 !.attempts = job[e].attempt_count]]
    /\ UNCHANGED <<inbox, registered, tool_runs>>

(* Claiming spends no attempt: the artifact may not be there yet.          *)
ClaimSymbolizationJob(s, e, live) ==
    /\ symbolizer[s].pc = "idle"
    /\ Claimable(job[e], {"pending", "symbols_missing"})
    /\ Token \ SymbolTokensInUse # {}
    /\ job' = [job EXCEPT ![e] = [@ EXCEPT !.status = "processing",
                                           !.lease_owner = NewSymbolOwner, !.live = live]]
    /\ symbolizer' = [symbolizer EXCEPT ![s] =
          [IdleSymbolizer EXCEPT !.pc = "claimed", !.owner = NewSymbolOwner, !.job = e,
                                 !.attempts = job[e].attempt_count]]
    /\ UNCHANGED <<inbox, registered, tool_runs>>

(* Artifact lookup, and the budget check that a crash after the last       *)
(* attempt must not get around.                                            *)
ResolveArtifacts(s) ==
    LET e == symbolizer[s].job
    IN  /\ symbolizer[s].pc = "claimed"
        /\ symbolizer' = [symbolizer EXCEPT ![s] =
              [@ EXCEPT !.pc = IF ~(Needs[e] \subseteq registered) THEN "missing"
                               ELSE IF symbolizer[s].attempts >= SymbolizerMaxAttempts
                               THEN "failing" ELSE "resolved",
                        !.retryable = FALSE]]
        /\ UNCHANGED <<storeVars, registered, tool_runs>>

(* The except clauses of symbolize_once: the job goes to _record_failure.  *)
FailingWith(state, retryable) ==
    [state EXCEPT !.pc = "failing", !.left = {}, !.status = "none", !.retryable = retryable]

(* The COMMIT went through; its answer either reaches the process or is    *)
(* lost to the deadline, and then the cycle goes on as a failure.          *)
AfterCommit(s) ==
    \/ symbolizer' = [symbolizer EXCEPT ![s] = IdleSymbolizer]
    \/ symbolizer' = [symbolizer EXCEPT ![s] = FailingWith(symbolizer[s], TRUE)]

MarkSymbolsMissing(s) ==
    LET e == symbolizer[s].job
    IN  /\ symbolizer[s].pc = "missing"
        /\ job' = IF Fenced(job[e], symbolizer[s].owner)
                  THEN [job EXCEPT ![e] = [Unleased(job[e]) EXCEPT !.status = "symbols_missing",
                                                              !.due = FALSE]]
                  ELSE job
        /\ AfterCommit(s)
        /\ UNCHANGED <<inbox, registered, tool_runs>>

(* Slip: the attempt is counted in memory only.                            *)
SpendInMemory(row) == row

SpendAttempt(row) == [row EXCEPT !.attempt_count = row.attempt_count + 1]

(* Spend one attempt before the tool runs; a claim that is no longer the   *)
(* current one, or whose count is out of date, stops here.                 *)
StartSymbolizationAttempt(s) ==
    LET e == symbolizer[s].job
        started == /\ Fenced(job[e], symbolizer[s].owner)
                   /\ job[e].attempt_count = symbolizer[s].attempts
                   /\ job[e].attempt_count < SymbolizerMaxAttempts
    IN  /\ symbolizer[s].pc = "resolved"
        /\ job' = IF started THEN [job EXCEPT ![e] = SpendAttempt(job[e])] ELSE job
        /\ symbolizer' = [symbolizer EXCEPT ![s] =
              IF started
              THEN [symbolizer[s] EXCEPT !.pc = "started", !.left = Needs[e],
                                         !.attempts = symbolizer[s].attempts + 1]
              ELSE IdleSymbolizer]
        /\ UNCHANGED <<inbox, registered, tool_runs>>

(* One execution of the tool, for the frames of one module; the loop ends  *)
(* with the last module or with the first failure.  Modules run in the     *)
(* order of the frames, which may be any.  Only a Native result can be     *)
(* partial.                                                                *)
RunTool(s, a, status) ==
    LET e == symbolizer[s].job
        rest == symbolizer[s].left \ {a}
    IN  /\ symbolizer[s].pc = "started" /\ a \in symbolizer[s].left
        /\ status = "partially_symbolized" => Kind[e] = "native"
        /\ tool_runs' = [tool_runs EXCEPT ![e] =
                            [tool_runs[e] EXCEPT ![a] = tool_runs[e][a] + 1]]
        /\ \/ /\ rest # {}
              /\ symbolizer' = [symbolizer EXCEPT ![s] = [symbolizer[s] EXCEPT !.left = rest]]
           \/ /\ rest = {}
              /\ symbolizer' = [symbolizer EXCEPT ![s] =
                    [symbolizer[s] EXCEPT !.pc = "finished", !.left = {}, !.status = status]]
           \/ \E retryable \in BOOLEAN :
                 symbolizer' = [symbolizer EXCEPT ![s] = FailingWith(symbolizer[s], retryable)]
        /\ UNCHANGED <<storeVars, registered>>

(* The canonical Issue of a Java crash, where incident_fingerprint IS NOT  *)
(* NULL.                                                                   *)
PublishFingerprint(row, e) ==
    IF Kind[e] = "java" /\ row.fingerprint # "none"
    THEN [row EXCEPT !.fingerprint = "symbolized"] ELSE row

(* Slip: the fingerprint is published before the lease is checked.         *)
MarkSymbolizedUnfenced(s) ==
    LET e == symbolizer[s].job
        fenced == Fenced(job[e], symbolizer[s].owner)
        published == PublishFingerprint(inbox[e], e)
    IN  /\ symbolizer[s].pc = "finished"
        /\ job' = IF fenced
                  THEN [job EXCEPT ![e] = [Unleased(job[e]) EXCEPT !.status = symbolizer[s].status,
                                                              !.has_result = TRUE]]
                  ELSE job
        /\ inbox' = [inbox EXCEPT ![e] = IF fenced THEN ReleaseInbox(published) ELSE published]
        /\ AfterCommit(s)
        /\ UNCHANGED <<registered, tool_runs>>

(* Result, canonical Java fingerprint and export release, one transaction. *)
MarkSymbolized(s) ==
    LET e == symbolizer[s].job
        fenced == Fenced(job[e], symbolizer[s].owner)
    IN  /\ symbolizer[s].pc = "finished"
        /\ job' = IF fenced
                  THEN [job EXCEPT ![e] = [Unleased(job[e]) EXCEPT !.status = symbolizer[s].status,
                                                              !.has_result = TRUE]]
                  ELSE job
        /\ inbox' = IF fenced
                    THEN [inbox EXCEPT ![e] = ReleaseInbox(PublishFingerprint(inbox[e], e))]
                    ELSE inbox
        /\ AfterCommit(s)
        /\ UNCHANGED <<registered, tool_runs>>

(* Retry, or give up and release the raw crash, one transaction.           *)
MarkSymbolizationFailed(s) ==
    LET e == symbolizer[s].job
        fenced == Fenced(job[e], symbolizer[s].owner)
        shouldRetry == symbolizer[s].retryable /\ symbolizer[s].attempts < SymbolizerMaxAttempts
    IN  /\ symbolizer[s].pc = "failing"
        /\ job' = IF fenced
                  THEN [job EXCEPT ![e] = [Unleased(job[e]) EXCEPT
                            !.status = IF shouldRetry THEN "pending" ELSE "failed",
                            !.due = FALSE]]
                  ELSE job
        /\ inbox' = IF fenced /\ ~shouldRetry THEN [inbox EXCEPT ![e] = ReleaseInbox(inbox[e])]
                                              ELSE inbox
        /\ symbolizer' = [symbolizer EXCEPT ![s] = IdleSymbolizer]
        /\ UNCHANGED <<registered, tool_runs>>

(* The deadline or an error ends _process_claim before the step its pc     *)
(* names has committed.  Matching Native frames and the checks before the  *)
(* tool may also fail for good.  The in-memory count is advanced before the COMMIT  *)
(* of the attempt, so it may be ahead of the row.                          *)
ProcessFails(s, retryable, attempts) ==
    /\ symbolizer[s].pc \in {"claimed", "missing", "resolved", "started", "finished"}
    /\ ~retryable => \/ symbolizer[s].pc = "started"
                     \/ symbolizer[s].pc = "claimed" /\ Kind[symbolizer[s].job] = "native"
    /\ \/ attempts = symbolizer[s].attempts
       \/ symbolizer[s].pc = "resolved" /\ attempts = symbolizer[s].attempts + 1
    /\ symbolizer' = [symbolizer EXCEPT ![s] =
          [FailingWith(symbolizer[s], retryable) EXCEPT !.attempts = attempts]]
    /\ UNCHANGED <<storeVars, registered, tool_runs>>

(* The process dies, or recording the failure fails too.                   *)
AbandonJob(s) ==
    /\ symbolizer[s].pc # "idle"
    /\ symbolizer' = [symbolizer EXCEPT ![s] = IdleSymbolizer]
    /\ UNCHANGED <<storeVars, registered, tool_runs>>

(* The upload transaction: the artifact row (also when the same content is *)
(* uploaded again) and the wake-up of the jobs parked for it.              *)
RegisterArtifact(a) ==
    /\ registered' = registered \cup {a}
    /\ job' = [e \in Event |->
                  IF job[e].status = "symbols_missing" /\ a \in Needs[e]
                  THEN [job[e] EXCEPT !.status = "pending", !.due = TRUE] ELSE job[e]]
    /\ UNCHANGED <<inbox, symbolizer, tool_runs>>

SymbolStep(s) ==
    \/ \E e \in Event, live \in BOOLEAN : ClaimSymbolizationJob(s, e, live)
    \/ ResolveArtifacts(s)
    \/ MarkSymbolsMissing(s)
    \/ StartSymbolizationAttempt(s)
    \/ \E a \in Artifact, status \in {"symbolized", "partially_symbolized"} :
          RunTool(s, a, status)
    \/ MarkSymbolized(s)
    \/ MarkSymbolizationFailed(s)
    \/ \E retryable \in BOOLEAN, attempts \in 0..SymbolizerMaxAttempts :
          ProcessFails(s, retryable, attempts)
    \/ AbandonJob(s)
=============================================================================
