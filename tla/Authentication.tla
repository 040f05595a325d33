---------------------------- MODULE Authentication ----------------------------
(***************************************************************************)
(* Bearer authentication of the ingest, CI and Query planes (auth.py,      *)
(* ci_auth.py, query_auth.py) and the two budgets it runs under            *)
(* (auth_budget.py): a token bucket that is charged before anything is     *)
(* looked up, and a fixed number of slots for Argon2 threads.              *)
(*                                                                         *)
(* A handler awaits twice, for the key row and for the hash; meanwhile     *)
(* keys are revoked, the clock moves and the client may go away, which     *)
(* cancels the handler but not a hash thread that has started.             *)
(*                                                                         *)
(* Tokens are counted in fractions: a tick of the clock adds one part and  *)
(* an attempt costs Cost parts, so Cost ticks pay for one attempt.         *)
(***************************************************************************)
EXTENDS Naturals, FiniteSets

CONSTANTS
    Request,
    Key,        \* stored keys, with their tenants
    KeyOf,      \* KeyOf[r]: the key the credential names, or NoKey
    NoKey,
    Honest,     \* requests with the right secret for their key
    Plane,      \* Plane[r]: "ingest", "ci" or "query"
    Scoped,     \* requests for what their key allows: the app and environment
                \* (ingest) or scope (ci) of the key, a role of QUERY_ROLES (query)
    Expiry,     \* Expiry[k]: tick of expires_at
    Burst,      \* AUTH_ATTEMPT_BURST
    Cost,       \* ticks of the clock per token, 1 / AUTH_ATTEMPTS_PER_SECOND
    Workers,    \* AUTH_HASH_WORKERS
    MaxTime     \* bound on the clock

ASSUME AuthAssumption ==
    /\ IsFiniteSet(Request)
    /\ KeyOf \in [Request -> Key \cup {NoKey}] /\ NoKey \notin Key
    /\ Plane \in [Request -> {"ingest", "ci", "query"}]
    /\ Expiry \in [Key -> Nat]
    /\ Burst \in Nat \ {0} /\ Cost \in Nat \ {0} /\ Workers \in Nat \ {0}
    /\ MaxTime \in Nat

VARIABLES
    now,        \* the clock
    tokens,     \* _tokens, in parts
    updated,    \* _updated
    slots,      \* free reservations of the semaphore
    pool,       \* the executor: "open" or "closed"
    future,     \* the hash of each request
    handler,    \* the coroutine of each request
    revoked,    \* keys revoked or disabled, alone or with their tenant
    received,   \* history: tick at which the attempt was charged
    spent,      \* history: keys revoked when the attempt was charged
    granted,    \* history: tick at which a principal was returned
    admitted,   \* history: attempts that passed the bucket
    before      \* history: before[t]: those that did so before tick t

authVars == <<now, tokens, updated, slots, pool, future, handler, revoked,
              received, spent, granted, admitted, before>>

bucketVars == <<tokens, updated, admitted, before>>
hashVars == <<slots, pool, future>>
timeVars == <<now, revoked>>
requestHistory == <<received, spent, granted>>

AuthAnswers == {"granted", "unauthorized", "forbidden", "busy", "error"}

(* pc: charge the bucket, load the row, submit the hash, await it.         *)
HandlerState ==
    [pc: {"charge", "load", "submit", "await", "answered", "gone"},
     row: {"none", "unknown", "revoked", "active"},     \* as loaded
     answer: AuthAnswers \cup {"none"}]

FutureStates == {"none", "queued", "running", "finished", "cancelled"}

AuthTypeOK ==
    /\ now \in 0..MaxTime /\ updated \in 0..now
    /\ tokens \in 0..(Burst * Cost)
    /\ slots \in 0..Workers
    /\ pool \in {"open", "closed"}
    /\ future \in [Request -> FutureStates]
    /\ handler \in [Request -> HandlerState]
    /\ revoked \subseteq Key
    /\ received \in [Request -> 0..MaxTime] /\ granted \in [Request -> 0..MaxTime]
    /\ spent \in [Request -> SUBSET Key]
    /\ admitted \in Nat /\ before \in [0..MaxTime -> Nat]

AuthInit ==
    /\ now = 0 /\ updated = 0 /\ tokens = Burst * Cost
    /\ slots = Workers /\ pool = "open"
    /\ future = [r \in Request |-> "none"]
    /\ handler = [r \in Request |-> [pc |-> "charge", row |-> "none", answer |-> "none"]]
    /\ revoked = {}
    /\ received = [r \in Request |-> 0] /\ granted = [r \in Request |-> 0]
    /\ spent = [r \in Request |-> {}]
    /\ admitted = 0 /\ before = [t \in 0..MaxTime |-> 0]

-----------------------------------------------------------------------------
Step(r, state) == handler' = [handler EXCEPT ![r] = state]

AnswerWith(r, answer) == Step(r, [handler[r] EXCEPT !.pc = "answered", !.answer = answer])

Least(m, n) == IF m <= n THEN m ELSE n

(* The bucket after the time since the last attempt is credited.           *)
Refilled == Least(Burst * Cost, tokens + (now - updated))

(* Slip: a refused attempt keeps the credit but not the time it was for.   *)
ConsumeRefusedUntimed(r) ==
    /\ handler[r].pc = "charge"
    /\ received' = [received EXCEPT ![r] = now] /\ spent' = [spent EXCEPT ![r] = revoked]
    /\ \/ /\ Refilled < Cost
          /\ tokens' = Refilled /\ UNCHANGED <<updated, admitted>>
          /\ AnswerWith(r, "busy")
       \/ /\ Refilled >= Cost
          /\ tokens' = Refilled - Cost /\ updated' = now /\ admitted' = admitted + 1
          /\ Step(r, [handler[r] EXCEPT !.pc = "load"])
    /\ UNCHANGED <<before, granted, slots, pool, future, now, revoked>>

(* consume, under the lock, before the credential is parsed.               *)
Consume(r) ==
    /\ handler[r].pc = "charge"
    /\ received' = [received EXCEPT ![r] = now] /\ spent' = [spent EXCEPT ![r] = revoked]
    /\ updated' = now
    /\ \/ /\ Refilled < Cost
          /\ tokens' = Refilled /\ UNCHANGED admitted
          /\ AnswerWith(r, "busy")
       \/ /\ Refilled >= Cost
          /\ tokens' = Refilled - Cost /\ admitted' = admitted + 1
          /\ Step(r, [handler[r] EXCEPT !.pc = "load"])
    /\ UNCHANGED <<before, granted, slots, pool, future, now, revoked>>

(* A malformed credential is refused; otherwise the key row and its tenant *)
(* are read.                                                               *)
LoadKey(r) ==
    /\ handler[r].pc = "load"
    /\ \/ AnswerWith(r, "unauthorized")
       \/ LET row == IF KeyOf[r] = NoKey THEN "unknown"
                     ELSE IF KeyOf[r] \in revoked THEN "revoked" ELSE "active"
          IN Step(r, [handler[r] EXCEPT !.pc = "submit", !.row = row])
    /\ UNCHANGED <<bucketVars, hashVars, timeVars, requestHistory>>

(* BoundedHashVerifier.verify up to its await; an unknown key pays for a   *)
(* dummy hash.  submit() raises once the pool is shut down, and the slot   *)
(* is given back.                                                          *)
SubmitHash(r) ==
    /\ handler[r].pc = "submit"
    /\ \/ slots = 0 /\ AnswerWith(r, "busy") /\ UNCHANGED <<slots, future>>
       \/ slots > 0 /\ pool = "closed" /\ AnswerWith(r, "error") /\ UNCHANGED <<slots, future>>
       \/ /\ slots > 0 /\ pool = "open"
          /\ slots' = slots - 1
          /\ future' = [future EXCEPT ![r] = "queued"]
          /\ Step(r, [handler[r] EXCEPT !.pc = "await"])
    /\ UNCHANGED <<pool, bucketVars, timeVars, requestHistory>>

(* A pool thread takes the work item.                                      *)
StartHash(r) ==
    /\ future[r] = "queued"
    /\ Cardinality({s \in Request : future[s] = "running"}) < Workers
    /\ future' = [future EXCEPT ![r] = "running"]
    /\ UNCHANGED <<slots, pool, handler, bucketVars, timeVars, requestHistory>>

(* The thread sets the result; the done callback gives the slot back.      *)
FinishHash(r) ==
    /\ future[r] = "running"
    /\ future' = [future EXCEPT ![r] = "finished"]
    /\ slots' = slots + 1
    /\ UNCHANGED <<pool, handler, bucketVars, timeVars, requestHistory>>

-----------------------------------------------------------------------------
(* Slip: the clock of the check is the one of the request's arrival.       *)
UnexpiredAtArrival(r) == received[r] < Expiry[KeyOf[r]]

Unexpired(r) == now < Expiry[KeyOf[r]]

(* After the hash: the secret matched, the row as loaded was active, and   *)
(* its expires_at is later than the clock now.                             *)
Usable(r) == handler[r].row = "active" /\ r \in Honest /\ Unexpired(r)

(* What each plane checks once the key is known to be usable.              *)
IngestAnswer(r) ==
    IF ~Usable(r) THEN "unauthorized" ELSE IF r \in Scoped THEN "granted" ELSE "forbidden"

CiAnswer(r) ==
    IF ~Usable(r) THEN "unauthorized" ELSE IF r \in Scoped THEN "granted" ELSE "forbidden"

(* _active_principal tells a role it does not know no different from a     *)
(* wrong secret.                                                           *)
QueryAnswer(r) == IF Usable(r) /\ r \in Scoped THEN "granted" ELSE "unauthorized"

PlaneAnswer(r) ==
    CASE Plane[r] = "ingest" -> IngestAnswer(r)
      [] Plane[r] = "ci"     -> CiAnswer(r)
      [] Plane[r] = "query"  -> QueryAnswer(r)

(* The handler resumes with the outcome of the hash.                       *)
CheckKey(r) ==
    /\ handler[r].pc = "await" /\ future[r] = "finished"
    /\ AnswerWith(r, PlaneAnswer(r))
    /\ granted' = [granted EXCEPT ![r] = IF PlaneAnswer(r) = "granted" THEN now ELSE 0]
    /\ UNCHANGED <<received, spent, bucketVars, hashVars, timeVars>>

(* Slip: the slot is freed when the request ends.                          *)
DisconnectFreeing(r) ==
    /\ handler[r].pc \in {"load", "submit", "await"}
    /\ Step(r, [handler[r] EXCEPT !.pc = "gone"])
    /\ IF handler[r].pc = "await" /\ future[r] \in {"queued", "running"}
       THEN slots' = slots + 1 ELSE UNCHANGED slots
    /\ future' = [future EXCEPT ![r] = IF @ = "queued" THEN "cancelled" ELSE @]
    /\ UNCHANGED <<pool, bucketVars, timeVars, requestHistory>>

(* The client disconnects.  Cancelling the awaited future cancels a hash   *)
(* that is still queued, and its callback frees the slot; a running one    *)
(* keeps both thread and slot.                                             *)
Disconnect(r) ==
    /\ handler[r].pc \in {"load", "submit", "await"}
    /\ Step(r, [handler[r] EXCEPT !.pc = "gone"])
    /\ \/ /\ future[r] = "queued"
          /\ future' = [future EXCEPT ![r] = "cancelled"]
          /\ slots' = slots + 1
       \/ future[r] # "queued" /\ UNCHANGED <<future, slots>>
    /\ UNCHANGED <<pool, bucketVars, timeVars, requestHistory>>

(* Slip: the handlers of cancelled hashes are not told.                    *)
ClosePoolUnnoticed ==
    /\ pool = "open"
    /\ pool' = "closed"
    /\ LET queued == {r \in Request : future[r] = "queued"} IN
       /\ future' = [r \in Request |-> IF r \in queued THEN "cancelled" ELSE future[r]]
       /\ slots' = slots + Cardinality(queued)
    /\ UNCHANGED <<handler, bucketVars, timeVars, requestHistory>>

(* close: shutdown(cancel_futures=True) cancels what no thread has taken.  *)
ClosePool ==
    /\ pool = "open"
    /\ pool' = "closed"
    /\ LET queued == {r \in Request : future[r] = "queued"} IN
       /\ future' = [r \in Request |-> IF r \in queued THEN "cancelled" ELSE future[r]]
       /\ slots' = slots + Cardinality(queued)
       /\ handler' = [r \in Request |->
                        IF r \in queued THEN [handler[r] EXCEPT !.pc = "gone"] ELSE handler[r]]
    /\ UNCHANGED <<bucketVars, timeVars, requestHistory>>

(* An administrator revokes a key or disables its tenant.                  *)
Revoke(k) ==
    /\ k \notin revoked
    /\ revoked' = revoked \cup {k}
    /\ UNCHANGED <<now, handler, bucketVars, hashVars, requestHistory>>

Tick ==
    /\ now < MaxTime
    /\ now' = now + 1
    /\ before' = [before EXCEPT ![now + 1] = admitted]
    /\ UNCHANGED <<tokens, updated, admitted, revoked, handler, hashVars, requestHistory>>

AuthNext ==
    \/ \E r \in Request :
          \/ Consume(r) \/ LoadKey(r) \/ SubmitHash(r) \/ CheckKey(r)
          \/ StartHash(r) \/ FinishHash(r) \/ Disconnect(r)
    \/ ClosePool
    \/ \E k \in Key : Revoke(k)
    \/ Tick

AuthSpec == AuthInit /\ [][AuthNext]_authVars

(* The event loop runs every ready coroutine and the operating system      *)
(* every thread; clients, administrators and the clock owe nothing.        *)
AuthFairness ==
    \A r \in Request :
        /\ WF_authVars(Consume(r) \/ LoadKey(r) \/ SubmitHash(r) \/ CheckKey(r))
        /\ WF_authVars(StartHash(r)) /\ WF_authVars(FinishHash(r))

FairAuthSpec == AuthSpec /\ AuthFairness

-----------------------------------------------------------------------------
(* Over every stretch of time the bucket lets at most the burst and what   *)
(* was refilled meanwhile through, refused attempts notwithstanding.       *)
AttemptsBounded ==
    \A t \in 0..now : Cost * (admitted - before[t]) <= Burst * Cost + (now - t)

(* Every slot is free or belongs to one hash that waits or runs: none is   *)
(* lost or freed twice when a request is cancelled or the pool closed, and *)
(* no more than Workers hashes ever hold memory or wait.                   *)
SlotsAccounted ==
    slots + Cardinality({r \in Request : future[r] \in {"queued", "running"}}) = Workers

(* A principal is returned only for a key that was not yet revoked when    *)
(* the request arrived and that has not expired while its hash ran, and    *)
(* only for what that key allows.                                          *)
GrantsAreCurrent ==
    \A r \in Request : handler[r].answer = "granted" =>
        /\ KeyOf[r] \in Key /\ r \in Honest \cap Scoped
        /\ KeyOf[r] \notin spent[r]
        /\ granted[r] < Expiry[KeyOf[r]]

(* Every request is answered or given up by its client, and every hash     *)
(* ends, so every slot comes back, also those of requests that are gone.   *)
RequestsEnd ==
    \A r \in Request :
        /\ <>(handler[r].pc \in {"answered", "gone"})
        /\ future[r] = "queued" ~> future[r] \in {"finished", "cancelled"}

-----------------------------------------------------------------------------
(* The inductive invariant of the proofs, in parts.                        *)

(* What was admitted since any tick t and what is left in the bucket were  *)
(* paid for by the burst and the time up to the last refill.               *)
BucketHeld ==
    \A t \in 0..now :
        IF t <= updated
        THEN Cost * (admitted - before[t]) + tokens <= Burst * Cost + (updated - t)
        ELSE admitted = before[t]

(* A row loaded as active belongs to a key that was not revoked when the   *)
(* attempt was charged; before that nothing is known of the request.       *)
RowsHeld ==
    \A r \in Request :
        /\ spent[r] \subseteq revoked
        /\ handler[r].pc = "charge" => handler[r].row = "none" /\ handler[r].answer = "none"
        /\ handler[r].row = "active" => KeyOf[r] \in Key /\ KeyOf[r] \notin spent[r]

(* A request has no hash before it submits one, so it never holds two.     *)
FuturesHeld ==
    \A r \in Request : handler[r].pc \in {"charge", "load", "submit"} => future[r] = "none"

AuthInv ==
    /\ AuthTypeOK
    /\ BucketHeld
    /\ SlotsAccounted
    /\ FuturesHeld
    /\ RowsHeld
    /\ GrantsAreCurrent
===============================================================================
