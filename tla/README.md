# A TLA+ development of AndroidAPM-Server

AndroidAPM-Server accepts performance and crash events from an Android SDK, keeps
them in a PostgreSQL inbox, restores the symbols of crashes, forwards everything to
an OTLP collector and answers queries about it.  This directory models the parts of
it that run concurrently and must survive crashes, checks them with TLC on small
instances, and proves the most important properties with TLAPS for instances of any
size.

Paths below are relative to `src/androidapm_server/` in the repository.

## 1. Inventory

| component | state | operations | what is hard | correct when |
|---|---|---|---|---|
| Ingest endpoint (`api/ingest.py`, `db/inbox.py`, `db/quota.py`, capacity check in `db/maintenance.py`) | `inbox_events`, `ingest_rate_windows`, one open transaction per request | `POST /v1/events`: charge quota, read known rows, insert, re-read raced rows, enqueue jobs, check capacity, commit | batches with common events in parallel, deadlocks, lost answers, resends, limits checked by many at once | a 2xx answer means stored with exactly this content; a batch is all or nothing; limits are never overshot |
| Inbox and job tables (`db/models.py`, `db/leases.py`, `db/maintenance.py`) | status, attempts, lease and due time of each row; job status and result | retention pass, lease expiry | two tables that must move together; evidence removed while somebody works on it | terminal states are final, a crash is parked exactly while its job is open |
| Export worker (`worker.py`, `db/worker.py`, `otlp/client.py`) | the claimed batch in memory | claim, isolate rows that cannot be encoded, post, record | leases that expire in flight, answers that are lost or partial, crashes | at least once delivery, bounded retries, only the holder finishes a claim |
| Symbolizer (`symbolizer_worker.py`, `db/symbolization.py`, `symbolization.py`) | the claimed job in memory | claim, resolve artifacts, park, start attempt, run tool, record | deadline that cancels a COMMIT in flight, uploads racing the lookup, crashes after the attempt is spent | the tool runs for each artifact of a crash at most as often as configured; a result, its fingerprint (of a crash that has one) and the release of the crash are one step |
| Artifact uploads (`api/artifacts.py`, `artifacts.py`, `db/artifacts.py`) | files under the artifact root, `symbol_artifacts` | stage, validate, promote, register, discard | files and rows are not one transaction; uploads of one identity in parallel | a registered artifact has its file; its content never changes |
| Remote configuration (`remote_config.py`, `api/remote_config.py`, `admin.py`) | `remote_config_versions` | publish, fetch | two publications at once; expiry of the newest revision; an ETag a client keeps | revisions are unique and grow; 304 is true |
| Authentication (`auth.py`, `ci_auth.py`, `query_auth.py`, `auth_budget.py`) | token bucket, hash slots, key rows | charge, load, hash, check | requests cancelled while their hash runs; keys revoked or expired during an await; shutdown | no more attempts than budgeted, no slot leaks, a grant is current |
| Web session (`web_auth.py`, `api/web.py`) | signed cookies, query keys | log in, use, log out | replicas with different clocks, seconds against fractions, lost answers | a revoked or expired key opens nothing; the two cookies match |
| Administration CLI (`admin.py`) | `tenants`, key tables, audit log | three key commands | two runs that create one tenant | a key belongs to the tenant its run named, and is audited |
| Query API, lists (`query.py`, `api/query.py`, `db/query.py`) | signed cursors | paged events | a table that changes between two pages, fingerprints that change by symbolization | no row twice, none skipped, one Issue per listing |
| Query API, evidence and decisions (`api/query.py`) | audit log, release decisions | read raw or metadata, record a decision | retention between the read and the audit, failures between two commits | the log tells what was answered |
| Query API, aggregates (`query.py`, `db/query.py`) | none | release health, fingerprints, Issue, data quality | rotation of HMAC keys, pruned and symbolized rows, a row budget, chains of gates | a ratio is published only when earned; views agree with each other |
| Normalization (`normalization.py`) | columns of `inbox_events` | fields, occurrence time, fingerprint, pruning | a field missing, invalid, or removed later | each field says what became of it |
| Protocol decoding, OTLP mapping (`protocol/`, `otlp/logs.py`) | none | pure functions of one request | data boundaries | - |
| Observability, settings, wiring, web console, migrations, scripts | - | - | - | - |

How they interact: every process talks to the others through the database only.
The ingest transaction creates inbox rows and jobs; a crash with a job to run is
created parked (`awaiting_symbols`).  A symbolizer finishes the job and releases the
row in one transaction; an upload wakes jobs parked for its artifact.  Export workers
claim released rows, call the collector, and finish them.  The export worker process
also runs retention.  A claim is a lease: a token and an expiry on the row, checked
by every later write (`Fenced` in the model).

## 2. Modules

| module | models | composes / extends |
|---|---|---|
| `InboxStore` | the two tables, the WHERE clauses of claims and fenced writes, the committed effect of an ingest request (`Ingest`), retention (`MaintainOnce`), the database clock | - |
| `ExportWorker` | `export_once`: `ClaimBatch`, `EncodeIsolatedBatch`, `Export`, `RecordOutcome`, `AbandonCycle` | `InboxStore` |
| `SymbolWorker` | `symbolize_once`: `ClaimSymbolizationJob`, `ResolveArtifacts`, `MarkSymbolsMissing`, `StartSymbolizationAttempt`, `RunTool`, `MarkSymbolized`, `MarkSymbolizationFailed`, `ProcessFails`, `AbandonJob`; the upload's `RegisterArtifact` | `InboxStore` |
| `Pipeline` | all processes over the shared tables; its invariants, action properties, fairness | `ExportWorker`, `SymbolWorker` |
| `Delivery` | abstract: what the inbox promises for an acknowledged event | implemented by `Pipeline` |
| `IngestRequests` | `POST /v1/events` statement by statement, with the locks of PostgreSQL; the pipeline behind the inbox is reduced to `Finalize` | `InboxStore` |
| `IngestContract` | abstract: each batch stored in one atomic idempotent step | implemented by `IngestRequests` |
| `ArtifactUploads` | an upload from its headers to its answer: `Refuse`, `Stage`, `Verify`, `Promote`, `RegisterRow`, `DiscardPromoted`, `AuditConflict`, `CommitUpload`, `UploadFails`, `UploadDies` | - |
| `EventPages` | `GET /v1/query/events`, two statements per page: `FirstPage`, `NextPage`, `ResolveAndCheck`, `ListScopedEvents`, `Answer`, `EndUnanswered`, while `IngestRow` and `SymbolizeRow` change the table | - |
| `EvidenceReads` | audited reads (`LoadEvent`, `LoadJob`, `CommitReadAudit`, `AnswerRead`, `FailRead`) and release decisions (`FlushDecision`, `CommitDecision`, `FailDecision`) against `PruneEvidence` | - |
| `Authentication` | the two budgets and the three bearer planes: `Consume`, `LoadKey`, `SubmitHash`, `StartHash`, `FinishHash`, `CheckKey`, `Disconnect`, `ClosePool`, `Revoke` | - |
| `WebSessions` | login (`LoadForLogin`, `CheckForLogin`, `SignSession`, `AnswerLogin`), requests with cookies (`SendWithCookie`, `DecodeSession`, `Revalidate`), `ForgetCookies`, `RevokeKey` | - |
| `RemoteConfig` | `publish-config` (`ReadMaximum`, `SignConfig`, `InsertConfig`, `CommitConfig`, `AbortPublication`) and `GET /config` (`BeginFetch`, `ServeConfig`, `ServeNothing`, `LoseFetch`) | - |
| `KeyAdministration` | the key commands: `ReadTenant`, `InsertRows`, `CreateIngestKey`, `CreateCiKey`, `CreateQueryKey`, `ShowKey`, `Interrupt` | - |
| `Normalization` | `normalization.py` as operators: validity and availability of fields, occurrence time, fingerprint | - |
| `WindowFacts` | rows from the report of a phone to the grouped facts of a query: `IngestEvent`, `SymbolizeEvent`, `DeliverEvent`, `PruneEvent`, `RotateKey`, and `load_window_facts` | `Normalization` |
| `ReleaseHealth` | gates, counts and ratios of release health, as operators over the facts | `WindowFacts` |
| `IssueViews` | fingerprints of a release, an Issue, data quality, and the properties of all views | `ReleaseHealth` |
| `MCPipeline`, `MCIngest`, `MCUploads`, `MCAuth`, `MCHealth` | instances for TLC | the module of the same name (`MCHealth`: `IssueViews`) |
| `MCQuery`, `MCOperator` | instances for TLC of components that share no variable; a behaviour moves one of them and leaves the others in an initial state | `EventPages` and `EvidenceReads`; `KeyAdministration`, `WebSessions` and `RemoteConfig` |
| `PipelineProofs`, `PipelineDeliveryProofs`, `IngestProofs`, `UploadProofs`, `QueryProofs`, `AuthProofs`, `OperatorProofs`, `HealthProofs` | theorems | the modules they are about (section 4) |

### State and code

* `inbox[e]` and `job[e]` are the rows of `inbox_events` and `symbolization_jobs` of
  one event; status names are the code's, plus `"absent"` and `"none"` for rows that
  do not exist.  A timestamp is reduced to what comparisons with it say: `live`
  (`lease_expires_at > clock_timestamp()`), `due` (`next_attempt_at <=
  clock_timestamp()`).  `InboxClock` and `JobClock` let the clock pass those instants.
* A transaction of the workers is one action.  This is sound because their
  UPDATEs carry the whole guard in the WHERE clause and keep their row locks to COMMIT, and
  their claims use FOR UPDATE SKIP LOCKED.  The ingest transaction, whose statements
  do not lock what they read, is modelled statement by statement in `IngestRequests`.
* Between two actions of a process anything may happen to it: its lease expires
  (the clock), it dies or a database error ends its cycle (`AbandonCycle`,
  `AbandonJob`), the deadline turns its work into a failure (`ProcessFails`), also
  after a COMMIT whose answer was lost (`AfterCommit`).
* A claim's expiry is computed from a clock read in an earlier statement than its
  UPDATE, so a lease may be born expired (`live = FALSE` in `ClaimBatch`).
* `collected` is the collector's own state: the events it accepted at least once.
  `tool_runs[e][a]` counts the executions of a tool for artifact `a` of crash `e`: a Java
  attempt runs retrace once, a Native one runs llvm-symbolizer once per module, in turn
  (`RunTool`, with `left` the modules still to do).  Neither is stored by the code.
* `has_evidence` is `raw_incident_fingerprint IS NOT NULL` and `fingerprint` the Issue of the
  row: `"none"` for NULL, `"raw"`, or `"symbolized"` for the canonical one.  `Incident` is the
  set of events that may have stack evidence; whether a crash does is decided at ingest, as a
  Java crash with only `stack_trace` or a blank `stackTrace` has a job and no fingerprint, and
  `PublishFingerprint` leaves its NULL alone.
* In `ArtifactUploads` a content stands for bytes, checksum and size; `files` is the
  directory tree below the artifact root (a path is identity and content, as in
  `storage_key`), `staging[u]` the temporary file of the running request.  Its
  transaction is two actions: `RegisterRow`, after which a created row blocks other
  UPSERTs of the identity, and `CommitUpload`.  The files change outside of it.  The
  wake-up of parked jobs in the same transaction is `RegisterArtifact` of `SymbolWorker`;
  what an ELF file or a mapping must look like is the constant `Invalid`.
* In `EventPages` a query is a set of terms; `InWindow` and `InFilter` say which rows it
  selects apart from the fingerprint.  A cursor carries its row and the hash of the query
  (`CursorFilterHash`); `steady`, `returned`, `repeated` and `issues` are history.
* In `Authentication` tokens are counted in fractions: one tick of the clock adds one part and an
  attempt costs `Cost` parts.  A hash is a future with the states of `concurrent.futures`;
  `handler[r].row` is the key row as it was loaded, which may be stale when it is used.
  `received`, `spent`, `granted`, `admitted` and `before` are history.
* In `WebSessions` a clock has `TicksPerSecond` ticks in the whole seconds of claims, and each
  replica adds its own `Offset`.  A token is the login that made it, with its claims.
* In `RemoteConfig` a publication stands for its payload and signature; an uncommitted
  INSERT blocks one of the same revision, as the unique index does.
* In `WindowFacts` a pseudonym is the pair of installation and key version, as HMAC is taken to
  be injective, and one field stands for all registered fields of its type.  The views are
  operators, evaluated in every reachable state of the rows.  Left out of them are the
  wording of reasons, sample counts printed next to values, and the counts of protocol and
  schema versions, which are grouped exactly as those of status.
* A definition whose comment starts with "Slip:" is not part of a specification.
  It is a plausible mistake in the definition below it; substituting it makes the
  property named for it in PROJECT.json fail, which shows that the property can tell.

## 3. Runs

`tlc -config X.cfg M` in this directory.

| run | instance | shows |
|---|---|---|
| `pipeline_java` | one Java crash with or without stack evidence, one artifact, two workers, two symbolizers, 2 attempts each | `ParkedIffUnfinished`, `ToolBudget`, `FingerprintFollowsResult`, `PrunedEvidenceStaysGone`, `FinalIsFinal`, `ClaimEndsWithHolder` |
| `pipeline_batch` | two plain events in batches of up to two, two workers | `DeliveredWasCollected`, `RetryBudgetLeft`, and that the pipeline implements `Delivery` (`ImplementsDelivery`) |
| `pipeline_native` | a Native crash with two modules, a crash without identity that cannot be encoded, one worker, one symbolizer | `ExportAfterSymbols` |
| `pipeline_live` | one Java crash, one worker, one symbolizer, fair | `EventuallyFinal` |
| `ingest_race` | two batches with the same two events in opposite order, one conflicting batch, two keys, fair | `AckedIsStored`, `EveryTransactionEnds`, and that the requests implement `IngestContract` (`ImplementsContract`) |
| `ingest_limits` | two batches of one key and one with an event too large of another; two places in the inbox, one request per minute, two minutes | `LiveWithinCapacity`, `QuotaRespected` |
| `uploads_store` | two uploads of the same and one of other content for one build, a damaged and an invalid one for another | `RegisteredHasFile`, `AnswersAreTrue` |
| `query_reads` | four rows, two of which share a millisecond, committed and symbolized at any time, listed by window, raw link and Issue; one row read raw, as metadata and from another scope while it is pruned, and two decisions | `NoEventTwice`, `NoneSkipped`, `OneIssue`; `AuditTellsAnswer`, `EvidenceInv` (types, nothing after pruning, decisions audited) |
| `auth_budget` | an honest, an out of scope and a keyless request, one hash thread, burst 1, a key that expires and may be revoked, fair | `AttemptsBounded`, `SlotsAccounted`, `GrantsAreCurrent`, `RequestsEnd` |
| `operator_planes` | runs that create one tenant with the same and another name; two logins with two keys on two replicas one second apart; three publications and a client outside a partial rollout | `KeyInv` (types, keys of the named tenant); `SessionWithinKey`, `RevocationIsImmediate`, `CookiesMatch`, `SessionInv` (types, sessions decode everywhere); `NeverOlderUnlessExpired`, `ConfigInv` (types, revisions in order, 304 is true) |
| `release_health` | three events of eleven kinds of report, one key rotation, retention | `RatioIsEarned`, `ReleaseInv` (types, rows tell what was reported, fields accounted for, data quality agrees) |
| `issue_views` | two events of one window and one row of an earlier version, a row budget that is exceeded | `AnswersAreWhole`, `InstallationsAreTrue`, `PruneKeepsNumbers`, `IssueInv` (the buckets of a trend add up to the count, the list of a release and the page of an Issue agree wherever both show the release, scenes accounted for) |

Bounds.  Two processes of a kind are enough for every race in the code: a stale
holder and the current one.  Two events are needed for batches, two attempts for "one
left" and "none left".  `AttemptCap` saturates the export attempt count one above the
maximum, because the code does not bound it (a worker that dies after each claim
counts up for ever); nothing compares counts above the maximum.  `Token` is large
enough that a fresh token always exists, since UUIDs do not repeat.  `LastMinute`
bounds the clock of the quota windows; two minutes (`ingest_limits`) are enough for a request
charged to a window that has since passed.  Three uploads for one
build are needed for a loser that discards a file while an upload of the same content is
under way and other content wins.  Symmetry is used for workers and symbolizers in
runs without fairness; nothing orders them.

Four rows and pages of at most two let a listing have three pages with changes in
between.  A burst of one at half a token per tick makes refused and admitted attempts
alternate within `MaxTime`; one thread makes a second hash wait or be refused.  The clock of the sessions
runs longer than a session lives, and one key expires between two whole seconds.  Three
publications are needed for one that reads the maximum before two others commit.  In the
views three events are what a ratio with a minimum of two installations and one event
outside needs; the row budget is never exceeded in `release_health` (3) and is in
`issue_views` (2).

Deadlock checking is on in the runs of the pipeline, ingest and uploads.  In the others every
request, command or row comes to its end and the clock to its bound, after which nothing is left
to do; that authentication does not hang before is `RequestsEnd`.

Fairness.  `pipeline_live` assumes that the clock runs; that a process which has
claimed something goes on or dies (every await of a cycle has a timeout); that
processes are restarted and poll, so that what is claimable again and again is
claimed (rows are taken in id order); and that crashes and lost leases do not
always hit the same step.  Without the last assumption the code promises nothing, as
a worker that dies at every export is retried for ever.  `EventuallyFinal` asks for
the artifacts of the event: a crash without them waits for an upload without limit,
as documented in `docs/06`.  `ingest_race` assumes strong fairness of every handler:
PostgreSQL grants locks in queue order, so a request that becomes able to go on
again and again does go on; and it aborts one member of each cycle of waiting
transactions (`Deadlocked`).  `auth_budget` assumes that the event loop runs every ready
coroutine and the operating system every pool thread (`AuthFairness`, weak fairness), and
nothing of clients, administrators or the clock.

## 4. Proofs

The theorems hold for any set of events, processes and requests, any budget and any
limit, under the named assumptions of the modules (`KindAssumption`, `NoOwnerAssumption`,
`WorkerAssumption`, `SymbolizerAssumption`, `RequestAssumption`, `UploadAssumption`,
`RowAssumption`, `QueryAssumption`, `CursorAssumption`, `ReaderAssumption`, `AuthAssumption`,
`RunAssumption`, `SessionAssumption`, `ConfigAssumption`, `UnitAssumption`, `FactAssumption`,
`GateAssumption`, `ViewAssumption`): constants have their types, budgets and thresholds are
positive, and sets are finite where a cardinality is taken.  TLC evaluates each of them in a run.

Pipeline.  `IInv` is the conjunction of the type invariant and

* `StatusInv`: the two tables agree (`ParkedIffUnfinished`, `FingerprintFollowsResult`,
  `PrunedEvidenceStaysGone`).  Alone they are not inductive: `AbsentIsBlank` says that an
  event nobody sent has no job, and `SymbolizerMemory` that a process which is about
  to record a result holds a job of the right kind;
* `ExportInv`: `DeliveredWasCollected` needs `SuccessIsCollected` (what a worker that
  was answered has in memory) and `ExportAfterSymbols` needs `ClaimedIsReleased` (what
  was ever claimed stays released, although its lease may be lost);
  `RetryBudgetLeft` needs `RememberedAttempts`, which says that the stale count in memory is
  still the row's while the token matches, and that rests on
* `OwnersDistinct`: no two processes hold the same token;
* `RunsArePaid`: for each artifact, runs so far plus symbolizers that still have it to run
  are at most the committed attempts, which are at most the maximum.  The sum is what makes
  `ToolBudget` inductive: a symbolizer that lost its lease may still run.

`PipelineProofs` proves `TypeOK` (with `SymbolizerMemory`, which says that the artifacts left to run are those of the job), `StatusInv` and from it `Parking`, `Fingerprints`,
`Retention` and `Finality`; `PipelineDeliveryProofs` adds `ExportInv`,
`NoFalseDelivery`, `SymbolsFirst`, `RetriesBounded` and that the pipeline implements
`Delivery` step by step, then `OwnersDistinct`, `RunsArePaid`, `LeasesProtect`,
`ToolRunsBounded` and the whole of `IInv`.

Ingest.  `RequestInv` adds to the properties what an open transaction knows:
uncommitted rows belong to one transaction and to no committed event
(`UncommittedRows`), what was read was compared (`ReadCompared`, `RaceCompared`),
every event the INSERT has passed is its own or stored (`PassedRows`, which makes the
RuntimeError of `insert_batch` unreachable), a charged window still has room
(`WindowHeld`, by the row lock), and one transaction at a time is between its capacity
check and its end (`AdmissionSerial`, by the advisory lock).  `IngestProofs` proves it
inductive and derives `AcksAreDurable`, `RacesAreVisible`, `QuotasHold` and `CapacityHolds`,
and that the requests implement `IngestContract`.

Uploads.  `RegisteredHasFile` and `AnswersAreTrue` are not inductive by themselves.
`UploadInv` adds `HandlerKnows`, what a handler may rely on at each step; `OneInserter`, one
uncommitted row per identity; and `PromotedKept`: between promotion and commit the file of
an upload is there as long as no other content is registered.  That is the reason why the
discard after a conflict is safe, although two uploads of the same content share one path:
the discarded path can only be wanted by an upload that will itself meet the conflict.
`UploadProofs` proves `UploadInv` inductive and derives the properties.

Paging.  The four properties say what a finished or an answered listing did; none is
inductive.  `PagingInv` adds what a listing holds between two pages: the cursor belongs to the
listing's query and Issue (`CursorHeld`, `FilterHeld`), rows that matched from the first
page on still match (`SteadyMatches`), each of them was sent or lies below the cursor
(`CursorSeparates`), everything that was sent lies at or above it (`BelowSent`), and a page
that was read but not yet sent continues exactly there (`PageHeld`).  The order of time and id
is total because ids are unique (`RowAssumption`).  `QueryProofs` proves `PagingInv` inductive
and derives `NoRepetition`, `NoOmission`, `IssueIsKept` and `ListingsAdvance`.

Evidence.  `AuditTellsAnswer` speaks of answered requests only; what makes it true is decided two
commits earlier.  `EvidenceHeld` adds that a job has a result only as long as its event keeps its
evidence (`ResultsNeedEvidence`), what a handler holds between its reads, its audit and its answer
(`LoadsHeld`), that the log has the result a request will answer from its COMMIT on, and not before
(`LogHeld`), and that the id of a flushed decision is one the sequence has given (`IdsHeld`).  `QueryProofs` proves it inductive and derives `AuditIsTrue` and
`EvidenceIsKept`.

Authentication.  `AttemptsBounded` speaks of every stretch of time that ends now.
`BucketHeld` strengthens it by what is left in the bucket: what was admitted since tick t and
the tokens left were paid for by the burst and the time up to the last refill, and after the last
refill nothing was admitted.  `SlotsAccounted` needs `FuturesHeld`, that a request which has
not submitted has no hash, so that a submission takes exactly one slot; `GrantsAreCurrent` needs
`RowsHeld`, that an active row in memory is of a key unrevoked at arrival.  `AuthProofs`
proves `AuthInv` inductive and derives `AttemptsAreBounded`, `SlotsHold` and `GrantsHold`.

Operator planes.  `OperatorProofs` proves three invariants inductive.

* `KeyHeld`: the row a run read is still that of its tenant (`SeenIsStored`), a run with an
  uncommitted tenant is alone, by the unique index (`InsertersAlone`), and a key about to be shown
  is committed (`ShowsAreStored`).  It contains `KeyInv` (`KeysAreOfNamedTenant`).
* `SessionHeld`: every signed token was issued at most the skew ahead of the slowest clock and lives
  at most the lifetime (`TokensBounded`), and the answer of a login carries the token signed for it
  (`LoginsHoldTheirToken`).  The expiry of a token is in whole seconds and that of a key is not, so the
  core is two lemmas on integer division (`WholeSeconds`, `SecondsBelow`).  From it follow
  `SessionsEndWithKey`, `RevocationHolds`, `CookiesStayMatched` and `EveryReplicaDecodes`.
* `ConfigHeld`: a revision names one committed row (`RowsNamed`), a running publication is at most
  one ahead of the table, and one with its row inserted is ahead and alone (`PublishersInStep`), and
  what a client caches is a committed row (`CachesStored`).  It contains
  `ConfigInv` (`ConfigIsConsistent`); the action property `ConfigNeverGoesBack` follows.

Views.  `FactsHeld` says what a row tells after any mix of symbolization, delivery, pruning and key
rotation: exactly what the phone reported, less what pruning took (`RowTrue`), under the pseudonym of
a key version that was current at some time (`PseudonymTrue`).  `FactsInductive` proves it, and run
`release_health` checks it as a part of `ReleaseInv`.  Each property of the views is then shown to
hold in every such state.  The views never see events, only groups of them with a count, so the
lemmas lead from groups back to events:

* a total over groups is the number of events behind them (`TotalCounts`, by building a bijection
  group after group, `CountsEvents`);
* under one key version pseudonyms and phones are as many (`PhonesCounted`), which is what
  `InstallationsTrue` and `RatiosEarned` rest on;
* a greatest or least value exists in every finite set that is not empty (`GreatestExists`,
  `LeastExists`), every event of the window lies in one bucket (`InSomeBucket`), and the first n
  of a list with at most n items is all of it (`FirstOfShort`), which give `IssueViewsAgree`.

`HealthProofs` also proves `AnswersWhole` (a query over its row budget is refused, never cut) and
`ReleaseViewsAgree`.

`RetentionKeepsNumbers` proves the action property `PruneKeepsNumbers`, which compares two states of
the table.  Pruning changes the scene of a row, and so the groups: one may split in two, two may
become one.  `Alike` relates the facts before and after: the same columns but for the scene, the same
counts for every choice of such columns, and aggregates that bound each other.  Both sets of facts
summarize rows that agree on all of that (`FactsSummarize`, `PruneKeepsRow`), every filter of the
views preserves the relation (`AlikePart`), and every view is the same of facts so related
(`AlikeHealth`, `AlikeList`, `AlikeDataQuality`).

Each inductive invariant was checked with TLC on the instance of its component's run before it was
proved; only the ones that say more than their consequences (`FactsHeld`) stay in the runs.

Only model-checked: liveness (`EventuallyFinal`, `EveryTransactionEnds`, `RequestsEnd`), which is
out of the prover's reach; all other properties of the runs are proved.  The raw byte limit of the
inbox is part of `CheckCapacity` like the limit of live events, and its bound is a sum of the same
kind; only the latter is stated and proved.

## 5. Observations

Behaviour seen while modelling, none of which contradicts a statement of the
documentation:

* `attempt_count` of the inbox is compared with the maximum only when a failure is
  recorded.  A row whose worker dies after each claim is claimed without bound.
* A retryable internal error of the symbolizer before `start_symbolization_attempt`
  spends no attempt, so it may repeat without bound; only attempts, and so the tool runs for
  an artifact, are bounded.
* A partial rejection by the collector dead-letters the whole batch, accepted records
  included; the collector keeps them, the inbox calls them dead.
* An upload wakes only jobs parked at that moment.  A job parked just after is found by its
  own retry time, not by the upload (`EventuallyFinal` depends on it: with `ClaimOnlyPending`
  it fails).
* An upload whose rename fails is answered with 500 and leaves its temporary file in
  `.staging`, as does a process that dies while it holds one; nothing removes such files.
* Two batches with common new events in opposite order deadlock in PostgreSQL; the victim is
  answered with a retryable 500 and the contract holds.
* A revision with a short lifetime may expire before an older one, which is then served
  again (`NeverOlderUnlessExpired` is the strongest order that holds).  The column `active` of
  `remote_config_versions` is set at creation and never unset.
* Logging out deletes the cookies and nothing else: a copy of the token opens requests until its
  `exp` or the revocation of its key.
* A hash that runs when its client goes away keeps its slot to its end; one that is queued
  gives it back at once.
* A key revoked while its request awaits the hash is still granted this once; expiry is compared
  after the hash, revocation only when the row is loaded (`GrantsAreCurrent`).
* After a rotation of the HMAC key one phone has two pseudonyms, so that installation counts of
  release health, of the list of fingerprints and of an Issue and its releases are withheld in a
  window with both versions (`InstallationsAreTrue`).  The installation counts of the buckets and
  scenes of an Issue are not: there the phone counts twice.
* A Java crash whose stack is only in `stack_trace`, or blank, gets a job, may end symbolized,
  and never gets an Issue (`FingerprintFollowsResult` says so).

## 6. Not modelled, and the plan

Not modelled: decoding and compression of requests and the OTLP mapping (pure functions
of bytes; only the failure of the mapping reaches the pipeline, as `Unmappable`); the hash
functions and signatures themselves (taken to be sound and injective); metrics, logs, health probes and process wiring; the web
console; migrations and scripts.  Crash events stored before jobs existed (migration 0002)
are outside the pipeline model, where every crash row has its job.  Power loss is not
modelled: a committed transaction and a renamed file stay.

Some actions leave a part of their code out:

* `_remove_known_installation_plaintext` runs before `normalize_event` and drops fields and the
  scene of an event when they contain the installation id.  `Report` in `WindowFacts` is the event
  after it, so a field that was dropped is MISSING for `FieldsAccounted`.
* `GetIssueDetail` takes a canonical fingerprint; the resolution of a raw link and its 409 are in
  `EventPages` (`Resolution`), which the endpoint shares.
* `UploadDies` forgets the temporary file, which stays on disk (section 5).
* The filter on `active` of a configuration (`Candidates` of `RemoteConfig`) and, for a Web
  session, the check of the role of its key (`KeyStillUsable`) are left out, as no code writes
  those columns after the row is created.
* `LegacyRow` is what releases before key versions and retention states left of a row; that code
  is not in the repository, so it is modelled from the test of it (`tests/test_retention.py`)
  and from how `field_states` and `load_window_facts` read such rows.

Next, in this order:

1. The composition of `Authentication` with `IngestRequests`: a grant made before a long
   transaction against a revocation during it.
2. Back-off and Retry-After lengths as operators against a reference definition.
