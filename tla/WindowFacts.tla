----------------------------- MODULE WindowFacts -----------------------------
(***************************************************************************)
(* The rows the query plane aggregates, from the report of a phone to the  *)
(* grouped facts of load_window_facts (db/inbox.py, normalization.py,      *)
(* db/query.py).  Rows are ingested under an installation HMAC key that    *)
(* operators rotate, symbolized, delivered, and pruned when raw evidence   *)
(* expires; a query reads all of them with one statement.                  *)
(*                                                                         *)
(* One credential scope.  The pseudonym of an installation is the pair of  *)
(* the installation and the key version: HMAC is taken to be injective.    *)
(***************************************************************************)
EXTENDS Normalization, FiniteSets, FiniteSetsExt

CONSTANTS
    Event,
    Legacy,             \* rows older than key versions and retention states
    Report,             \* what normalize_event is given: what phones send, less the fields and
                        \* scenes that name the installation (_prepare_event)
    Canonical,          \* fingerprints of symbolized stacks
    MaxVersion,         \* bound on key rotations
    NoInstallation,
    From, To,           \* the window of the query
    Minute, MaxBuckets, \* 60 000 ms and 24
    LateAfter,          \* query_late_after_seconds
    MaxRows             \* query_max_rows

(* Reports are as the schema admits them, and the window is not empty      *)
(* (_validate_window).                                                     *)
ASSUME FactAssumption ==
    /\ IsFiniteSet(Event) /\ Legacy \subseteq Event
    /\ Canonical \subseteq Nat /\ NoFingerprint \notin Canonical
    /\ MaxVersion \in Nat \ {0}
    /\ From \in Nat /\ To \in Nat /\ From < To
    /\ Minute \in Nat \ {0} /\ MaxBuckets \in Nat \ {0}
    /\ LateAfter \in Nat /\ MaxRows \in Nat
    /\ \A event \in Report :
          /\ event.kind \in Kinds /\ event.bound \in BOOLEAN
          /\ event.timestamp \in Nat /\ event.received \in Nat
          /\ event.release \in Nat /\ event.scene \in Nat
          /\ \A field \in DOMAIN event.fields : event.fields[field] \in Int

VARIABLES
    rows,       \* inbox_events, by event
    version,    \* installation_hmac_active_version
    reported    \* history: the report a row was made from

factVars == <<rows, version, reported>>

Null == -1          \* SQL NULL in a numeric column
NoVersion == 0
NoScene == 0        \* no scene, or the empty string
NoHmac == <<>>

States == {"MISSING", "INVALID", "AVAILABLE", "EXPIRED"}

Columns == {"kind", "release", "bound", "hmac", "version", "fingerprint", "at", "received",
            "scene", "registered", "states", "status", "pruned", "retention"}

RowTypeOK(e) ==
    /\ reported[e] \in Report /\ DOMAIN rows[e] = Columns
    /\ rows[e].version \in 0..version
    /\ rows[e].status \in {"received", "delivered"}
    /\ rows[e].retention \in {"none", "EXPIRED", "MISSING"}
    /\ \A f \in DOMAIN rows[e].states : rows[e].states[f] \in States
    /\ DOMAIN rows[e].registered \subseteq DOMAIN rows[e].states

HealthTypeOK ==
    /\ DOMAIN rows \subseteq Event /\ DOMAIN reported = DOMAIN rows
    /\ version \in 1..MaxVersion
    /\ \A e \in DOMAIN rows : RowTypeOK(e)

(* Slip: the digest is stored without its key version.                     *)
PreparedUnversioned(event, v) ==
    [kind |-> event.kind, release |-> event.release, bound |-> event.bound,
     hmac |-> IF event.installation = NoInstallation THEN NoHmac ELSE <<event.installation, v>>,
     version |-> IF event.installation = NoInstallation THEN NoVersion ELSE 1,
     fingerprint |-> IncidentFingerprint(event),
     at |-> OccurrenceTime(event), received |-> event.received, scene |-> event.scene,
     registered |-> RegisteredFields(event), states |-> FieldStates(event),
     status |-> "received", pruned |-> FALSE, retention |-> "none"]

(* prepare_event and _to_row: identity comes from the occurrence when the  *)
(* event carries one (bound), else from the batch.                         *)
Prepared(event, v) ==
    [kind |-> event.kind, release |-> event.release, bound |-> event.bound,
     hmac |-> IF event.installation = NoInstallation THEN NoHmac ELSE <<event.installation, v>>,
     version |-> IF event.installation = NoInstallation THEN NoVersion ELSE v,
     fingerprint |-> IncidentFingerprint(event),
     at |-> OccurrenceTime(event), received |-> event.received, scene |-> event.scene,
     registered |-> RegisteredFields(event), states |-> FieldStates(event),
     status |-> "received", pruned |-> FALSE, retention |-> "none"]

(* Slip: the registered fields go with the raw evidence.                   *)
PrunedBare(row) ==
    [row EXCEPT !.scene = NoScene, !.registered = << >>,
                !.states = FieldAvailability(row.states, {}, TRUE),
                !.retention = IF row.scene # NoScene THEN "EXPIRED" ELSE "MISSING",
                !.pruned = TRUE]

(* What retention leaves of a row: the numbers of its indexed fields, and  *)
(* whether there was a scene.                                              *)
Pruned(row) ==
    LET kept == RetainedFields(row.registered) IN
    [row EXCEPT !.scene = NoScene,
                !.registered = [f \in kept |-> row.registered[f]],
                !.states = FieldAvailability(row.states, kept, TRUE),
                !.retention = IF row.scene # NoScene THEN "EXPIRED" ELSE "MISSING",
                !.pruned = TRUE]

(* A row that an earlier release pruned: no key version, no trace of the   *)
(* scene, and the field states as they were before.                        *)
LegacyRow(event) ==
    [Pruned(Prepared(event, 1)) EXCEPT !.version = NoVersion, !.retention = "none",
                                       !.states = FieldStates(event),
                                       !.status = "delivered"]

FactInit ==
    /\ version = 1
    /\ reported \in [Legacy -> Report]
    /\ rows = [e \in Legacy |-> LegacyRow(reported[e])]

-----------------------------------------------------------------------------
(* The table f with value v under the new key x.                           *)
With(f, x, v) == [y \in DOMAIN f \cup {x} |-> IF y = x THEN v ELSE f[y]]

IngestEvent(e, event) ==
    /\ e \notin DOMAIN rows
    /\ rows' = With(rows, e, Prepared(event, version))
    /\ reported' = With(reported, e, event)
    /\ UNCHANGED version

(* The symbolizer publishes the canonical Issue of a crash.                *)
SymbolizeEvent(e, fp) ==
    /\ e \in DOMAIN rows /\ rows[e].status = "received"
    /\ rows[e].kind = "java_crash" /\ rows[e].bound
    /\ rows[e].fingerprint \notin Canonical \cup {NoFingerprint}
    /\ rows' = [rows EXCEPT ![e].fingerprint = fp]
    /\ UNCHANGED <<version, reported>>

DeliverEvent(e) ==
    /\ e \in DOMAIN rows /\ rows[e].status = "received"
    /\ rows' = [rows EXCEPT ![e].status = "delivered"]
    /\ UNCHANGED <<version, reported>>

(* prune_expired on a row in a final state.                                *)
PruneEvent(e) ==
    /\ e \in DOMAIN rows /\ rows[e].status = "delivered" /\ ~rows[e].pruned
    /\ rows' = [rows EXCEPT ![e] = Pruned(rows[e])]
    /\ UNCHANGED <<version, reported>>

(* Operators make another key of the ring the active one.                  *)
RotateKey ==
    /\ version < MaxVersion
    /\ version' = version + 1
    /\ UNCHANGED <<rows, reported>>

FactNext ==
    \/ \E e \in Event : \/ \E event \in Report : IngestEvent(e, event)
                        \/ \E fp \in Canonical : SymbolizeEvent(e, fp)
                        \/ DeliverEvent(e)
                        \/ PruneEvent(e)
    \/ RotateKey

FactSpec == FactInit /\ [][FactNext]_factVars

-----------------------------------------------------------------------------
(* query_bucket_ms: at most MaxBuckets buckets of whole minutes.           *)
QueryBucket ==
    LET raw == (To - From + MaxBuckets - 1) \div MaxBuckets
    IN Max({Minute, ((raw + Minute - 1) \div Minute) * Minute})

BucketCount == (To - From + QueryBucket - 1) \div QueryBucket

BucketOf(at) == (at - From) \div QueryBucket

(* _scope_window_predicates.                                               *)
InWindow(row) == From <= row.at /\ row.at < To

IsLate(row) == row.received - row.at > LateAfter

Number(row, field) == IF field \in DOMAIN row.registered THEN row.registered[field] ELSE Null

ValidHealth(row) ==
    /\ Number(row, "emitCount") > 0 /\ Number(row, "dropCount") >= 0
    /\ Number(row, "dropRate") >= 0 /\ Number(row, "dropRate") <= RatioOne

SceneState(row) ==
    IF row.pruned
    THEN IF row.retention \in {"EXPIRED", "MISSING"} THEN row.retention ELSE "RETENTION_UNKNOWN"
    ELSE IF row.scene # NoScene THEN "AVAILABLE" ELSE "MISSING"

(* Slip: a column is missing from the GROUP BY.                            *)
DimensionsWithoutBucket(row) ==
    [release |-> row.release, bound |-> row.bound, hmac |-> row.hmac, version |-> row.version,
     fingerprint |-> row.fingerprint, status |-> row.status, kind |-> row.kind,
     scene |-> row.scene, sceneState |-> SceneState(row),
     valid |-> ValidHealth(row), late |-> IsLate(row), bucket |-> 0]

(* The columns of the GROUP BY.                                            *)
Dimensions(row) ==
    [release |-> row.release, bound |-> row.bound, hmac |-> row.hmac, version |-> row.version,
     fingerprint |-> row.fingerprint, status |-> row.status, kind |-> row.kind,
     scene |-> row.scene, sceneState |-> SceneState(row),
     valid |-> ValidHealth(row), late |-> IsLate(row), bucket |-> BucketOf(row.at)]

(* One group: its dimensions, aggregates and number of rows.               *)
FactOf(dims, group) ==
    [release |-> dims.release, bound |-> dims.bound, hmac |-> dims.hmac, version |-> dims.version,
     fingerprint |-> dims.fingerprint, status |-> dims.status, kind |-> dims.kind,
     scene |-> dims.scene, sceneState |-> dims.sceneState,
     valid |-> dims.valid, late |-> dims.late, bucket |-> dims.bucket,
     first |-> Min({rows[e].at : e \in group}),
     last |-> Max({rows[e].at : e \in group}),
     drops |-> Max({Number(rows[e], "dropCount") : e \in group}),
     rate |-> Max({Number(rows[e], "dropRate") : e \in group}),
     weight |-> Cardinality(group)]

FactsOf(E) ==
    {FactOf(dims, {e \in E : Dimensions(rows[e]) = dims}) :
        dims \in {Dimensions(rows[e]) : e \in E}}

(* Slip: what fits the budget is answered.                                 *)
LoadWindowFactsPartial(E) ==
    LET facts == FactsOf(E)
    IN {IF Cardinality(facts) <= MaxRows THEN facts
        ELSE CHOOSE part \in SUBSET facts : Cardinality(part) = MaxRows}

(* load_window_facts: no answer (422) when there are too many groups.      *)
LoadWindowFacts(E) == {facts \in {FactsOf(E)} : Cardinality(facts) <= MaxRows}

WindowEvents == {e \in DOMAIN rows : InWindow(rows[e])}

OfRelease(r) == {e \in WindowEvents : rows[e].release = r}

OfIssue(fp) == {e \in WindowEvents : rows[e].fingerprint = fp}

-----------------------------------------------------------------------------
(* field_states: what a query says of the fields of a row, also of one     *)
(* that was pruned before states were.                                     *)
FieldStatesOf(row) == FieldAvailability(row.states, DOMAIN row.registered, row.pruned)

(* What a query says of a field is what happened to it: a value that was   *)
(* sent, was valid and is gone has EXPIRED, one that was never sent or was *)
(* refused stays MISSING or INVALID, and AVAILABLE ones are still stored.  *)
FieldsAccounted ==
    \A e \in DOMAIN rows : \A field \in Registry(reported[e].kind) :
        LET state == FieldStatesOf(rows[e])[field]
            sent  == field \in DOMAIN reported[e].fields
        IN /\ (state = "AVAILABLE") <=> (field \in DOMAIN rows[e].registered)
           /\ (state = "MISSING") <=> ~sent
           /\ state = "EXPIRED" => rows[e].pruned /\ FieldStates(reported[e])[field] = "AVAILABLE"
           /\ state = "INVALID" => FieldStates(reported[e])[field] = "INVALID"

(* What makes it inductive: a row is what prepare_event made of its        *)
(* report, or what retention left of that, but for the delivery and the    *)
(* Issue, which others decide.                                             *)
RowTrue(e) ==
    LET row   == rows[e]
        event == reported[e]
        kept  == RetainedFields(RegisteredFields(event))
    IN /\ row.kind = event.kind /\ row.release = event.release /\ row.bound = event.bound
       /\ row.at = OccurrenceTime(event) /\ row.received = event.received
       /\ row.scene = IF row.pruned THEN NoScene ELSE event.scene
       /\ row.registered = IF row.pruned THEN [f \in kept |-> event.fields[f]]
                           ELSE RegisteredFields(event)
       /\ row.states = IF row.pruned /\ e \notin Legacy
                       THEN FieldAvailability(FieldStates(event), kept, TRUE)
                       ELSE FieldStates(event)
       /\ row.pruned \in BOOLEAN /\ row.fingerprint \in Int
       /\ e \in Legacy => row.pruned
       /\ row.pruned => row.retention = IF e \in Legacy THEN "none"
                                       ELSE IF event.scene # NoScene THEN "EXPIRED" ELSE "MISSING"

(* A pseudonym is that of the phone under a key of the ring, whose version *)
(* rows have told since there are versions.                                *)
PseudonymTrue(e) ==
    IF reported[e].installation = NoInstallation
    THEN rows[e].hmac = NoHmac /\ rows[e].version = NoVersion
    ELSE \E v \in 1..version :
            /\ rows[e].hmac = <<reported[e].installation, v>>
            /\ rows[e].version = IF e \in Legacy THEN NoVersion ELSE v

FactsHeld ==
    /\ HealthTypeOK /\ Legacy \subseteq DOMAIN rows
    /\ \A e \in DOMAIN rows : RowTrue(e) /\ PseudonymTrue(e)
==============================================================================
