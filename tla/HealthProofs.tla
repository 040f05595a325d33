------------------------------ MODULE HealthProofs ------------------------------
(***************************************************************************)
(* Proofs about the aggregate views of WindowFacts, ReleaseHealth and      *)
(* IssueViews, for any finite number of events and any window.  The rows   *)
(* are shown to tell what phones reported; then every view, which is       *)
(* computed from grouped facts, is shown to count the events behind them.  *)
(***************************************************************************)
EXTENDS IssueViews, FunctionTheorems, FiniteSetTheorems, TLAPS

-----------------------------------------------------------------------------
(* The rows.                                                               *)

(* What is taken for granted of one report.                                *)
LEMMA ReportFields ==
    ASSUME NEW event \in Report
    PROVE  /\ event.kind \in Kinds /\ event.bound \in BOOLEAN
           /\ event.timestamp \in Nat /\ event.received \in Nat
           /\ event.release \in Nat /\ event.scene \in Nat
           /\ \A field \in DOMAIN event.fields : event.fields[field] \in Int
BY FactAssumption

(* Only a value that was sent and is valid is registered, and what is said *)
(* of the others is whether they were sent.                                *)
LEMMA FieldStatesTell ==
    ASSUME NEW event
    PROVE  /\ DOMAIN FieldStates(event) = Registry(event.kind)
           /\ DOMAIN RegisteredFields(event) =
                 {f \in Registry(event.kind) : FieldStates(event)[f] = "AVAILABLE"}
           /\ \A f \in DOMAIN RegisteredFields(event) :
                 /\ RegisteredFields(event)[f] = event.fields[f]
                 /\ f \in DOMAIN event.fields
           /\ \A f \in Registry(event.kind) :
                 /\ FieldStates(event)[f] \in {"MISSING", "INVALID", "AVAILABLE"}
                 /\ FieldStates(event)[f] = "MISSING" <=> f \notin DOMAIN event.fields
BY DEF FieldStates, RegisteredFields

(* A fingerprint is a number.                                              *)
LEMMA FingerprintIsNumber ==
    ASSUME NEW event \in Report
    PROVE  IncidentFingerprint(event) \in Int
<1> DEFINE text(field) == IF field \in DOMAIN event.fields THEN event.fields[field] ELSE EmptyText
<1>1. \A field : text(field) \in Int
    BY ReportFields DEF EmptyText
<1> HIDE DEF text
<1> QED BY <1>1 DEF IncidentFingerprint, NoFingerprint, EmptyText, text

(* So is the time of an occurrence.                                        *)
LEMMA OccurrenceIsTime ==
    ASSUME NEW event \in Report
    PROVE  OccurrenceTime(event) \in Int
<1> DEFINE exit == "exitTimestamp"
<1>1. exit \in DOMAIN RegisteredFields(event) => exit \in DOMAIN event.fields
    BY FieldStatesTell
<1>2. event.timestamp \in Int /\ \A field \in DOMAIN event.fields : event.fields[field] \in Int
    BY ReportFields
<1> QED BY <1>1, <1>2 DEF OccurrenceTime

(* The row of a new event.                                                 *)
IsFresh(row, event, v) ==
    /\ DOMAIN row = Columns
    /\ row.kind = event.kind /\ row.release = event.release /\ row.bound = event.bound
    /\ row.at = OccurrenceTime(event) /\ row.received = event.received
    /\ row.scene = event.scene /\ row.registered = RegisteredFields(event)
    /\ row.states = FieldStates(event) /\ row.fingerprint \in Int
    /\ row.status = "received" /\ row.pruned = FALSE /\ row.retention = "none"
    /\ row.hmac = IF event.installation = NoInstallation THEN NoHmac
                  ELSE <<event.installation, v>>
    /\ row.version = IF event.installation = NoInstallation THEN NoVersion ELSE v

LEMMA PreparedRow ==
    ASSUME NEW event \in Report, NEW v \in Nat
    PROVE  IsFresh(Prepared(event, v), event, v)
BY FingerprintIsNumber DEF IsFresh, Prepared, Columns

(* What retention changes of a row, and what it does not.                  *)
IsPruned(next, row) ==
    /\ DOMAIN next = Columns
    /\ next.kind = row.kind /\ next.release = row.release
    /\ next.bound = row.bound /\ next.hmac = row.hmac
    /\ next.version = row.version /\ next.fingerprint = row.fingerprint
    /\ next.at = row.at /\ next.received = row.received
    /\ next.status = row.status
    /\ next.scene = NoScene /\ next.pruned = TRUE
    /\ next.registered = [f \in RetainedFields(row.registered) |-> row.registered[f]]
    /\ next.states = FieldAvailability(row.states, RetainedFields(row.registered), TRUE)
    /\ next.retention = IF row.scene # NoScene THEN "EXPIRED" ELSE "MISSING"

LEMMA PrunedRow ==
    ASSUME NEW row, DOMAIN row = Columns
    PROVE  IsPruned(Pruned(row), row)
BY DEF IsPruned, Pruned, Columns

(* What holds of one row.                                                  *)
RowHeld(e) == RowTypeOK(e) /\ RowTrue(e) /\ PseudonymTrue(e)

(* The invariant, row by row.                                              *)
LEMMA HeldByRow ==
    FactsHeld <=> /\ DOMAIN rows \subseteq Event /\ DOMAIN reported = DOMAIN rows
                  /\ Legacy \subseteq DOMAIN rows /\ version \in 1..MaxVersion
                  /\ \A e \in DOMAIN rows : RowHeld(e)
BY DEF FactsHeld, HealthTypeOK, RowHeld

(* What holds of a row does not depend on the other rows, and the versions *)
(* of the ring only grow.                                                  *)
LEMMA RowKept ==
    ASSUME NEW e, RowHeld(e), rows'[e] = rows[e], reported'[e] = reported[e],
           version \in Nat, version' \in Nat, version <= version'
    PROVE  RowHeld(e)'
<1>1. RowTrue(e)'
    BY DEF RowHeld, RowTrue
<1>2. RowTypeOK(e)'
    <2>1. rows[e].version \in 0..version'
        BY DEF RowHeld, RowTypeOK
    <2> QED BY <2>1 DEF RowHeld, RowTypeOK
<1>3. PseudonymTrue(e)'
    BY DEF RowHeld, PseudonymTrue
<1> QED BY <1>1, <1>2, <1>3 DEF RowHeld

(* A fresh row is true of its report.                                      *)
LEMMA FreshRowHeld ==
    ASSUME NEW e, e \notin Legacy, reported'[e] \in Report, version' \in Nat, version' >= 1,
           rows'[e] = Prepared(reported'[e], version')
    PROVE  RowHeld(e)'
<1> DEFINE event == reported'[e]
           row == rows'[e]
<1>1. IsFresh(row, event, version')
    BY PreparedRow
<1> HIDE DEF row, event
<1>2. RowTrue(e)'
    BY <1>1 DEF IsFresh, RowTrue, row, event
<1>3. RowTypeOK(e)'
    <2>1. /\ \A f \in DOMAIN FieldStates(event) : FieldStates(event)[f] \in States
          /\ DOMAIN RegisteredFields(event) \subseteq DOMAIN FieldStates(event)
        BY FieldStatesTell DEF States
    <2> QED BY <1>1, <2>1 DEF IsFresh, RowTypeOK, row, event, NoVersion
<1>4. PseudonymTrue(e)'
    BY <1>1 DEF IsFresh, PseudonymTrue, row, event
<1> QED BY <1>2, <1>3, <1>4 DEF RowHeld

(* Retention leaves a row true.  The key, the delivery and the Issue do    *)
(* not matter to it, so this is shown of the columns that do.              *)
LEMMA PrunedFieldsTell ==
    ASSUME NEW event
    PROVE  LET registered == RegisteredFields(event)
               kept == RetainedFields(registered)
               states == FieldAvailability(FieldStates(event), kept, TRUE)
           IN /\ [f \in kept |-> registered[f]] = [f \in kept |-> event.fields[f]]
              /\ DOMAIN states = Registry(event.kind)
              /\ \A f \in DOMAIN states : states[f] \in States
              /\ kept \subseteq DOMAIN states
<1> DEFINE kept == RetainedFields(RegisteredFields(event))
<1>1. kept \subseteq DOMAIN RegisteredFields(event)
    BY DEF RetainedFields
<1> HIDE DEF kept
<1>2. [f \in kept |-> RegisteredFields(event)[f]] = [f \in kept |-> event.fields[f]]
    BY <1>1, FieldStatesTell
<1>3. LET states == FieldAvailability(FieldStates(event), kept, TRUE)
      IN /\ DOMAIN states = Registry(event.kind)
         /\ \A f \in DOMAIN states : states[f] \in States
         /\ kept \subseteq DOMAIN states
    BY <1>1, FieldStatesTell DEF FieldAvailability, States
<1> QED BY <1>2, <1>3 DEF kept

LEMMA PrunedRowHeld ==
    ASSUME NEW e, RowHeld(e), ~rows[e].pruned,
           rows'[e] = Pruned(rows[e]), reported'[e] = reported[e], version' = version
    PROVE  RowHeld(e)'
<1> DEFINE row   == rows[e]
           next  == rows'[e]
           event == reported[e]
           kept  == RetainedFields(RegisteredFields(event))
<1>1. /\ DOMAIN row = Columns /\ row.registered = RegisteredFields(event)
      /\ row.states = FieldStates(event) /\ row.scene = event.scene /\ e \notin Legacy
      /\ row.kind = event.kind /\ row.release = event.release /\ row.bound = event.bound
      /\ row.at = OccurrenceTime(event) /\ row.received = event.received
      /\ row.fingerprint \in Int
    BY DEF RowHeld, RowTypeOK, RowTrue
<1>2. IsPruned(next, row)
    BY <1>1, PrunedRow
<1>3. next.registered = [f \in kept |-> event.fields[f]]
    <2>1. next.registered = [f \in kept |-> RegisteredFields(event)[f]]
        BY <1>1, <1>2 DEF IsPruned
    <2>2. \A f \in kept : RegisteredFields(event)[f] = event.fields[f]
        BY FieldStatesTell DEF RetainedFields
    <2> HIDE DEF next, kept, event
    <2> QED BY <2>1, <2>2
<1> HIDE DEF next
<1>4. RowTrue(e)'
    BY <1>1, <1>2, <1>3 DEF IsPruned, RowTrue, next
<1>5. RowTypeOK(e)'
    <2>1. /\ \A f \in DOMAIN next.states : next.states[f] \in States
          /\ kept \subseteq DOMAIN next.states
        <3>1. next.states = FieldAvailability(FieldStates(event), kept, TRUE)
            BY <1>1, <1>2 DEF IsPruned
        <3> HIDE DEF event
        <3> QED BY <3>1, PrunedFieldsTell
    <2>2. DOMAIN next.registered = kept
        BY <1>3
    <2>3. next.retention \in {"none", "EXPIRED", "MISSING"}
        BY <1>2 DEF IsPruned
    <2> QED BY <1>1, <1>2, <2>1, <2>2, <2>3 DEF IsPruned, RowHeld, RowTypeOK, next
<1>6. PseudonymTrue(e)'
    BY <1>2 DEF IsPruned, RowHeld, PseudonymTrue, next
<1> QED BY <1>4, <1>5, <1>6 DEF RowHeld

(* What the four columns of the upgrade do to a row that has all of them.  *)
Upgraded(old, states) ==
    [old EXCEPT !.version = NoVersion, !.retention = "none",
                !.states = states, !.status = "delivered"]

LEMMA LegacyColumns ==
    ASSUME NEW old, DOMAIN old = Columns, NEW states
    PROVE  /\ DOMAIN Upgraded(old, states) = DOMAIN old
           /\ \A c \in Columns \ {"version", "retention", "states", "status"} :
                 Upgraded(old, states)[c] = old[c]
           /\ Upgraded(old, states).version = NoVersion
           /\ Upgraded(old, states).retention = "none"
           /\ Upgraded(old, states).states = states
           /\ Upgraded(old, states).status = "delivered"
<1> DEFINE row    == Upgraded(old, states)
           first  == [old EXCEPT !.version = NoVersion]
           second == [first EXCEPT !.retention = "none"]
           third  == [second EXCEPT !.states = states]
<1>1. /\ DOMAIN first = Columns /\ first.version = NoVersion
      /\ \A c \in Columns \ {"version"} : first[c] = old[c]
    BY DEF Columns
<1>2. row = [third EXCEPT !.status = "delivered"]
    BY DEF Upgraded
<1> HIDE DEF row
<1> HIDE DEF first
<1>3. /\ DOMAIN second = Columns /\ second.retention = "none"
      /\ \A c \in Columns \ {"retention"} : second[c] = first[c]
    BY <1>1 DEF Columns
<1> HIDE DEF second
<1>4. /\ DOMAIN third = Columns /\ third.states = states
      /\ \A c \in Columns \ {"states"} : third[c] = second[c]
    BY <1>3 DEF Columns
<1> HIDE DEF third
<1>5. /\ DOMAIN row = Columns /\ row.status = "delivered"
      /\ \A c \in Columns \ {"status"} : row[c] = third[c]
    BY <1>2, <1>4 DEF Columns
<1> QED BY <1>1, <1>3, <1>4, <1>5 DEF Columns, row

(* The rows of an earlier release.                                         *)
LEMMA FactInitHolds == FactInit => FactsHeld
<1> SUFFICES ASSUME FactInit PROVE FactsHeld
    OBVIOUS
<1>1. /\ DOMAIN rows \subseteq Event /\ DOMAIN reported = DOMAIN rows
      /\ Legacy \subseteq DOMAIN rows /\ version \in 1..MaxVersion
    BY FactAssumption DEF FactInit
<1>2. ASSUME NEW e \in DOMAIN rows PROVE RowHeld(e)
    <2> DEFINE event == reported[e]
               fresh == Prepared(event, 1)
               kept  == RetainedFields(RegisteredFields(event))
               row   == rows[e]
    <2>0. e \in Legacy /\ event \in Report /\ row = LegacyRow(event)
        BY <1>2 DEF FactInit
    <2>1. IsFresh(fresh, event, 1)
        BY <2>0, PreparedRow
    <2> HIDE DEF fresh
    <2> DEFINE old == Pruned(fresh)
    <2>2. IsPruned(old, fresh)
        BY <2>1, PrunedRow DEF IsFresh
    <2> HIDE DEF old
    <2>3. old.registered = [f \in kept |-> event.fields[f]]
        <3>1. old.registered = [f \in kept |-> RegisteredFields(event)[f]]
            BY <2>1, <2>2 DEF IsFresh, IsPruned
        <3> QED BY <3>1, PrunedFieldsTell
    <2>4. row = Upgraded(old, FieldStates(event))
        BY <2>0 DEF LegacyRow, Upgraded, old, fresh
    <2> HIDE DEF kept
    <2>5. /\ DOMAIN row = Columns
          /\ row.kind = event.kind /\ row.release = event.release
          /\ row.bound = event.bound /\ row.hmac = fresh.hmac
          /\ row.fingerprint \in Int
          /\ row.at = OccurrenceTime(event) /\ row.received = event.received
          /\ row.scene = NoScene /\ row.pruned = TRUE
          /\ row.registered = [f \in kept |-> event.fields[f]]
          /\ row.states = FieldStates(event)
          /\ row.version = NoVersion /\ row.retention = "none" /\ row.status = "delivered"
        <3>1. /\ DOMAIN old = Columns
              /\ old.kind = event.kind /\ old.release = event.release
              /\ old.bound = event.bound /\ old.hmac = fresh.hmac
              /\ old.fingerprint \in Int
              /\ old.at = OccurrenceTime(event) /\ old.received = event.received
              /\ old.scene = NoScene /\ old.pruned = TRUE
            BY <2>1, <2>2 DEF IsFresh, IsPruned
        <3>2. /\ DOMAIN row = DOMAIN old
              /\ \A c \in Columns \ {"version", "retention", "states", "status"} :
                    row[c] = old[c]
              /\ row.version = NoVersion /\ row.retention = "none"
              /\ row.states = FieldStates(event) /\ row.status = "delivered"
            BY <2>4, <3>1, LegacyColumns
        <3>3. /\ row.kind = old.kind /\ row.release = old.release /\ row.bound = old.bound
              /\ row.hmac = old.hmac /\ row.fingerprint = old.fingerprint /\ row.at = old.at
              /\ row.received = old.received /\ row.scene = old.scene
              /\ row.pruned = old.pruned /\ row.registered = old.registered
            BY <3>2 DEF Columns
        <3> HIDE DEF row
        <3> QED BY <2>3, <3>1, <3>2, <3>3
    <2> HIDE DEF row
    <2>6. RowTrue(e)
        BY <2>0, <2>5 DEF RowTrue, row, kept
    <2>7. RowTypeOK(e)
        <3>1. /\ \A f \in DOMAIN row.states : row.states[f] \in States
              /\ DOMAIN row.registered \subseteq DOMAIN row.states
            BY <2>5, FieldStatesTell, PrunedFieldsTell DEF kept, States, FieldAvailability
        <3>2. row.version \in 0..version
            BY <1>1, <2>5, FactAssumption DEF NoVersion
        <3> QED BY <2>0, <2>5, <3>1, <3>2 DEF RowTypeOK, row
    <2>8. PseudonymTrue(e)
        <3>1. 1 \in 1..version
            BY <1>1, FactAssumption
        <3> QED BY <2>0, <2>1, <2>5, <3>1 DEF IsFresh, PseudonymTrue, row
    <2> QED BY <2>6, <2>7, <2>8 DEF RowHeld
<1> QED BY <1>1, <1>2, HeldByRow

(* A step that changes the row of e alone.                                 *)
LEMMA OneRowMoves ==
    ASSUME FactsHeld, NEW e \in DOMAIN rows, NEW row, rows' = [rows EXCEPT ![e] = row],
           UNCHANGED <<version, reported>>, RowHeld(e)'
    PROVE  FactsHeld'
<1>1. DOMAIN rows' = DOMAIN rows /\ \A d \in DOMAIN rows : d # e => rows'[d] = rows[d]
    OBVIOUS
<1>2. version \in Nat /\ version <= version'
    BY FactAssumption DEF FactsHeld, HealthTypeOK
<1>3. \A d \in DOMAIN rows : RowHeld(d)'
    BY <1>1, <1>2, HeldByRow, RowKept
<1>4. /\ DOMAIN rows' \subseteq Event /\ DOMAIN reported' = DOMAIN rows'
      /\ Legacy \subseteq DOMAIN rows' /\ version' \in 1..MaxVersion
    BY <1>1, HeldByRow
<1>5. FactsHeld' <=> /\ DOMAIN rows' \subseteq Event /\ DOMAIN reported' = DOMAIN rows'
                     /\ Legacy \subseteq DOMAIN rows' /\ version' \in 1..MaxVersion
                     /\ \A d \in DOMAIN rows' : RowHeld(d)'
    BY DEF FactsHeld, HealthTypeOK, RowHeld
<1> QED BY <1>1, <1>3, <1>4, <1>5

(* What others write to a row, the Issue and the delivery, does not        *)
(* concern the report.                                                     *)
LEMMA SameRowHeld ==
    ASSUME NEW e, RowHeld(e), UNCHANGED version, reported'[e] = reported[e],
           DOMAIN rows'[e] = Columns,
           \A c \in Columns \ {"fingerprint", "status"} : rows'[e][c] = rows[e][c],
           rows'[e].fingerprint \in Int, rows'[e].status \in {"received", "delivered"}
    PROVE  RowHeld(e)'
<1> DEFINE row  == rows[e]
           next == rows'[e]
<1>1. /\ next.kind = row.kind /\ next.release = row.release /\ next.bound = row.bound
      /\ next.hmac = row.hmac /\ next.version = row.version /\ next.at = row.at
      /\ next.received = row.received /\ next.scene = row.scene
      /\ next.registered = row.registered /\ next.states = row.states
      /\ next.pruned = row.pruned /\ next.retention = row.retention
    BY DEF Columns
<1>2. RowTrue(e)'
    BY <1>1 DEF RowHeld, RowTrue
<1>3. RowTypeOK(e)'
    BY <1>1 DEF RowHeld, RowTypeOK
<1>4. PseudonymTrue(e)'
    BY <1>1 DEF RowHeld, PseudonymTrue
<1> QED BY <1>2, <1>3, <1>4 DEF RowHeld

(* Every step of ingest, symbolizer, exporter, retention and operators     *)
(* keeps the rows true.                                                    *)
LEMMA FactStep ==
    ASSUME FactsHeld, [FactNext]_factVars
    PROVE  FactsHeld'
<1>0. /\ DOMAIN rows \subseteq Event /\ DOMAIN reported = DOMAIN rows
      /\ Legacy \subseteq DOMAIN rows
      /\ version \in 1..MaxVersion /\ version \in Nat /\ version >= 1
      /\ \A e \in DOMAIN rows : RowHeld(e)
    BY HeldByRow, FactAssumption
<1>1. FactsHeld' <=> /\ DOMAIN rows' \subseteq Event /\ DOMAIN reported' = DOMAIN rows'
                     /\ Legacy \subseteq DOMAIN rows' /\ version' \in 1..MaxVersion
                     /\ \A d \in DOMAIN rows' : RowHeld(d)'
    BY DEF FactsHeld, HealthTypeOK, RowHeld
<1>2. CASE UNCHANGED factVars \/ RotateKey
    <2>1. /\ UNCHANGED <<rows, reported>> /\ version' \in 1..MaxVersion /\ version <= version'
          /\ version' \in Nat
        BY <1>0, <1>2, FactAssumption DEF factVars, RotateKey
    <2>2. \A e \in DOMAIN rows : RowHeld(e)'
        BY <1>0, <2>1, RowKept
    <2> QED BY <1>0, <1>1, <2>1, <2>2
<1>3. ASSUME NEW e \in Event, NEW event \in Report, IngestEvent(e, event)
      PROVE  FactsHeld'
    <2>1. /\ e \notin DOMAIN rows /\ UNCHANGED version
          /\ DOMAIN rows' = DOMAIN rows \cup {e} /\ DOMAIN reported' = DOMAIN rows'
          /\ rows'[e] = Prepared(event, version) /\ reported'[e] = event
          /\ \A d \in DOMAIN rows : rows'[d] = rows[d] /\ reported'[d] = reported[d]
        BY <1>0, <1>3 DEF IngestEvent, With
    <2>2. RowHeld(e)'
        BY <1>0, <2>1, FreshRowHeld
    <2>3. \A d \in DOMAIN rows : RowHeld(d)'
        BY <1>0, <2>1, RowKept
    <2> QED BY <1>0, <1>1, <2>1, <2>2, <2>3
<1>4. ASSUME NEW e \in Event,
             DeliverEvent(e) \/ \E fp \in Canonical : SymbolizeEvent(e, fp)
      PROVE  FactsHeld'
    <2> DEFINE row == rows'[e]
    <2>1. /\ e \in DOMAIN rows /\ rows' = [rows EXCEPT ![e] = row]
          /\ UNCHANGED <<version, reported>>
          /\ \/ row = [rows[e] EXCEPT !.status = "delivered"]
             \/ \E fp \in Canonical : row = [rows[e] EXCEPT !.fingerprint = fp]
        BY <1>4 DEF DeliverEvent, SymbolizeEvent
    <2> HIDE DEF row
    <2>2. /\ RowHeld(e) /\ DOMAIN rows[e] = Columns /\ Canonical \subseteq Int
          /\ rows[e].fingerprint \in Int /\ rows[e].status \in {"received", "delivered"}
        <3>1. RowHeld(e) /\ Canonical \subseteq Int
            BY <1>0, <2>1, FactAssumption
        <3>2. DOMAIN rows[e] = Columns /\ rows[e].status \in {"received", "delivered"}
            BY <3>1 DEF RowHeld, RowTypeOK
        <3>3. rows[e].fingerprint \in Int
            BY <3>1 DEF RowHeld, RowTrue
        <3> QED BY <3>1, <3>2, <3>3
    <2>3. /\ \A c \in Columns \ {"fingerprint", "status"} : row[c] = rows[e][c]
          /\ row.fingerprint \in Int /\ row.status \in {"received", "delivered"}
          /\ DOMAIN row = Columns
        BY <2>1, <2>2 DEF Columns
    <2>4. RowHeld(e)'
        BY <2>1, <2>2, <2>3, SameRowHeld DEF row
    <2> QED BY <2>1, <2>4, OneRowMoves
<1>5. ASSUME NEW e \in Event, PruneEvent(e)
      PROVE  FactsHeld'
    <2>1. /\ e \in DOMAIN rows /\ rows' = [rows EXCEPT ![e] = Pruned(rows[e])]
          /\ UNCHANGED <<version, reported>> /\ ~rows[e].pruned /\ rows'[e] = Pruned(rows[e])
        BY <1>5 DEF PruneEvent
    <2>2. RowHeld(e)'
        BY <1>0, <2>1, PrunedRowHeld
    <2> QED BY <2>1, <2>2, OneRowMoves
<1> QED BY <1>2, <1>3, <1>4, <1>5 DEF FactNext

(* The rows always tell what phones reported, as far as retention let      *)
(* them, whatever else was written to them.                                *)
THEOREM FactsInductive == FactSpec => []FactsHeld
<1>1. FactsHeld /\ [FactNext]_factVars => FactsHeld'
    BY FactStep
<1> QED BY <1>1, FactInitHolds, PTL DEF FactSpec

(* What a row says of its fields, from the row's own invariant.            *)
LEMMA FieldsFollow == FactsHeld => FieldsAccounted
<1> SUFFICES ASSUME FactsHeld, NEW e \in DOMAIN rows, NEW field \in Registry(reported[e].kind)
             PROVE  LET state == FieldStatesOf(rows[e])[field]
                        sent  == field \in DOMAIN reported[e].fields
                    IN /\ (state = "AVAILABLE") <=> (field \in DOMAIN rows[e].registered)
                       /\ (state = "MISSING") <=> ~sent
                       /\ state = "EXPIRED" =>
                             rows[e].pruned /\ FieldStates(reported[e])[field] = "AVAILABLE"
                       /\ state = "INVALID" => FieldStates(reported[e])[field] = "INVALID"
    BY DEF FieldsAccounted
<1> DEFINE event  == reported[e]
           states == FieldStates(event)
           kept   == RetainedFields(RegisteredFields(event))
<1>1. /\ DOMAIN states = Registry(event.kind)
      /\ DOMAIN RegisteredFields(event) = {f \in Registry(event.kind) : states[f] = "AVAILABLE"}
      /\ kept \subseteq DOMAIN RegisteredFields(event)
      /\ states[field] \in {"MISSING", "INVALID", "AVAILABLE"}
      /\ states[field] = "MISSING" <=> field \notin DOMAIN event.fields
    BY FieldStatesTell DEF RetainedFields
<1>2. /\ rows[e].registered = IF rows[e].pruned THEN [f \in kept |-> event.fields[f]]
                              ELSE RegisteredFields(event)
      /\ rows[e].states = IF rows[e].pruned /\ e \notin Legacy
                          THEN FieldAvailability(states, kept, TRUE) ELSE states
    BY DEF FactsHeld, RowTrue
<1> HIDE DEF event, states, kept
<1>3. CASE rows[e].pruned
    <2>1. DOMAIN rows[e].registered = kept
        BY <1>2, <1>3
    <2>2. FieldStatesOf(rows[e])[field] = IF states[field] = "AVAILABLE" /\ field \notin kept
                                          THEN "EXPIRED" ELSE states[field]
        BY <1>1, <1>2, <1>3, <2>1 DEF FieldStatesOf, FieldAvailability, event
    <2> QED BY <1>1, <1>3, <2>1, <2>2 DEF event, states
<1>4. CASE ~rows[e].pruned
    <2>1. FieldStatesOf(rows[e])[field] = states[field]
        BY <1>1, <1>2, <1>4 DEF FieldStatesOf, FieldAvailability, event
    <2> QED BY <1>1, <1>2, <1>4, <2>1 DEF event, states
<1> QED BY <1>3, <1>4
-----------------------------------------------------------------------------
(* Counting.                                                               *)

(* A sum of numbers counts the events, when each number is that of the     *)
(* events of its item.                                                     *)
LEMMA TotalCounts ==
    ASSUME NEW E, IsFiniteSet(E), NEW item, NEW number,
           \A i \in DOMAIN number : 1..number[i] = 1..Cardinality({e \in E : item[e] = i})
    PROVE  Total(number) = Cardinality({e \in E : item[e] \in DOMAIN number})
<1> DEFINE G == DOMAIN number
           group(i) == {e \in E : item[e] = i}
           S == {e \in E : item[e] \in G}
           pairs == UNION {{i} \X (1..number[i]) : i \in G}
           b == [i \in G |-> CHOOSE h : h \in Bijection(1..number[i], group(i))]
           m == [p \in pairs |-> b[p[1]][p[2]]]
<1>1. ASSUME NEW i \in G PROVE b[i] \in Bijection(1..number[i], group(i))
    <2>1. IsFiniteSet(group(i))
        BY FS_Subset
    <2>2. Bijection(1..Cardinality(group(i)), group(i)) # {}
        BY <2>1, FS_CardinalityType DEF ExistsBijection
    <2>3. \E h : h \in Bijection(1..number[i], group(i))
        BY <2>2
    <2> QED BY <2>3
<1>2. \A p : p \in pairs <=> \E i \in G : \E k \in 1..number[i] : p = <<i, k>>
    OBVIOUS
<1> HIDE DEF b, group
<1>3. ASSUME NEW i \in G, NEW k \in 1..number[i]
      PROVE  <<i, k>> \in pairs /\ m[<<i, k>>] = b[i][k] /\ b[i][k] \in group(i)
    <2>1. <<i, k>> \in pairs
        BY <1>2
    <2>2. b[i][k] \in group(i)
        BY <1>1 DEF Bijection, Injection
    <2> QED BY <2>1, <2>2
<1>4. \A i \in G : \A e \in group(i) : e \in S /\ item[e] = i
    BY DEF group
<1> HIDE DEF pairs, m, S, G
<1>5. m \in [pairs -> S]
    <2>1. \A p \in pairs : m[p] \in S
        BY <1>2, <1>3, <1>4
    <2> QED BY <2>1 DEF m
<1>6. ASSUME NEW p \in pairs, NEW q \in pairs, m[p] = m[q] PROVE p = q
    <2>a. PICK i \in G : \E k \in 1..number[i] : p = <<i, k>>
        BY <1>2
    <2>1. PICK k \in 1..number[i] : p = <<i, k>>
        BY <2>a
    <2>b. PICK j \in G : \E l \in 1..number[j] : q = <<j, l>>
        BY <1>2
    <2>2. PICK l \in 1..number[j] : q = <<j, l>>
        BY <2>b
    <2>3. b[i][k] = b[j][l] /\ b[i][k] \in group(i) /\ b[j][l] \in group(j)
        BY <1>3, <1>6, <2>1, <2>2
    <2>4. i = j
        BY <1>4, <2>3
    <2>5. k = l
        BY <1>1, <2>3, <2>4 DEF Bijection, Injection, IsInjective
    <2> QED BY <2>1, <2>2, <2>4, <2>5
<1>7. ASSUME NEW e \in S PROVE \E p \in pairs : m[p] = e
    <2>1. item[e] \in G /\ e \in group(item[e])
        BY DEF S, group
    <2>2. PICK k \in 1..number[item[e]] : b[item[e]][k] = e
        BY <1>1, <2>1 DEF Bijection, Surjection
    <2> QED BY <1>3, <2>1, <2>2
<1>8. m \in Bijection(pairs, S)
    BY <1>5, <1>6, <1>7 DEF Bijection, Injection, Surjection, IsInjective
<1>9. IsFiniteSet(S)
    BY FS_Subset DEF S
<1>10. ExistsBijection(S, pairs)
    BY <1>8, Fun_ExistsBijSymmetric DEF ExistsBijection
<1>11. Cardinality(pairs) = Cardinality(S)
    BY <1>9, <1>10, FS_Bijection
<1> QED BY <1>11 DEF Total, pairs, S, G

(* Two sets have the same size when the elements of a third name one of    *)
(* each, the same ones together.                                           *)
LEMMA SameSize ==
    ASSUME NEW E, IsFiniteSet(E), NEW f, NEW g,
           \A d, e \in E : f[d] = f[e] <=> g[d] = g[e],
           NEW A, \A x : x \in A <=> \E e \in E : x = f[e],
           NEW B, \A x : x \in B <=> \E e \in E : x = g[e]
    PROVE  IsFiniteSet(A) /\ Cardinality(A) = Cardinality(B)
<1> DEFINE back == [a \in A |-> g[CHOOSE e \in E : f[e] = a]]
           s == [e \in E |-> f[e]]
<1>1. s \in Surjection(E, A)
    BY DEF Surjection
<1>2. IsFiniteSet(A)
    BY <1>1, FS_Surjection
<1>3. \A e \in E : f[e] \in A /\ back[f[e]] = g[e]
    <2> SUFFICES ASSUME NEW e \in E PROVE f[e] \in A /\ back[f[e]] = g[e]
        OBVIOUS
    <2>1. f[e] \in A
        OBVIOUS
    <2> DEFINE c == CHOOSE d \in E : f[d] = f[e]
    <2>2. c \in E /\ f[c] = f[e]
        OBVIOUS
    <2>3. back[f[e]] = g[c]
        BY <2>1
    <2> HIDE DEF c
    <2> QED BY <2>1, <2>2, <2>3
<1> HIDE DEF back
<1>4. back \in [A -> B]
    <2>1. \A a \in A : back[a] \in B
        BY <1>3
    <2> QED BY <2>1 DEF back
<1>5. \A x, y \in A : back[x] = back[y] => x = y
    BY <1>3
<1>6. \A y \in B : \E x \in A : back[x] = y
    BY <1>3
<1>7. back \in Bijection(A, B)
    BY <1>4, <1>5, <1>6 DEF Bijection, Injection, Surjection, IsInjective
<1>8. Cardinality(A) = Cardinality(B)
    BY <1>2, <1>7, FS_Bijection DEF ExistsBijection
<1> QED BY <1>2, <1>8
(* A finite set of integers has a greatest and a least element: among the  *)
(* subsets without one there would be a smallest.                          *)
LEMMA GreatestExists ==
    ASSUME NEW S, IsFiniteSet(S), S # {}, S \subseteq Int
    PROVE  Max(S) \in S /\ \A y \in S : y <= Max(S)
<1> DEFINE bad == {T \in SUBSET S : T # {} /\ ~(\E x \in T : \A y \in T : x >= y)}
<1>1. bad = {}
    <2> SUFFICES ASSUME bad # {} PROVE FALSE
        OBVIOUS
    <2>1. bad \subseteq FiniteSubsetsOf(S)
        BY FS_FiniteSubsetsOfFinite
    <2>2. PICK T \in bad : \A U \in bad : ~(<<U, T>> \in StrictSubsetOrdering(S))
        BY <2>1, FS_StrictSubsetOrderingWellFounded, WFMin
    <2>3. PICK t \in T : TRUE
        OBVIOUS
    <2>4. T \ {t} \notin bad
        BY <2>2 DEF StrictSubsetOrdering
    <2>5. CASE T \ {t} = {}
        BY <2>5
    <2>6. CASE T \ {t} # {}
        <3>1. PICK u \in T \ {t} : \A y \in T \ {t} : u >= y
            BY <2>4, <2>6
        <3>2. u \in Int /\ t \in Int /\ T \subseteq Int
            OBVIOUS
        <3>3. CASE u >= t
            <4>1. \A y \in T : u >= y
                BY <3>1, <3>3
            <4> QED BY <4>1
        <3>4. CASE ~(u >= t)
            <4>1. \A y \in T : t >= y
                BY <3>1, <3>2, <3>4
            <4> QED BY <4>1
        <3> QED BY <3>3, <3>4
    <2> QED BY <2>5, <2>6
<1>2. \E x \in S : \A y \in S : x >= y
    BY <1>1
<1>3. Max(S) \in S /\ \A y \in S : Max(S) >= y
    BY <1>2 DEF Max
<1> QED BY <1>3

LEMMA LeastExists ==
    ASSUME NEW S, IsFiniteSet(S), S # {}, S \subseteq Int
    PROVE  Min(S) \in S /\ \A y \in S : Min(S) <= y
<1> DEFINE bad == {T \in SUBSET S : T # {} /\ ~(\E x \in T : \A y \in T : x <= y)}
<1>1. bad = {}
    <2> SUFFICES ASSUME bad # {} PROVE FALSE
        OBVIOUS
    <2>1. bad \subseteq FiniteSubsetsOf(S)
        BY FS_FiniteSubsetsOfFinite
    <2>2. PICK T \in bad : \A U \in bad : ~(<<U, T>> \in StrictSubsetOrdering(S))
        BY <2>1, FS_StrictSubsetOrderingWellFounded, WFMin
    <2>3. PICK t \in T : TRUE
        OBVIOUS
    <2>4. T \ {t} \notin bad
        BY <2>2 DEF StrictSubsetOrdering
    <2>5. CASE T \ {t} = {}
        BY <2>5
    <2>6. CASE T \ {t} # {}
        <3>1. PICK u \in T \ {t} : \A y \in T \ {t} : u <= y
            BY <2>4, <2>6
        <3>2. u \in Int /\ t \in Int /\ T \subseteq Int
            OBVIOUS
        <3>3. CASE u <= t
            <4>1. \A y \in T : u <= y
                BY <3>1, <3>3
            <4> QED BY <4>1
        <3>4. CASE ~(u <= t)
            <4>1. \A y \in T : t <= y
                BY <3>1, <3>2, <3>4
            <4> QED BY <4>1
        <3> QED BY <3>3, <3>4
    <2> QED BY <2>5, <2>6
<1>2. \E x \in S : \A y \in S : x <= y
    BY <1>1
<1> QED BY <1>2 DEF Min

-----------------------------------------------------------------------------
(* Facts.                                                                  *)

(* The events grouped with e among E, and their fact.                      *)
GroupOf(E, e) == {d \in E : Dimensions(rows[d]) = Dimensions(rows[e])}

FactFor(E, e) == FactOf(Dimensions(rows[e]), GroupOf(E, e))

(* The events behind facts F.                                              *)
EventsOf(E, F) == {e \in E : FactFor(E, e) \in F}

(* A fact says of its events what their rows say.                          *)
TellsOf(f, e) ==
    /\ f.release = rows[e].release /\ f.bound = rows[e].bound /\ f.hmac = rows[e].hmac
    /\ f.version = rows[e].version /\ f.fingerprint = rows[e].fingerprint
    /\ f.status = rows[e].status /\ f.kind = rows[e].kind /\ f.scene = rows[e].scene
    /\ f.sceneState = SceneState(rows[e]) /\ f.valid = ValidHealth(rows[e])
    /\ f.late = IsLate(rows[e]) /\ f.bucket = BucketOf(rows[e].at)

(* Its weight and aggregates.                                              *)
Aggregates(f, E, e) ==
    /\ f.weight = Cardinality(GroupOf(E, e))
    /\ f.first = Min({rows[d].at : d \in GroupOf(E, e)})
    /\ f.last = Max({rows[d].at : d \in GroupOf(E, e)})
    /\ f.drops = Max({Number(rows[d], "dropCount") : d \in GroupOf(E, e)})
    /\ f.rate = Max({Number(rows[d], "dropRate") : d \in GroupOf(E, e)})

LEMMA FactTells ==
    ASSUME NEW E, NEW e
    PROVE  TellsOf(FactFor(E, e), e) /\ Aggregates(FactFor(E, e), E, e)
BY DEF TellsOf, Aggregates, FactFor, FactOf, Dimensions

(* Events share a fact exactly when they agree on the GROUP BY.            *)
LEMMA SameFact ==
    ASSUME NEW E, NEW d, NEW e
    PROVE  FactFor(E, d) = FactFor(E, e) <=> Dimensions(rows[d]) = Dimensions(rows[e])
<1>1. ASSUME FactFor(E, d) = FactFor(E, e)
      PROVE  Dimensions(rows[d]) = Dimensions(rows[e])
    <2>1. TellsOf(FactFor(E, d), d) /\ TellsOf(FactFor(E, d), e)
        BY <1>1, FactTells
    <2> QED BY <2>1 DEF TellsOf, Dimensions
<1>2. ASSUME Dimensions(rows[d]) = Dimensions(rows[e])
      PROVE  FactFor(E, d) = FactFor(E, e)
    <2>1. GroupOf(E, d) = GroupOf(E, e)
        BY <1>2 DEF GroupOf
    <2> QED BY <1>2, <2>1 DEF FactFor
<1> QED BY <1>1, <1>2

(* The facts are those of the events.                                      *)
LEMMA FactsAre ==
    ASSUME NEW E
    PROVE  FactsOf(E) = {FactFor(E, e) : e \in E}
BY DEF FactsOf, FactFor, GroupOf

(* Counting facts by their weights counts events.                          *)
LEMMA CountsEvents ==
    ASSUME NEW E, IsFiniteSet(E), NEW F, F \subseteq FactsOf(E)
    PROVE  /\ SampleCount(F) = Cardinality(EventsOf(E, F))
           /\ SampleCount(F) \in Nat
           /\ IsFiniteSet(EventsOf(E, F))
           /\ SampleCount(F) = 0 <=> F = {}
<1> DEFINE item == [e \in E |-> FactFor(E, e)]
           number == [f \in F |-> f.weight]
<1>1. ASSUME NEW f \in F
      PROVE  f.weight = Cardinality({e \in E : item[e] = f})
    <2>1. PICK e \in E : f = FactFor(E, e)
        BY FactsAre
    <2>2. f.weight = Cardinality(GroupOf(E, e))
        BY <2>1, FactTells DEF Aggregates
    <2>3. {d \in E : item[d] = f} = GroupOf(E, e)
        BY <2>1, SameFact DEF GroupOf
    <2> QED BY <2>2, <2>3
<1>2. \A f \in DOMAIN number : 1..number[f] = 1..Cardinality({e \in E : item[e] = f})
    BY <1>1
<1>3. DOMAIN number = F /\ {e \in E : item[e] \in F} = EventsOf(E, F)
    BY DEF EventsOf
<1> HIDE DEF item, number
<1>4. Total(number) = Cardinality(EventsOf(E, F))
    BY <1>2, <1>3, TotalCounts
<1>5. IsFiniteSet(EventsOf(E, F))
    BY FS_Subset DEF EventsOf
<1>6. Cardinality(EventsOf(E, F)) \in Nat
      /\ (Cardinality(EventsOf(E, F)) = 0 <=> EventsOf(E, F) = {})
    BY <1>5, FS_CardinalityType, FS_EmptySet
<1>7. EventsOf(E, F) = {} <=> F = {}
    BY FactsAre DEF EventsOf
<1> QED BY <1>4, <1>5, <1>6, <1>7 DEF SampleCount, number

(* The facts of a release among those of two are the facts of the release. *)
LEMMA DeclaredFacts ==
    ASSUME NEW a, NEW b, NEW r \in {a, b}
    PROVE  Declared(FactsOf(OfRelease(a) \cup OfRelease(b)), r) = FactsOf(OfRelease(r))
<1> DEFINE E == OfRelease(a) \cup OfRelease(b)
           R == OfRelease(r)
<1>1. R = {e \in E : rows[e].release = r}
    BY DEF OfRelease
<1> HIDE DEF E, R
<1>2. \A e \in R : FactFor(E, e) = FactFor(R, e)
    <2> SUFFICES ASSUME NEW e \in R PROVE GroupOf(E, e) = GroupOf(R, e)
        BY DEF FactFor
    <2>1. \A d \in GroupOf(E, e) : rows[d].release = rows[e].release
        BY DEF GroupOf, Dimensions
    <2> QED BY <1>1, <2>1 DEF GroupOf
<1>3. \A e \in E : FactFor(E, e).release = rows[e].release
    <2>1. \A e \in E : TellsOf(FactFor(E, e), e)
        BY FactTells
    <2> QED BY <2>1 DEF TellsOf
<1>4. Declared(FactsOf(E), r) = {FactFor(E, e) : e \in R}
    <2>1. FactsOf(E) = {FactFor(E, e) : e \in E}
        BY FactsAre
    <2>2. Declared(FactsOf(E), r) = {f \in {FactFor(E, e) : e \in E} : f.release = r}
        BY <2>1 DEF Declared
    <2>3. ASSUME NEW f PROVE f \in Declared(FactsOf(E), r) <=> \E e \in R : f = FactFor(E, e)
        BY <1>1, <1>3, <2>2
    <2> QED BY <2>3
<1>5. FactsOf(R) = {FactFor(R, e) : e \in R}
    BY FactsAre
<1> QED BY <1>2, <1>4, <1>5 DEF E, R
-----------------------------------------------------------------------------
(* Counts.                                                                 *)

(* Every query reads finitely many rows.                                   *)
LEMMA WindowFinite ==
    ASSUME FactsHeld
    PROVE  /\ IsFiniteSet(WindowEvents)
           /\ \A r : IsFiniteSet(OfRelease(r)) /\ OfRelease(r) \subseteq DOMAIN rows
           /\ \A fp : IsFiniteSet(OfIssue(fp)) /\ OfIssue(fp) \subseteq DOMAIN rows
<1>1. WindowEvents \subseteq Event /\ WindowEvents \subseteq DOMAIN rows
    BY DEF FactsHeld, HealthTypeOK, WindowEvents
<1>2. IsFiniteSet(WindowEvents)
    BY <1>1, FactAssumption, FS_Subset
<1>3. \A r : OfRelease(r) \in SUBSET WindowEvents
    BY DEF OfRelease
<1>4. \A fp : OfIssue(fp) \in SUBSET WindowEvents
    BY DEF OfIssue
<1>5. \A S \in SUBSET WindowEvents : IsFiniteSet(S)
    BY <1>2, FS_Subset
<1> QED BY <1>1, <1>2, <1>3, <1>4, <1>5

(* The eligible facts are those of the occurrence-bound events.            *)
LEMMA EligibleEvents ==
    ASSUME FactsHeld, NEW E, E \subseteq DOMAIN rows
    PROVE  /\ Eligible(FactsOf(E)) \subseteq FactsOf(E)
           /\ EventsOf(E, Eligible(FactsOf(E))) = BoundEvents(E)
           /\ EventsOf(E, FactsOf(E)) = E
<1>1. \A e \in E : TellsOf(FactFor(E, e), e)
    BY FactTells
<1>2. FactsOf(E) = {FactFor(E, e) : e \in E}
    BY FactsAre
<1>3. \A e \in E : FactFor(E, e).bound = reported[e].bound
    BY <1>1 DEF TellsOf, FactsHeld, RowTrue
<1> QED BY <1>2, <1>3 DEF Eligible, EventsOf, BoundEvents

(* What the slice of a release is made from, and what is withheld of it.   *)
BothBroken(a, b) ==
    ContinuityBroken(Eligible(FactsOf(OfRelease(a)) \cup FactsOf(OfRelease(b))))

SliceOf(r) == ReleaseSlice(FactsOf(OfRelease(r)))

LEMMA SliceIs ==
    ASSUME NEW a, NEW b, NEW r \in {a, b}, NEW h \in GetReleaseHealth(a, b)
    PROVE  h.slice[r] = IF BothBroken(a, b) THEN Withhold(SliceOf(r)) ELSE SliceOf(r)
<1> DEFINE F == FactsOf(OfRelease(a) \cup OfRelease(b))
<1>1. h = BuildReleaseHealth(F, a, b)
    BY DEF GetReleaseHealth, LoadWindowFacts
<1>2. \A x \in {a, b} : Declared(F, x) = FactsOf(OfRelease(x))
    BY DeclaredFacts
<1> HIDE DEF F
<1>3. h.slice[r] = IF ContinuityBroken(Eligible(Declared(F, a) \cup Declared(F, b)))
                   THEN Withhold(ReleaseSlice(Declared(F, r))) ELSE ReleaseSlice(Declared(F, r))
    BY <1>1 DEF BuildReleaseHealth
<1> QED BY <1>2, <1>3 DEF BothBroken, SliceOf

LEMMA TrendIs ==
    ASSUME NEW a, NEW b, NEW r \in {a, b}, NEW h \in GetReleaseHealth(a, b)
    PROVE  h.trend[r] = [t \in Buckets |-> BucketIncidents(InBucket(FactsOf(OfRelease(r)), t))]
<1> DEFINE F == FactsOf(OfRelease(a) \cup OfRelease(b))
<1>1. h = BuildReleaseHealth(F, a, b)
    BY DEF GetReleaseHealth, LoadWindowFacts
<1>2. Declared(F, r) = FactsOf(OfRelease(r))
    BY DeclaredFacts
<1> HIDE DEF F
<1>3. h.trend[r] = ReleaseTrend(F, r)
    BY <1>1 DEF BuildReleaseHealth
<1> QED BY <1>2, <1>3 DEF ReleaseTrend

(* What is withheld says nothing of installations; the counts stay.        *)
IsWithheld(x, s) ==
    /\ x.declared = s.declared /\ x.eligible = s.eligible /\ x.java = s.java /\ x.anr = s.anr
    /\ s.eligible = 0 => x = s
    /\ s.eligible # 0 => /\ x.active = Metric("UNAVAILABLE", Null)
                         /\ x.affected = Metric("UNAVAILABLE", Null)
                         /\ x.ratio = Metric("UNAVAILABLE", NoRatio)

LEMMA WithheldSlice ==
    ASSUME NEW F
    PROVE  IsWithheld(Withhold(ReleaseSlice(F)), ReleaseSlice(F))
<1> DEFINE s == ReleaseSlice(F)
<1>1. DOMAIN s = {"state", "declared", "eligible", "java", "anr", "active", "affected",
                  "ratio", "fingerprints", "late", "sdk"}
    BY DEF ReleaseSlice
<1> HIDE DEF s
<1>2. IsWithheld(Withhold(s), s)
    BY <1>1 DEF Withhold, IsWithheld
<1> QED BY <1>2 DEF s

(* The counts of a slice.                                                  *)
LEMMA SliceCounts ==
    ASSUME NEW a, NEW b, NEW r \in {a, b}, NEW h \in GetReleaseHealth(a, b)
    PROVE  LET F == FactsOf(OfRelease(r)) IN
           /\ h.slice[r].declared = SampleCount(F)
           /\ h.slice[r].eligible = SampleCount(Eligible(F))
           /\ h.slice[r].java =
                 CountMetric(SampleCount(OfKind(Eligible(F), "java_crash")), QualityState(F))
           /\ h.slice[r].anr =
                 CountMetric(SampleCount(OfKind(Eligible(F), "anr_detected")), QualityState(F))
<1> DEFINE F == FactsOf(OfRelease(r))
           s == ReleaseSlice(F)
<1>1. h.slice[r] = s \/ h.slice[r] = Withhold(s)
    <2>1. h.slice[r] = IF BothBroken(a, b) THEN Withhold(SliceOf(r)) ELSE SliceOf(r)
        BY SliceIs
    <2>2. SliceOf(r) = s
        BY DEF SliceOf
    <2> QED BY <2>1, <2>2
<1>2. IsWithheld(Withhold(s), s)
    BY WithheldSlice
<1>3. /\ s.declared = SampleCount(F) /\ s.eligible = SampleCount(Eligible(F))
      /\ s.java = CountMetric(SampleCount(OfKind(Eligible(F), "java_crash")), QualityState(F))
      /\ s.anr = CountMetric(SampleCount(OfKind(Eligible(F), "anr_detected")), QualityState(F))
    BY DEF ReleaseSlice
<1> HIDE DEF s
<1> QED BY <1>1, <1>2, <1>3 DEF IsWithheld

LEMMA WholeFollows == FactsHeld => AnswersAreWhole
<1> SUFFICES ASSUME FactsHeld PROVE AnswersAreWhole
    OBVIOUS
<1>1. ASSUME NEW q \in GetWindowQuality
      PROVE  /\ q.samples = Cardinality(WindowEvents)
             /\ \A s \in DOMAIN q.statuses :
                   q.statuses[s] = Cardinality({e \in WindowEvents : rows[e].status = s})
    <2> DEFINE E == WindowEvents
               F == FactsOf(E)
    <2>1. q = DataQuality(F)
        BY DEF GetWindowQuality, LoadWindowFacts
    <2>2. IsFiniteSet(E)
        BY WindowFinite
    <2>3. F = {FactFor(E, e) : e \in E}
        BY FactsAre
    <2>4. \A e \in E : FactFor(E, e).status = rows[e].status
        <3>1. \A e \in E : TellsOf(FactFor(E, e), e)
            BY FactTells
        <3> QED BY <3>1 DEF TellsOf
    <2>5. EventsOf(E, F) = E
        BY <2>3 DEF EventsOf
    <2> HIDE DEF F, E
    <2>6. q.samples = SampleCount(F)
          /\ q.statuses = [s \in {f.status : f \in F} |-> SampleCount({f \in F : f.status = s})]
        BY <2>1 DEF DataQuality
    <2>7. SampleCount(F) = Cardinality(EventsOf(E, F))
        BY <2>2, CountsEvents DEF F
    <2>8. ASSUME NEW s \in DOMAIN q.statuses
          PROVE  q.statuses[s] = Cardinality({e \in E : rows[e].status = s})
        <3> DEFINE G == {f \in F : f.status = s}
        <3>1. q.statuses[s] = SampleCount(G)
            BY <2>6
        <3>2. EventsOf(E, G) = {e \in E : rows[e].status = s}
            BY <2>3, <2>4 DEF EventsOf
        <3>3. G \subseteq F
            OBVIOUS
        <3> HIDE DEF G
        <3>4. SampleCount(G) = Cardinality(EventsOf(E, G))
            BY <2>2, <3>3, CountsEvents DEF F
        <3> QED BY <3>1, <3>2, <3>4
    <2> QED BY <2>5, <2>6, <2>7, <2>8 DEF E
<1>2. ASSUME NEW p \in Pairs, NEW h \in GetReleaseHealth(p[1], p[2]), NEW r \in {p[1], p[2]}
      PROVE  /\ h.slice[r].declared = Cardinality(OfRelease(r))
             /\ h.slice[r].eligible = Cardinality(BoundEvents(OfRelease(r)))
    <2> DEFINE E == OfRelease(r)
    <2>1. IsFiniteSet(E) /\ E \subseteq DOMAIN rows
        BY WindowFinite
    <2>2. /\ h.slice[r].declared = SampleCount(FactsOf(E))
          /\ h.slice[r].eligible = SampleCount(Eligible(FactsOf(E)))
        BY SliceCounts
    <2> HIDE DEF E
    <2>3. /\ SampleCount(FactsOf(E)) = Cardinality(EventsOf(E, FactsOf(E)))
          /\ SampleCount(Eligible(FactsOf(E))) = Cardinality(EventsOf(E, Eligible(FactsOf(E))))
        BY <2>1, CountsEvents, EligibleEvents
    <2> QED BY <2>1, <2>2, <2>3, EligibleEvents DEF E
<1> QED BY <1>1, <1>2 DEF AnswersAreWhole

(* Every answer counts every event of its window exactly once, although it *)
(* is computed from groups: the columns of the GROUP BY and the weights    *)
(* lose nothing, and a window with too many groups is refused whole.       *)
THEOREM AnswersWhole == FactSpec => []AnswersAreWhole
BY WholeFollows, FactsInductive, PTL
-----------------------------------------------------------------------------
(* Data quality and release health.                                        *)

(* Both views look at the same facts, in different orders.                 *)
LEMMA QualityFollows == FactsHeld => QualityAgrees
<1> SUFFICES ASSUME FactsHeld,
                    NEW p \in Pairs, NEW h \in GetReleaseHealth(p[1], p[2]),
                    NEW r \in {p[1], p[2]}, NEW q \in GetDataQuality(r)
             PROVE  /\ q.state = "PRESENT" => h.slice[r].java.state \in {"PRESENT", "ZERO"}
                    /\ q.state = "NO_DATA" <=> h.slice[r].java.state = "NO_DATA"
                    /\ h.slice[r].java.value # Null => q.samples > 0 /\ q.identity.value # NoRatio
    BY DEF QualityAgrees
<1> DEFINE E == OfRelease(r)
           F == FactsOf(E)
           n == SampleCount(OfKind(Eligible(F), "java_crash"))
           late == SampleCount({f \in F : f.late})
           bound == SampleCount(Eligible(F))
           samples == SampleCount(F)
           installed == SampleCount(Identified(Eligible(F)))
<1>1. h.slice[r].java = CountMetric(n, QualityState(F))
    BY SliceCounts
<1>2. q = DataQuality(F)
    BY DEF GetDataQuality, LoadWindowFacts
<1>3. /\ Eligible(F) \subseteq F /\ OfKind(Eligible(F), "java_crash") \subseteq F
      /\ {f \in F : f.late} \subseteq F /\ Identified(Eligible(F)) \subseteq F
    BY DEF Eligible, OfKind, Identified
<1>4. IsFiniteSet(E)
    BY WindowFinite
<1> HIDE DEF E
<1>5. \A G \in SUBSET F : SampleCount(G) \in Nat /\ (SampleCount(G) = 0 <=> G = {})
    BY <1>4, CountsEvents
<1> HIDE DEF F
<1>6. /\ n \in Nat /\ late \in Nat /\ bound \in Nat /\ samples \in Nat /\ installed \in Nat
      /\ late = 0 <=> {f \in F : f.late} = {}
      /\ bound = 0 <=> Eligible(F) = {}
      /\ samples = 0 <=> F = {}
    BY <1>3, <1>5
<1>7. /\ F = {} => QualityState(F) = "NO_DATA"
      /\ F # {} /\ Eligible(F) = {} => QualityState(F) = "UNAVAILABLE"
      /\ QualityState(F) \in {"NO_DATA", "UNAVAILABLE", "DEGRADED", "LATE", "PRESENT"}
      /\ QualityState(F) = "NO_DATA" => F = {}
      /\ F # {} /\ Eligible(F) # {} /\ ~(bound < samples) /\ ~(installed < bound)
         /\ Dropped(Eligible(F)) = {} /\ {f \in F : f.late} = {} => QualityState(F) = "PRESENT"
    <2>1. \A f \in Eligible(F) : f \in F
        BY <1>3
    <2> QED BY <2>1 DEF QualityState
<1>8. Dropped(Eligible(F)) \subseteq Dropped(F)
    BY DEF Dropped, OfKind, Eligible
<1>9. /\ h.slice[r].java.state = "NO_DATA" <=> QualityState(F) = "NO_DATA"
      /\ QualityState(F) = "PRESENT" => h.slice[r].java.state \in {"PRESENT", "ZERO"}
      /\ h.slice[r].java.value # Null => QualityState(F) \notin {"NO_DATA", "UNAVAILABLE"}
    <2> HIDE DEF n
    <2> QED BY <1>1, <1>7 DEF CountMetric, Metric
<1> HIDE DEF n
<1>10. /\ q.state = "NO_DATA" <=> F = {}
       /\ q.state = "PRESENT" => /\ F # {} /\ bound # 0 /\ ~(bound < samples)
                                 /\ ~(installed < bound) /\ Dropped(F) = {} /\ ~(late > 0)
       /\ q.samples = samples
       /\ q.identity = CoverageMetric(bound, samples)
    <2> HIDE DEF late, bound, samples, installed
    <2>1. q.state = IF F = {} THEN "NO_DATA"
                    ELSE IF bound = 0 \/ ContinuityBroken(F) THEN "UNAVAILABLE"
                    ELSE IF bound < samples \/ installed < bound \/ Dropped(F) # {} THEN "DEGRADED"
                    ELSE IF late > 0 THEN "LATE"
                    ELSE IF SdkHealthMetric(F).state = "UNAVAILABLE" THEN "UNAVAILABLE" ELSE "PRESENT"
        BY <1>2 DEF DataQuality, late, bound, samples, installed
    <2>2. q.samples = samples /\ q.identity = CoverageMetric(bound, samples)
        BY <1>2 DEF DataQuality, late, bound, samples, installed
    <2> QED BY <2>1, <2>2
<1> HIDE DEF late, bound, samples, installed
<1>11. q.state = "PRESENT" => QualityState(F) = "PRESENT"
    BY <1>6, <1>7, <1>8, <1>10
<1>12. samples # 0 /\ bound # 0 => CoverageMetric(bound, samples).value = <<bound, samples>>
    BY DEF CoverageMetric, Metric
<1>13. <<bound, samples>> # NoRatio
    BY DEF NoRatio
<1>14. q.state = "PRESENT" => h.slice[r].java.state \in {"PRESENT", "ZERO"}
    BY <1>9, <1>11
<1>15. q.state = "NO_DATA" <=> h.slice[r].java.state = "NO_DATA"
    BY <1>7, <1>9, <1>10
<1>16. ASSUME h.slice[r].java.value # Null PROVE q.samples > 0 /\ q.identity.value # NoRatio
    <2>1. F # {} /\ Eligible(F) # {}
        BY <1>7, <1>9, <1>16
    <2>2. samples # 0 /\ bound # 0 /\ samples > 0
        BY <1>6, <2>1
    <2> QED BY <1>10, <1>12, <1>13, <2>2
<1> QED BY <1>14, <1>15, <1>16

(* The rows stay well typed and accounted for, and data quality never      *)
(* promises more than release health does.                                 *)
THEOREM ReleaseViewsAgree == FactSpec => []ReleaseInv
<1>1. FactsHeld => ReleaseInv
    BY FieldsFollow, QualityFollows DEF ReleaseInv
<1> QED BY <1>1, FactsInductive, PTL
-----------------------------------------------------------------------------
(* Installations.                                                          *)

(* What the fact of an event says is what the phone reported.              *)
LEMMA FactIsTrue ==
    ASSUME FactsHeld, NEW E, E \subseteq DOMAIN rows, NEW e \in E
    PROVE  /\ FactFor(E, e) \in FactsOf(E)
           /\ FactFor(E, e).bound = reported[e].bound
           /\ FactFor(E, e).kind = reported[e].kind /\ FactFor(E, e).kind = rows[e].kind
           /\ FactFor(E, e).release = rows[e].release
           /\ FactFor(E, e).fingerprint = rows[e].fingerprint
           /\ FactFor(E, e).hmac = rows[e].hmac
           /\ FactFor(E, e).version = rows[e].version
           /\ FactFor(E, e).version \in 0..version
           /\ FactFor(E, e).late =
                 (reported[e].received - OccurrenceTime(reported[e]) > LateAfter)
<1>1. TellsOf(FactFor(E, e), e)
    BY FactTells
<1>2. RowTrue(e) /\ RowTypeOK(e)
    BY DEF FactsHeld, HealthTypeOK
<1>3. FactFor(E, e) \in FactsOf(E)
    BY FactsAre
<1> QED BY <1>1, <1>2, <1>3 DEF TellsOf, RowTrue, RowTypeOK, IsLate

(* One key version: what the views require before they count pseudonyms.   *)
OneVersion(H) ==
    \A f, g \in Identified(H) : f.version = g.version /\ f.version # NoVersion

LEMMA Unbroken ==
    ASSUME NEW H, \A f \in H : f.version \in 0..version, version \in Nat, ~ContinuityBroken(H)
    PROVE  OneVersion(H)
<1> DEFINE V == {f.version : f \in Identified(H)}
<1>1. NoVersion \notin V /\ ~(Cardinality(V) > 1)
    BY DEF ContinuityBroken
<1>2. V \subseteq 0..version
    BY DEF Identified
<1>3. IsFiniteSet(V)
    <2> HIDE DEF V
    <2>1. IsFiniteSet(0..version)
        BY FS_Interval
    <2> QED BY <1>2, <2>1, FS_Subset
<1>4. Cardinality(V) \in Nat
    BY <1>3, FS_CardinalityType
<1>5. ASSUME NEW x \in V, NEW y \in V, x # y PROVE FALSE
    <2>1. IsFiniteSet({x}) /\ Cardinality({x}) = 1
        BY FS_Singleton
    <2>2. Cardinality({x} \cup {y}) = 2
        BY <1>5, <2>1, FS_AddElement
    <2>3. {x} \cup {y} \subseteq V
        OBVIOUS
    <2> HIDE DEF V
    <2>4. Cardinality({x} \cup {y}) <= Cardinality(V)
        BY <1>3, <2>3, FS_Subset
    <2> QED BY <1>1, <1>4, <2>2, <2>4
<1> QED BY <1>1, <1>5 DEF OneVersion

(* Under one version, pseudonyms are phones.                               *)
LEMMA PhonesCounted ==
    ASSUME FactsHeld, NEW E, E \subseteq DOMAIN rows, IsFiniteSet(E),
           NEW G, G \subseteq FactsOf(E), OneVersion(G)
    PROVE  /\ IsFiniteSet(Installations(G))
           /\ Cardinality(Installations(G)) = Cardinality(TrueInstallations(EventsOf(E, G)))
<1> DEFINE D == {e \in EventsOf(E, G) : reported[e].installation # NoInstallation}
           f == [e \in E |-> rows[e].hmac]
           g == [e \in E |-> reported[e].installation]
<1>1. D \subseteq E /\ IsFiniteSet(D)
    BY FS_Subset DEF EventsOf
<1>2. ASSUME NEW e \in E
      PROVE  /\ FactFor(E, e).hmac = rows[e].hmac
             /\ FactFor(E, e).version = rows[e].version
             /\ PseudonymTrue(e)
    BY FactIsTrue DEF FactsHeld
<1>3. ASSUME NEW e \in E
      PROVE  rows[e].hmac # NoHmac <=> reported[e].installation # NoInstallation
    BY <1>2 DEF PseudonymTrue, NoHmac
<1>4. ASSUME NEW e \in D
      PROVE  FactFor(E, e) \in Identified(G)
    BY <1>2, <1>3 DEF EventsOf, Identified
<1>5. ASSUME NEW e \in D
      PROVE  rows[e].hmac = <<reported[e].installation, rows[e].version>>
    <2>1. rows[e].version # NoVersion
        BY <1>1, <1>2, <1>4 DEF OneVersion
    <2> QED BY <1>1, <1>2, <2>1 DEF PseudonymTrue
<1>6. ASSUME NEW d \in D, NEW e \in D
      PROVE  rows[d].version = rows[e].version
    BY <1>1, <1>2, <1>4 DEF OneVersion
<1>7. ASSUME NEW d \in D, NEW e \in D
      PROVE  f[d] = f[e] <=> g[d] = g[e]
    BY <1>1, <1>5, <1>6
<1>8. Installations(G) = {f[e] : e \in D}
    <2>1. ASSUME NEW x \in Identified(G) PROVE x.hmac \in {f[e] : e \in D}
        <3>1. PICK e \in E : x = FactFor(E, e)
            BY FactsAre DEF Identified
        <3>2. e \in EventsOf(E, G) /\ rows[e].hmac # NoHmac /\ x.hmac = rows[e].hmac
            BY <1>2, <3>1 DEF EventsOf, Identified
        <3> QED BY <1>3, <3>2
    <2>2. ASSUME NEW e \in D PROVE f[e] \in Installations(G)
        BY <1>1, <1>2, <1>4 DEF Installations
    <2> QED BY <2>1, <2>2 DEF Installations
<1>9. TrueInstallations(EventsOf(E, G)) = {g[e] : e \in D}
    BY <1>1 DEF TrueInstallations, EventsOf
<1> HIDE DEF f, g, D
<1>10. \A d, e \in D : f[d] = f[e] <=> g[d] = g[e]
    BY <1>7
<1>11. /\ \A x : x \in Installations(G) <=> \E e \in D : x = f[e]
       /\ \A x : x \in TrueInstallations(EventsOf(E, G)) <=> \E e \in D : x = g[e]
    BY <1>8, <1>9
<1> QED BY <1>1, <1>10, <1>11, SameSize

(* The facts of a release that its slice counts.                           *)
LEMMA IncidentEvents ==
    ASSUME FactsHeld, NEW E, E \subseteq DOMAIN rows
    PROVE  /\ Incidents(FactsOf(E)) \subseteq Eligible(FactsOf(E))
           /\ EventsOf(E, Incidents(FactsOf(E))) = BoundIncidents(E)
<1>1. \A e \in E : /\ FactFor(E, e) \in FactsOf(E)
                   /\ FactFor(E, e).bound = reported[e].bound
                   /\ FactFor(E, e).kind = reported[e].kind
    BY FactIsTrue
<1> QED BY <1>1 DEF Incidents, Eligible, EventsOf, BoundIncidents

(* Unless the answer withholds them, one version covers both releases.     *)
LEMMA SliceVersion ==
    ASSUME FactsHeld, NEW a, NEW b, NEW r \in {a, b}, ~BothBroken(a, b)
    PROVE  OneVersion(Eligible(FactsOf(OfRelease(r))))
<1> DEFINE A == FactsOf(OfRelease(a))
           B == FactsOf(OfRelease(b))
           H == Eligible(A \cup B)
<1>1. \A x : \A f \in FactsOf(OfRelease(x)) : f.version \in 0..version
    <2> SUFFICES ASSUME NEW x, NEW f \in FactsOf(OfRelease(x)) PROVE f.version \in 0..version
        OBVIOUS
    <2>1. OfRelease(x) \subseteq DOMAIN rows
        BY WindowFinite
    <2>2. PICK e \in OfRelease(x) : f = FactFor(OfRelease(x), e)
        BY FactsAre
    <2> QED BY <2>1, <2>2, FactIsTrue
<1>2. \A f \in H : f.version \in 0..version
    BY <1>1 DEF Eligible
<1>3. version \in Nat
    BY FactAssumption DEF FactsHeld, HealthTypeOK
<1>4. ~ContinuityBroken(H)
    BY DEF BothBroken
<1>5. Eligible(FactsOf(OfRelease(r))) \subseteq H
    BY DEF Eligible
<1> HIDE DEF H
<1>6. OneVersion(H)
    BY <1>2, <1>3, <1>4, Unbroken
<1> QED BY <1>5, <1>6 DEF OneVersion, Identified

(* The items of a list and of a distribution, and the parts of an Issue.   *)
FamilyOf(F, fp, kind) ==
    {f \in {g \in Incidents(F) : g.fingerprint # NoFingerprint} :
        <<f.fingerprint, f.kind>> = <<fp, kind>>}

LEMMA ListedItem ==
    ASSUME NEW F, NEW limit, NEW i \in TopFingerprints(F, limit).items
    PROVE  /\ i.count = SampleCount(FamilyOf(F, i.fingerprint, i.kind))
           /\ i.installations = InstallationCount(FamilyOf(F, i.fingerprint, i.kind),
                                                  ContinuityBroken(Eligible(F)))
           /\ i.last = Max({f.last : f \in FamilyOf(F, i.fingerprint, i.kind)})
           /\ DOMAIN i = {"fingerprint", "kind", "count", "installations", "last"}
           /\ FamilyOf(F, i.fingerprint, i.kind) # {}
<1> DEFINE known == {f \in Incidents(F) : f.fingerprint # NoFingerprint}
           Group(k) == {f \in known : <<f.fingerprint, f.kind>> = k}
           Item(k) == [fingerprint |-> k[1], kind |-> k[2],
                       count |-> SampleCount(Group(k)),
                       installations |-> InstallationCount(Group(k), ContinuityBroken(Eligible(F))),
                       last |-> Max({f.last : f \in Group(k)})]
           keys == {<<f.fingerprint, f.kind>> : f \in known}
<1>1. i \in {Item(k) : k \in keys}
    BY DEF TopFingerprints, FirstOf
<1>2. PICK k \in keys : i = Item(k)
    BY <1>1
<1>3. PICK f \in known : k = <<f.fingerprint, f.kind>>
    BY <1>2
<1>4. i.fingerprint = f.fingerprint /\ i.kind = f.kind
    BY <1>2, <1>3
<1>5. Group(k) = FamilyOf(F, i.fingerprint, i.kind)
    BY <1>3, <1>4 DEF FamilyOf
<1>6. f \in Group(k)
    BY <1>3
<1> HIDE DEF Group
<1> QED BY <1>2, <1>5, <1>6

Labelled(F, label, availability, l) ==
    {f \in {g \in F : availability[g] = "AVAILABLE"} : label[f] = l}

LEMMA DistributionItem ==
    ASSUME NEW F, NEW label, NEW availability,
           NEW i \in IssueDistribution(F, label, availability).items
    PROVE  /\ i.count = SampleCount(Labelled(F, label, availability, i.label))
           /\ i.installations = InstallationCount(Labelled(F, label, availability, i.label),
                                                  ContinuityBroken(F))
           /\ DOMAIN i = {"label", "count", "installations"}
           /\ Labelled(F, label, availability, i.label) # {}
<1> DEFINE usable == {f \in F : availability[f] = "AVAILABLE"}
           Group(l) == {f \in usable : label[f] = l}
           Item(l) == [label |-> l, count |-> SampleCount(Group(l)),
                       installations |-> InstallationCount(Group(l), ContinuityBroken(F))]
           keys == {label[f] : f \in usable}
<1>1. i \in {Item(l) : l \in keys}
    BY DEF IssueDistribution, FirstOf
<1>2. PICK l \in keys : i = Item(l)
    BY <1>1
<1>3. PICK f \in usable : l = label[f]
    BY <1>2
<1>4. i.label = l
    BY <1>2
<1>5. Group(l) = Labelled(F, label, availability, i.label)
    BY <1>4 DEF Labelled
<1>6. f \in Group(l)
    BY <1>3
<1> HIDE DEF Group
<1> QED BY <1>2, <1>5, <1>6

LEMMA IssueIs ==
    ASSUME NEW F
    PROVE  LET I == Incidents(F) IN
           /\ IssueDetail(F).count = SampleCount(I)
           /\ IssueDetail(F).installations = InstallationCount(I, ContinuityBroken(I))
           /\ IssueDetail(F).trend = IssueTrend(I)
           /\ IssueDetail(F).releases = IssueDistribution(I, [f \in I |-> f.release],
                                                         [f \in I |-> "AVAILABLE"])
           /\ IssueDetail(F).scenes = IssueDistribution(I, [f \in I |-> f.scene],
                                                       [f \in I |-> f.sceneState])
<1>1. Eligible({f \in F : IsIncident(f.kind)}) = Incidents(F)
    BY DEF Eligible, Incidents
<1> QED BY <1>1 DEF IssueDetail

LEMMA CountIsTrue ==
    ASSUME FactsHeld, NEW E, E \subseteq DOMAIN rows, IsFiniteSet(E),
           NEW H, H \subseteq FactsOf(E), NEW G, G \subseteq H
    PROVE  InstallationCount(G, ContinuityBroken(H))
              \in {Null, Cardinality(TrueInstallations(EventsOf(E, G)))}
<1>1. CASE ContinuityBroken(H)
    BY <1>1 DEF InstallationCount
<1>2. CASE ~ContinuityBroken(H)
    <2>1. \A f \in H : f.version \in 0..version
        <3> SUFFICES ASSUME NEW f \in H PROVE f.version \in 0..version
            OBVIOUS
        <3>1. PICK e \in E : f = FactFor(E, e)
            BY FactsAre
        <3> QED BY <3>1, FactIsTrue
    <2>2. version \in Nat
        BY FactAssumption DEF FactsHeld, HealthTypeOK
    <2>3. OneVersion(G)
        <3>1. OneVersion(H)
            BY <1>2, <2>1, <2>2, Unbroken
        <3> QED BY <3>1 DEF OneVersion, Identified
    <2>4. Cardinality(Installations(G)) = Cardinality(TrueInstallations(EventsOf(E, G)))
        BY <2>3, PhonesCounted
    <2> QED BY <2>4 DEF InstallationCount
<1> QED BY <1>1, <1>2

LEMMA FamilyEvents ==
    ASSUME FactsHeld, NEW E, E \subseteq DOMAIN rows, NEW fp, fp # NoFingerprint, NEW kind
    PROVE  EventsOf(E, FamilyOf(FactsOf(E), fp, kind)) =
              {e \in BoundIncidents(E) : rows[e].fingerprint = fp /\ rows[e].kind = kind}
<1>1. \A e \in E : /\ FactFor(E, e) \in FactsOf(E)
                   /\ FactFor(E, e).bound = reported[e].bound
                   /\ FactFor(E, e).kind = reported[e].kind /\ FactFor(E, e).kind = rows[e].kind
                   /\ FactFor(E, e).fingerprint = rows[e].fingerprint
    BY FactIsTrue
<1> QED BY <1>1 DEF FamilyOf, Incidents, Eligible, EventsOf, BoundIncidents

(* The installations of a slice.                                           *)
LEMMA SliceInstallations ==
    ASSUME FactsHeld, NEW a, NEW b, NEW r \in {a, b}, NEW h \in GetReleaseHealth(a, b)
    PROVE  /\ h.slice[r].active.value \in
                 {Null, Cardinality(TrueInstallations(BoundEvents(OfRelease(r))))}
           /\ h.slice[r].affected.value \in
                 {Null, Cardinality(TrueInstallations(BoundIncidents(OfRelease(r))))}
<1> DEFINE E == OfRelease(r)
           F == FactsOf(E)
           s == SliceOf(r)
<1>1. /\ s.active = InstallationMetric(Eligible(F), Eligible(F), QualityState(F))
      /\ s.affected = InstallationMetric(Incidents(F), Eligible(F), QualityState(F))
      /\ s.eligible = SampleCount(Eligible(F))
    BY DEF SliceOf, ReleaseSlice
<1>2. /\ s.active.value \in {Null, Cardinality(Installations(Eligible(F)))}
      /\ s.affected.value \in {Null, Cardinality(Installations(Incidents(F)))}
      /\ Eligible(F) = {} => s.active.value = Null /\ s.affected.value = Null
    <2> HIDE DEF s, F
    <2> QED BY <1>1 DEF InstallationMetric, Metric
<1>3. h.slice[r] = IF BothBroken(a, b) THEN Withhold(s) ELSE s
    BY SliceIs
<1>4. IsWithheld(Withhold(s), s)
    BY WithheldSlice DEF SliceOf
<1>5. E \subseteq DOMAIN rows /\ IsFiniteSet(E)
    BY WindowFinite
<1>6. CASE BothBroken(a, b)
    <2>1. CASE s.eligible = 0
        <3>1. Eligible(F) = {}
            BY <1>1, <1>5, <2>1, CountsEvents, EligibleEvents
        <3> HIDE DEF s, F, E
        <3> QED BY <1>2, <1>3, <1>4, <1>6, <2>1, <3>1 DEF IsWithheld
    <2>2. CASE s.eligible # 0
        <3> HIDE DEF s, F, E
        <3> QED BY <1>3, <1>4, <1>6, <2>2 DEF IsWithheld, Metric
    <2> QED BY <2>1, <2>2
<1>7. CASE ~BothBroken(a, b)
    <2>1. OneVersion(Eligible(F))
        BY <1>7, SliceVersion
    <2> HIDE DEF s, E
    <2>2. Incidents(F) \subseteq Eligible(F) /\ Eligible(F) \subseteq F
        BY DEF Incidents, Eligible
    <2>3. OneVersion(Incidents(F))
        BY <2>1, <2>2 DEF OneVersion, Identified
    <2>4. EventsOf(E, Eligible(F)) = BoundEvents(E) /\ EventsOf(E, Incidents(F)) = BoundIncidents(E)
        BY <1>5, EligibleEvents, IncidentEvents
    <2>5. /\ Cardinality(Installations(Eligible(F))) = Cardinality(TrueInstallations(BoundEvents(E)))
          /\ Cardinality(Installations(Incidents(F))) = Cardinality(TrueInstallations(BoundIncidents(E)))
        BY <1>5, <2>1, <2>2, <2>3, <2>4, PhonesCounted
    <2> QED BY <1>2, <1>3, <1>7, <2>5 DEF E
<1> QED BY <1>6, <1>7

LEMMA InstallationsFollow == FactsHeld => InstallationsAreTrue
<1> SUFFICES ASSUME FactsHeld PROVE InstallationsAreTrue
    OBVIOUS
<1>1. ASSUME NEW p \in Pairs, NEW h \in GetReleaseHealth(p[1], p[2]), NEW r \in {p[1], p[2]}
      PROVE  LET E == BoundEvents(OfRelease(r)) IN
             /\ h.slice[r].active.value \in {Null, Cardinality(TrueInstallations(E))}
             /\ h.slice[r].affected.value
                   \in {Null, Cardinality(TrueInstallations(BoundIncidents(E)))}
    <2>1. BoundIncidents(BoundEvents(OfRelease(r))) = BoundIncidents(OfRelease(r))
        BY DEF BoundIncidents, BoundEvents
    <2> QED BY <2>1, SliceInstallations
<1>2. ASSUME NEW r \in Release, NEW list \in GetTopFingerprints(r, Limit), NEW i \in list.items
      PROVE  i.installations \in {Null, Cardinality(TrueInstallations(
                 {e \in BoundIncidents(OfRelease(r)) :
                     rows[e].fingerprint = i.fingerprint /\ rows[e].kind = i.kind}))}
    <2> DEFINE E == OfRelease(r)
               F == FactsOf(E)
               G == FamilyOf(F, i.fingerprint, i.kind)
    <2>1. list = TopFingerprints(F, Limit)
        BY DEF GetTopFingerprints, LoadWindowFacts
    <2>2. i.installations = InstallationCount(G, ContinuityBroken(Eligible(F))) /\ G # {}
        BY <2>1, ListedItem
    <2>3. i.fingerprint # NoFingerprint
        BY <2>2 DEF FamilyOf
    <2>4. E \subseteq DOMAIN rows /\ IsFiniteSet(E)
        BY WindowFinite
    <2>5. EventsOf(E, G) = {e \in BoundIncidents(E) :
                               rows[e].fingerprint = i.fingerprint /\ rows[e].kind = i.kind}
        BY <2>3, <2>4, FamilyEvents
    <2>6. G \subseteq Eligible(F) /\ Eligible(F) \subseteq F
        BY DEF FamilyOf, Incidents, Eligible
    <2> HIDE DEF G, E
    <2>7. InstallationCount(G, ContinuityBroken(Eligible(F)))
             \in {Null, Cardinality(TrueInstallations(EventsOf(E, G)))}
        BY <2>4, <2>6, CountIsTrue
    <2> QED BY <2>2, <2>5, <2>7 DEF E
<1>3. ASSUME NEW fp \in Issues, NEW issue \in GetIssueDetail(fp)
      PROVE  LET E == BoundIncidents(OfIssue(fp)) IN
             /\ issue.installations \in {Null, Cardinality(TrueInstallations(E))}
             /\ \A i \in issue.releases.items :
                   i.installations
                      \in {Null, Cardinality(TrueInstallations(E \cap OfRelease(i.label)))}
    <2> DEFINE E == OfIssue(fp)
               F == FactsOf(E)
               I == Incidents(F)
               label == [f \in I |-> f.release]
               availability == [f \in I |-> "AVAILABLE"]
    <2>1. issue = IssueDetail(F)
        BY DEF GetIssueDetail, LoadWindowFacts
    <2>2. /\ issue.installations = InstallationCount(I, ContinuityBroken(I))
          /\ issue.releases = IssueDistribution(I, label, availability)
        BY <2>1, IssueIs
    <2>3. E \subseteq DOMAIN rows /\ IsFiniteSet(E) /\ E \subseteq WindowEvents
        BY WindowFinite DEF OfIssue
    <2>4. I \subseteq F
        BY DEF Incidents, Eligible
    <2> HIDE DEF E
    <2>5. EventsOf(E, I) = BoundIncidents(E)
        BY <2>3, IncidentEvents
    <2>6. InstallationCount(I, ContinuityBroken(I))
             \in {Null, Cardinality(TrueInstallations(EventsOf(E, I)))}
        BY <2>3, <2>4, CountIsTrue
    <2>7. ASSUME NEW i \in issue.releases.items
          PROVE  i.installations
                    \in {Null, Cardinality(TrueInstallations(BoundIncidents(E) \cap OfRelease(i.label)))}
        <3> DEFINE G == Labelled(I, label, availability, i.label)
        <3>1. i.installations = InstallationCount(G, ContinuityBroken(I))
            <4> HIDE DEF label, availability, I
            <4> QED BY <2>2, DistributionItem
        <3>2. G = {f \in I : f.release = i.label}
            BY DEF Labelled
        <3>3. \A e \in E : FactFor(E, e).release = rows[e].release
            BY <2>3, FactIsTrue
        <3> HIDE DEF G, I
        <3>4. EventsOf(E, G) = {e \in EventsOf(E, I) : rows[e].release = i.label}
            BY <3>2, <3>3 DEF EventsOf
        <3>5. EventsOf(E, G) = BoundIncidents(E) \cap OfRelease(i.label)
            BY <2>3, <2>5, <3>4 DEF OfRelease, BoundIncidents
        <3>6. InstallationCount(G, ContinuityBroken(I))
                 \in {Null, Cardinality(TrueInstallations(EventsOf(E, G)))}
            BY <2>3, <2>4, <3>2, CountIsTrue
        <3> QED BY <3>1, <3>5, <3>6
    <2> QED BY <2>2, <2>5, <2>6, <2>7 DEF E
<1> QED BY <1>1, <1>2, <1>3 DEF InstallationsAreTrue

(* The numbers of installations of release health, of the list of          *)
(* fingerprints and of an Issue and its releases are numbers of phones:    *)
(* when the HMAC key was rotated inside the data of a view, or a row has   *)
(* no key version, the number is withheld.                                 *)
THEOREM InstallationsTrue == FactSpec => []InstallationsAreTrue
BY InstallationsFollow, FactsInductive, PTL
-----------------------------------------------------------------------------
(* The ratio.                                                              *)

(* A part that counts as much as the whole is the whole.                   *)
LEMMA AllCounted ==
    ASSUME NEW E, IsFiniteSet(E), NEW B, B \subseteq FactsOf(E), NEW A, A \subseteq B,
           ~(SampleCount(A) < SampleCount(B))
    PROVE  A = B
<1>1. /\ SampleCount(A) = Cardinality(EventsOf(E, A)) /\ SampleCount(A) \in Nat
      /\ SampleCount(B) = Cardinality(EventsOf(E, B)) /\ SampleCount(B) \in Nat
      /\ IsFiniteSet(EventsOf(E, B))
    BY CountsEvents
<1>2. EventsOf(E, A) \in SUBSET EventsOf(E, B)
    BY DEF EventsOf
<1>3. Cardinality(EventsOf(E, A)) <= Cardinality(EventsOf(E, B))
      /\ (Cardinality(EventsOf(E, B)) = Cardinality(EventsOf(E, A))
             => EventsOf(E, B) = EventsOf(E, A))
    BY <1>1, <1>2, FS_Subset
<1>4. EventsOf(E, B) = EventsOf(E, A)
    BY <1>1, <1>3
<1>5. ASSUME NEW f \in B PROVE f \in A
    <2>1. PICK e \in E : f = FactFor(E, e)
        BY FactsAre
    <2> QED BY <1>4, <2>1 DEF EventsOf
<1> QED BY <1>5

(* The largest number among the events of a group is at least that of each.*)
LEMMA GreatestOfGroup ==
    ASSUME NEW E, IsFiniteSet(E), NEW number, \A d \in E : number[d] \in Int,
           NEW e \in E, NEW S, \A x : x \in S <=> \E d \in GroupOf(E, e) : x = number[d]
    PROVE  Max(S) \in S /\ number[e] <= Max(S) /\ Max(S) \in Int
<1>1. e \in GroupOf(E, e) /\ GroupOf(E, e) \subseteq E
    BY DEF GroupOf
<1>2. IsFiniteSet(GroupOf(E, e))
    BY <1>1, FS_Subset
<1>3. IsFiniteSet(S)
    <2> DEFINE s == [d \in GroupOf(E, e) |-> number[d]]
    <2>1. s \in Surjection(GroupOf(E, e), S)
        BY DEF Surjection
    <2> QED BY <1>2, <2>1, FS_Surjection
<1>4. number[e] \in S /\ S \subseteq Int
    BY <1>1
<1>5. Max(S) \in S /\ \A y \in S : y <= Max(S)
    BY <1>3, <1>4, GreatestExists
<1> QED BY <1>4, <1>5

(* A counter of a row is that of its report, before and after pruning.     *)
LEMMA CountersTrue ==
    ASSUME FactsHeld, NEW e \in DOMAIN rows, NEW field
    PROVE  /\ Number(rows[e], field) \in Int
           /\ Number(rows[e], field) >= 0 => Number(rows[e], field) = reported[e].fields[field]
<1>1. reported[e] \in Report /\ RowTrue(e)
    BY DEF FactsHeld, HealthTypeOK, RowTypeOK
<1> DEFINE R == RegisteredFields(reported[e])
<1>2. \A f \in DOMAIN R : R[f] = reported[e].fields[f] /\ f \in DOMAIN reported[e].fields
    BY FieldStatesTell
<1>3. RetainedFields(R) \subseteq DOMAIN R
    BY DEF RetainedFields
<1>4. rows[e].registered = R
         \/ rows[e].registered = [f \in RetainedFields(R) |-> reported[e].fields[f]]
    BY <1>1 DEF RowTrue
<1> HIDE DEF R
<1>5. \A f \in DOMAIN rows[e].registered :
         rows[e].registered[f] = reported[e].fields[f] /\ f \in DOMAIN reported[e].fields
    BY <1>2, <1>3, <1>4
<1>6. \A f \in DOMAIN reported[e].fields : reported[e].fields[f] \in Int
    BY <1>1, ReportFields
<1> QED BY <1>5, <1>6 DEF Number, Null

(* A report of an SDK that counts as valid and without drops says so.      *)
LEMMA CleanReport ==
    ASSUME FactsHeld, NEW E, E \subseteq DOMAIN rows, IsFiniteSet(E), NEW e \in E,
           HealthFactIsValid(FactFor(E, e)),
           ~(FactFor(E, e).drops > 0), ~(FactFor(E, e).rate > 0)
    PROVE  /\ ValidHealth(rows[e])
           /\ reported[e].fields["dropCount"] = 0 /\ reported[e].fields["dropRate"] = 0
<1> DEFINE f == FactFor(E, e)
           drops == [d \in E |-> Number(rows[d], "dropCount")]
           rates == [d \in E |-> Number(rows[d], "dropRate")]
<1>1. TellsOf(f, e) /\ Aggregates(f, E, e)
    BY FactTells
<1>2. ValidHealth(rows[e])
    BY <1>1 DEF TellsOf, HealthFactIsValid
<1>3. \A d \in E : Number(rows[d], "dropCount") \in Int /\ Number(rows[d], "dropRate") \in Int
    BY CountersTrue
<1>4. \A d \in E : drops[d] \in Int /\ rates[d] \in Int
    BY <1>3
<1>5. f.drops = Max({Number(rows[d], "dropCount") : d \in GroupOf(E, e)})
      /\ f.rate = Max({Number(rows[d], "dropRate") : d \in GroupOf(E, e)})
    BY <1>1 DEF Aggregates
<1>6. GroupOf(E, e) \subseteq E
    BY DEF GroupOf
<1>7. drops[e] <= f.drops /\ f.drops \in Int
    <2> DEFINE S == {Number(rows[d], "dropCount") : d \in GroupOf(E, e)}
    <2>1. \A x : x \in S <=> \E d \in GroupOf(E, e) : x = drops[d]
        BY <1>6
    <2>2. f.drops = Max(S)
        BY <1>5
    <2> HIDE DEF S, drops
    <2> QED BY <1>4, <2>1, <2>2, GreatestOfGroup
<1>8. rates[e] <= f.rate /\ f.rate \in Int
    <2> DEFINE S == {Number(rows[d], "dropRate") : d \in GroupOf(E, e)}
    <2>1. \A x : x \in S <=> \E d \in GroupOf(E, e) : x = rates[d]
        BY <1>6
    <2>2. f.rate = Max(S)
        BY <1>5
    <2> HIDE DEF S, rates
    <2> QED BY <1>4, <2>1, <2>2, GreatestOfGroup
<1>9. Number(rows[e], "dropCount") >= 0 /\ Number(rows[e], "dropRate") >= 0
    BY <1>2 DEF ValidHealth
<1>10. Number(rows[e], "dropCount") = 0 /\ Number(rows[e], "dropRate") = 0
    BY <1>3, <1>7, <1>8, <1>9
<1> QED BY <1>2, <1>9, <1>10, CountersTrue

(* What the gate has seen when it is open.                                 *)
LEMMA GateOpen ==
    ASSUME NEW F, GateState(F) = "PRESENT"
    PROVE  /\ Eligible(F) # {}
           /\ ~(SampleCount(Eligible(F)) < SampleCount(F))
           /\ ~(SampleCount(Identified(Eligible(F))) < SampleCount(Eligible(F)))
           /\ Dropped(Eligible(F)) = {}
           /\ \A f \in Eligible(F) : ~f.late
           /\ \A f \in OfKind(Eligible(F), "sdk_health") : HealthFactIsValid(f)
           /\ ~(100 * Cardinality(Installations({f \in OfKind(Eligible(F), "sdk_health") :
                                                    HealthFactIsValid(f)}))
                   < MinHealthCoverage * Cardinality(Installations(Eligible(F))))
           /\ ~(Cardinality(Installations(Eligible(F))) < MinInstallations)
<1> DEFINE quality == QualityState(F)
           sdk == SdkHealthMetric(Eligible(F)).state
           active == Installations(Eligible(F))
           healthy == Installations({f \in OfKind(Eligible(F), "sdk_health") : HealthFactIsValid(f)})
<1> HIDE DEF quality, sdk, active, healthy
<1>1. GateState(F) =
         CASE quality # "PRESENT" -> quality
           [] quality = "PRESENT" /\ sdk \notin {"PRESENT", "ZERO"} -> sdk
           [] OTHER ->
              IF active = {} \/ 100 * Cardinality(healthy) < MinHealthCoverage * Cardinality(active)
              THEN "UNKNOWN_COVERAGE"
              ELSE IF Cardinality(active) < MinInstallations THEN "UNAVAILABLE" ELSE "PRESENT"
    BY DEF GateState, quality, sdk, active, healthy
<1>2. /\ quality = "PRESENT" /\ sdk \in {"PRESENT", "ZERO"}
      /\ ~(100 * Cardinality(healthy) < MinHealthCoverage * Cardinality(active))
      /\ ~(Cardinality(active) < MinInstallations)
    BY <1>1
<1>3. /\ Eligible(F) # {}
      /\ ~(SampleCount(Eligible(F)) < SampleCount(F))
      /\ ~(SampleCount(Identified(Eligible(F))) < SampleCount(Eligible(F)))
      /\ Dropped(Eligible(F)) = {} /\ \A f \in Eligible(F) : ~f.late
    <2>1. QualityState(F) = "PRESENT"
        BY <1>2 DEF quality
    <2>2. F # {} /\ Eligible(F) # {}
        BY <2>1 DEF QualityState
    <2>3. QualityState(F) = IF \/ SampleCount(Eligible(F)) < SampleCount(F)
                               \/ SampleCount(Identified(Eligible(F))) < SampleCount(Eligible(F))
                               \/ Dropped(Eligible(F)) # {}
                            THEN "DEGRADED"
                            ELSE IF \E f \in Eligible(F) : f.late THEN "LATE" ELSE "PRESENT"
        BY <2>2 DEF QualityState
    <2> QED BY <2>1, <2>2, <2>3
<1>4. \A f \in OfKind(Eligible(F), "sdk_health") : HealthFactIsValid(f)
    BY <1>2 DEF sdk, SdkHealthMetric, Metric
<1> QED BY <1>2, <1>3, <1>4 DEF active, healthy

(* A ratio of the answer is that of an open gate, with one key version.    *)
LEMMA RatioPublished ==
    ASSUME FactsHeld, NEW a, NEW b, NEW r \in {a, b}, NEW h \in GetReleaseHealth(a, b),
           h.slice[r].ratio.value # NoRatio
    PROVE  LET F == FactsOf(OfRelease(r)) IN
           /\ ~BothBroken(a, b) /\ GateState(F) = "PRESENT"
           /\ h.slice[r].ratio.value = <<Cardinality(Installations(Incidents(F))),
                                         Cardinality(Installations(Eligible(F)))>>
<1> DEFINE E == OfRelease(r)
           F == FactsOf(E)
           s == SliceOf(r)
<1>1. s.ratio = RatioMetric(F) /\ s.eligible = SampleCount(Eligible(F))
    BY DEF SliceOf, ReleaseSlice
<1>2. h.slice[r] = IF BothBroken(a, b) THEN Withhold(s) ELSE s
    BY SliceIs
<1>3. IsWithheld(Withhold(s), s)
    BY WithheldSlice DEF SliceOf
<1>4. E \subseteq DOMAIN rows /\ IsFiniteSet(E)
    BY WindowFinite
<1> HIDE DEF s, E
<1>5. s.eligible = 0 <=> Eligible(F) = {}
    BY <1>1, <1>4, CountsEvents, EligibleEvents
<1> HIDE DEF F
<1>6. s.ratio.value # NoRatio =>
         /\ GateState(F) = "PRESENT"
         /\ s.ratio.value = <<Cardinality(Installations(Incidents(F))),
                              Cardinality(Installations(Eligible(F)))>>
    BY <1>1 DEF RatioMetric, Metric
<1>7. CASE BothBroken(a, b)
    <2>1. CASE s.eligible = 0
        <3>1. h.slice[r].ratio.value = s.ratio.value
            BY <1>2, <1>3, <1>7, <2>1 DEF IsWithheld
        <3> QED BY <1>5, <1>6, <2>1, <3>1, GateOpen
    <2>2. CASE s.eligible # 0
        BY <1>2, <1>3, <1>7, <2>2 DEF IsWithheld, Metric
    <2> QED BY <2>1, <2>2
<1>8. CASE ~BothBroken(a, b)
    BY <1>2, <1>6, <1>8 DEF F, E
<1> QED BY <1>7, <1>8

LEMMA RatioFollows == FactsHeld => RatioIsEarned
<1> SUFFICES ASSUME FactsHeld,
                    NEW p \in Pairs, NEW h \in GetReleaseHealth(p[1], p[2]),
                    NEW r \in {p[1], p[2]}, h.slice[r].ratio.value # NoRatio
             PROVE  LET E       == OfRelease(r)
                        health  == {e \in E : reported[e].kind = "sdk_health"}
                        clean   == {e \in health : /\ ValidHealth(rows[e])
                                                   /\ reported[e].fields["dropCount"] = 0
                                                   /\ reported[e].fields["dropRate"] = 0}
                        active  == TrueInstallations(E)
                    IN /\ \A e \in E : /\ reported[e].bound
                                       /\ reported[e].installation # NoInstallation
                                       /\ reported[e].received - OccurrenceTime(reported[e])
                                             <= LateAfter
                       /\ health = clean
                       /\ 100 * Cardinality(TrueInstallations(clean))
                             >= MinHealthCoverage * Cardinality(active)
                       /\ Cardinality(active) >= MinInstallations
                       /\ h.slice[r].ratio.value =
                             <<Cardinality(TrueInstallations(BoundIncidents(E))),
                               Cardinality(active)>>
    BY DEF RatioIsEarned
<1> DEFINE E == OfRelease(r)
           F == FactsOf(E)
           health  == {e \in E : reported[e].kind = "sdk_health"}
           clean   == {e \in health : /\ ValidHealth(rows[e])
                                      /\ reported[e].fields["dropCount"] = 0
                                      /\ reported[e].fields["dropRate"] = 0}
           H == OfKind(F, "sdk_health")
<1>1. /\ ~BothBroken(p[1], p[2]) /\ GateState(F) = "PRESENT"
      /\ h.slice[r].ratio.value = <<Cardinality(Installations(Incidents(F))),
                                    Cardinality(Installations(Eligible(F)))>>
    BY RatioPublished
<1>2. OneVersion(Eligible(F))
    BY <1>1, SliceVersion
<1>3. E \subseteq DOMAIN rows /\ IsFiniteSet(E)
    BY WindowFinite
<1> HIDE DEF E
<1>4. Eligible(F) = F
    <2>1. ~(SampleCount(Eligible(F)) < SampleCount(F))
        BY <1>1, GateOpen
    <2>2. Eligible(F) \subseteq F
        BY DEF Eligible
    <2> QED BY <1>3, <2>1, <2>2, AllCounted
<1>5. Identified(F) = F
    <2>1. ~(SampleCount(Identified(F)) < SampleCount(F))
        BY <1>1, <1>4, GateOpen
    <2>2. Identified(F) \subseteq F
        BY DEF Identified
    <2> QED BY <1>3, <2>1, <2>2, AllCounted
<1>6. /\ Dropped(F) = {} /\ \A f \in F : ~f.late
      /\ \A f \in H : HealthFactIsValid(f)
      /\ ~(100 * Cardinality(Installations({f \in H : HealthFactIsValid(f)}))
              < MinHealthCoverage * Cardinality(Installations(F)))
      /\ ~(Cardinality(Installations(F)) < MinInstallations)
    BY <1>1, <1>4, GateOpen
<1>7. {f \in H : HealthFactIsValid(f)} = H
    BY <1>6
<1>8. ASSUME NEW e \in E
      PROVE  /\ FactFor(E, e) \in F /\ FactFor(E, e).kind = reported[e].kind
             /\ FactFor(E, e).bound = reported[e].bound
             /\ FactFor(E, e).hmac = rows[e].hmac
             /\ FactFor(E, e).late =
                   (reported[e].received - OccurrenceTime(reported[e]) > LateAfter)
             /\ PseudonymTrue(e) /\ reported[e] \in Report
    BY <1>3, FactIsTrue DEF FactsHeld, HealthTypeOK, RowTypeOK
<1> HIDE DEF F
<1>9. ASSUME NEW e \in E
      PROVE  /\ reported[e].bound /\ reported[e].installation # NoInstallation
             /\ reported[e].received - OccurrenceTime(reported[e]) <= LateAfter
    <2>1. FactFor(E, e).bound /\ FactFor(E, e).hmac # NoHmac /\ ~FactFor(E, e).late
        BY <1>4, <1>5, <1>6, <1>8 DEF Eligible, Identified
    <2>2. OccurrenceTime(reported[e]) \in Int /\ reported[e].received \in Int
        BY <1>8, ReportFields, OccurrenceIsTime
    <2>3. LateAfter \in Int
        BY FactAssumption
    <2>4. ~(reported[e].received - OccurrenceTime(reported[e]) > LateAfter)
        BY <1>8, <2>1
    <2>5. reported[e].installation # NoInstallation
        BY <1>8, <2>1 DEF PseudonymTrue
    <2> QED BY <1>8, <2>1, <2>2, <2>3, <2>4, <2>5
<1>10. health = clean
    <2> SUFFICES ASSUME NEW e \in E, reported[e].kind = "sdk_health"
                 PROVE  /\ ValidHealth(rows[e]) /\ reported[e].fields["dropCount"] = 0
                        /\ reported[e].fields["dropRate"] = 0
        OBVIOUS
    <2>1. FactFor(E, e) \in H
        BY <1>8 DEF OfKind
    <2>2. HealthFactIsValid(FactFor(E, e))
          /\ ~(FactFor(E, e).drops > 0) /\ ~(FactFor(E, e).rate > 0)
        BY <1>6, <2>1 DEF Dropped
    <2> QED BY <1>3, <2>2, CleanReport
<1>11. EventsOf(E, F) = E /\ EventsOf(E, H) = health /\ EventsOf(E, Incidents(F)) = BoundIncidents(E)
    <2>1. EventsOf(E, Incidents(F)) = BoundIncidents(E)
        BY <1>3, IncidentEvents DEF F
    <2> QED BY <1>8, <2>1 DEF EventsOf, OfKind
<1>12. H \subseteq F /\ Incidents(F) \subseteq F
    BY DEF OfKind, Incidents, Eligible
<1>13. OneVersion(F) /\ OneVersion(H) /\ OneVersion(Incidents(F))
    BY <1>2, <1>4, <1>12 DEF OneVersion, Identified
<1> HIDE DEF H
<1>14. /\ Cardinality(Installations(F)) = Cardinality(TrueInstallations(E))
       /\ Cardinality(Installations(H)) = Cardinality(TrueInstallations(health))
       /\ Cardinality(Installations(Incidents(F))) = Cardinality(TrueInstallations(BoundIncidents(E)))
       /\ IsFiniteSet(Installations(F)) /\ IsFiniteSet(Installations(H))
    <2>1. F \subseteq FactsOf(E) /\ H \subseteq FactsOf(E) /\ Incidents(F) \subseteq FactsOf(E)
        BY <1>12 DEF F
    <2> HIDE DEF health
    <2> QED BY <1>3, <1>11, <1>13, <2>1, PhonesCounted
<1>15. Cardinality(Installations(F)) \in Nat /\ Cardinality(Installations(H)) \in Nat
    BY <1>14, FS_CardinalityType
<1>16. ~(100 * Cardinality(Installations(H)) < MinHealthCoverage * Cardinality(Installations(F)))
    BY <1>6, <1>7
<1> HIDE DEF health, clean
<1>17. /\ 100 * Cardinality(TrueInstallations(clean)) >= MinHealthCoverage * Cardinality(TrueInstallations(E))
       /\ Cardinality(TrueInstallations(E)) >= MinInstallations
    <2> DEFINE x == Cardinality(Installations(H))
               y == Cardinality(Installations(F))
    <2>1. x = Cardinality(TrueInstallations(clean)) /\ y = Cardinality(TrueInstallations(E))
        BY <1>10, <1>14
    <2>2. x \in Nat /\ y \in Nat /\ ~(100 * x < MinHealthCoverage * y) /\ ~(y < MinInstallations)
        BY <1>6, <1>15, <1>16
    <2> HIDE DEF x, y
    <2>3. 100 * x >= MinHealthCoverage * y /\ y >= MinInstallations
        <3>1. MinHealthCoverage * y \in Int /\ 100 * x \in Int /\ MinInstallations \in Int
            BY <2>2, GateAssumption
        <3> QED BY <2>2, <3>1
    <2> QED BY <2>1, <2>3
<1>18. h.slice[r].ratio.value =
          <<Cardinality(TrueInstallations(BoundIncidents(E))), Cardinality(TrueInstallations(E))>>
    BY <1>1, <1>4, <1>14
<1> QED BY <1>9, <1>10, <1>17, <1>18 DEF E, health, clean

(* A published ratio was earned: every event of the release is bound to    *)
(* its occurrence, carries an installation and came in time, every SDK     *)
(* report is usable and without drops, the reports cover enough of the     *)
(* installations, there are enough of these, and the ratio is the true one.*)
THEOREM RatiosEarned == FactSpec => []RatioIsEarned
BY RatioFollows, FactsInductive, PTL
-----------------------------------------------------------------------------
(* Scenes.                                                                 *)

(* What a row says of its scene.                                           *)
LEMMA SceneTells ==
    ASSUME FactsHeld, NEW e \in DOMAIN rows
    PROVE  LET state == SceneState(rows[e])
               sent  == reported[e].scene # NoScene
           IN /\ state = "AVAILABLE" <=> sent /\ ~rows[e].pruned
              /\ state = "EXPIRED" <=> sent /\ rows[e].pruned /\ e \notin Legacy
              /\ state = "MISSING" <=> ~sent /\ e \notin Legacy
              /\ state = "RETENTION_UNKNOWN" <=> e \in Legacy
              /\ state \in {"AVAILABLE", "EXPIRED", "MISSING", "RETENTION_UNKNOWN"}
              /\ ~rows[e].pruned => rows[e].scene = reported[e].scene
<1>1. RowTrue(e)
    BY DEF FactsHeld
<1>2. /\ rows[e].pruned \in BOOLEAN
      /\ rows[e].scene = IF rows[e].pruned THEN NoScene ELSE reported[e].scene
      /\ e \in Legacy => rows[e].pruned
      /\ rows[e].pruned => rows[e].retention = IF e \in Legacy THEN "none"
                              ELSE IF reported[e].scene # NoScene THEN "EXPIRED" ELSE "MISSING"
    BY <1>1 DEF RowTrue
<1> QED BY <1>2 DEF SceneState

(* The incidents of an Issue, by what their facts say.                     *)
LEMMA IssueFacts ==
    ASSUME FactsHeld, NEW fp, NEW issue \in GetIssueDetail(fp)
    PROVE  LET E == OfIssue(fp)
               I == Incidents(FactsOf(E))
           IN /\ issue = IssueDetail(FactsOf(E))
              /\ E \subseteq DOMAIN rows /\ IsFiniteSet(E) /\ E \subseteq WindowEvents
              /\ I \subseteq FactsOf(E) /\ EventsOf(E, I) = BoundIncidents(E)
<1>1. issue = IssueDetail(FactsOf(OfIssue(fp)))
    BY DEF GetIssueDetail, LoadWindowFacts
<1>2. /\ OfIssue(fp) \subseteq DOMAIN rows /\ IsFiniteSet(OfIssue(fp))
      /\ OfIssue(fp) \subseteq WindowEvents
    BY WindowFinite DEF OfIssue
<1>3. Incidents(FactsOf(OfIssue(fp))) \subseteq FactsOf(OfIssue(fp))
    BY DEF Incidents, Eligible
<1>4. EventsOf(OfIssue(fp), Incidents(FactsOf(OfIssue(fp)))) = BoundIncidents(OfIssue(fp))
    BY <1>2, IncidentEvents
<1> QED BY <1>1, <1>2, <1>3, <1>4

LEMMA ScenesFollow == FactsHeld => ScenesAccounted
<1> SUFFICES ASSUME FactsHeld, NEW fp \in Issues, NEW issue \in GetIssueDetail(fp)
             PROVE  LET E     == BoundIncidents(OfIssue(fp))
                        sent  == {e \in E : reported[e].scene # NoScene}
                        kept  == {e \in sent : ~rows[e].pruned}
                        cover == issue.scenes.coverage
                    IN /\ cover["AVAILABLE"] = Cardinality(kept)
                       /\ cover["EXPIRED"] = Cardinality((sent \ kept) \ Legacy)
                       /\ cover["MISSING"] = Cardinality((E \ sent) \ Legacy)
                       /\ cover["RETENTION_UNKNOWN"] = Cardinality(E \cap Legacy)
                       /\ \A i \in issue.scenes.items :
                             i.count = Cardinality({e \in kept : reported[e].scene = i.label})
                       /\ issue.scenes.state = "PRESENT" => kept = E
    BY DEF ScenesAccounted
<1> DEFINE D     == OfIssue(fp)
           F     == FactsOf(D)
           I     == Incidents(F)
           E     == BoundIncidents(D)
           sent  == {e \in E : reported[e].scene # NoScene}
           kept  == {e \in sent : ~rows[e].pruned}
           label == [f \in I |-> f.scene]
           availability == [f \in I |-> f.sceneState]
           Told(a) == {f \in I : availability[f] = a}
           Of(a) == {e \in E : SceneState(rows[e]) = a}
<1>1. /\ issue = IssueDetail(F) /\ D \subseteq DOMAIN rows /\ IsFiniteSet(D)
      /\ I \subseteq F /\ EventsOf(D, I) = E
    BY IssueFacts
<1>2. issue.scenes = IssueDistribution(I, label, availability)
    BY <1>1, IssueIs
<1>3. E \subseteq D
    BY DEF BoundIncidents
<1> HIDE DEF D
<1>4. \A e \in D : FactFor(D, e).sceneState = SceneState(rows[e])
                   /\ FactFor(D, e).scene = rows[e].scene
    <2>1. \A e \in D : TellsOf(FactFor(D, e), e)
        BY FactTells
    <2> QED BY <2>1 DEF TellsOf
<1> HIDE DEF E, F, I
<1>5. ASSUME NEW a
      PROVE  /\ SampleCount(Told(a)) = Cardinality(Of(a)) /\ SampleCount(Told(a)) \in Nat
             /\ SampleCount(Told(a)) = 0 <=> Told(a) = {}
             /\ EventsOf(D, Told(a)) = Of(a)
    <2>1. Told(a) = {f \in I : f.sceneState = a}
        OBVIOUS
    <2>2. EventsOf(D, Told(a)) = {e \in EventsOf(D, I) : SceneState(rows[e]) = a}
        BY <1>4, <2>1 DEF EventsOf
    <2>3. EventsOf(D, Told(a)) = Of(a)
        BY <1>1, <2>2
    <2>4. Told(a) \subseteq FactsOf(D)
        BY <1>1, <2>1 DEF F
    <2> HIDE DEF Told, Of
    <2> QED BY <1>1, <2>3, <2>4, CountsEvents
<1>6. \A e \in E : SceneState(rows[e]) \in {"AVAILABLE", "EXPIRED", "MISSING", "RETENTION_UNKNOWN"}
    BY <1>1, <1>3, SceneTells
<1>7. /\ Of("AVAILABLE") = kept /\ Of("EXPIRED") = (sent \ kept) \ Legacy
      /\ Of("MISSING") = (E \ sent) \ Legacy /\ Of("RETENTION_UNKNOWN") = E \cap Legacy
    <2>1. ASSUME NEW e \in E
          PROVE  LET state == SceneState(rows[e])
                     said  == reported[e].scene # NoScene
                 IN /\ state = "AVAILABLE" <=> said /\ ~rows[e].pruned
                    /\ state = "EXPIRED" <=> said /\ rows[e].pruned /\ e \notin Legacy
                    /\ state = "MISSING" <=> ~said /\ e \notin Legacy
                    /\ state = "RETENTION_UNKNOWN" <=> e \in Legacy
        BY <1>1, <1>3, SceneTells
    <2> QED BY <2>1
<1>8. ASSUME NEW a \in {"AVAILABLE", "MISSING", "EXPIRED", "RETENTION_UNKNOWN"}
      PROVE  issue.scenes.coverage[a] = SampleCount(Told(a))
    <2> HIDE DEF label, availability
    <2> QED BY <1>2 DEF IssueDistribution
<1>9. ASSUME NEW i \in issue.scenes.items
      PROVE  i.count = Cardinality({e \in kept : reported[e].scene = i.label})
    <2> DEFINE G == Labelled(I, label, availability, i.label)
    <2>1. i.count = SampleCount(G)
        <3> HIDE DEF label, availability
        <3> QED BY <1>2, DistributionItem
    <2>2. G = {f \in I : f.sceneState = "AVAILABLE" /\ f.scene = i.label}
        BY DEF Labelled
    <2>3. EventsOf(D, G) = {e \in EventsOf(D, I) : SceneState(rows[e]) = "AVAILABLE"
                                                   /\ rows[e].scene = i.label}
        BY <1>4, <2>2 DEF EventsOf
    <2>4. EventsOf(D, G) = {e \in Of("AVAILABLE") : rows[e].scene = i.label}
        BY <1>1, <2>3
    <2>5. \A e \in kept : rows[e].scene = reported[e].scene
        BY <1>1, <1>3, SceneTells
    <2>6. EventsOf(D, G) = {e \in kept : reported[e].scene = i.label}
        BY <1>7, <2>4, <2>5
    <2>7. G \subseteq FactsOf(D)
        BY <1>1, <2>2 DEF F
    <2> HIDE DEF G
    <2>8. SampleCount(G) = Cardinality(EventsOf(D, G))
        BY <1>1, <2>7, CountsEvents
    <2> QED BY <2>1, <2>6, <2>8
<1>10. issue.scenes.state = "PRESENT" => kept = E
    <2> SUFFICES ASSUME issue.scenes.state = "PRESENT" PROVE kept = E
        OBVIOUS
    <2> DEFINE lost == SampleCount(Told("EXPIRED")) + SampleCount(Told("MISSING"))
                          + SampleCount(Told("RETENTION_UNKNOWN"))
    <2>1. ~(lost > 0)
        <3> HIDE DEF label, availability
        <3> QED BY <1>2 DEF IssueDistribution
    <2>2. /\ SampleCount(Told("EXPIRED")) = 0 /\ SampleCount(Told("MISSING")) = 0
          /\ SampleCount(Told("RETENTION_UNKNOWN")) = 0
        <3> HIDE DEF Told
        <3>1. /\ SampleCount(Told("EXPIRED")) \in Nat /\ SampleCount(Told("MISSING")) \in Nat
              /\ SampleCount(Told("RETENTION_UNKNOWN")) \in Nat
            BY <1>5
        <3> QED BY <2>1, <3>1
    <2>3. Told("EXPIRED") = {} /\ Told("MISSING") = {} /\ Told("RETENTION_UNKNOWN") = {}
        <3> HIDE DEF Told
        <3> QED BY <1>5, <2>2
    <2>4. Of("EXPIRED") = {} /\ Of("MISSING") = {} /\ Of("RETENTION_UNKNOWN") = {}
        <3>1. EventsOf(D, {}) = {}
            BY DEF EventsOf
        <3> HIDE DEF Told, Of
        <3> QED BY <1>5, <2>3, <3>1
    <2>5. Of("AVAILABLE") = E
        BY <1>6, <2>4
    <2> QED BY <1>7, <2>5
<1>11. /\ issue.scenes.coverage["AVAILABLE"] = Cardinality(kept)
       /\ issue.scenes.coverage["EXPIRED"] = Cardinality((sent \ kept) \ Legacy)
       /\ issue.scenes.coverage["MISSING"] = Cardinality((E \ sent) \ Legacy)
       /\ issue.scenes.coverage["RETENTION_UNKNOWN"] = Cardinality(E \cap Legacy)
    <2> HIDE DEF Told, Of, sent, kept
    <2> QED BY <1>5, <1>7, <1>8
<1> QED BY <1>9, <1>10, <1>11 DEF E, D
-----------------------------------------------------------------------------
(* Trends.                                                                 *)

(* Every time of the window lies in a bucket.                              *)
LEMMA BucketIsPositive == QueryBucket \in Nat \ {0}
<1> DEFINE raw == (To - From + MaxBuckets - 1) \div MaxBuckets
           rounded == ((raw + Minute - 1) \div Minute) * Minute
           S == {Minute, rounded}
<1>1. /\ To - From + MaxBuckets - 1 \in Nat /\ MaxBuckets \in Nat \ {0}
      /\ Minute \in Nat \ {0}
    BY FactAssumption
<1>2. raw \in Nat
    BY <1>1
<1> HIDE DEF raw
<1>3. rounded \in Int
    BY <1>1, <1>2
<1> HIDE DEF rounded
<1>4. IsFiniteSet(S) /\ S # {} /\ S \subseteq Int
    <2>1. IsFiniteSet({Minute} \cup {rounded})
        BY FS_Singleton, FS_AddElement
    <2>2. S = {Minute} \cup {rounded}
        OBVIOUS
    <2> QED BY <1>1, <1>3, <2>1, <2>2
<1>5. Max(S) \in S /\ \A y \in S : y <= Max(S)
    BY <1>4, GreatestExists
<1>6. Max(S) \in Int /\ Minute <= Max(S)
    BY <1>4, <1>5
<1>7. QueryBucket = Max(S)
    BY DEF QueryBucket, rounded, raw
<1> QED BY <1>1, <1>6, <1>7

LEMMA InSomeBucket ==
    ASSUME NEW at \in Int, From <= at, at < To
    PROVE  BucketOf(at) \in Buckets
<1> DEFINE q == QueryBucket
           a == at - From
           b == To - From
<1>1. q \in Nat \ {0}
    BY BucketIsPositive
<1>2. a \in Nat /\ b \in Nat /\ a < b
    BY FactAssumption
<1> HIDE DEF q, a, b
<1>3. a \div q \in Nat /\ a \div q <= ((b + q - 1) \div q) - 1
    BY <1>1, <1>2
<1>4. (b + q - 1) \div q \in Int
    BY <1>1, <1>2
<1>5. BucketOf(at) = a \div q /\ BucketCount = (b + q - 1) \div q
    BY DEF BucketOf, BucketCount, a, b, q
<1> QED BY <1>3, <1>4, <1>5 DEF Buckets

(* A fact lies in the bucket of its events.                                *)
LEMMA FactBucket ==
    ASSUME FactsHeld, NEW E, E \subseteq WindowEvents, NEW e \in E
    PROVE  /\ BucketOf(FactFor(E, e).first) = BucketOf(OccurrenceTime(reported[e]))
           /\ BucketOf(OccurrenceTime(reported[e])) \in Buckets
<1> DEFINE S == {rows[d].at : d \in GroupOf(E, e)}
           at == [d \in GroupOf(E, e) |-> rows[d].at]
<1>1. \A d \in E : rows[d].at = OccurrenceTime(reported[d]) /\ rows[d].at \in Int
                   /\ From <= rows[d].at /\ rows[d].at < To
    <2> SUFFICES ASSUME NEW d \in E
                 PROVE  rows[d].at = OccurrenceTime(reported[d]) /\ rows[d].at \in Int
                        /\ From <= rows[d].at /\ rows[d].at < To
        OBVIOUS
    <2>1. d \in DOMAIN rows /\ InWindow(rows[d])
        BY DEF WindowEvents
    <2>2. reported[d] \in Report /\ RowTrue(d)
        BY <2>1 DEF FactsHeld, HealthTypeOK, RowTypeOK
    <2> QED BY <2>1, <2>2, OccurrenceIsTime DEF RowTrue, InWindow
<1>2. FactFor(E, e).first = Min(S)
    BY FactTells DEF Aggregates
<1>3. IsFiniteSet(E)
    BY WindowFinite, FS_Subset
<1>4. GroupOf(E, e) \subseteq E /\ e \in GroupOf(E, e)
    BY DEF GroupOf
<1>5. IsFiniteSet(GroupOf(E, e))
    BY <1>3, <1>4, FS_Subset
<1>6. at \in Surjection(GroupOf(E, e), S)
    BY DEF Surjection
<1>7. IsFiniteSet(S) /\ S # {} /\ S \subseteq Int
    <2>1. IsFiniteSet(S)
        BY <1>5, <1>6, FS_Surjection
    <2> QED BY <1>1, <1>4, <2>1
<1>8. Min(S) \in S
    <2> HIDE DEF S
    <2> QED BY <1>7, LeastExists
<1>9. \A d \in GroupOf(E, e) : BucketOf(rows[d].at) = BucketOf(rows[e].at)
    BY DEF GroupOf, Dimensions
<1>10. BucketOf(Min(S)) = BucketOf(rows[e].at)
    BY <1>8, <1>9
<1> QED BY <1>1, <1>2, <1>10, InSomeBucket

(* The buckets of a trend partition the events behind the facts G: numbers *)
(* that are right for each bucket, or absent for an empty one, add up.     *)
LEMMA TrendTotals ==
    ASSUME FactsHeld, NEW E, E \subseteq WindowEvents, NEW G, G \subseteq FactsOf(E),
           NEW number, DOMAIN number = Buckets,
           \A b \in Buckets : \/ number[b] = SampleCount(InBucket(G, b))
                              \/ number[b] = Null /\ InBucket(G, b) = {}
    PROVE  Total(number) = Cardinality(EventsOf(E, G))
<1> DEFINE item == [e \in E |-> BucketOf(OccurrenceTime(reported[e]))]
           D == EventsOf(E, G)
<1>1. D \subseteq E /\ IsFiniteSet(E) /\ IsFiniteSet(D)
    <2>1. IsFiniteSet(E)
        BY WindowFinite, FS_Subset
    <2> QED BY <2>1, FS_Subset DEF EventsOf
<1>2. \A e \in E : BucketOf(FactFor(E, e).first) = item[e] /\ item[e] \in Buckets
    BY FactBucket
<1> HIDE DEF item
<1>3. ASSUME NEW b \in Buckets
      PROVE  1..number[b] = 1..Cardinality({e \in D : item[e] = b})
    <2>1. EventsOf(E, InBucket(G, b)) = {e \in D : item[e] = b}
        BY <1>2 DEF EventsOf, InBucket
    <2>2. InBucket(G, b) \subseteq FactsOf(E)
        BY DEF InBucket
    <2>3. SampleCount(InBucket(G, b)) = Cardinality({e \in D : item[e] = b})
          /\ (SampleCount(InBucket(G, b)) = 0 <=> InBucket(G, b) = {})
        BY <1>1, <2>1, <2>2, CountsEvents
    <2>4. CASE number[b] = SampleCount(InBucket(G, b))
        BY <2>3, <2>4
    <2>5. CASE number[b] = Null /\ InBucket(G, b) = {}
        <3>1. Cardinality({e \in D : item[e] = b}) = 0
            BY <2>3, <2>5
        <3>2. number[b] = -1
            BY <2>5 DEF Null
        <3>3. 1..(-1) = {} /\ 1..0 = {}
            OBVIOUS
        <3> QED BY <3>1, <3>2, <3>3
    <2> QED BY <2>4, <2>5
<1> HIDE DEF D
<1>4. Total(number) = Cardinality({e \in D : item[e] \in DOMAIN number})
    BY <1>1, <1>3, TotalCounts
<1>5. {e \in D : item[e] \in DOMAIN number} = D
    BY <1>1, <1>2
<1> QED BY <1>4, <1>5 DEF D

(* A bucket holds a fact exactly when one of its events lies in it.        *)
LEMMA BucketEmpty ==
    ASSUME FactsHeld, NEW E, E \subseteq WindowEvents, NEW G, G \subseteq FactsOf(E), NEW b
    PROVE  InBucket(G, b) = {} <=>
              {e \in EventsOf(E, G) : BucketOf(OccurrenceTime(reported[e])) = b} = {}
<1>1. \A e \in E : BucketOf(FactFor(E, e).first) = BucketOf(OccurrenceTime(reported[e]))
    BY FactBucket
<1>2. \A f \in G : \E e \in E : f = FactFor(E, e)
    BY FactsAre
<1> QED BY <1>1, <1>2 DEF InBucket, EventsOf

(* The numbers of a release by bucket, and their total.                    *)
BucketNumber(F, kind, b) ==
    IF InBucket(Eligible(F), b) = {} THEN Null
    ELSE SampleCount(InBucket(OfKind(Eligible(F), kind), b))

LEMMA ReleaseBucket ==
    ASSUME NEW F, NEW b
    PROVE  /\ BucketIncidents(InBucket(F, b)).java = BucketNumber(F, "java_crash", b)
           /\ BucketIncidents(InBucket(F, b)).anr = BucketNumber(F, "anr_detected", b)
<1> DEFINE X == InBucket(F, b)
<1>1. Eligible(X) = InBucket(Eligible(F), b)
    BY DEF Eligible, InBucket
<1>2. \A kind : OfKind(Eligible(X), kind) = InBucket(OfKind(Eligible(F), kind), b)
    BY DEF Eligible, InBucket, OfKind
<1>3. X = {} => Eligible(X) = {}
    BY DEF Eligible
<1> HIDE DEF X
<1>4. /\ BucketIncidents(X).java = IF Eligible(X) = {} THEN Null
                                   ELSE SampleCount(OfKind(Eligible(X), "java_crash"))
      /\ BucketIncidents(X).anr = IF Eligible(X) = {} THEN Null
                                  ELSE SampleCount(OfKind(Eligible(X), "anr_detected"))
    BY <1>3 DEF BucketIncidents
<1> QED BY <1>1, <1>2, <1>4 DEF BucketNumber, X

LEMMA ReleaseTotals ==
    ASSUME FactsHeld, NEW r, NEW kind, NEW number,
           DOMAIN number = Buckets,
           \A b \in Buckets : number[b] = BucketNumber(FactsOf(OfRelease(r)), kind, b)
    PROVE  LET F == FactsOf(OfRelease(r))
               E == BoundEvents(OfRelease(r))
               n == SampleCount(OfKind(Eligible(F), kind))
           IN /\ CountMetric(n, QualityState(F)).value = IF E = {} THEN Null ELSE Total(number)
              /\ \A b \in Buckets : (number[b] = Null) <=>
                    ({e \in E : BucketOf(OccurrenceTime(reported[e])) = b} = {})
<1> DEFINE D == OfRelease(r)
           F == FactsOf(D)
           E == BoundEvents(D)
           G == OfKind(Eligible(F), kind)
           n == SampleCount(G)
<1>1. D \subseteq WindowEvents /\ D \subseteq DOMAIN rows /\ IsFiniteSet(D)
    BY WindowFinite DEF OfRelease
<1> HIDE DEF D
<1>2. EventsOf(D, Eligible(F)) = E /\ Eligible(F) \subseteq F
    BY <1>1, EligibleEvents
<1>3. G \subseteq Eligible(F) /\ G \subseteq FactsOf(D)
    BY <1>2 DEF OfKind
<1>4. n = Cardinality(EventsOf(D, G)) /\ n \in Nat
    BY <1>1, <1>3, CountsEvents
<1>5. E = {} <=> Eligible(F) = {}
    <2>1. \A f \in Eligible(F) : \E e \in D : f = FactFor(D, e)
        BY <1>2, FactsAre
    <2> QED BY <1>2, <2>1 DEF EventsOf
<1>6. \A b \in Buckets : InBucket(G, b) \subseteq InBucket(Eligible(F), b)
    BY <1>3 DEF InBucket
<1>7. \A b \in Buckets : number[b] = BucketNumber(F, kind, b)
    BY DEF D
<1> HIDE DEF E, G
<1>8. \A b \in Buckets : \/ number[b] = SampleCount(InBucket(G, b))
                         \/ number[b] = Null /\ InBucket(G, b) = {}
    BY <1>6, <1>7 DEF BucketNumber, G
<1>9. Total(number) = Cardinality(EventsOf(D, G))
    BY <1>1, <1>3, <1>8, TrendTotals
<1>10. CountMetric(n, QualityState(F)).value = IF Eligible(F) = {} THEN Null ELSE n
    <2> HIDE DEF n, F
    <2>1. Eligible({}) = {}
        BY DEF Eligible
    <2>2. QualityState(F) \in {"NO_DATA", "UNAVAILABLE"} <=> Eligible(F) = {}
        BY <2>1 DEF QualityState
    <2> QED BY <2>2 DEF CountMetric, Metric
<1>11. ASSUME NEW b \in Buckets
       PROVE  (number[b] = Null) <=>
                 ({e \in E : BucketOf(OccurrenceTime(reported[e])) = b} = {})
    <2>1. InBucket(Eligible(F), b) = {} <=>
             {e \in E : BucketOf(OccurrenceTime(reported[e])) = b} = {}
        BY <1>1, <1>2, BucketEmpty
    <2>2. SampleCount(InBucket(G, b)) \in Nat
        <3>1. InBucket(G, b) \subseteq FactsOf(D)
            BY <1>3 DEF InBucket
        <3> QED BY <1>1, <3>1, CountsEvents
    <2>3. number[b] = IF InBucket(Eligible(F), b) = {} THEN Null ELSE SampleCount(InBucket(G, b))
        BY <1>7 DEF BucketNumber, G
    <2> QED BY <2>1, <2>2, <2>3 DEF Null
<1> QED BY <1>4, <1>5, <1>9, <1>10, <1>11 DEF D, E, G

LEMMA TrendFollows == FactsHeld => TrendAddsUp
<1> SUFFICES ASSUME FactsHeld PROVE TrendAddsUp
    OBVIOUS
<1> DEFINE At(E, b) == {e \in E : BucketOf(OccurrenceTime(reported[e])) = b}
<1>1. ASSUME NEW p \in Pairs, NEW h \in GetReleaseHealth(p[1], p[2]), NEW r \in {p[1], p[2]}
      PROVE  LET trend == h.trend[r]
                 E     == BoundEvents(OfRelease(r))
             IN /\ h.slice[r].java.value =
                      IF E = {} THEN Null ELSE Total([b \in Buckets |-> trend[b].java])
                /\ h.slice[r].anr.value =
                      IF E = {} THEN Null ELSE Total([b \in Buckets |-> trend[b].anr])
                /\ \A b \in Buckets : (trend[b].java = Null) <=> (At(E, b) = {})
    <2> DEFINE F == FactsOf(OfRelease(r))
               E == BoundEvents(OfRelease(r))
               java == [b \in Buckets |-> h.trend[r][b].java]
               anr == [b \in Buckets |-> h.trend[r][b].anr]
    <2>1. h.trend[r] = [t \in Buckets |-> BucketIncidents(InBucket(F, t))]
        BY TrendIs
    <2>2. \A b \in Buckets : /\ h.trend[r][b].java = BucketNumber(F, "java_crash", b)
                             /\ h.trend[r][b].anr = BucketNumber(F, "anr_detected", b)
        BY <2>1, ReleaseBucket
    <2>3. /\ h.slice[r].java =
                CountMetric(SampleCount(OfKind(Eligible(F), "java_crash")), QualityState(F))
          /\ h.slice[r].anr =
                CountMetric(SampleCount(OfKind(Eligible(F), "anr_detected")), QualityState(F))
        BY SliceCounts
    <2>4. /\ DOMAIN java = Buckets /\ DOMAIN anr = Buckets
          /\ \A b \in Buckets : /\ java[b] = BucketNumber(F, "java_crash", b)
                                /\ anr[b] = BucketNumber(F, "anr_detected", b)
                                /\ java[b] = h.trend[r][b].java
        BY <2>2
    <2> HIDE DEF java, anr
    <2>5. /\ CountMetric(SampleCount(OfKind(Eligible(F), "java_crash")), QualityState(F)).value
                = IF E = {} THEN Null ELSE Total(java)
          /\ \A b \in Buckets : (java[b] = Null) <=> (At(E, b) = {})
        BY <2>4, ReleaseTotals
    <2>6. CountMetric(SampleCount(OfKind(Eligible(F), "anr_detected")), QualityState(F)).value
             = IF E = {} THEN Null ELSE Total(anr)
        BY <2>4, ReleaseTotals
    <2> HIDE DEF F, E
    <2> QED BY <2>3, <2>4, <2>5, <2>6 DEF java, anr, E
<1>2. ASSUME NEW fp \in Issues, NEW issue \in GetIssueDetail(fp)
      PROVE  LET E == BoundIncidents(OfIssue(fp)) IN
             /\ issue.count = Cardinality(E)
             /\ issue.count = Total([b \in Buckets |-> issue.trend[b].count])
             /\ \A b \in Buckets : (issue.trend[b].count = Null) <=> (At(E, b) = {})
    <2> DEFINE D == OfIssue(fp)
               F == FactsOf(D)
               I == Incidents(F)
               E == BoundIncidents(D)
               number == [b \in Buckets |-> issue.trend[b].count]
    <2>1. /\ issue = IssueDetail(F) /\ D \subseteq WindowEvents /\ IsFiniteSet(D)
          /\ I \subseteq FactsOf(D) /\ EventsOf(D, I) = E
        BY IssueFacts
    <2>2. issue.count = SampleCount(I) /\ issue.trend = IssueTrend(I)
        BY <2>1, IssueIs
    <2> HIDE DEF D, I, E
    <2>3. \A b \in Buckets : issue.trend[b].count = IF InBucket(I, b) = {} THEN Null
                                                    ELSE SampleCount(InBucket(I, b))
        BY <2>2 DEF IssueTrend
    <2>4. SampleCount(I) = Cardinality(E)
        BY <2>1, CountsEvents
    <2>5. DOMAIN number = Buckets
          /\ \A b \in Buckets : \/ number[b] = SampleCount(InBucket(I, b))
                                \/ number[b] = Null /\ InBucket(I, b) = {}
        BY <2>3
    <2>6. Total(number) = Cardinality(E)
        <3> HIDE DEF number
        <3> QED BY <2>1, <2>5, TrendTotals
    <2>7. ASSUME NEW b \in Buckets
          PROVE  (issue.trend[b].count = Null) <=> (At(E, b) = {})
        <3>1. InBucket(I, b) = {} <=> At(E, b) = {}
            BY <2>1, BucketEmpty
        <3>2. SampleCount(InBucket(I, b)) \in Nat
            <4>1. InBucket(I, b) \subseteq FactsOf(D)
                BY <2>1 DEF InBucket
            <4> QED BY <2>1, <4>1, CountsEvents
        <3> QED BY <2>3, <3>1, <3>2 DEF Null
    <2> QED BY <2>2, <2>4, <2>6, <2>7 DEF E, D
<1> QED BY <1>1, <1>2 DEF TrendAddsUp
-----------------------------------------------------------------------------
(* Lists.                                                                  *)

(* A cut that is no shorter than the list keeps all of it.                 *)
LEMMA FirstOfAll ==
    ASSUME NEW A, IsFiniteSet(A), NEW order, \A i \in A : <<i, i>> \notin order,
           NEW n \in Nat, Cardinality(A) <= n
    PROVE  FirstOf(A, n, order) = A
<1> SUFFICES ASSUME NEW i \in A
             PROVE  Cardinality({j \in A : <<j, i>> \in order}) < n
    BY DEF FirstOf
<1> DEFINE P == {j \in A : <<j, i>> \in order}
<1>1. P \in SUBSET A /\ P # A
    OBVIOUS
<1> HIDE DEF P
<1>2. IsFiniteSet(P) /\ Cardinality(P) <= Cardinality(A) /\ Cardinality(P) # Cardinality(A)
    BY <1>1, FS_Subset
<1>3. Cardinality(P) \in Nat /\ Cardinality(A) \in Nat
    BY <1>2, FS_CardinalityType
<1>4. Cardinality(P) < n
    BY <1>2, <1>3
<1> QED BY <1>4 DEF P

(* And a cut that left room left nothing out: before the first item that   *)
(* is missing there would be as many as fit.                               *)
LEMMA FirstOfShort ==
    ASSUME NEW A, IsFiniteSet(A), NEW order, \A i \in A : <<i, i>> \notin order,
           \A i, j, k \in A : <<i, j>> \in order /\ <<j, k>> \in order => <<i, k>> \in order,
           NEW n \in Nat, Cardinality(FirstOf(A, n, order)) < n
    PROVE  FirstOf(A, n, order) = A
<1> DEFINE first == FirstOf(A, n, order)
           X == A \ first
           P == [i \in A |-> {j \in A : <<j, i>> \in order}]
           size == [i \in X |-> Cardinality(P[i])]
           S == {size[i] : i \in X}
<1>1. /\ first \in SUBSET A
      /\ \A i \in A : i \in first <=> Cardinality(P[i]) < n
      /\ \A i \in A : P[i] \in SUBSET A
    BY DEF FirstOf
<1>2. \A i \in A : IsFiniteSet(P[i]) /\ Cardinality(P[i]) \in Nat
    <2>1. \A T \in SUBSET A : IsFiniteSet(T) /\ Cardinality(T) \in Nat
        BY FS_Subset, FS_CardinalityType
    <2> QED BY <1>1, <2>1
<1>3. \A d \in A : \A j \in P[d] : P[j] \in SUBSET P[d] /\ P[j] # P[d] /\ j \in A
    <2> SUFFICES ASSUME NEW d \in A, NEW j \in P[d]
                 PROVE  P[j] \in SUBSET P[d] /\ P[j] # P[d] /\ j \in A
        OBVIOUS
    <2>1. j \in A /\ <<j, d>> \in order
        OBVIOUS
    <2>2. \A k \in A : k \in P[j] <=> <<k, j>> \in order
        BY <2>1
    <2>3. P[j] \subseteq A
        BY <1>1, <2>1
    <2>4. j \notin P[j]
        BY <2>1, <2>2
    <2>5. P[j] \subseteq P[d]
        BY <2>1, <2>2, <2>3
    <2> QED BY <2>1, <2>4, <2>5
<1> HIDE DEF P, first
<1> SUFFICES ASSUME X # {} PROVE FALSE
    BY <1>1 DEF first
<1>4. IsFiniteSet(X) /\ X \subseteq A
    BY FS_Subset
<1>5. IsFiniteSet(S) /\ S # {} /\ S \subseteq Int
    <2>1. size \in Surjection(X, S)
        BY DEF Surjection
    <2>2. IsFiniteSet(S)
        BY <1>4, <2>1, FS_Surjection
    <2> QED BY <1>2, <1>4, <2>2
<1>6. Min(S) \in S /\ \A y \in S : Min(S) <= y
    <2> HIDE DEF S
    <2> QED BY <1>5, LeastExists
<1>7. PICK d \in X : Min(S) = Cardinality(P[d])
    BY <1>6
<1>8. ASSUME NEW j \in P[d] PROVE j \in first
    <2> SUFFICES ASSUME j \notin first PROVE FALSE
        OBVIOUS
    <2>1. P[j] \in SUBSET P[d] /\ P[j] # P[d] /\ j \in X
        BY <1>3, <1>4
    <2>2. Cardinality(P[j]) <= Cardinality(P[d]) /\ Cardinality(P[j]) # Cardinality(P[d])
        BY <1>2, <1>4, <2>1, FS_Subset
    <2>3. Cardinality(P[j]) \in S
        BY <2>1
    <2> QED BY <1>2, <1>4, <1>6, <1>7, <2>1, <2>2, <2>3
<1>9. IsFiniteSet(first) /\ Cardinality(first) \in Nat
    BY <1>1, FS_Subset, FS_CardinalityType
<1>10. Cardinality(P[d]) <= Cardinality(first)
    BY <1>8, <1>9, FS_Subset
<1>11. Cardinality(first) < n /\ ~(Cardinality(P[d]) < n) /\ Cardinality(P[d]) \in Nat
    BY <1>1, <1>2, <1>4 DEF first
<1> QED BY <1>9, <1>10, <1>11

(* The list of a release before it is cut, and the order of the cut.       *)
KnownFacts(F) == {f \in Incidents(F) : f.fingerprint # NoFingerprint}

ListItem(F, fp, kind) ==
    [fingerprint |-> fp, kind |-> kind, count |-> SampleCount(FamilyOf(F, fp, kind)),
     installations |-> InstallationCount(FamilyOf(F, fp, kind), ContinuityBroken(Eligible(F))),
     last |-> Max({f.last : f \in FamilyOf(F, fp, kind)})]

ListItems(F) == {ListItem(F, f.fingerprint, f.kind) : f \in KnownFacts(F)}

ListedBefore(i, j) ==
    \/ i.count > j.count
    \/ i.count = j.count /\ i.last > j.last
    \/ i.count = j.count /\ i.last = j.last /\ i.fingerprint < j.fingerprint
    \/ /\ i.count = j.count /\ i.last = j.last /\ i.fingerprint = j.fingerprint
       /\ i.kind = "java_crash" /\ j.kind # "java_crash"

ListOrder(A) == {p \in A \X A : ListedBefore(p[1], p[2])}

LEMMA ListIs ==
    ASSUME NEW F, NEW limit
    PROVE  TopFingerprints(F, limit).items = FirstOf(ListItems(F), limit, ListOrder(ListItems(F)))
<1> DEFINE known == {f \in Incidents(F) : f.fingerprint # NoFingerprint}
           Group(k) == {f \in known : <<f.fingerprint, f.kind>> = k}
           Item(k) == [fingerprint |-> k[1], kind |-> k[2],
                       count |-> SampleCount(Group(k)),
                       installations |-> InstallationCount(Group(k), ContinuityBroken(Eligible(F))),
                       last |-> Max({f.last : f \in Group(k)})]
           items == {Item(k) : k \in {<<f.fingerprint, f.kind>> : f \in known}}
<1>1. TopFingerprints(F, limit).items =
         FirstOf(items, limit, {p \in items \X items : ListedBefore(p[1], p[2])})
    BY DEF TopFingerprints, ListedBefore
<1>2. \A f \in known : Item(<<f.fingerprint, f.kind>>) = ListItem(F, f.fingerprint, f.kind)
    BY DEF ListItem, FamilyOf
<1>3. items = {Item(<<f.fingerprint, f.kind>>) : f \in known}
    <2> HIDE DEF Item
    <2> QED OBVIOUS
<1>4. known = KnownFacts(F)
    BY DEF KnownFacts
<1> HIDE DEF Item, known
<1>5. items = ListItems(F)
    <2>1. \A x : x \in items <=> \E f \in known : x = Item(<<f.fingerprint, f.kind>>)
        BY <1>3
    <2>2. \A x : x \in ListItems(F) <=> \E f \in known : x = ListItem(F, f.fingerprint, f.kind)
        BY <1>4 DEF ListItems
    <2> QED BY <1>2, <2>1, <2>2
<1> HIDE DEF items
<1> QED BY <1>1, <1>5 DEF ListOrder

(* So is a distribution.                                                   *)
LabelItem(F, label, availability, l) ==
    [label |-> l, count |-> SampleCount(Labelled(F, label, availability, l)),
     installations |-> InstallationCount(Labelled(F, label, availability, l), ContinuityBroken(F))]

LabelItems(F, label, availability) ==
    {LabelItem(F, label, availability, label[f]) : f \in {g \in F : availability[g] = "AVAILABLE"}}

LabelOrder(A) ==
    {p \in A \X A : \/ p[1].count > p[2].count
                    \/ p[1].count = p[2].count /\ p[1].label < p[2].label}

LEMMA DistributionIs ==
    ASSUME NEW F, NEW label, NEW availability
    PROVE  LET A == LabelItems(F, label, availability) IN
           IssueDistribution(F, label, availability).items = FirstOf(A, TopLabels, LabelOrder(A))
<1> DEFINE usable == {f \in F : availability[f] = "AVAILABLE"}
           Group(l) == {f \in usable : label[f] = l}
           Item(l) == [label |-> l, count |-> SampleCount(Group(l)),
                       installations |-> InstallationCount(Group(l), ContinuityBroken(F))]
           items == {Item(l) : l \in {label[f] : f \in usable}}
<1>1. IssueDistribution(F, label, availability).items =
         FirstOf(items, TopLabels, LabelOrder(items))
    BY DEF IssueDistribution, LabelOrder
<1>2. \A l : Item(l) = LabelItem(F, label, availability, l)
    BY DEF LabelItem, Labelled
<1> HIDE DEF Item
<1>3. items = LabelItems(F, label, availability)
    <2>1. \A x : x \in items <=> \E f \in usable : x = Item(label[f])
        OBVIOUS
    <2>2. \A x : x \in LabelItems(F, label, availability) <=>
                    \E f \in usable : x = LabelItem(F, label, availability, label[f])
        BY DEF LabelItems
    <2> QED BY <1>2, <2>1, <2>2
<1> HIDE DEF items
<1> QED BY <1>1, <1>3

LEMMA LastIsTime ==
    ASSUME FactsHeld, NEW E, E \subseteq WindowEvents, NEW f \in FactsOf(E)
    PROVE  f.last \in Int
<1>1. PICK e \in E : f = FactFor(E, e)
    BY FactsAre
<1> DEFINE at == [d \in E |-> rows[d].at]
           S == {rows[d].at : d \in GroupOf(E, e)}
<1>2. \A d \in E : at[d] \in Int
    <2> SUFFICES ASSUME NEW d \in E PROVE rows[d].at \in Int
        OBVIOUS
    <2>1. reported[d] \in Report /\ RowTrue(d)
        BY DEF WindowEvents, FactsHeld, HealthTypeOK, RowTypeOK
    <2> QED BY <2>1, OccurrenceIsTime DEF RowTrue
<1>3. IsFiniteSet(E)
    BY WindowFinite, FS_Subset
<1>4. \A x : x \in S <=> \E d \in GroupOf(E, e) : x = at[d]
    BY DEF GroupOf
<1>5. f.last = Max(S)
    BY <1>1, FactTells DEF Aggregates
<1> HIDE DEF S, at
<1> QED BY <1>2, <1>3, <1>4, <1>5, GreatestOfGroup

(* An item of the list of a release.                                       *)
LEMMA ListItemTypes ==
    ASSUME FactsHeld, NEW E, E \subseteq WindowEvents, NEW f \in KnownFacts(FactsOf(E))
    PROVE  LET i == ListItem(FactsOf(E), f.fingerprint, f.kind) IN
           i.count \in Nat /\ i.last \in Int /\ i.fingerprint \in Int
<1> DEFINE F == FactsOf(E)
           G == FamilyOf(F, f.fingerprint, f.kind)
           last == [x \in G |-> x.last]
           S == {x.last : x \in G}
<1>1. f \in F /\ f \in G /\ G \subseteq F
    BY DEF KnownFacts, FamilyOf, Incidents, Eligible
<1>2. IsFiniteSet(E) /\ E \subseteq DOMAIN rows
    BY WindowFinite, FS_Subset DEF WindowEvents
<1>3. SampleCount(G) \in Nat
    BY <1>1, <1>2, CountsEvents
<1>4. f.fingerprint \in Int
    <2>1. PICK e \in E : f = FactFor(E, e)
        BY <1>1, FactsAre
    <2>2. f.fingerprint = rows[e].fingerprint
        BY <1>2, <2>1, FactIsTrue
    <2> QED BY <1>2, <2>2 DEF FactsHeld, RowTrue
<1>5. IsFiniteSet(F)
    <2> DEFINE s == [e \in E |-> FactFor(E, e)]
    <2>1. s \in Surjection(E, F)
        BY FactsAre DEF Surjection
    <2> QED BY <1>2, <2>1, FS_Surjection
<1>6. IsFiniteSet(G)
    BY <1>1, <1>5, FS_Subset
<1>7. \A x \in G : x.last \in Int
    BY <1>1, LastIsTime
<1> HIDE DEF G
<1>8. IsFiniteSet(S) /\ S # {} /\ S \subseteq Int
    <2>1. last \in Surjection(G, S)
        BY DEF Surjection
    <2>2. IsFiniteSet(S)
        BY <1>6, <2>1, FS_Surjection
    <2> QED BY <1>1, <1>7, <2>2
<1>9. Max(S) \in Int
    <2> HIDE DEF S
    <2> QED BY <1>8, GreatestExists
<1> QED BY <1>3, <1>4, <1>9 DEF ListItem, G

(* A list as long as there are events leaves nothing out.                  *)
LEMMA ListComplete ==
    ASSUME FactsHeld, NEW r
    PROVE  LET F == FactsOf(OfRelease(r)) IN
           TopFingerprints(F, Cardinality(Event)).items = ListItems(F)
<1> DEFINE E == OfRelease(r)
           F == FactsOf(E)
           K == {e \in E : FactFor(E, e) \in KnownFacts(F)}
           A == ListItems(F)
           s == [e \in K |-> ListItem(F, FactFor(E, e).fingerprint, FactFor(E, e).kind)]
<1>1. E \subseteq WindowEvents /\ E \subseteq Event
    BY DEF OfRelease, WindowEvents, FactsHeld, HealthTypeOK
<1> HIDE DEF E
<1>2. \A f \in KnownFacts(F) : \E e \in K : f = FactFor(E, e)
    <2>1. KnownFacts(F) \subseteq F
        BY DEF KnownFacts, Incidents, Eligible
    <2> QED BY <2>1, FactsAre
<1>3. s \in Surjection(K, A)
    <2>1. \A e \in K : s[e] \in A
        BY DEF ListItems
    <2>2. \A x \in A : \E e \in K : s[e] = x
        BY <1>2 DEF ListItems
    <2> QED BY <2>1, <2>2 DEF Surjection
<1>4. IsFiniteSet(K) /\ Cardinality(K) <= Cardinality(Event)
    BY <1>1, FactAssumption, FS_Subset
<1>5. IsFiniteSet(A) /\ Cardinality(A) <= Cardinality(K)
    BY <1>3, <1>4, FS_Surjection
<1>6. Cardinality(A) \in Nat /\ Cardinality(K) \in Nat /\ Cardinality(Event) \in Nat
    BY <1>4, <1>5, FactAssumption, FS_CardinalityType
<1>7. ASSUME NEW i \in A PROVE <<i, i>> \notin ListOrder(A)
    <2>1. i.count \in Nat /\ i.last \in Int /\ i.fingerprint \in Int
        BY <1>1, ListItemTypes DEF ListItems
    <2> QED BY <2>1 DEF ListOrder, ListedBefore
<1> HIDE DEF A, F
<1>8. FirstOf(A, Cardinality(Event), ListOrder(A)) = A
    <2>1. Cardinality(A) <= Cardinality(Event)
        BY <1>4, <1>5, <1>6
    <2> QED BY <1>5, <1>6, <1>7, <2>1, FirstOfAll
<1> QED BY <1>8, ListIs DEF A, F, E

(* The events of an Issue in a release, as the list counts them.           *)
LEMMA ListedTotal ==
    ASSUME FactsHeld, NEW r, NEW fp \in Issues, NEW list \in GetTopFingerprints(r, Cardinality(Event)),
           NEW listed, listed = {i \in list.items : i.fingerprint = fp}
    PROVE  Total([i \in listed |-> i.count]) =
              Cardinality({e \in BoundIncidents(OfRelease(r)) : rows[e].fingerprint = fp})
<1> DEFINE E == OfRelease(r)
           F == FactsOf(E)
           X == {e \in BoundIncidents(E) : rows[e].fingerprint = fp}
           item == [e \in X |-> ListItem(F, fp, rows[e].kind)]
           number == [i \in listed |-> i.count]
<1>1. list.items = ListItems(F)
    BY ListComplete DEF GetTopFingerprints, LoadWindowFacts
<1>2. E \subseteq DOMAIN rows /\ IsFiniteSet(E)
    BY WindowFinite
<1> HIDE DEF E
<1>3. fp # NoFingerprint
    BY DEF Issues
<1>4. X \subseteq E /\ IsFiniteSet(X)
    BY <1>2, FS_Subset DEF BoundIncidents
<1>5. \A e \in E : /\ FactFor(E, e) \in F
                   /\ FactFor(E, e).bound = reported[e].bound
                   /\ FactFor(E, e).kind = reported[e].kind /\ FactFor(E, e).kind = rows[e].kind
                   /\ FactFor(E, e).fingerprint = rows[e].fingerprint
    BY <1>2, FactIsTrue
<1>6. ASSUME NEW e \in X PROVE item[e] \in listed
    <2>1. e \in E /\ FactFor(E, e) \in KnownFacts(F) /\ FactFor(E, e).fingerprint = fp
          /\ FactFor(E, e).kind = rows[e].kind
        BY <1>3, <1>4, <1>5 DEF KnownFacts, Incidents, Eligible, BoundIncidents
    <2>2. item[e] \in ListItems(F)
        BY <2>1 DEF ListItems
    <2>3. item[e].fingerprint = fp
        BY DEF ListItem
    <2> QED BY <1>1, <2>2, <2>3
<1>7. ASSUME NEW i \in listed
      PROVE  i.count = Cardinality({e \in X : item[e] = i})
    <2>1. PICK f \in KnownFacts(F) : i = ListItem(F, f.fingerprint, f.kind)
        BY <1>1 DEF ListItems
    <2>2. i.fingerprint = fp /\ i = ListItem(F, fp, f.kind) /\ i.kind = f.kind
          /\ i.count = SampleCount(FamilyOf(F, fp, f.kind))
        BY <2>1 DEF ListItem
    <2>3. ASSUME NEW e \in X PROVE item[e] = i <=> rows[e].kind = f.kind
        <3>1. item[e] = ListItem(F, fp, rows[e].kind) /\ item[e].kind = rows[e].kind
            BY DEF ListItem
        <3> HIDE DEF item
        <3> QED BY <2>2, <3>1
    <2>4. {e \in X : item[e] = i} = {e \in BoundIncidents(E) : rows[e].fingerprint = fp
                                                               /\ rows[e].kind = f.kind}
        <3> HIDE DEF item
        <3> QED BY <2>3
    <2>5. EventsOf(E, FamilyOf(F, fp, f.kind)) = {e \in X : item[e] = i}
        BY <1>2, <1>3, <2>4, FamilyEvents
    <2>6. FamilyOf(F, fp, f.kind) \subseteq F
        BY DEF FamilyOf, Incidents, Eligible
    <2>7. SampleCount(FamilyOf(F, fp, f.kind)) = Cardinality(EventsOf(E, FamilyOf(F, fp, f.kind)))
        BY <1>2, <2>6, CountsEvents
    <2> HIDE DEF X, item
    <2> QED BY <2>2, <2>5, <2>7
<1>8. DOMAIN number = listed /\ \A i \in listed : 1..number[i] = 1..Cardinality({e \in X : item[e] = i})
    <2> HIDE DEF X, item
    <2> QED BY <1>7
<1> HIDE DEF X, item, number
<1>9. Total(number) = Cardinality({e \in X : item[e] \in DOMAIN number})
    BY <1>4, <1>8, TotalCounts
<1>10. {e \in X : item[e] \in DOMAIN number} = X
    BY <1>6, <1>8
<1> QED BY <1>9, <1>10 DEF number, X, E

(* And as the page of the Issue counts them, if it shows the release or    *)
(* has room left.                                                          *)
LEMMA ShownTotal ==
    ASSUME FactsHeld, NEW r, NEW fp \in Issues, NEW issue \in GetIssueDetail(fp),
           NEW shown, shown = {i \in issue.releases.items : i.label = r},
           shown # {} \/ Cardinality(issue.releases.items) < TopLabels
    PROVE  Total([i \in shown |-> i.count]) =
              Cardinality({e \in BoundIncidents(OfIssue(fp)) : rows[e].release = r})
<1> DEFINE E == OfIssue(fp)
           F == FactsOf(E)
           I == Incidents(F)
           label == [f \in I |-> f.release]
           availability == [f \in I |-> "AVAILABLE"]
           A == LabelItems(I, label, availability)
           items == issue.releases.items
           Item(l) == LabelItem(I, label, availability, l)
           X == {e \in BoundIncidents(E) : rows[e].release = r}
           item == [e \in X |-> Item(r)]
           number == [i \in shown |-> i.count]
<1>1. /\ issue = IssueDetail(F) /\ E \subseteq DOMAIN rows /\ IsFiniteSet(E)
      /\ I \subseteq FactsOf(E) /\ EventsOf(E, I) = BoundIncidents(E)
    BY IssueFacts
<1>2. items = FirstOf(A, TopLabels, LabelOrder(A))
    <2>1. issue.releases = IssueDistribution(I, label, availability)
        BY <1>1, IssueIs
    <2> HIDE DEF label, availability, I
    <2> QED BY <2>1, DistributionIs
<1> HIDE DEF E
<1>3. \A e \in E : FactFor(E, e).release = rows[e].release /\ rows[e].release \in Nat
    <2> SUFFICES ASSUME NEW e \in E
                 PROVE  FactFor(E, e).release = rows[e].release /\ rows[e].release \in Nat
        OBVIOUS
    <2>1. FactFor(E, e).release = rows[e].release
        BY <1>1, FactIsTrue
    <2>2. reported[e] \in Report /\ rows[e].release = reported[e].release
        BY <1>1 DEF FactsHeld, HealthTypeOK, RowTypeOK, RowTrue
    <2> QED BY <2>1, <2>2, ReportFields
<1>4. \A l : Labelled(I, label, availability, l) = {f \in I : f.release = l}
    BY DEF Labelled
<1>5. \A x : x \in A <=> \E f \in I : x = Item(f.release)
    <2>1. {g \in I : availability[g] = "AVAILABLE"} = I /\ \A f \in I : label[f] = f.release
        OBVIOUS
    <2> HIDE DEF label, availability
    <2> QED BY <2>1 DEF LabelItems
<1>6. \A l : Item(l).label = l /\ Item(l).count = SampleCount({f \in I : f.release = l})
    <2> SUFFICES ASSUME NEW l
                 PROVE  Item(l).label = l /\ Item(l).count = SampleCount({f \in I : f.release = l})
        OBVIOUS
    <2> DEFINE G == {f \in I : f.release = l}
    <2>1. Labelled(I, label, availability, l) = G
        BY <1>4
    <2>2. Item(l).label = l /\ Item(l).count = SampleCount(Labelled(I, label, availability, l))
        BY DEF LabelItem
    <2> HIDE DEF Item, label, availability, G
    <2>3. Item(l).label = l /\ Item(l).count = SampleCount(G)
        BY <2>1, <2>2
    <2> QED BY <2>3 DEF G
<1> HIDE DEF I, A, label, availability, Item
<1>7. ASSUME NEW l
      PROVE  /\ EventsOf(E, {f \in I : f.release = l}) = {e \in BoundIncidents(E) : rows[e].release = l}
             /\ Item(l).count = Cardinality({e \in BoundIncidents(E) : rows[e].release = l})
             /\ Item(l).count \in Nat
    <2> DEFINE G == {f \in I : f.release = l}
    <2>1. EventsOf(E, G) = {e \in EventsOf(E, I) : rows[e].release = l}
        BY <1>3 DEF EventsOf
    <2>2. G \subseteq FactsOf(E)
        BY <1>1
    <2>3. Item(l).count = SampleCount(G)
        BY <1>6
    <2> HIDE DEF G
    <2>4. SampleCount(G) = Cardinality(EventsOf(E, G)) /\ SampleCount(G) \in Nat
        BY <1>1, <2>2, CountsEvents
    <2>5. EventsOf(E, G) = {e \in BoundIncidents(E) : rows[e].release = l}
        BY <1>1, <2>1
    <2> QED BY <2>3, <2>4, <2>5 DEF G
<1>8. ASSUME NEW i \in A
      PROVE  i.label \in Nat /\ i.count \in Nat /\ i = Item(i.label)
    <2>1. PICK f \in I : i = Item(f.release)
        BY <1>5
    <2>2. PICK e \in E : f = FactFor(E, e)
        BY <1>1, FactsAre
    <2>3. f.release \in Nat
        BY <1>3, <2>2
    <2> QED BY <1>6, <1>7, <2>1, <2>3
<1>9. IsFiniteSet(A)
    <2> DEFINE D == {e \in E : FactFor(E, e) \in I}
               s == [e \in D |-> Item(FactFor(E, e).release)]
    <2>1. IsFiniteSet(D)
        BY <1>1, FS_Subset
    <2>2. \A f \in I : \E e \in D : f = FactFor(E, e)
        BY <1>1, FactsAre
    <2>3. \A e \in D : s[e] \in A
        BY <1>5
    <2>4. \A x \in A : \E e \in D : s[e] = x
        BY <1>5, <2>2
    <2>5. s \in Surjection(D, A)
        BY <2>3, <2>4 DEF Surjection
    <2> QED BY <2>1, <2>5, FS_Surjection
<1>10. items \subseteq A
    BY <1>2 DEF FirstOf
<1>11. X # {} => shown = {Item(r)}
    <2> SUFFICES ASSUME X # {} PROVE shown = {Item(r)}
        OBVIOUS
    <2>1. Item(r) \in A
        <3>1. PICK e \in EventsOf(E, I) : rows[e].release = r
            BY <1>1
        <3>2. FactFor(E, e) \in I /\ FactFor(E, e).release = r
            BY <1>3, <3>1 DEF EventsOf
        <3> QED BY <1>5, <3>2
    <2>2. \A i \in shown : i = Item(r)
        BY <1>8, <1>10
    <2>3. CASE shown # {}
        BY <2>2, <2>3
    <2>4. CASE Cardinality(items) < TopLabels
        <3>1. \A i \in A : <<i, i>> \notin LabelOrder(A)
            <4> SUFFICES ASSUME NEW i \in A PROVE <<i, i>> \notin LabelOrder(A)
                OBVIOUS
            <4>1. i.label \in Nat /\ i.count \in Nat
                BY <1>8
            <4> QED BY <4>1 DEF LabelOrder
        <3>2. \A i, j, k \in A : <<i, j>> \in LabelOrder(A) /\ <<j, k>> \in LabelOrder(A)
                                    => <<i, k>> \in LabelOrder(A)
            <4> SUFFICES ASSUME NEW i \in A, NEW j \in A, NEW k \in A,
                                <<i, j>> \in LabelOrder(A), <<j, k>> \in LabelOrder(A)
                         PROVE  <<i, k>> \in LabelOrder(A)
                OBVIOUS
            <4>1. /\ i.label \in Nat /\ i.count \in Nat /\ j.label \in Nat /\ j.count \in Nat
                  /\ k.label \in Nat /\ k.count \in Nat
                BY <1>8
            <4> QED BY <4>1 DEF LabelOrder
        <3>3. TopLabels \in Nat
            BY ViewAssumption
        <3>4. items = A
            BY <1>2, <1>9, <2>4, <3>1, <3>2, <3>3, FirstOfShort
        <3> QED BY <1>6, <2>1, <2>2, <3>4
    <2> QED BY <2>3, <2>4
<1>12. X \subseteq E /\ IsFiniteSet(X)
    BY <1>1, FS_Subset DEF BoundIncidents
<1>13. ASSUME NEW i \in shown PROVE i.count = Cardinality({e \in X : item[e] = i})
    <2>1. i = Item(r)
        BY <1>8, <1>10
    <2>2. {e \in X : item[e] = i} = X
        BY <2>1
    <2> QED BY <1>7, <2>1, <2>2
<1> HIDE DEF X, item
<1>14. DOMAIN number = shown /\ \A i \in shown : 1..number[i] = 1..Cardinality({e \in X : item[e] = i})
    BY <1>13
<1>15. {e \in X : item[e] \in shown} = X
    BY <1>11 DEF item
<1> HIDE DEF number
<1>16. Total(number) = Cardinality({e \in X : item[e] \in DOMAIN number})
    BY <1>12, <1>14, TotalCounts
<1> QED BY <1>14, <1>15, <1>16 DEF number, X, E

LEMMA ListFollows == FactsHeld => ListAgreesWithIssue
<1> SUFFICES ASSUME FactsHeld, NEW r \in Release,
                    NEW list \in GetTopFingerprints(r, Cardinality(Event)),
                    NEW fp \in Issues, NEW issue \in GetIssueDetail(fp)
             PROVE  LET listed == {i \in list.items : i.fingerprint = fp}
                        items  == issue.releases.items
                        shown  == {i \in items : i.label = r}
                    IN shown # {} \/ Cardinality(items) < TopLabels =>
                           Total([i \in listed |-> i.count]) = Total([i \in shown |-> i.count])
    BY DEF ListAgreesWithIssue
<1> DEFINE listed == {i \in list.items : i.fingerprint = fp}
           items  == issue.releases.items
           shown  == {i \in items : i.label = r}
<1> SUFFICES ASSUME shown # {} \/ Cardinality(items) < TopLabels
             PROVE  Total([i \in listed |-> i.count]) = Total([i \in shown |-> i.count])
    OBVIOUS
<1>1. Total([i \in listed |-> i.count]) =
         Cardinality({e \in BoundIncidents(OfRelease(r)) : rows[e].fingerprint = fp})
    BY ListedTotal
<1>2. Total([i \in shown |-> i.count]) =
         Cardinality({e \in BoundIncidents(OfIssue(fp)) : rows[e].release = r})
    BY ShownTotal
<1>3. {e \in BoundIncidents(OfRelease(r)) : rows[e].fingerprint = fp} =
         {e \in BoundIncidents(OfIssue(fp)) : rows[e].release = r}
    BY DEF BoundIncidents, OfRelease, OfIssue
<1> QED BY <1>1, <1>2, <1>3

(* The numbers of the views add up and agree with each other: trends with  *)
(* totals, the list of a release with the page of an Issue, and what is    *)
(* said of the scenes with what became of them.                            *)
THEOREM IssueViewsAgree == FactSpec => []IssueInv
<1>1. FactsHeld => IssueInv
    BY TrendFollows, ListFollows, ScenesFollow DEF IssueInv
<1> QED BY <1>1, FactsInductive, PTL

-----------------------------------------------------------------------------
(* Retention.                                                              *)

(* The columns of a group that retention leaves alone: all but the scene.  *)
(* Rows that agree on them may lie in two groups after one of them was     *)
(* pruned, or in one group that were in two.                               *)
Key(f) ==
    [release |-> f.release, bound |-> f.bound, hmac |-> f.hmac, version |-> f.version,
     fingerprint |-> f.fingerprint, status |-> f.status, kind |-> f.kind,
     valid |-> f.valid, late |-> f.late, bucket |-> f.bucket]

LEMMA KeyTells ==
    ASSUME NEW f, NEW g
    PROVE  Key(f) = Key(g) <=>
              /\ f.release = g.release /\ f.bound = g.bound /\ f.hmac = g.hmac
              /\ f.version = g.version /\ f.fingerprint = g.fingerprint
              /\ f.status = g.status /\ f.kind = g.kind /\ f.valid = g.valid
              /\ f.late = g.late /\ f.bucket = g.bucket
BY DEF Key

Part(F, K) == {f \in F : Key(f) \in K}

(* Each fact of F has its counterparts in G, with aggregates as large.     *)
Covers(F, G) ==
    \A f \in F : /\ \E g \in G : Key(g) = Key(f) /\ f.last <= g.last
                 /\ \E g \in G : Key(g) = Key(f) /\ f.drops <= g.drops
                 /\ \E g \in G : Key(g) = Key(f) /\ f.rate <= g.rate

(* The aggregates of a fact fit its columns.                               *)
Sound(f) ==
    /\ f.last \in Int /\ f.drops \in Int /\ f.rate \in Int
    /\ BucketOf(f.first) = f.bucket
    /\ f.valid => f.drops >= 0 /\ 0 <= f.rate /\ f.rate <= RatioOne

(* Facts F and G say the same but for scenes.                              *)
Alike(F, G) ==
    /\ IsFiniteSet(F) /\ IsFiniteSet(G)
    /\ Covers(F, G) /\ Covers(G, F)
    /\ \A f \in F \cup G : Sound(f)
    /\ \A K : SampleCount(Part(F, K)) = SampleCount(Part(G, K))

(* So do the facts that any test of those columns selects of them.         *)
LEMMA AlikePart ==
    ASSUME NEW F, NEW G, Alike(F, G), NEW A, A \subseteq F, NEW B, B \subseteq G,
           \A f \in F, g \in G : Key(f) = Key(g) => (f \in A <=> g \in B)
    PROVE  Alike(A, B)
<1> DEFINE K == {Key(f) : f \in A} \cup {Key(g) : g \in B}
<1>1. \A f \in F : \E g \in G : Key(g) = Key(f)
    BY DEF Alike, Covers
<1>2. \A g \in G : \E f \in F : Key(f) = Key(g)
    BY DEF Alike, Covers
<1>3. Part(F, K) = A
    <2>1. ASSUME NEW f \in F, Key(f) \in K PROVE f \in A
        <3>1. CASE \E x \in A : Key(f) = Key(x)
            BY <3>1, <1>1
        <3>2. CASE \E x \in B : Key(f) = Key(x)
            BY <3>2
        <3> QED BY <2>1, <3>1, <3>2
    <2> HIDE DEF K
    <2>2. \A f \in A : Key(f) \in K
        BY DEF K
    <2> QED BY <2>1, <2>2 DEF Part
<1>4. Part(G, K) = B
    <2>1. ASSUME NEW g \in G, Key(g) \in K PROVE g \in B
        <3>1. CASE \E x \in A : Key(g) = Key(x)
            BY <3>1
        <3>2. CASE \E x \in B : Key(g) = Key(x)
            BY <3>2, <1>2
        <3> QED BY <2>1, <3>1, <3>2
    <2> HIDE DEF K
    <2>2. \A g \in B : Key(g) \in K
        BY DEF K
    <2> QED BY <2>1, <2>2 DEF Part
<1> HIDE DEF K
<1>5. IsFiniteSet(A) /\ IsFiniteSet(B)
    BY FS_Subset DEF Alike
<1>6. Covers(A, B)
    BY DEF Alike, Covers
<1>7. Covers(B, A)
    BY DEF Alike, Covers
<1>8. ASSUME NEW J PROVE SampleCount(Part(A, J)) = SampleCount(Part(B, J))
    <2>1. Part(A, J) = Part(F, K \cap J) /\ Part(B, J) = Part(G, K \cap J)
        BY <1>3, <1>4 DEF Part
    <2> QED BY <2>1 DEF Alike
<1> QED BY <1>5, <1>6, <1>7, <1>8 DEF Alike

LEMMA AlikeReversed ==
    ASSUME NEW F, NEW G, Alike(F, G)
    PROVE  Alike(G, F)
BY DEF Alike

(* The tests of the views.                                                 *)
LEMMA AlikeFilters ==
    ASSUME NEW F, NEW G, Alike(F, G)
    PROVE  /\ Alike(Eligible(F), Eligible(G))
           /\ Alike(Incidents(F), Incidents(G))
           /\ Alike(Identified(F), Identified(G))
           /\ Alike({f \in F : f.late}, {f \in G : f.late})
           /\ Alike({f \in F : f.fingerprint # NoFingerprint},
                    {f \in G : f.fingerprint # NoFingerprint})
           /\ \A k : Alike(OfKind(F, k), OfKind(G, k))
           /\ \A r : Alike(Declared(F, r), Declared(G, r))
           /\ \A b : Alike(InBucket(F, b), InBucket(G, b))
<1>1. \A f \in F, g \in G : Key(f) = Key(g) =>
         /\ f.release = g.release /\ f.bound = g.bound /\ f.hmac = g.hmac
         /\ f.fingerprint = g.fingerprint /\ f.status = g.status /\ f.kind = g.kind
         /\ f.late = g.late /\ BucketOf(f.first) = BucketOf(g.first)
    BY KeyTells DEF Alike, Sound
<1>2. Alike(Eligible(F), Eligible(G))
    BY <1>1, AlikePart DEF Eligible
<1>3. Alike(Incidents(F), Incidents(G))
    BY <1>1, AlikePart DEF Eligible, Incidents
<1>4. Alike(Identified(F), Identified(G))
    BY <1>1, AlikePart DEF Identified
<1>5. Alike({f \in F : f.late}, {f \in G : f.late})
    BY <1>1, AlikePart
<1>6. Alike({f \in F : f.fingerprint # NoFingerprint}, {f \in G : f.fingerprint # NoFingerprint})
    BY <1>1, AlikePart
<1>7. ASSUME NEW k PROVE Alike(OfKind(F, k), OfKind(G, k))
    BY <1>1, AlikePart DEF OfKind
<1>8. ASSUME NEW r PROVE Alike(Declared(F, r), Declared(G, r))
    BY <1>1, AlikePart DEF Declared
<1>9. ASSUME NEW b PROVE Alike(InBucket(F, b), InBucket(G, b))
    BY <1>1, AlikePart DEF InBucket
<1> QED BY <1>2, <1>3, <1>4, <1>5, <1>6, <1>7, <1>8, <1>9

(* Counts, and sets of columns.                                            *)
LEMMA AlikeColumns ==
    ASSUME NEW F, NEW G, Alike(F, G)
    PROVE  /\ F = {} <=> G = {}
           /\ SampleCount(F) = SampleCount(G)
           /\ {f.version : f \in F} = {f.version : f \in G}
           /\ {f.fingerprint : f \in F} = {f.fingerprint : f \in G}
           /\ {f.status : f \in F} = {f.status : f \in G}
           /\ Installations(F) = Installations(G)
           /\ Identified(F) = F <=> Identified(G) = G
           /\ Eligible(F) = F <=> Eligible(G) = G
           /\ (\E f \in F : f.late) <=> (\E f \in G : f.late)
<1>1. \A f \in F : \E g \in G : Key(g) = Key(f)
    BY DEF Alike, Covers
<1>2. \A g \in G : \E f \in F : Key(f) = Key(g)
    BY DEF Alike, Covers
<1>3. \A f \in F : \E g \in G :
         /\ f.bound = g.bound /\ f.hmac = g.hmac /\ f.version = g.version
         /\ f.fingerprint = g.fingerprint /\ f.status = g.status /\ f.kind = g.kind
         /\ f.late = g.late
    BY <1>1, KeyTells
<1>4. \A g \in G : \E f \in F :
         /\ f.bound = g.bound /\ f.hmac = g.hmac /\ f.version = g.version
         /\ f.fingerprint = g.fingerprint /\ f.status = g.status /\ f.kind = g.kind
         /\ f.late = g.late
    BY <1>2, KeyTells
<1>5. SampleCount(F) = SampleCount(G)
    <2> DEFINE K == {Key(f) : f \in F \cup G}
    <2>1. Part(F, K) = F /\ Part(G, K) = G
        BY DEF Part
    <2> HIDE DEF K
    <2> QED BY <2>1 DEF Alike
<1>6. F = {} <=> G = {}
    BY <1>3, <1>4
<1>7. {f.version : f \in F} = {f.version : f \in G}
    BY <1>3, <1>4
<1>8. {f.fingerprint : f \in F} = {f.fingerprint : f \in G}
    BY <1>3, <1>4
<1>9. {f.status : f \in F} = {f.status : f \in G}
    BY <1>3, <1>4
<1>10. Installations(F) = Installations(G)
    BY <1>3, <1>4 DEF Installations, Identified
<1>11. Identified(F) = F <=> Identified(G) = G
    BY <1>3, <1>4 DEF Identified
<1>12. Eligible(F) = F <=> Eligible(G) = G
    BY <1>3, <1>4 DEF Eligible
<1>13. (\E f \in F : f.late) <=> (\E f \in G : f.late)
    BY <1>3, <1>4
<1> QED BY <1>5, <1>6, <1>7, <1>8, <1>9, <1>10, <1>11, <1>12, <1>13

(* The greatest of numbers that bound each other is the same.              *)
LEMMA SameGreatest ==
    ASSUME NEW A, NEW B, IsFiniteSet(A), IsFiniteSet(B), A # {}, B # {},
           A \subseteq Int, B \subseteq Int,
           \A x \in A : \E y \in B : x <= y, \A y \in B : \E x \in A : y <= x
    PROVE  Max(A) = Max(B)
<1>1. Max(A) \in A /\ \A x \in A : x <= Max(A)
    BY GreatestExists
<1>2. Max(B) \in B /\ \A y \in B : y <= Max(B)
    BY GreatestExists
<1>3. PICK y \in B : Max(A) <= y
    BY <1>1
<1>4. PICK x \in A : Max(B) <= x
    BY <1>2
<1>5. x <= Max(A) /\ y <= Max(B)
    BY <1>1, <1>2
<1>6. /\ x \in Int /\ y \in Int /\ Max(A) \in Int /\ Max(B) \in Int
    BY <1>1, <1>2
<1> QED BY <1>3, <1>4, <1>5, <1>6

LEMMA AlikeGreatest ==
    ASSUME NEW F, NEW G, Alike(F, G), F # {}
    PROVE  /\ Max({f.last : f \in F}) = Max({f.last : f \in G})
           /\ Max({f.rate : f \in F}) = Max({f.rate : f \in G})
<1>1. G # {} /\ IsFiniteSet(F) /\ IsFiniteSet(G)
    BY AlikeColumns DEF Alike
<1>2. \A H : IsFiniteSet(H) => IsFiniteSet({f.last : f \in H}) /\ IsFiniteSet({f.rate : f \in H})
    <2> SUFFICES ASSUME NEW H, IsFiniteSet(H)
                 PROVE  IsFiniteSet({f.last : f \in H}) /\ IsFiniteSet({f.rate : f \in H})
        OBVIOUS
    <2>1. [f \in H |-> f.last] \in Surjection(H, {f.last : f \in H})
        BY DEF Surjection
    <2>2. [f \in H |-> f.rate] \in Surjection(H, {f.rate : f \in H})
        BY DEF Surjection
    <2> QED BY <2>1, <2>2, FS_Surjection
<1>3. Max({f.last : f \in F}) = Max({f.last : f \in G})
    <2> DEFINE A == {f.last : f \in F}
               B == {f.last : f \in G}
    <2>1. A # {} /\ B # {} /\ A \subseteq Int /\ B \subseteq Int
        BY <1>1 DEF Alike, Sound
    <2>2. IsFiniteSet(A) /\ IsFiniteSet(B)
        BY <1>1, <1>2
    <2>3. \A f \in F : \E g \in G : f.last <= g.last
        BY DEF Alike, Covers
    <2>4. \A g \in G : \E f \in F : g.last <= f.last
        BY DEF Alike, Covers
    <2>5. \A x \in A : \E y \in B : x <= y
        BY <2>3
    <2>6. \A y \in B : \E x \in A : y <= x
        BY <2>4
    <2> HIDE DEF A, B
    <2>7. Max(A) = Max(B)
        BY <2>1, <2>2, <2>5, <2>6, SameGreatest
    <2> QED BY <2>7 DEF A, B
<1>4. Max({f.rate : f \in F}) = Max({f.rate : f \in G})
    <2> DEFINE A == {f.rate : f \in F}
               B == {f.rate : f \in G}
    <2>1. A # {} /\ B # {} /\ A \subseteq Int /\ B \subseteq Int
        BY <1>1 DEF Alike, Sound
    <2>2. IsFiniteSet(A) /\ IsFiniteSet(B)
        BY <1>1, <1>2
    <2>3. \A f \in F : \E g \in G : f.rate <= g.rate
        BY DEF Alike, Covers
    <2>4. \A g \in G : \E f \in F : g.rate <= f.rate
        BY DEF Alike, Covers
    <2>5. \A x \in A : \E y \in B : x <= y
        BY <2>3
    <2>6. \A y \in B : \E x \in A : y <= x
        BY <2>4
    <2> HIDE DEF A, B
    <2>7. Max(A) = Max(B)
        BY <2>1, <2>2, <2>5, <2>6, SameGreatest
    <2> QED BY <2>7 DEF A, B
<1> QED BY <1>3, <1>4

(* Every view is the same of facts that are alike.                         *)
LEMMA AlikeDropped ==
    ASSUME NEW F, NEW G, Alike(F, G)
    PROVE  Dropped(F) = {} <=> Dropped(G) = {}
<1>1. ASSUME NEW A, NEW B, Alike(A, B), NEW f \in Dropped(A) PROVE Dropped(B) # {}
    <2>1. f \in A /\ f.kind = "sdk_health" /\ (f.drops > 0 \/ f.rate > 0)
        BY DEF Dropped, OfKind
    <2>2. PICK g \in B : Key(g) = Key(f) /\ f.drops <= g.drops
        BY <2>1, <1>1 DEF Alike, Covers
    <2>3. PICK h \in B : Key(h) = Key(f) /\ f.rate <= h.rate
        BY <2>1, <1>1 DEF Alike, Covers
    <2>4. g.kind = "sdk_health" /\ h.kind = "sdk_health"
        BY <2>1, <2>2, <2>3, KeyTells
    <2>5. f.drops \in Int /\ f.rate \in Int /\ g.drops \in Int /\ h.rate \in Int
        BY <2>1, <1>1 DEF Alike, Sound
    <2>6. g.drops > 0 \/ h.rate > 0
        BY <2>1, <2>2, <2>3, <2>5
    <2> QED BY <2>4, <2>6 DEF Dropped, OfKind
<1>2. Alike(G, F)
    BY AlikeReversed
<1> QED BY <1>1, <1>2

LEMMA AlikeContinuity ==
    ASSUME NEW F, NEW G, Alike(F, G)
    PROVE  ContinuityBroken(F) = ContinuityBroken(G)
<1>1. Alike(Identified(F), Identified(G))
    BY AlikeFilters
<1>2. {f.version : f \in Identified(F)} = {f.version : f \in Identified(G)}
    BY <1>1, AlikeColumns
<1> QED BY <1>2 DEF ContinuityBroken

LEMMA AlikeInstallationCount ==
    ASSUME NEW F, NEW G, Alike(F, G), NEW broken
    PROVE  InstallationCount(F, broken) = InstallationCount(G, broken)
<1>1. Installations(F) = Installations(G) /\ (Identified(F) = F <=> Identified(G) = G)
    BY AlikeColumns
<1> QED BY <1>1 DEF InstallationCount

LEMMA AlikeQuality ==
    ASSUME NEW F, NEW G, Alike(F, G)
    PROVE  QualityState(F) = QualityState(G)
<1> DEFINE A == Eligible(F)
           B == Eligible(G)
<1>1. Alike(A, B)
    BY AlikeFilters
<1> HIDE DEF A, B
<1>2. Alike(Identified(A), Identified(B))
    BY <1>1, AlikeFilters
<1>3. (F = {} <=> G = {}) /\ SampleCount(F) = SampleCount(G)
    BY AlikeColumns
<1>4. /\ A = {} <=> B = {}
      /\ SampleCount(A) = SampleCount(B)
      /\ (\E f \in A : f.late) <=> (\E f \in B : f.late)
    BY <1>1, AlikeColumns
<1>5. SampleCount(Identified(A)) = SampleCount(Identified(B))
    BY <1>2, AlikeColumns
<1>6. Dropped(A) = {} <=> Dropped(B) = {}
    BY <1>1, AlikeDropped
<1> QED BY <1>3, <1>4, <1>5, <1>6 DEF QualityState, A, B

LEMMA SoundIsValid ==
    ASSUME NEW f, Sound(f)
    PROVE  HealthFactIsValid(f) <=> f.valid
BY DEF Sound, HealthFactIsValid

LEMMA AlikeSdkHealth ==
    ASSUME NEW F, NEW G, Alike(F, G)
    PROVE  SdkHealthMetric(F) = SdkHealthMetric(G)
<1> DEFINE A == OfKind(F, "sdk_health")
           B == OfKind(G, "sdk_health")
<1>1. Alike(A, B)
    BY AlikeFilters
<1> HIDE DEF A, B
<1>2. A = {} <=> B = {}
    BY <1>1, AlikeColumns
<1>3. A # {} => Max({f.rate : f \in A}) = Max({f.rate : f \in B})
    BY <1>1, AlikeGreatest
<1>4. (\E f \in A : ~HealthFactIsValid(f)) <=> (\E f \in B : ~HealthFactIsValid(f))
    <2>1. \A f \in A \cup B : HealthFactIsValid(f) <=> f.valid
        BY <1>1, SoundIsValid DEF Alike
    <2>2. (\A f \in A : \E g \in B : Key(g) = Key(f)) /\ (\A g \in B : \E f \in A : Key(g) = Key(f))
        BY <1>1 DEF Alike, Covers
    <2>3. /\ \A f \in A : \E g \in B : g.valid = f.valid
          /\ \A g \in B : \E f \in A : g.valid = f.valid
        BY <2>2, KeyTells
    <2> QED BY <2>1, <2>3
<1>5. Dropped(F) = {} <=> Dropped(G) = {}
    BY AlikeDropped
<1> QED BY <1>2, <1>3, <1>4, <1>5 DEF SdkHealthMetric, A, B

LEMMA AlikeGate ==
    ASSUME NEW F, NEW G, Alike(F, G)
    PROVE  GateState(F) = GateState(G)
<1> DEFINE A == OfKind(Eligible(F), "sdk_health")
           B == OfKind(Eligible(G), "sdk_health")
           V(H) == {f \in H : HealthFactIsValid(f)}
<1>1. Alike(Eligible(F), Eligible(G))
    BY AlikeFilters
<1>2. Alike(A, B)
    BY <1>1, AlikeFilters
<1> HIDE DEF A, B
<1>3. Alike(V(A), V(B))
    <2>1. \A f \in A \cup B : HealthFactIsValid(f) <=> f.valid
        BY <1>2, SoundIsValid DEF Alike
    <2>2. \A f \in A, g \in B : Key(f) = Key(g) => (f \in V(A) <=> g \in V(B))
        BY <2>1, KeyTells
    <2>3. V(A) \subseteq A /\ V(B) \subseteq B
        OBVIOUS
    <2> HIDE DEF V
    <2> QED BY <1>2, <2>2, <2>3, AlikePart
<1>4. /\ Installations(V(A)) = Installations(V(B))
      /\ Installations(Eligible(F)) = Installations(Eligible(G))
    BY <1>1, <1>3, AlikeColumns
<1>5. QualityState(F) = QualityState(G)
      /\ SdkHealthMetric(Eligible(F)) = SdkHealthMetric(Eligible(G))
    BY <1>1, AlikeQuality, AlikeSdkHealth
<1> QED BY <1>4, <1>5 DEF GateState, A, B

LEMMA AlikeInstallationMetric ==
    ASSUME NEW F, NEW G, Alike(F, G), NEW A, NEW B, Alike(A, B), NEW quality
    PROVE  InstallationMetric(A, F, quality) = InstallationMetric(B, G, quality)
<1>1. Alike(Identified(F), Identified(G))
    BY AlikeFilters
<1>2. /\ F = {} <=> G = {}
      /\ Identified(F) = {} <=> Identified(G) = {}
      /\ SampleCount(F) = SampleCount(G)
      /\ SampleCount(Identified(F)) = SampleCount(Identified(G))
      /\ Installations(A) = Installations(B)
    BY <1>1, AlikeColumns
<1> QED BY <1>2 DEF InstallationMetric

LEMMA AlikeRatio ==
    ASSUME NEW F, NEW G, Alike(F, G)
    PROVE  RatioMetric(F) = RatioMetric(G)
<1>1. Alike(Eligible(F), Eligible(G)) /\ Alike(Incidents(F), Incidents(G))
    BY AlikeFilters
<1>2. /\ Installations(Eligible(F)) = Installations(Eligible(G))
      /\ Installations(Incidents(F)) = Installations(Incidents(G))
    BY <1>1, AlikeColumns
<1>3. GateState(F) = GateState(G)
    BY AlikeGate
<1> QED BY <1>2, <1>3 DEF RatioMetric

(* The incidents with a fingerprint.                                       *)
LEMMA AlikeKnown ==
    ASSUME NEW F, NEW G, Alike(F, G)
    PROVE  /\ Alike(KnownFacts(F), KnownFacts(G))
           /\ KnownFacts(F) = Incidents(F) <=> KnownFacts(G) = Incidents(G)
<1>1. Alike(Incidents(F), Incidents(G))
    BY AlikeFilters
<1>2. Alike(KnownFacts(F), KnownFacts(G))
    BY <1>1, AlikeFilters DEF KnownFacts
<1>3. {f.fingerprint : f \in Incidents(F)} = {f.fingerprint : f \in Incidents(G)}
    BY <1>1, AlikeColumns
<1>4. \A H : KnownFacts(H) = Incidents(H)
                <=> NoFingerprint \notin {f.fingerprint : f \in Incidents(H)}
    BY DEF KnownFacts
<1> QED BY <1>2, <1>3, <1>4

LEMMA AlikeFingerprints ==
    ASSUME NEW F, NEW G, Alike(F, G)
    PROVE  FingerprintMetric(F) = FingerprintMetric(G)
<1> DEFINE A == KnownFacts(F)
           B == KnownFacts(G)
<1>1. Alike(A, B) /\ (A = Incidents(F) <=> B = Incidents(G))
    BY AlikeKnown
<1>2. A = {f \in Incidents(F) : f.fingerprint # NoFingerprint}
      /\ B = {f \in Incidents(G) : f.fingerprint # NoFingerprint}
    BY DEF KnownFacts
<1> HIDE DEF A, B
<1>3. Alike(Eligible(F), Eligible(G)) /\ Alike(Incidents(F), Incidents(G))
    BY AlikeFilters
<1>4. /\ Eligible(F) = {} <=> Eligible(G) = {}
      /\ Incidents(F) = {} <=> Incidents(G) = {}
      /\ A = {} <=> B = {}
      /\ {f.fingerprint : f \in A} = {f.fingerprint : f \in B}
    BY <1>1, <1>3, AlikeColumns
<1>5. QualityState(F) = QualityState(G)
    BY AlikeQuality
<1>6. FingerprintMetric(F) =
         CASE Incidents(F) = {} /\ Eligible(F) # {} -> Metric("ZERO", 0)
           [] Incidents(F) # {} /\ A = {} -> Metric("UNAVAILABLE", Null)
           [] A # {} -> Metric(IF A = Incidents(F) THEN "PRESENT" ELSE "DEGRADED",
                               Cardinality({f.fingerprint : f \in A}))
           [] OTHER -> Metric(QualityState(F), Null)
    BY <1>2 DEF FingerprintMetric
<1>7. FingerprintMetric(G) =
         CASE Incidents(G) = {} /\ Eligible(G) # {} -> Metric("ZERO", 0)
           [] Incidents(G) # {} /\ B = {} -> Metric("UNAVAILABLE", Null)
           [] B # {} -> Metric(IF B = Incidents(G) THEN "PRESENT" ELSE "DEGRADED",
                               Cardinality({f.fingerprint : f \in B}))
           [] OTHER -> Metric(QualityState(G), Null)
    BY <1>2 DEF FingerprintMetric
<1>8. A # {} => Incidents(F) # {}
    BY <1>2
<1> QED BY <1>1, <1>4, <1>5, <1>6, <1>7, <1>8

LEMMA AlikeLate ==
    ASSUME NEW F, NEW G, Alike(F, G)
    PROVE  LateMetric(F) = LateMetric(G)
<1>1. Alike(Eligible(F), Eligible(G))
    BY AlikeFilters
<1>2. Alike({f \in Eligible(F) : f.late}, {f \in Eligible(G) : f.late})
    BY <1>1, AlikeFilters
<1>3. /\ Eligible(F) = {} <=> Eligible(G) = {}
      /\ SampleCount(Eligible(F)) = SampleCount(Eligible(G))
      /\ SampleCount({f \in Eligible(F) : f.late}) = SampleCount({f \in Eligible(G) : f.late})
    BY <1>1, <1>2, AlikeColumns
<1>4. QualityState(F) = QualityState(G)
    BY AlikeQuality
<1> QED BY <1>3, <1>4 DEF LateMetric

LEMMA AlikeSlice ==
    ASSUME NEW F, NEW G, Alike(F, G)
    PROVE  ReleaseSlice(F) = ReleaseSlice(G)
<1>1. Alike(Eligible(F), Eligible(G)) /\ Alike(Incidents(F), Incidents(G))
    BY AlikeFilters
<1>2. \A k : Alike(OfKind(Eligible(F), k), OfKind(Eligible(G), k))
    BY <1>1, AlikeFilters
<1>3. /\ F = {} <=> G = {}
      /\ SampleCount(F) = SampleCount(G)
      /\ SampleCount(Eligible(F)) = SampleCount(Eligible(G))
      /\ \A k : SampleCount(OfKind(Eligible(F), k)) = SampleCount(OfKind(Eligible(G), k))
    BY <1>1, <1>2, AlikeColumns
<1>4. QualityState(F) = QualityState(G)
    BY AlikeQuality
<1>5. GateState(F) = GateState(G) /\ RatioMetric(F) = RatioMetric(G)
    BY AlikeGate, AlikeRatio
<1>6. /\ InstallationMetric(Eligible(F), Eligible(F), QualityState(F))
            = InstallationMetric(Eligible(G), Eligible(G), QualityState(G))
      /\ InstallationMetric(Incidents(F), Eligible(F), QualityState(F))
            = InstallationMetric(Incidents(G), Eligible(G), QualityState(G))
    BY <1>1, <1>4, AlikeInstallationMetric
<1>7. FingerprintMetric(F) = FingerprintMetric(G) /\ LateMetric(F) = LateMetric(G)
    BY AlikeFingerprints, AlikeLate
<1>8. SdkHealthMetric(Eligible(F)) = SdkHealthMetric(Eligible(G))
    BY <1>1, AlikeSdkHealth
<1> QED BY <1>3, <1>4, <1>5, <1>6, <1>7, <1>8 DEF ReleaseSlice

LEMMA AlikeTrend ==
    ASSUME NEW F, NEW G, Alike(F, G), NEW r
    PROVE  ReleaseTrend(F, r) = ReleaseTrend(G, r)
<1>1. ASSUME NEW A, NEW B, Alike(A, B) PROVE BucketIncidents(A) = BucketIncidents(B)
    <2>1. Alike(Eligible(A), Eligible(B))
        BY <1>1, AlikeFilters
    <2>2. \A k : Alike(OfKind(Eligible(A), k), OfKind(Eligible(B), k))
        BY <2>1, AlikeFilters
    <2>3. /\ A = {} <=> B = {}
          /\ Eligible(A) = {} <=> Eligible(B) = {}
          /\ Eligible(A) = A <=> Eligible(B) = B
          /\ \A k : SampleCount(OfKind(Eligible(A), k)) = SampleCount(OfKind(Eligible(B), k))
        BY <1>1, <2>1, <2>2, AlikeColumns
    <2> QED BY <2>3 DEF BucketIncidents
<1>2. Alike(Declared(F, r), Declared(G, r))
    BY AlikeFilters
<1>3. \A b : Alike(InBucket(Declared(F, r), b), InBucket(Declared(G, r), b))
    BY <1>2, AlikeFilters
<1>4. \A b : BucketIncidents(InBucket(Declared(F, r), b)) =
                BucketIncidents(InBucket(Declared(G, r), b))
    BY <1>1, <1>3
<1> QED BY <1>4 DEF ReleaseTrend

LEMMA AlikeHealth ==
    ASSUME NEW F, NEW G, Alike(F, G), NEW new, NEW baseline
    PROVE  BuildReleaseHealth(F, new, baseline) = BuildReleaseHealth(G, new, baseline)
<1> DEFINE A == Declared(F, new) \cup Declared(F, baseline)
           B == Declared(G, new) \cup Declared(G, baseline)
<1>1. Alike(A, B)
    <2>1. \A f \in F, g \in G : Key(f) = Key(g) => (f \in A <=> g \in B)
        BY KeyTells DEF Declared
    <2>2. A \subseteq F /\ B \subseteq G
        BY DEF Declared
    <2> HIDE DEF A, B
    <2> QED BY <2>1, <2>2, AlikePart
<1> HIDE DEF A, B
<1>2. Alike(Eligible(A), Eligible(B))
    BY <1>1, AlikeFilters
<1>3. ContinuityBroken(Eligible(A)) = ContinuityBroken(Eligible(B))
    BY <1>2, AlikeContinuity
<1>4. \A r : Alike(Declared(F, r), Declared(G, r))
    BY AlikeFilters
<1>5. \A r : ReleaseSlice(Declared(F, r)) = ReleaseSlice(Declared(G, r))
    BY <1>4, AlikeSlice
<1>6. \A r : ReleaseTrend(F, r) = ReleaseTrend(G, r)
    BY AlikeTrend
<1> QED BY <1>3, <1>5, <1>6 DEF BuildReleaseHealth, A, B

LEMMA AlikeFamily ==
    ASSUME NEW F, NEW G, Alike(F, G), NEW fp, NEW kind
    PROVE  Alike(FamilyOf(F, fp, kind), FamilyOf(G, fp, kind))
<1>1. Alike(Incidents(F), Incidents(G))
    BY AlikeFilters
<1>2. \A f \in Incidents(F), g \in Incidents(G) :
         Key(f) = Key(g) => (f \in FamilyOf(F, fp, kind) <=> g \in FamilyOf(G, fp, kind))
    BY KeyTells DEF FamilyOf
<1>3. FamilyOf(F, fp, kind) \subseteq Incidents(F) /\ FamilyOf(G, fp, kind) \subseteq Incidents(G)
    BY DEF FamilyOf
<1> QED BY <1>1, <1>2, <1>3, AlikePart

LEMMA AlikeItems ==
    ASSUME NEW F, NEW G, Alike(F, G)
    PROVE  ListItems(F) = ListItems(G)
<1> DEFINE A == KnownFacts(F)
           B == KnownFacts(G)
<1>1. Alike(A, B)
    BY AlikeKnown
<1>2. Alike(Eligible(F), Eligible(G))
    BY AlikeFilters
<1>3. ContinuityBroken(Eligible(F)) = ContinuityBroken(Eligible(G))
    BY <1>2, AlikeContinuity
<1>4. ASSUME NEW f \in A
      PROVE  ListItem(F, f.fingerprint, f.kind) = ListItem(G, f.fingerprint, f.kind)
    <2> DEFINE C == FamilyOf(F, f.fingerprint, f.kind)
               D == FamilyOf(G, f.fingerprint, f.kind)
    <2>1. Alike(C, D)
        BY AlikeFamily
    <2>2. C # {}
        BY DEF FamilyOf, KnownFacts
    <2> HIDE DEF C, D
    <2>3. SampleCount(C) = SampleCount(D)
        BY <2>1, AlikeColumns
    <2>4. Max({x.last : x \in C}) = Max({x.last : x \in D})
        BY <2>1, <2>2, AlikeGreatest
    <2>5. InstallationCount(C, ContinuityBroken(Eligible(F))) =
             InstallationCount(D, ContinuityBroken(Eligible(G)))
        BY <1>3, <2>1, AlikeInstallationCount
    <2> QED BY <2>3, <2>4, <2>5 DEF ListItem, C, D
<1>5. /\ \A f \in A : \E g \in B : f.fingerprint = g.fingerprint /\ f.kind = g.kind
      /\ \A g \in B : \E f \in A : f.fingerprint = g.fingerprint /\ f.kind = g.kind
    BY <1>1, KeyTells DEF Alike, Covers
<1> HIDE DEF A, B
<1>6. ASSUME NEW x PROVE (\E f \in A : x = ListItem(F, f.fingerprint, f.kind))
                          <=> (\E g \in B : x = ListItem(G, g.fingerprint, g.kind))
    BY <1>4, <1>5
<1>7. \A x : x \in ListItems(F) <=> x \in ListItems(G)
    BY <1>6 DEF ListItems, A, B
<1> QED BY <1>7

LEMMA AlikeList ==
    ASSUME NEW F, NEW G, Alike(F, G), NEW limit
    PROVE  TopFingerprints(F, limit) = TopFingerprints(G, limit)
<1> DEFINE State(H) ==
        CASE H = {} -> "NO_DATA"
          [] H # {} /\ Eligible(H) = {} -> "UNAVAILABLE"
          [] Eligible(H) # {} /\ Incidents(H) = {} -> "ZERO"
          [] OTHER -> IF ContinuityBroken(Eligible(H)) THEN "DEGRADED"
                      ELSE IF KnownFacts(H) = {} THEN "UNAVAILABLE"
                      ELSE IF KnownFacts(H) # Incidents(H) THEN "DEGRADED" ELSE "PRESENT"
<1>1. ASSUME NEW H
      PROVE  TopFingerprints(H, limit) =
                [state |-> State(H), items |-> TopFingerprints(H, limit).items]
    BY DEF TopFingerprints, KnownFacts
<1>2. TopFingerprints(F, limit).items = TopFingerprints(G, limit).items
    BY AlikeItems, ListIs
<1>3. /\ Alike(Eligible(F), Eligible(G)) /\ Alike(Incidents(F), Incidents(G))
      /\ Alike(KnownFacts(F), KnownFacts(G))
      /\ KnownFacts(F) = Incidents(F) <=> KnownFacts(G) = Incidents(G)
    BY AlikeFilters, AlikeKnown
<1>4. /\ F = {} <=> G = {}
      /\ Eligible(F) = {} <=> Eligible(G) = {}
      /\ Incidents(F) = {} <=> Incidents(G) = {}
      /\ KnownFacts(F) = {} <=> KnownFacts(G) = {}
    BY <1>3, AlikeColumns
<1>5. ContinuityBroken(Eligible(F)) = ContinuityBroken(Eligible(G))
    BY <1>3, AlikeContinuity
<1>6. State(F) = State(G)
    BY <1>3, <1>4, <1>5
<1> HIDE DEF State
<1> QED BY <1>1, <1>2, <1>6

LEMMA AlikeDataQuality ==
    ASSUME NEW F, NEW G, Alike(F, G)
    PROVE  DataQuality(F) = DataQuality(G)
<1> DEFINE late(H) == {f \in H : f.late}
           of(H, s) == {f \in H : f.status = s}
<1>1. Alike(Eligible(F), Eligible(G))
    BY AlikeFilters
<1>2. Alike(Identified(Eligible(F)), Identified(Eligible(G)))
    BY <1>1, AlikeFilters
<1>3. /\ F = {} <=> G = {}
      /\ SampleCount(F) = SampleCount(G)
      /\ {f.status : f \in F} = {f.status : f \in G}
    BY AlikeColumns
<1>8. SampleCount(Eligible(F)) = SampleCount(Eligible(G))
    BY <1>1, AlikeColumns
<1>9. SampleCount(Identified(Eligible(F))) = SampleCount(Identified(Eligible(G)))
    BY <1>2, AlikeColumns
<1>10. Alike(late(F), late(G))
    BY AlikeFilters
<1>11. ASSUME NEW s PROVE Alike(of(F, s), of(G, s))
    <2>1. \A f \in F, g \in G : Key(f) = Key(g) => (f \in of(F, s) <=> g \in of(G, s))
        BY KeyTells
    <2>2. of(F, s) \subseteq F /\ of(G, s) \subseteq G
        OBVIOUS
    <2> HIDE DEF of
    <2> QED BY <2>1, <2>2, AlikePart
<1>4. SampleCount(late(F)) = SampleCount(late(G))
    <2> HIDE DEF late
    <2> QED BY <1>10, AlikeColumns
<1>5. \A s : SampleCount(of(F, s)) = SampleCount(of(G, s))
    <2> HIDE DEF of
    <2> QED BY <1>11, AlikeColumns
<1>6. [s \in {f.status : f \in F} |-> SampleCount(of(F, s))] =
         [s \in {f.status : f \in G} |-> SampleCount(of(G, s))]
    BY <1>3, <1>5
<1>7. /\ SdkHealthMetric(F) = SdkHealthMetric(G)
      /\ Dropped(F) = {} <=> Dropped(G) = {}
      /\ ContinuityBroken(F) = ContinuityBroken(G)
    BY AlikeSdkHealth, AlikeDropped, AlikeContinuity
<1> QED BY <1>3, <1>4, <1>6, <1>7, <1>8, <1>9 DEF DataQuality

(* What facts F owe to the rows of the events E in table t: each event is  *)
(* behind a fact with its columns, each aggregate is the number of an      *)
(* event, and none is counted twice.                                       *)
RowKey(row) == Key(Dimensions(row))

Numbers(row) == <<row.at, Number(row, "dropCount"), Number(row, "dropRate")>>

Summarizes(F, E, t) ==
    /\ IsFiniteSet(F) /\ \A f \in F : Sound(f)
    /\ \A e \in E : \E f \in F : /\ Key(f) = RowKey(t[e])
                                 /\ Numbers(t[e])[1] <= f.last
                                 /\ Numbers(t[e])[2] <= f.drops
                                 /\ Numbers(t[e])[3] <= f.rate
    /\ \A f \in F : /\ \E e \in E : Key(f) = RowKey(t[e]) /\ f.last = Numbers(t[e])[1]
                    /\ \E e \in E : Key(f) = RowKey(t[e]) /\ f.drops = Numbers(t[e])[2]
                    /\ \E e \in E : Key(f) = RowKey(t[e]) /\ f.rate = Numbers(t[e])[3]
    /\ \A K : SampleCount(Part(F, K)) = Cardinality({e \in E : RowKey(t[e]) \in K})

(* Two tables whose rows agree on these columns and numbers have facts     *)
(* that are alike.                                                         *)
LEMMA SummariesAlike ==
    ASSUME NEW E, NEW t, NEW u, NEW F, NEW G, Summarizes(F, E, t), Summarizes(G, E, u),
           \A e \in E : RowKey(t[e]) = RowKey(u[e]) /\ Numbers(t[e]) = Numbers(u[e])
    PROVE  Alike(F, G)
<1>1. ASSUME NEW A, NEW B, NEW v, NEW w, Summarizes(A, E, v), Summarizes(B, E, w),
             \A e \in E : RowKey(v[e]) = RowKey(w[e]) /\ Numbers(v[e]) = Numbers(w[e])
      PROVE  Covers(A, B)
    <2> SUFFICES ASSUME NEW f \in A
                 PROVE  /\ \E g \in B : Key(g) = Key(f) /\ f.last <= g.last
                        /\ \E g \in B : Key(g) = Key(f) /\ f.drops <= g.drops
                        /\ \E g \in B : Key(g) = Key(f) /\ f.rate <= g.rate
        BY DEF Covers
    <2>1. \E g \in B : Key(g) = Key(f) /\ f.last <= g.last
        <3>1. PICK e \in E : Key(f) = RowKey(v[e]) /\ f.last = Numbers(v[e])[1]
            BY <1>1 DEF Summarizes
        <3>2. PICK g \in B : Key(g) = RowKey(w[e]) /\ Numbers(w[e])[1] <= g.last
            BY <1>1 DEF Summarizes
        <3> QED BY <1>1, <3>1, <3>2
    <2>2. \E g \in B : Key(g) = Key(f) /\ f.drops <= g.drops
        <3>1. PICK e \in E : Key(f) = RowKey(v[e]) /\ f.drops = Numbers(v[e])[2]
            BY <1>1 DEF Summarizes
        <3>2. PICK g \in B : Key(g) = RowKey(w[e]) /\ Numbers(w[e])[2] <= g.drops
            BY <1>1 DEF Summarizes
        <3> QED BY <1>1, <3>1, <3>2
    <2>3. \E g \in B : Key(g) = Key(f) /\ f.rate <= g.rate
        <3>1. PICK e \in E : Key(f) = RowKey(v[e]) /\ f.rate = Numbers(v[e])[3]
            BY <1>1 DEF Summarizes
        <3>2. PICK g \in B : Key(g) = RowKey(w[e]) /\ Numbers(w[e])[3] <= g.rate
            BY <1>1 DEF Summarizes
        <3> QED BY <1>1, <3>1, <3>2
    <2> QED BY <2>1, <2>2, <2>3
<1>2. Covers(F, G)
    BY <1>1
<1>3. Covers(G, F)
    <2>1. \A e \in E : RowKey(u[e]) = RowKey(t[e]) /\ Numbers(u[e]) = Numbers(t[e])
        OBVIOUS
    <2> QED BY <1>1, <2>1
<1>4. ASSUME NEW K PROVE SampleCount(Part(F, K)) = SampleCount(Part(G, K))
    <2>1. {e \in E : RowKey(t[e]) \in K} = {e \in E : RowKey(u[e]) \in K}
        OBVIOUS
    <2> QED BY <2>1 DEF Summarizes
<1> QED BY <1>2, <1>3, <1>4 DEF Alike, Summarizes

(* Pruning a row keeps both.                                               *)
LEMMA PruneKeepsRow ==
    ASSUME NEW row, DOMAIN row = Columns
    PROVE  RowKey(Pruned(row)) = RowKey(row) /\ Numbers(Pruned(row)) = Numbers(row)
<1> DEFINE next == Pruned(row)
<1>1. IsPruned(next, row)
    BY PrunedRow
<1> HIDE DEF next
<1>2. DOMAIN next.registered = RetainedFields(row.registered)
      /\ \A f \in RetainedFields(row.registered) : next.registered[f] = row.registered[f]
    BY <1>1 DEF IsPruned
<1>3. \A f \in {"emitCount", "dropCount", "dropRate"} :
         f \in RetainedFields(row.registered) <=> f \in DOMAIN row.registered
    BY DEF RetainedFields, IndexedFields, TextFields
<1>4. \A f \in {"emitCount", "dropCount", "dropRate"} : Number(next, f) = Number(row, f)
    BY <1>2, <1>3 DEF Number
<1>5. ValidHealth(next) = ValidHealth(row)
    BY <1>4 DEF ValidHealth
<1>6. Numbers(next) = Numbers(row)
    BY <1>1, <1>4 DEF Numbers, IsPruned
<1>7. IsLate(next) = IsLate(row)
    BY <1>1 DEF IsLate, IsPruned
<1>8. RowKey(next) = RowKey(row)
    BY <1>1, <1>5, <1>7 DEF RowKey, Key, Dimensions, IsPruned
<1> QED BY <1>6, <1>8 DEF next

(* The facts of a query summarize the rows it read.                        *)
LEMMA FactsSummarize ==
    ASSUME FactsHeld, NEW E, E \subseteq WindowEvents
    PROVE  Summarizes(FactsOf(E), E, rows)
<1> DEFINE F == FactsOf(E)
           fact(e) == FactFor(E, e)
<1>1. IsFiniteSet(E) /\ E \subseteq DOMAIN rows
    BY WindowFinite, FS_Subset DEF WindowEvents
<1>2. F = {fact(e) : e \in E}
    BY FactsAre
<1>3. IsFiniteSet(F)
    <2>1. [e \in E |-> fact(e)] \in Surjection(E, F)
        BY <1>2 DEF Surjection
    <2> QED BY <1>1, <2>1, FS_Surjection
<1>4. ASSUME NEW e \in E
      PROVE  Key(fact(e)) = RowKey(rows[e])
    <2>1. TellsOf(fact(e), e)
        BY FactTells
    <2> QED BY <2>1 DEF TellsOf, RowKey, Key, Dimensions
<1>5. ASSUME NEW e \in E
      PROVE  /\ rows[e].at \in Int /\ Number(rows[e], "dropCount") \in Int
             /\ Number(rows[e], "dropRate") \in Int
    <2>1. reported[e] \in Report /\ RowTrue(e)
        BY <1>1 DEF FactsHeld, HealthTypeOK, RowTypeOK
    <2>2. rows[e].at \in Int
        BY <2>1, OccurrenceIsTime DEF RowTrue
    <2> QED BY <1>1, <2>2, CountersTrue
<1>6. ASSUME NEW e \in E
      PROVE  /\ \E d \in GroupOf(E, e) : fact(e).last = Numbers(rows[d])[1]
             /\ \E d \in GroupOf(E, e) : fact(e).drops = Numbers(rows[d])[2]
             /\ \E d \in GroupOf(E, e) : fact(e).rate = Numbers(rows[d])[3]
             /\ Numbers(rows[e])[1] <= fact(e).last
             /\ Numbers(rows[e])[2] <= fact(e).drops
             /\ Numbers(rows[e])[3] <= fact(e).rate
             /\ fact(e).last \in Int /\ fact(e).drops \in Int /\ fact(e).rate \in Int
    <2> DEFINE at == [d \in E |-> rows[d].at]
               drops == [d \in E |-> Number(rows[d], "dropCount")]
               rates == [d \in E |-> Number(rows[d], "dropRate")]
               S == {rows[d].at : d \in GroupOf(E, e)}
               D == {Number(rows[d], "dropCount") : d \in GroupOf(E, e)}
               R == {Number(rows[d], "dropRate") : d \in GroupOf(E, e)}
    <2>1. fact(e).last = Max(S) /\ fact(e).drops = Max(D) /\ fact(e).rate = Max(R)
        BY FactTells DEF Aggregates
    <2>2. GroupOf(E, e) \subseteq E
        BY DEF GroupOf
    <2>3. /\ \A d \in E : at[d] \in Int /\ drops[d] \in Int /\ rates[d] \in Int
          /\ \A x : x \in S <=> \E d \in GroupOf(E, e) : x = at[d]
          /\ \A x : x \in D <=> \E d \in GroupOf(E, e) : x = drops[d]
          /\ \A x : x \in R <=> \E d \in GroupOf(E, e) : x = rates[d]
          /\ at[e] = rows[e].at /\ drops[e] = Number(rows[e], "dropCount")
          /\ rates[e] = Number(rows[e], "dropRate")
        BY <1>5, <2>2
    <2> HIDE DEF at, drops, rates, S, D, R
    <2>4. Max(S) \in S /\ at[e] <= Max(S) /\ Max(S) \in Int
        BY <1>1, <2>3, GreatestOfGroup
    <2>5. Max(D) \in D /\ drops[e] <= Max(D) /\ Max(D) \in Int
        BY <1>1, <2>3, GreatestOfGroup
    <2>6. Max(R) \in R /\ rates[e] <= Max(R) /\ Max(R) \in Int
        BY <1>1, <2>3, GreatestOfGroup
    <2>7. /\ \E d \in GroupOf(E, e) : Max(S) = rows[d].at
          /\ \E d \in GroupOf(E, e) : Max(D) = Number(rows[d], "dropCount")
          /\ \E d \in GroupOf(E, e) : Max(R) = Number(rows[d], "dropRate")
        BY <2>4, <2>5, <2>6 DEF S, D, R
    <2>8. \A d \in E : /\ Numbers(rows[d])[1] = rows[d].at
                       /\ Numbers(rows[d])[2] = Number(rows[d], "dropCount")
                       /\ Numbers(rows[d])[3] = Number(rows[d], "dropRate")
        BY DEF Numbers
    <2> QED BY <2>1, <2>2, <2>3, <2>4, <2>5, <2>6, <2>7, <2>8
<1>7. ASSUME NEW e \in E, NEW d \in GroupOf(E, e)
      PROVE  /\ d \in E /\ RowKey(rows[d]) = RowKey(rows[e])
             /\ ValidHealth(rows[d]) = ValidHealth(rows[e])
    BY DEF GroupOf, RowKey, Dimensions
<1>8. ASSUME NEW e \in E PROVE Sound(fact(e))
    <2>1. TellsOf(fact(e), e)
        BY FactTells
    <2>2. BucketOf(fact(e).first) = fact(e).bucket
        <3>1. BucketOf(fact(e).first) = BucketOf(OccurrenceTime(reported[e]))
            BY FactBucket
        <3>2. rows[e].at = OccurrenceTime(reported[e])
            BY <1>1 DEF FactsHeld, RowTrue
        <3> QED BY <2>1, <3>1, <3>2 DEF TellsOf
    <2>3. fact(e).valid => fact(e).drops >= 0 /\ 0 <= fact(e).rate /\ fact(e).rate <= RatioOne
        <3> SUFFICES ASSUME fact(e).valid
                     PROVE  fact(e).drops >= 0 /\ 0 <= fact(e).rate /\ fact(e).rate <= RatioOne
            OBVIOUS
        <3>1. ValidHealth(rows[e])
            BY <2>1 DEF TellsOf
        <3>2. PICK c \in GroupOf(E, e) : fact(e).drops = Numbers(rows[c])[2]
            BY <1>6
        <3>3. PICK d \in GroupOf(E, e) : fact(e).rate = Numbers(rows[d])[3]
            BY <1>6
        <3>4. ValidHealth(rows[c]) /\ ValidHealth(rows[d])
            BY <1>7, <3>1
        <3> QED BY <3>2, <3>3, <3>4 DEF ValidHealth, Numbers
    <2> QED BY <1>6, <2>2, <2>3 DEF Sound
<1>9. ASSUME NEW K PROVE SampleCount(Part(F, K)) = Cardinality({e \in E : RowKey(rows[e]) \in K})
    <2>1. Part(F, K) \subseteq F
        BY DEF Part
    <2>2. SampleCount(Part(F, K)) = Cardinality(EventsOf(E, Part(F, K)))
        BY <1>1, <2>1, CountsEvents
    <2>3. EventsOf(E, Part(F, K)) = {e \in E : RowKey(rows[e]) \in K}
        BY <1>2, <1>4 DEF EventsOf, Part
    <2> QED BY <2>2, <2>3
<1> HIDE DEF F, fact
<1>10. \A f \in F : \E e \in E : f = fact(e)
    BY <1>2
<1>11. ASSUME NEW f \in F
       PROVE  /\ \E e \in E : Key(f) = RowKey(rows[e]) /\ f.last = Numbers(rows[e])[1]
              /\ \E e \in E : Key(f) = RowKey(rows[e]) /\ f.drops = Numbers(rows[e])[2]
              /\ \E e \in E : Key(f) = RowKey(rows[e]) /\ f.rate = Numbers(rows[e])[3]
    <2>1. PICK e \in E : f = fact(e)
        BY <1>10
    <2>2. Key(f) = RowKey(rows[e]) /\ \A d \in GroupOf(E, e) : d \in E /\ Key(f) = RowKey(rows[d])
        BY <1>4, <1>7, <2>1
    <2>3. PICK d \in GroupOf(E, e) : f.last = Numbers(rows[d])[1]
        BY <1>6, <2>1
    <2>4. PICK c \in GroupOf(E, e) : f.drops = Numbers(rows[c])[2]
        BY <1>6, <2>1
    <2>5. PICK b \in GroupOf(E, e) : f.rate = Numbers(rows[b])[3]
        BY <1>6, <2>1
    <2> QED BY <2>2, <2>3, <2>4, <2>5
<1>12. \A e \in E : fact(e) \in F
    BY <1>2
<1>13. \A f \in F : Sound(f)
    BY <1>8, <1>10
<1>14. ASSUME NEW e \in E
       PROVE  \E f \in F : /\ Key(f) = RowKey(rows[e])
                           /\ Numbers(rows[e])[1] <= f.last
                           /\ Numbers(rows[e])[2] <= f.drops
                           /\ Numbers(rows[e])[3] <= f.rate
    BY <1>4, <1>6, <1>12
<1>15. Summarizes(F, E, rows)
    BY <1>3, <1>9, <1>11, <1>13, <1>14 DEF Summarizes
<1> QED BY <1>15 DEF F

(* Every answer is made from such facts.                                   *)
AnswersSummarize ==
    /\ \A p \in Pairs :
          \A h \in GetReleaseHealth(p[1], p[2]) :
             \E F : /\ h = BuildReleaseHealth(F, p[1], p[2])
                    /\ Summarizes(F, OfRelease(p[1]) \cup OfRelease(p[2]), rows)
    /\ \A r \in Release :
          /\ \A h \in GetTopFingerprints(r, Limit) :
                \E F : h = TopFingerprints(F, Limit) /\ Summarizes(F, OfRelease(r), rows)
          /\ \A h \in GetDataQuality(r) :
                \E F : h = DataQuality(F) /\ Summarizes(F, OfRelease(r), rows)

LEMMA AnswersFromFacts == FactsHeld => AnswersSummarize
<1> SUFFICES ASSUME FactsHeld PROVE AnswersSummarize
    OBVIOUS
<1>1. \A r : OfRelease(r) \subseteq WindowEvents
    BY DEF OfRelease
<1>2. \A r : Summarizes(FactsOf(OfRelease(r)), OfRelease(r), rows)
    BY <1>1, FactsSummarize
<1>3. ASSUME NEW p \in Pairs
      PROVE  Summarizes(FactsOf(OfRelease(p[1]) \cup OfRelease(p[2])),
                        OfRelease(p[1]) \cup OfRelease(p[2]), rows)
    BY <1>1, FactsSummarize
<1>4. \A E : LoadWindowFacts(E) \subseteq {FactsOf(E)}
    BY DEF LoadWindowFacts
<1>5. ASSUME NEW p \in Pairs
      PROVE  \A h \in GetReleaseHealth(p[1], p[2]) :
                \E F : /\ h = BuildReleaseHealth(F, p[1], p[2])
                       /\ Summarizes(F, OfRelease(p[1]) \cup OfRelease(p[2]), rows)
    <2> DEFINE E == OfRelease(p[1]) \cup OfRelease(p[2])
    <2>1. \A h \in GetReleaseHealth(p[1], p[2]) : h = BuildReleaseHealth(FactsOf(E), p[1], p[2])
        BY <1>4 DEF GetReleaseHealth
    <2> QED BY <1>3, <2>1
<1>6. ASSUME NEW r \in Release
      PROVE  /\ \A h \in GetTopFingerprints(r, Limit) :
                   \E F : h = TopFingerprints(F, Limit) /\ Summarizes(F, OfRelease(r), rows)
             /\ \A h \in GetDataQuality(r) :
                   \E F : h = DataQuality(F) /\ Summarizes(F, OfRelease(r), rows)
    <2>1. \A h \in GetTopFingerprints(r, Limit) : h = TopFingerprints(FactsOf(OfRelease(r)), Limit)
        BY <1>4 DEF GetTopFingerprints
    <2>2. \A h \in GetDataQuality(r) : h = DataQuality(FactsOf(OfRelease(r)))
        BY <1>4 DEF GetDataQuality
    <2>3. Summarizes(FactsOf(OfRelease(r)), OfRelease(r), rows)
        BY <1>2
    <2> QED BY <2>1, <2>2, <2>3
<1> QED BY <1>5, <1>6 DEF AnswersSummarize

LEMMA NextAnswersFromFacts == FactsHeld' => AnswersSummarize'
BY AnswersFromFacts, PTL

(* Retention moves no row into or out of a query.                          *)
LEMMA PruneMoves ==
    ASSUME FactsHeld, NEW e \in Event, PruneEvent(e)
    PROVE  /\ \A d \in DOMAIN rows : /\ RowKey(rows[d]) = RowKey(rows'[d])
                                     /\ Numbers(rows[d]) = Numbers(rows'[d])
           /\ \A r : OfRelease(r)' = OfRelease(r) /\ OfRelease(r) \subseteq DOMAIN rows
<1>1. e \in DOMAIN rows /\ rows' = [rows EXCEPT ![e] = Pruned(rows[e])]
    BY DEF PruneEvent
<1>2. DOMAIN rows[e] = Columns
    BY <1>1 DEF FactsHeld, HealthTypeOK, RowTypeOK
<1>3. IsPruned(Pruned(rows[e]), rows[e])
    BY <1>2, PrunedRow
<1>4. /\ DOMAIN rows' = DOMAIN rows
      /\ \A d \in DOMAIN rows : rows'[d] = IF d = e THEN Pruned(rows[e]) ELSE rows[d]
    BY <1>1
<1>5. \A d \in DOMAIN rows : rows'[d].at = rows[d].at /\ rows'[d].release = rows[d].release
    BY <1>3, <1>4 DEF IsPruned
<1>6. \A r : OfRelease(r)' = OfRelease(r) /\ OfRelease(r) \subseteq DOMAIN rows
    BY <1>4, <1>5 DEF OfRelease, WindowEvents, InWindow
<1>7. ASSUME NEW d \in DOMAIN rows
      PROVE  RowKey(rows[d]) = RowKey(rows'[d]) /\ Numbers(rows[d]) = Numbers(rows'[d])
    BY <1>2, <1>4, PruneKeepsRow
<1> QED BY <1>6, <1>7

(* Retention changes no number: release health, the lists and data quality *)
(* of a window are the same before and after a row loses its raw evidence, *)
(* as far as both queries are answered.                                    *)
THEOREM RetentionKeepsNumbers == FactSpec => PruneKeepsNumbers
<1>1. ASSUME FactsHeld, FactsHeld', NEW e \in Event, PruneEvent(e)
      PROVE  /\ \A p \in Pairs :
                   \/ GetReleaseHealth(p[1], p[2]) = {} \/ GetReleaseHealth(p[1], p[2])' = {}
                   \/ GetReleaseHealth(p[1], p[2]) = GetReleaseHealth(p[1], p[2])'
             /\ \A r \in Release :
                   /\ \/ GetTopFingerprints(r, Limit) = {} \/ GetTopFingerprints(r, Limit)' = {}
                      \/ GetTopFingerprints(r, Limit) = GetTopFingerprints(r, Limit)'
                   /\ \/ GetDataQuality(r) = {} \/ GetDataQuality(r)' = {}
                      \/ GetDataQuality(r) = GetDataQuality(r)'
    <2>1. AnswersSummarize /\ AnswersSummarize'
        BY <1>1, AnswersFromFacts, NextAnswersFromFacts
    <2>2. /\ \A d \in DOMAIN rows : /\ RowKey(rows[d]) = RowKey(rows'[d])
                                    /\ Numbers(rows[d]) = Numbers(rows'[d])
          /\ \A r : OfRelease(r)' = OfRelease(r) /\ OfRelease(r) \subseteq DOMAIN rows
        BY <1>1, PruneMoves
    <2>3. ASSUME NEW E, E \subseteq DOMAIN rows, NEW F, NEW G,
                 Summarizes(F, E, rows), Summarizes(G, E, rows')
          PROVE  Alike(F, G)
        BY <2>2, <2>3, SummariesAlike
    <2>4. ASSUME NEW p \in Pairs,
                 NEW h \in GetReleaseHealth(p[1], p[2]), NEW k \in GetReleaseHealth(p[1], p[2])'
          PROVE  h = k
        <3>1. PICK F : /\ h = BuildReleaseHealth(F, p[1], p[2])
                       /\ Summarizes(F, OfRelease(p[1]) \cup OfRelease(p[2]), rows)
            BY <2>1 DEF AnswersSummarize
        <3>2. PICK G : /\ k = BuildReleaseHealth(G, p[1], p[2])
                       /\ Summarizes(G, OfRelease(p[1])' \cup OfRelease(p[2])', rows')
            BY <2>1 DEF AnswersSummarize
        <3>3. Alike(F, G)
            BY <2>2, <2>3, <3>1, <3>2
        <3> QED BY <3>1, <3>2, <3>3, AlikeHealth
    <2>5. ASSUME NEW r \in Release,
                 NEW h \in GetTopFingerprints(r, Limit), NEW k \in GetTopFingerprints(r, Limit)'
          PROVE  h = k
        <3>1. PICK F : h = TopFingerprints(F, Limit) /\ Summarizes(F, OfRelease(r), rows)
            BY <2>1 DEF AnswersSummarize
        <3>2. PICK G : k = TopFingerprints(G, Limit) /\ Summarizes(G, OfRelease(r)', rows')
            BY <2>1 DEF AnswersSummarize
        <3>3. Alike(F, G)
            BY <2>2, <2>3, <3>1, <3>2
        <3> QED BY <3>1, <3>2, <3>3, AlikeList
    <2>6. ASSUME NEW r \in Release, NEW h \in GetDataQuality(r), NEW k \in GetDataQuality(r)'
          PROVE  h = k
        <3>1. PICK F : h = DataQuality(F) /\ Summarizes(F, OfRelease(r), rows)
            BY <2>1 DEF AnswersSummarize
        <3>2. PICK G : k = DataQuality(G) /\ Summarizes(G, OfRelease(r)', rows')
            BY <2>1 DEF AnswersSummarize
        <3>3. Alike(F, G)
            BY <2>2, <2>3, <3>1, <3>2
        <3> QED BY <3>1, <3>2, <3>3, AlikeDataQuality
    <2>7. ASSUME NEW A, NEW B, \A h \in A, k \in B : h = k
          PROVE  A = {} \/ B = {} \/ A = B
        <3>1. A # {} /\ B # {} => A \subseteq B /\ B \subseteq A
            BY <2>7
        <3> QED BY <3>1
    <2>8. ASSUME NEW p \in Pairs
          PROVE  \/ GetReleaseHealth(p[1], p[2]) = {} \/ GetReleaseHealth(p[1], p[2])' = {}
                 \/ GetReleaseHealth(p[1], p[2]) = GetReleaseHealth(p[1], p[2])'
        <3>1. \A h \in GetReleaseHealth(p[1], p[2]), k \in GetReleaseHealth(p[1], p[2])' : h = k
            BY <2>4
        <3> QED BY <2>7, <3>1
    <2>9. ASSUME NEW r \in Release
          PROVE  \/ GetTopFingerprints(r, Limit) = {} \/ GetTopFingerprints(r, Limit)' = {}
                 \/ GetTopFingerprints(r, Limit) = GetTopFingerprints(r, Limit)'
        BY <2>5, <2>7
    <2>10. ASSUME NEW r \in Release
           PROVE  \/ GetDataQuality(r) = {} \/ GetDataQuality(r)' = {}
                  \/ GetDataQuality(r) = GetDataQuality(r)'
        BY <2>6, <2>7
    <2> QED BY <2>8, <2>9, <2>10
<1>2. ASSUME FactsHeld, FactsHeld', [FactNext]_factVars
      PROVE  [\A e \in Event : PruneEvent(e) =>
                 LET Same(before, after) == before = {} \/ after = {} \/ before = after IN
                 /\ \A p \in Pairs :
                       Same(GetReleaseHealth(p[1], p[2]), GetReleaseHealth(p[1], p[2])')
                 /\ \A r \in Release :
                       /\ Same(GetTopFingerprints(r, Limit), GetTopFingerprints(r, Limit)')
                       /\ Same(GetDataQuality(r), GetDataQuality(r)')]_factVars
    BY <1>1, <1>2
<1> QED BY <1>2, FactsInductive, PTL DEF FactSpec, PruneKeepsNumbers
=================================================================================
