---------------------------- MODULE Normalization ----------------------------
(***************************************************************************)
(* normalization.py: which registered fields of an event are kept, what is *)
(* said of those that are not, when the event occurred and which Issue it  *)
(* belongs to.                                                             *)
(*                                                                         *)
(* A field is an integer: the value of a number (a ratio in units of       *)
(* 1 / RatioOne), or a text, of which only its kind matters: empty, blank, *)
(* or the number of the fingerprint its scrubbed lines hash to.  Of the    *)
(* registry the model keeps one field of each behaviour.                   *)
(***************************************************************************)
EXTENDS Integers

CONSTANTS
    RatioOne,       \* the ratio 1
    MaxFutureSkew   \* MAX_FUTURE_SKEW_SECONDS

ASSUME UnitAssumption == RatioOne \in Nat /\ MaxFutureSkew \in Nat

Junk == -9      \* a value the field's type cannot be made from
EmptyText == 0
BlankText == -1 \* white space only

NoFingerprint == 0

Kinds == {"java_crash", "anr_detected", "app_exit", "sdk_health", "other"}

Registry(kind) ==
    CASE kind = "java_crash"   -> {"stackTrace", "threadName"}
      [] kind = "anr_detected" -> {"mainThreadStack", "stackSamples"}
      [] kind = "app_exit"     -> {"exitTimestamp"}
      [] kind = "sdk_health"   -> {"emitCount", "dropCount", "dropRate"}
      [] OTHER                 -> {}

TextFields == {"stackTrace", "threadName", "mainThreadStack", "stackSamples"}

IndexedFields == {"threadName", "emitCount", "dropCount", "dropRate"}

IsIncident(kind) == kind \in {"java_crash", "anr_detected"}

(* _coerce_registered and the bounds of the field's unit.                  *)
FieldIsValid(field, value, timestamp) ==
    /\ value # Junk
    /\ field \notin TextFields => value >= 0
    /\ field = "dropRate" => value <= RatioOne
    /\ field = "exitTimestamp" => value > 0 /\ value <= timestamp + MaxFutureSkew

FieldStates(event) ==
    [field \in Registry(event.kind) |->
        IF field \notin DOMAIN event.fields THEN "MISSING"
        ELSE IF FieldIsValid(field, event.fields[field], event.timestamp) THEN "AVAILABLE"
        ELSE "INVALID"]

RegisteredFields(event) ==
    [field \in {x \in Registry(event.kind) : FieldStates(event)[x] = "AVAILABLE"} |->
        event.fields[field]]

(* What retention keeps of them: the numbers of indexed fields.            *)
RetainedFields(registered) == DOMAIN registered \cap (IndexedFields \ TextFields)

(* An exit report carries the time at which the process died.              *)
OccurrenceTime(event) ==
    IF event.kind = "app_exit" /\ "exitTimestamp" \in DOMAIN RegisteredFields(event)
    THEN event.fields["exitTimestamp"] ELSE event.timestamp

(* The first stack field that is not empty, if its lines are not blank.    *)
IncidentFingerprint(event) ==
    LET text(field) == IF field \in DOMAIN event.fields THEN event.fields[field] ELSE EmptyText
        evidence ==
            CASE event.kind = "java_crash" -> text("stackTrace")
              [] event.kind = "anr_detected" ->
                    IF text("mainThreadStack") # EmptyText
                    THEN text("mainThreadStack") ELSE text("stackSamples")
              [] OTHER -> EmptyText
    IN IF evidence \in {EmptyText, BlankText} THEN NoFingerprint ELSE evidence

(* field_availability.                                                     *)
FieldAvailability(states, retained, pruned) ==
    [field \in DOMAIN states |->
        IF pruned /\ states[field] = "AVAILABLE" /\ field \notin retained
        THEN "EXPIRED" ELSE states[field]]
==============================================================================
