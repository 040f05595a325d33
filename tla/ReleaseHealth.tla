---------------------------- MODULE ReleaseHealth ----------------------------
(***************************************************************************)
(* Release health of the query plane (query.py): the gates, counts and     *)
(* ratios of a release, as functions of the facts of one statement.        *)
(*                                                                         *)
(* A metric is its state and its value; sample counts, coverages and       *)
(* reasons are left out.  A ratio is its numerator and denominator.        *)
(***************************************************************************)
EXTENDS WindowFacts, Sequences

CONSTANTS
    Release,
    MinInstallations,   \* query_min_installations
    MinHealthCoverage   \* query_min_sdk_health_coverage, in percent

ASSUME GateAssumption == MinInstallations \in Nat \ {0} /\ MinHealthCoverage \in 1..100

Metric(state, value) == [state |-> state, value |-> value]

NoRatio == <<>>

Declared(F, r) == {f \in F : f.release = r}

Eligible(F) == {f \in F : f.bound}

Incidents(F) == {f \in Eligible(F) : IsIncident(f.kind)}

OfKind(F, kind) == {f \in F : f.kind = kind}

(* The sum of the numbers: each item as often as its number says, and one  *)
(* that has none (Null) not at all.                                        *)
Total(number) == Cardinality(UNION {{i} \X (1..number[i]) : i \in DOMAIN number})

(* Each group as often as it has events.                                   *)
SampleCount(F) == Total([f \in F |-> f.weight])

Identified(F) == {f \in F : f.hmac # NoHmac}

Installations(F) == {f.hmac : f \in Identified(F)}

Dropped(F) == {f \in OfKind(F, "sdk_health") : f.drops > 0 \/ f.rate > 0}

(* _installation_continuity_reason: a pseudonym without a key version, or  *)
(* pseudonyms of two versions.                                             *)
ContinuityBroken(F) ==
    LET versions == {f.version : f \in Identified(F)}
    IN NoVersion \in versions \/ Cardinality(versions) > 1

(* _installation_count.                                                    *)
InstallationCount(F, broken) ==
    IF broken \/ Identified(F) # F THEN Null ELSE Cardinality(Installations(F))

-----------------------------------------------------------------------------
(* _release_quality_state of the declared facts of a release.              *)
QualityState(F) ==
    CASE F = {} -> "NO_DATA"
      [] F # {} /\ Eligible(F) = {} -> "UNAVAILABLE"
      [] OTHER ->
         IF \/ SampleCount(Eligible(F)) < SampleCount(F)
            \/ SampleCount(Identified(Eligible(F))) < SampleCount(Eligible(F))
            \/ Dropped(Eligible(F)) # {}
         THEN "DEGRADED"
         ELSE IF \E f \in Eligible(F) : f.late THEN "LATE" ELSE "PRESENT"

CountMetric(n, quality) ==
    CASE quality \in {"NO_DATA", "UNAVAILABLE"} -> Metric(quality, Null)
      [] quality = "PRESENT" -> Metric(IF n = 0 THEN "ZERO" ELSE "PRESENT", n)
      [] OTHER -> Metric(quality, n)

HealthFactIsValid(f) == f.valid /\ f.drops >= 0 /\ 0 <= f.rate /\ f.rate <= RatioOne

(* _sdk_health_metric.                                                     *)
SdkHealthMetric(F) ==
    LET health == OfKind(F, "sdk_health")
    IN IF health = {} \/ \E f \in health : ~HealthFactIsValid(f)
       THEN Metric("UNAVAILABLE", Null)
       ELSE Metric(IF Dropped(F) # {} THEN "DEGRADED" ELSE "ZERO", Max({f.rate : f \in health}))

(* Slip: one health report speaks for all installations.                   *)
GateStateAnyReport(F) ==
    LET quality == QualityState(F)
        sdk     == SdkHealthMetric(Eligible(F)).state
        active  == Installations(Eligible(F))
    IN CASE quality # "PRESENT" -> quality
         [] quality = "PRESENT" /\ sdk \notin {"PRESENT", "ZERO"} -> sdk
         [] OTHER -> IF Cardinality(active) < MinInstallations THEN "UNAVAILABLE" ELSE "PRESENT"

(* The gate of the ratio: quality, then SDK health, then its coverage of   *)
(* the active installations, then their number.                            *)
GateState(F) ==
    LET quality == QualityState(F)
        sdk     == SdkHealthMetric(Eligible(F)).state
        active  == Installations(Eligible(F))
        healthy == Installations({f \in OfKind(Eligible(F), "sdk_health") : HealthFactIsValid(f)})
    IN CASE quality # "PRESENT" -> quality
         [] quality = "PRESENT" /\ sdk \notin {"PRESENT", "ZERO"} -> sdk
         [] OTHER ->
            IF active = {} \/ 100 * Cardinality(healthy) < MinHealthCoverage * Cardinality(active)
            THEN "UNKNOWN_COVERAGE"
            ELSE IF Cardinality(active) < MinInstallations THEN "UNAVAILABLE" ELSE "PRESENT"

(* The number of installations of facts G among the eligible facts E.      *)
InstallationMetric(G, E, quality) ==
    LET identified == Identified(E)
        state == IF SampleCount(identified) < SampleCount(E) THEN "DEGRADED" ELSE "PRESENT"
        n     == Cardinality(Installations(G))
    IN IF E = {} \/ identified = {} THEN Metric(IF quality = "NO_DATA" THEN quality
                                                ELSE "UNAVAILABLE", Null)
       ELSE Metric(IF n = 0 /\ state = "PRESENT" THEN "ZERO" ELSE state, n)

RatioMetric(F) ==
    LET affected == Cardinality(Installations(Incidents(F)))
        active   == Cardinality(Installations(Eligible(F)))
        gate     == GateState(F)
    IN IF gate # "PRESENT" THEN Metric(gate, NoRatio)
       ELSE Metric(IF affected = 0 THEN "ZERO" ELSE "PRESENT", <<affected, active>>)

(* The number of distinct Issues.                                          *)
FingerprintMetric(F) ==
    LET known == {f \in Incidents(F) : f.fingerprint # NoFingerprint}
    IN CASE Incidents(F) = {} /\ Eligible(F) # {} -> Metric("ZERO", 0)
         [] Incidents(F) # {} /\ known = {} -> Metric("UNAVAILABLE", Null)
         [] known # {} -> Metric(IF known = Incidents(F) THEN "PRESENT" ELSE "DEGRADED",
                                 Cardinality({f.fingerprint : f \in known}))
         [] OTHER -> Metric(QualityState(F), Null)

LateMetric(F) ==
    LET late == SampleCount({f \in Eligible(F) : f.late})
    IN IF Eligible(F) = {} THEN Metric(QualityState(F), NoRatio)
       ELSE Metric(IF late > 0 THEN "LATE" ELSE "ZERO", <<late, SampleCount(Eligible(F))>>)

(* _release_slice.                                                         *)
ReleaseSlice(F) ==
    LET quality == QualityState(F) IN
    [state |-> GateState(F),
     declared |-> SampleCount(F),
     eligible |-> SampleCount(Eligible(F)),
     java |-> CountMetric(SampleCount(OfKind(Eligible(F), "java_crash")), quality),
     anr |-> CountMetric(SampleCount(OfKind(Eligible(F), "anr_detected")), quality),
     active |-> InstallationMetric(Eligible(F), Eligible(F), quality),
     affected |-> InstallationMetric(Incidents(F), Eligible(F), quality),
     ratio |-> RatioMetric(F),
     fingerprints |-> FingerprintMetric(F),
     late |-> LateMetric(F),
     sdk |-> IF F = {} THEN Metric("NO_DATA", Null) ELSE SdkHealthMetric(Eligible(F))]

(* Across a break of the pseudonyms nothing is said of installations.      *)
Withhold(slice) ==
    IF slice.eligible = 0 THEN slice
    ELSE [slice EXCEPT !.state = "UNAVAILABLE",
                       !.active = Metric("UNAVAILABLE", Null),
                       !.affected = Metric("UNAVAILABLE", Null),
                       !.ratio = Metric("UNAVAILABLE", NoRatio)]

(* _metric_delta: a number as a sequence, empty for None.                  *)
MetricDelta(new, baseline) ==
    IF Null \in {new.value, baseline.value} THEN <<>> ELSE <<new.value - baseline.value>>

(* _ratio_delta, over the product of the denominators.                     *)
RatioDelta(new, baseline) ==
    IF \/ {new.state, baseline.state} \ {"PRESENT", "ZERO"} # {}
       \/ NoRatio \in {new.value, baseline.value}
    THEN NoRatio
    ELSE <<new.value[1] * baseline.value[2] - baseline.value[1] * new.value[2],
           new.value[2] * baseline.value[2]>>

(* _bucket_incidents: absent, declared only, or observed.                  *)
BucketIncidents(F) ==
    LET java == SampleCount(OfKind(Eligible(F), "java_crash"))
        anr  == SampleCount(OfKind(Eligible(F), "anr_detected"))
    IN CASE F = {} -> [java |-> Null, anr |-> Null, state |-> "NO_DATA"]
         [] F # {} /\ Eligible(F) = {} -> [java |-> Null, anr |-> Null, state |-> "UNAVAILABLE"]
         [] OTHER -> [java |-> java, anr |-> anr,
                      state |-> IF Eligible(F) # F THEN "DEGRADED"
                                ELSE IF java + anr > 0 THEN "PRESENT" ELSE "ZERO"]

Buckets == 0..(BucketCount - 1)

InBucket(F, b) == {f \in F : BucketOf(f.first) = b}

(* _release_incident_trend.                                                *)
ReleaseTrend(F, r) == [b \in Buckets |-> BucketIncidents(InBucket(Declared(F, r), b))]

(* build_release_health.                                                   *)
BuildReleaseHealth(F, new, baseline) ==
    LET broken   == ContinuityBroken(Eligible(Declared(F, new) \cup Declared(F, baseline)))
        Slice(r) == IF broken THEN Withhold(ReleaseSlice(Declared(F, r)))
                    ELSE ReleaseSlice(Declared(F, r))
        n        == Slice(new)
        b        == Slice(baseline)
    IN [slice |-> [r \in {new, baseline} |-> Slice(r)],
        javaDelta |-> MetricDelta(n.java, b.java),
        anrDelta |-> MetricDelta(n.anr, b.anr),
        affectedDelta |-> MetricDelta(n.affected, b.affected),
        ratioDelta |-> RatioDelta(n.ratio, b.ratio),
        trend |-> [r \in {new, baseline} |-> ReleaseTrend(F, r)]]
==============================================================================
