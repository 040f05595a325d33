------------------------------ MODULE IssueViews ------------------------------
(***************************************************************************)
(* The other aggregate views (query.py): the fingerprints of a release,    *)
(* one Issue, data quality; and what all views together promise about the  *)
(* events phones reported, whatever ingest, symbolization, key rotation    *)
(* and retention did to the rows in between.                               *)
(***************************************************************************)
EXTENDS ReleaseHealth

CONSTANTS
    Limit,      \* limit of the fingerprint list
    TopLabels   \* items of a distribution (10)

ASSUME ViewAssumption == Limit \in Nat /\ TopLabels \in Nat

(* The first n items in an order, given as a set of pairs.                 *)
FirstOf(items, n, order) ==
    {i \in items : Cardinality({j \in items : <<j, i>> \in order}) < n}

(* build_top_fingerprints for the declared facts of a release; the kind    *)
(* breaks the ties between the families of one fingerprint.                *)
TopFingerprints(F, limit) ==
    LET broken  == ContinuityBroken(Eligible(F))
        known   == {f \in Incidents(F) : f.fingerprint # NoFingerprint}
        Group(k) == {f \in known : <<f.fingerprint, f.kind>> = k}
        items   == {[fingerprint |-> k[1], kind |-> k[2],
                     count |-> SampleCount(Group(k)),
                     installations |-> InstallationCount(Group(k), broken),
                     last |-> Max({f.last : f \in Group(k)})] :
                       k \in {<<f.fingerprint, f.kind>> : f \in known}}
        Before(i, j) ==
            \/ i.count > j.count
            \/ i.count = j.count /\ i.last > j.last
            \/ i.count = j.count /\ i.last = j.last /\ i.fingerprint < j.fingerprint
            \/ /\ i.count = j.count /\ i.last = j.last /\ i.fingerprint = j.fingerprint
               /\ i.kind = "java_crash" /\ j.kind # "java_crash"
    IN [state |-> CASE F = {} -> "NO_DATA"
                    [] F # {} /\ Eligible(F) = {} -> "UNAVAILABLE"
                    [] Eligible(F) # {} /\ Incidents(F) = {} -> "ZERO"
                    [] OTHER -> IF broken THEN "DEGRADED"
                                ELSE IF known = {} THEN "UNAVAILABLE"
                                ELSE IF known # Incidents(F) THEN "DEGRADED" ELSE "PRESENT",
        items |-> FirstOf(items, limit, {p \in items \X items : Before(p[1], p[2])})]

(* _issue_distribution: the label and the availability of each fact.       *)
IssueDistribution(F, label, availability) ==
    LET broken  == ContinuityBroken(F)
        Count(a) == SampleCount({f \in F : availability[f] = a})
        usable  == {f \in F : availability[f] = "AVAILABLE"}
        Group(l) == {f \in usable : label[f] = l}
        items   == {[label |-> l, count |-> SampleCount(Group(l)),
                     installations |-> InstallationCount(Group(l), broken)] :
                       l \in {label[f] : f \in usable}}
        lost    == Count("EXPIRED") + Count("MISSING") + Count("RETENTION_UNKNOWN")
    IN [state |-> IF F = {} THEN "NO_DATA"
                  ELSE IF items = {} THEN "UNAVAILABLE"
                  ELSE IF lost > 0 THEN "DEGRADED" ELSE "PRESENT",
        items |-> FirstOf(items, TopLabels, {p \in items \X items :
                     \/ p[1].count > p[2].count
                     \/ p[1].count = p[2].count /\ p[1].label < p[2].label}),
        coverage |-> [a \in {"AVAILABLE", "MISSING", "EXPIRED", "RETENTION_UNKNOWN"} |-> Count(a)]]

(* _issue_trend: a bucket without events has no number.                    *)
IssueTrend(F) ==
    [b \in Buckets |->
        LET group == InBucket(F, b)
        IN IF group = {} THEN [count |-> Null, installations |-> Null]
           ELSE [count |-> SampleCount(group),
                 installations |-> InstallationCount(group, ContinuityBroken(F))]]

(* build_issue_detail for the facts of one fingerprint.                    *)
IssueDetail(F) ==
    LET declared == {f \in F : IsIncident(f.kind)}
        eligible == Eligible(declared)
        broken   == ContinuityBroken(eligible)
    IN [state |-> CASE declared = {} -> "NO_DATA"
                    [] declared # {} /\ (eligible = {} \/ broken) -> "UNAVAILABLE"
                    [] OTHER -> "PRESENT",
        count |-> SampleCount(eligible),
        installations |-> InstallationCount(eligible, broken),
        trend |-> IssueTrend(eligible),
        releases |-> IssueDistribution(eligible, [f \in eligible |-> f.release],
                                      [f \in eligible |-> "AVAILABLE"]),
        scenes |-> IssueDistribution(eligible, [f \in eligible |-> f.scene],
                                    [f \in eligible |-> f.sceneState])]

(* _coverage_metric.                                                       *)
CoverageMetric(n, of) ==
    IF of = 0 THEN Metric("NO_DATA", NoRatio)
    ELSE IF n = 0 THEN Metric("UNAVAILABLE", NoRatio)
    ELSE Metric(IF n = of THEN "PRESENT" ELSE "DEGRADED", <<n, of>>)

(* Slip: the state of the window leaves out what SDKs dropped.             *)
DataQualityWithoutDrops(F) ==
    LET samples  == SampleCount(F)
        bound    == SampleCount(Eligible(F))
        state    == IF F = {} THEN "NO_DATA" ELSE IF bound = 0 THEN "UNAVAILABLE"
                    ELSE IF bound < samples THEN "DEGRADED" ELSE "PRESENT"
    IN [state |-> state, samples |-> samples,
        statuses |-> [s \in {f.status : f \in F} |-> SampleCount({f \in F : f.status = s})],
        identity |-> CoverageMetric(bound, samples)]

(* build_data_quality.                                                     *)
DataQuality(F) ==
    LET samples   == SampleCount(F)
        bound     == SampleCount(Eligible(F))
        installed == SampleCount(Identified(Eligible(F)))
        late      == SampleCount({f \in F : f.late})
        sdk       == SdkHealthMetric(F)
        broken    == ContinuityBroken(F)
        state     ==
            IF F = {} THEN "NO_DATA"
            ELSE IF bound = 0 \/ broken THEN "UNAVAILABLE"
            ELSE IF bound < samples \/ installed < bound \/ Dropped(F) # {} THEN "DEGRADED"
            ELSE IF late > 0 THEN "LATE"
            ELSE IF sdk.state = "UNAVAILABLE" THEN "UNAVAILABLE" ELSE "PRESENT"
    IN [state |-> state, samples |-> samples,
        statuses |-> [s \in {f.status : f \in F} |-> SampleCount({f \in F : f.status = s})],
        identity |-> CoverageMetric(bound, samples),
        installation |-> IF broken THEN Metric("UNAVAILABLE", NoRatio)
                         ELSE CoverageMetric(installed, bound),
        sdk |-> IF F = {} THEN Metric("NO_DATA", Null) ELSE sdk,
        late |-> IF F = {} THEN Metric("NO_DATA", NoRatio)
                 ELSE Metric(IF late > 0 THEN "LATE" ELSE "ZERO", <<late, samples>>)]

-----------------------------------------------------------------------------
(* The four endpoints: a set with the answer, empty when it is a 422.      *)
GetReleaseHealth(new, baseline) ==
    {BuildReleaseHealth(F, new, baseline) :
        F \in LoadWindowFacts(OfRelease(new) \cup OfRelease(baseline))}

GetTopFingerprints(r, limit) == {TopFingerprints(F, limit) : F \in LoadWindowFacts(OfRelease(r))}

GetIssueDetail(fp) == {IssueDetail(F) : F \in LoadWindowFacts(OfIssue(fp))}

GetDataQuality(r) == {DataQuality(F) : F \in LoadWindowFacts(OfRelease(r))}

GetWindowQuality == {DataQuality(F) : F \in LoadWindowFacts(WindowEvents)}

-----------------------------------------------------------------------------
(* What phones really reported.                                            *)
BoundIncidents(E) == {e \in E : reported[e].bound /\ IsIncident(reported[e].kind)}

BoundEvents(E) == {e \in E : reported[e].bound}

TrueInstallations(E) == {reported[e].installation : e \in E} \ {NoInstallation}

(* Both slices of a comparison are built alike: one order will do.         *)
Pairs == {p \in Release \X Release : p[1] < p[2]}

Issues == {rows[e].fingerprint : e \in WindowEvents} \ {NoFingerprint}

(* Every answer counts every event of its window exactly once: too many    *)
(* groups refuse the query, they never shorten the counts.                 *)
AnswersAreWhole ==
    /\ \A q \in GetWindowQuality :
          /\ q.samples = Cardinality(WindowEvents)
          /\ \A s \in DOMAIN q.statuses :
                q.statuses[s] = Cardinality({e \in WindowEvents : rows[e].status = s})
    /\ \A p \in Pairs : \A h \in GetReleaseHealth(p[1], p[2]) :
          \A r \in {p[1], p[2]} :
             /\ h.slice[r].declared = Cardinality(OfRelease(r))
             /\ h.slice[r].eligible = Cardinality(BoundEvents(OfRelease(r)))

(* A ratio is published only when it was earned: all events of the release *)
(* are occurrence-bound, carry an installation and arrived in time, all    *)
(* health reports are usable and without drops and cover the required      *)
(* share of the installations, of which there are enough.  Then it is the  *)
(* true share of installations with an incident.                           *)
RatioIsEarned ==
    \A p \in Pairs : \A h \in GetReleaseHealth(p[1], p[2]) : \A r \in {p[1], p[2]} :
        LET E       == OfRelease(r)
            health  == {e \in E : reported[e].kind = "sdk_health"}
            clean   == {e \in health : /\ ValidHealth(rows[e])
                                       /\ reported[e].fields["dropCount"] = 0
                                       /\ reported[e].fields["dropRate"] = 0}
            active  == TrueInstallations(E)
        IN h.slice[r].ratio.value # NoRatio =>
              /\ \A e \in E : /\ reported[e].bound
                              /\ reported[e].installation # NoInstallation
                              /\ reported[e].received - OccurrenceTime(reported[e]) <= LateAfter
              /\ health = clean
              /\ 100 * Cardinality(TrueInstallations(clean))
                    >= MinHealthCoverage * Cardinality(active)
              /\ Cardinality(active) >= MinInstallations
              /\ h.slice[r].ratio.value =
                    <<Cardinality(TrueInstallations(BoundIncidents(E))), Cardinality(active)>>

(* The numbers of installations that release health, the list of           *)
(* fingerprints and an Issue with its releases show are numbers of phones: *)
(* when the pseudonym of a phone changes with the key, these views         *)
(* withhold the number, they never count the phone twice.  The buckets and *)
(* scenes of an Issue count pseudonyms and withhold nothing.               *)
InstallationsAreTrue ==
    /\ \A p \in Pairs : \A h \in GetReleaseHealth(p[1], p[2]) :
          \A r \in {p[1], p[2]} : LET E == BoundEvents(OfRelease(r)) IN
          /\ h.slice[r].active.value \in {Null, Cardinality(TrueInstallations(E))}
          /\ h.slice[r].affected.value
                \in {Null, Cardinality(TrueInstallations(BoundIncidents(E)))}
    /\ \A r \in Release : \A list \in GetTopFingerprints(r, Limit) : \A i \in list.items :
          i.installations \in {Null, Cardinality(TrueInstallations(
              {e \in BoundIncidents(OfRelease(r)) :
                  rows[e].fingerprint = i.fingerprint /\ rows[e].kind = i.kind}))}
    /\ \A fp \in Issues : \A issue \in GetIssueDetail(fp) :
          LET E == BoundIncidents(OfIssue(fp)) IN
          /\ issue.installations \in {Null, Cardinality(TrueInstallations(E))}
          /\ \A i \in issue.releases.items :
                i.installations \in {Null, Cardinality(TrueInstallations(E \cap OfRelease(i.label)))}

(* The trend is the total, bucket by bucket: its numbers add up to the     *)
(* count of the release and of the Issue, and a bucket has a number        *)
(* exactly when an occurrence-bound event lies in it, so an empty one is   *)
(* never drawn as zero.                                                    *)
TrendAddsUp ==
    LET At(E, b) == {e \in E : BucketOf(OccurrenceTime(reported[e])) = b}
    IN /\ \A p \in Pairs : \A h \in GetReleaseHealth(p[1], p[2]) : \A r \in {p[1], p[2]} :
             LET trend == h.trend[r]
                 E     == BoundEvents(OfRelease(r))
             IN /\ h.slice[r].java.value =
                      IF E = {} THEN Null ELSE Total([b \in Buckets |-> trend[b].java])
                /\ h.slice[r].anr.value =
                      IF E = {} THEN Null ELSE Total([b \in Buckets |-> trend[b].anr])
                /\ \A b \in Buckets : (trend[b].java = Null) <=> (At(E, b) = {})
       /\ \A fp \in Issues : \A issue \in GetIssueDetail(fp) :
             LET E == BoundIncidents(OfIssue(fp)) IN
             /\ issue.count = Cardinality(E)
             /\ issue.count = Total([b \in Buckets |-> issue.trend[b].count])
             /\ \A b \in Buckets : (issue.trend[b].count = Null) <=> (At(E, b) = {})

(* The list of a release and the page of an Issue agree on how many events *)
(* the Issue has in the release, when the page lists that release or has   *)
(* room for more.                                                          *)
ListAgreesWithIssue ==
    \A r \in Release : \A list \in GetTopFingerprints(r, Cardinality(Event)) :
        \A fp \in Issues : \A issue \in GetIssueDetail(fp) :
            LET listed == {i \in list.items : i.fingerprint = fp}
                items  == issue.releases.items
                shown  == {i \in items : i.label = r}
            IN shown # {} \/ Cardinality(items) < TopLabels =>
                   Total([i \in listed |-> i.count]) = Total([i \in shown |-> i.count])

(* The scenes of an Issue tell what became of each event's scene: shown,   *)
(* never sent, expired with the raw evidence, or unknown when an earlier   *)
(* release pruned it; an expired scene is not said to be missing.          *)
ScenesAccounted ==
    \A fp \in Issues : \A issue \in GetIssueDetail(fp) :
        LET E     == BoundIncidents(OfIssue(fp))
            sent  == {e \in E : reported[e].scene # NoScene}
            kept  == {e \in sent : ~rows[e].pruned}
            cover == issue.scenes.coverage
        IN /\ cover["AVAILABLE"] = Cardinality(kept)
           /\ cover["EXPIRED"] = Cardinality((sent \ kept) \ Legacy)
           /\ cover["MISSING"] = Cardinality((E \ sent) \ Legacy)
           /\ cover["RETENTION_UNKNOWN"] = Cardinality(E \cap Legacy)
           /\ \A i \in issue.scenes.items :
                 i.count = Cardinality({e \in kept : reported[e].scene = i.label})
           /\ issue.scenes.state = "PRESENT" => kept = E

(* Data quality does not promise more than release health: a release whose *)
(* data is PRESENT has undisputed counts there, and one that has counts    *)
(* there is never without data here.                                       *)
QualityAgrees ==
    \A p \in Pairs : \A h \in GetReleaseHealth(p[1], p[2]) :
    \A r \in {p[1], p[2]} : \A q \in GetDataQuality(r) :
        LET java == h.slice[r].java IN
        /\ q.state = "PRESENT" => java.state \in {"PRESENT", "ZERO"}
        /\ q.state = "NO_DATA" <=> java.state = "NO_DATA"
        /\ java.value # Null => q.samples > 0 /\ q.identity.value # NoRatio

(* Retention changes no number: when a row loses its raw evidence, release *)
(* health, the lists and data quality stay what they were (unless one of   *)
(* the two queries is refused).                                            *)
PruneKeepsNumbers ==
    [][\A e \in Event : PruneEvent(e) =>
          LET Same(before, after) == before = {} \/ after = {} \/ before = after IN
          /\ \A p \in Pairs : Same(GetReleaseHealth(p[1], p[2]), GetReleaseHealth(p[1], p[2])')
          /\ \A r \in Release : /\ Same(GetTopFingerprints(r, Limit), GetTopFingerprints(r, Limit)')
                                /\ Same(GetDataQuality(r), GetDataQuality(r)')]_factVars

(* Rows that tell what was reported and account for their fields, and a    *)
(* data quality that agrees with release health.                           *)
ReleaseInv ==
    /\ FactsHeld
    /\ FieldsAccounted
    /\ QualityAgrees

(* The numbers of the views add up and agree with each other.              *)
IssueInv ==
    /\ TrendAddsUp
    /\ ListAgreesWithIssue
    /\ ScenesAccounted
===============================================================================
