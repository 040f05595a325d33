------------------------------- MODULE MCHealth -------------------------------
(* Small instances of IssueViews: a window of two buckets (0-3 and 4), two  *)
(* phones and two releases.                                                  *)
EXTENDS IssueViews, TLC

CONSTANTS i1, i2, e1, e2, e3, e4

Event0(kind, r, i, t, fields, scene) ==
    [kind |-> kind, bound |-> TRUE, release |-> r, installation |-> i,
     timestamp |-> t, received |-> t, fields |-> fields, scene |-> scene]

Counters(emit, drops, rate) == "emitCount" :> emit @@ "dropCount" :> drops @@ "dropRate" :> rate

GoodHealth(r, i) == Event0("sdk_health", r, i, 1, Counters(1, 0, 0), 0)

(* Each gate of release health is closed by one of these.                   *)
HealthReports ==
    {Event0("java_crash", 1, i1, 0, "stackTrace" :> 7, 0),
     Event0("anr_detected", 1, i2, 4, "stackSamples" :> 7, 0),
     [Event0("java_crash", 1, NoInstallation, 4, "stackTrace" :> Junk, 0) EXCEPT !.received = 9],
     GoodHealth(1, i1), GoodHealth(1, i2), GoodHealth(2, i1),
     [GoodHealth(1, i1) EXCEPT !.received = 9],
     [GoodHealth(2, i2) EXCEPT !.bound = FALSE],
     Event0("sdk_health", 1, i1, 1, Counters(1, 0, RatioOne + 1), 0),
     Event0("sdk_health", 1, i2, 1, Counters(1, 1, 1), 0),
     Event0("app_exit", 1, i1, 6, "exitTimestamp" :> 3, 0)}

(* Crashes with and without a scene, an installation and an occurrence, and *)
(* a report with counters.                                                  *)
IssueReports ==
    {Event0("java_crash", 1, i1, 0, "stackTrace" :> 7 @@ "threadName" :> 1, 1),
     Event0("java_crash", 1, i1, 4, "stackTrace" :> 7, 1),
     Event0("java_crash", 1, i2, 0, "stackTrace" :> 8, 2),
     Event0("java_crash", 2, i1, 0, "stackTrace" :> 7, 1),
     Event0("anr_detected", 1, i2, 2, "mainThreadStack" :> 7, 0),
     Event0("java_crash", 2, NoInstallation, 4, "stackTrace" :> BlankText, 2),
     [Event0("java_crash", 1, i2, 4, "stackTrace" :> 7, 1) EXCEPT !.bound = FALSE],
     GoodHealth(1, i1)}

AllButLegacy == Permutations(Event \ Legacy)
===============================================================================
