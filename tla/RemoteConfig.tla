----------------------------- MODULE RemoteConfig -----------------------------
(***************************************************************************)
(* Remote configuration of one tenant, app and environment: publish-config *)
(* of the administration CLI (admin.py, remote_config.py) appends signed   *)
(* revisions to remote_config_versions, GET /v1/config                     *)
(* (api/remote_config.py) hands the newest one that has not expired to the *)
(* installations inside its rollout, with the revision as ETag.            *)
(*                                                                         *)
(* Several operators may publish at once.  A publication stands for its    *)
(* payload, and its signature for the signed fields.  Rows are never       *)
(* changed or deleted.                                                     *)
(***************************************************************************)
EXTENDS Naturals, FiniteSets

CONSTANTS
    Publication,    \* runs of publish-config
    Lifetime,       \* Lifetime[p]: --expires-hours, in ticks
    Rollout,        \* Rollout[p]: --rollout-basis-points
    Denominator,    \* ROLLOUT_DENOMINATOR
    Installation,
    Bucket,         \* Bucket[i]: its HMAC bucket
    NoConfig,       \* no revision cached, nothing read
    LastTick        \* bound on the clock

ASSUME ConfigAssumption ==
    /\ IsFiniteSet(Publication)
    /\ Lifetime \in [Publication -> Nat]
    /\ Denominator \in Nat \ {0}
    /\ Rollout \in [Publication -> Nat]
    /\ Bucket \in [Installation -> 0..(Denominator - 1)]
    /\ NoConfig \notin Publication
    /\ LastTick \in Nat

VARIABLES
    clock,          \* the clock
    publisher,      \* what each run of publish-config holds
    published,      \* the publications whose row is committed
    installation,   \* each client: its cache and its running request
    answered        \* history: the row a 304 stood for when it was sent

configVars == <<clock, publisher, published, installation, answered>>

(* pc: read the maximum, sign, insert, commit.                             *)
PublisherState ==
    [pc: {"read", "sign", "insert", "commit", "published", "failed"},
     revision: Nat, issued: Nat, expires: Nat]

(* cached is the publication in the cache; asOf the clock of the request.  *)
InstallationState ==
    [pc: {"idle", "fetch"},
     cached: Publication \cup {NoConfig},
     asOf: Nat,
     status: {"none", "200", "204", "304"}]

ConfigTypeOK ==
    /\ clock \in 0..LastTick
    /\ publisher \in [Publication -> PublisherState]
    /\ published \subseteq Publication
    /\ installation \in [Installation -> InstallationState]
    /\ answered \in [Installation -> Publication \cup {NoConfig}]

ConfigInit ==
    /\ clock = 0
    /\ publisher = [p \in Publication |->
                      [pc |-> "read", revision |-> 0, issued |-> 0, expires |-> 0]]
    /\ published = {}
    /\ installation = [i \in Installation |->
                      [pc |-> "idle", cached |-> NoConfig, asOf |-> 0, status |-> "none"]]
    /\ answered = [i \in Installation |-> NoConfig]

Revision(p) == publisher[p].revision

-----------------------------------------------------------------------------
Publish(p, state) ==
    /\ publisher' = [publisher EXCEPT ![p] = state]
    /\ UNCHANGED <<clock, installation, answered>>

(* The number after the greatest committed one.                            *)
IsNextRevision(n) ==
    /\ \A p \in published : Revision(p) < n
    /\ n = 1 \/ \E p \in published : Revision(p) = n - 1

(* An empty lifetime is refused; else SELECT max(revision), plus one.      *)
ReadMaximum(p) ==
    /\ publisher[p].pc = "read"
    /\ IF Lifetime[p] = 0
       THEN Publish(p, [publisher[p] EXCEPT !.pc = "failed"])
       ELSE \E n \in 1..(Cardinality(Publication) + 1) :
              /\ IsNextRevision(n)
              /\ Publish(p, [publisher[p] EXCEPT !.pc = "sign", !.revision = n])
    /\ UNCHANGED published

(* sign_config refuses an impossible rollout.                              *)
SignConfig(p) ==
    /\ publisher[p].pc = "sign"
    /\ IF Rollout[p] <= Denominator
       THEN Publish(p, [publisher[p] EXCEPT !.pc = "insert", !.issued = clock,
                                            !.expires = clock + Lifetime[p]])
       ELSE Publish(p, [publisher[p] EXCEPT !.pc = "failed"])
    /\ UNCHANGED published

(* Others whose row of the same revision is inserted but not committed,    *)
(* and whether a committed row has the revision.                           *)
InsertBlockers(p) ==
    {q \in Publication \ {p} : publisher[q].pc = "commit" /\ Revision(q) = Revision(p)}

(* Slip: the table has no unique constraint.                               *)
RevisionTakenNever(p) == FALSE

RevisionTaken(p) == \E q \in published : Revision(q) = Revision(p)

(* The INSERT waits for an uncommitted row of the revision and fails on a  *)
(* committed one (uq_remote_config_scope_revision).                        *)
InsertConfig(p) ==
    /\ publisher[p].pc = "insert"
    /\ InsertBlockers(p) = {}
    /\ Publish(p, [publisher[p] EXCEPT !.pc = IF RevisionTaken(p) THEN "failed" ELSE "commit"])
    /\ UNCHANGED published

CommitConfig(p) ==
    /\ publisher[p].pc = "commit"
    /\ Publish(p, [publisher[p] EXCEPT !.pc = "published"])
    /\ published' = published \cup {p}

(* The run is interrupted or loses its connection.                         *)
AbortPublication(p) ==
    /\ publisher[p].pc \in {"read", "sign", "insert", "commit"}
    /\ Publish(p, [publisher[p] EXCEPT !.pc = "failed"])
    /\ UNCHANGED published

-----------------------------------------------------------------------------
Unexpired(p, tick) == tick < publisher[p].expires

(* Every row is active: the column is set by the INSERT and never unset.   *)
Candidates(tick) == {p \in published : Unexpired(p, tick)}

(* Slip: the row that lasts longest.                                       *)
IsLatestByExpiry(p, tick) ==
    /\ p \in Candidates(tick)
    /\ \A q \in Candidates(tick) : publisher[q].expires <= publisher[p].expires

(* WHERE expires_at > now ORDER BY revision DESC LIMIT 1.                  *)
IsLatest(p, tick) ==
    /\ p \in Candidates(tick)
    /\ \A q \in Candidates(tick) : Revision(q) <= Revision(p)

(* rollout_includes.                                                       *)
RolloutIncludes(i, basisPoints) == Bucket[i] < basisPoints

Respond(i, state) ==
    /\ installation' = [installation EXCEPT ![i] = state]
    /\ UNCHANGED <<clock, publisher, published>>

(* The request is authenticated and the handler reads its clock.           *)
BeginFetch(i) ==
    /\ installation[i].pc = "idle"
    /\ Respond(i, [installation[i] EXCEPT !.pc = "fetch", !.asOf = clock, !.status = "none"])
    /\ UNCHANGED answered

(* 204: nothing published, everything expired, or outside the rollout.     *)
ServeNothing(i) ==
    /\ installation[i].pc = "fetch"
    /\ \/ Candidates(installation[i].asOf) = {}
       \/ \E p \in published : /\ IsLatest(p, installation[i].asOf)
                               /\ ~RolloutIncludes(i, Rollout[p])
    /\ Respond(i, [installation[i] EXCEPT !.pc = "idle", !.status = "204"])
    /\ UNCHANGED answered

(* 304 when the ETag names the revision, else 200, which the client keeps. *)
ServeConfig(i, p) ==
    /\ installation[i].pc = "fetch"
    /\ IsLatest(p, installation[i].asOf)
    /\ RolloutIncludes(i, Rollout[p])
    /\ LET cached == installation[i].cached
           same == IF cached = NoConfig THEN FALSE ELSE Revision(cached) = Revision(p)
       IN Respond(i, [installation[i] EXCEPT
            !.pc = "idle",
            !.cached = IF same THEN cached ELSE p,
            !.status = IF same THEN "304" ELSE "200"])
    /\ answered' = [answered EXCEPT ![i] = p]

(* The answer is lost, or the request fails.                               *)
LoseFetch(i) ==
    /\ installation[i].pc = "fetch"
    /\ Respond(i, [installation[i] EXCEPT !.pc = "idle"])
    /\ UNCHANGED answered

ConfigTick ==
    /\ clock < LastTick
    /\ clock' = clock + 1
    /\ UNCHANGED <<publisher, published, installation, answered>>

ConfigNext ==
    \/ \E p \in Publication :
          \/ ReadMaximum(p) \/ SignConfig(p) \/ InsertConfig(p) \/ CommitConfig(p)
          \/ AbortPublication(p)
    \/ \E i \in Installation :
          \/ BeginFetch(i) \/ ServeNothing(i) \/ LoseFetch(i)
          \/ \E p \in published : ServeConfig(i, p)
    \/ ConfigTick

ConfigSpec == ConfigInit /\ [][ConfigNext]_configVars

-----------------------------------------------------------------------------
(* Committed revisions are numbered 1, 2, ... without gap or repetition,   *)
(* and in the order in which they were issued, however publications        *)
(* interleave and fail.                                                    *)
RevisionsInOrder ==
    /\ \A p, q \in published : Revision(p) < Revision(q) => publisher[p].issued <= publisher[q].issued
    /\ {Revision(p) : p \in published} = 1..Cardinality(published)

(* A 304 is only sent to a client whose cache holds the configuration the  *)
(* server would have sent: an ETag names one content for ever.             *)
NotModifiedIsTrue ==
    \A i \in Installation :
        installation[i].status = "304" => installation[i].cached = answered[i]

(* A client is never given an older revision than the one it has, unless   *)
(* that one has expired.                                                   *)
NeverOlderUnlessExpired ==
    [][\A i \in Installation :
        LET had == installation[i].cached IN
        had # NoConfig /\ installation'[i].cached # had =>
            \/ Revision(installation'[i].cached) > Revision(had)
            \/ ~Unexpired(had, installation[i].asOf)]_configVars

(* Well-typed publications and clients, revisions in order, true ETags.    *)
ConfigInv ==
    /\ ConfigTypeOK
    /\ RevisionsInOrder
    /\ NotModifiedIsTrue

(* What makes it inductive.  A row is committed exactly once, and its      *)
(* revision names it.                                                      *)
RowsNamed ==
    /\ \A p \in Publication : p \in published <=> publisher[p].pc = "published"
    /\ \A p, q \in published : Revision(p) = Revision(q) => p = q

(* A running publication is at most one ahead of the table, and, once      *)
(* signed, not older than the rows before it; one with a row inserted is   *)
(* ahead, and alone.                                                       *)
PublishersInStep ==
    \A p \in Publication :
        /\ publisher[p].issued <= clock
        /\ publisher[p].pc \in {"sign", "insert", "commit"} =>
              Revision(p) \in 1..(Cardinality(published) + 1)
        /\ publisher[p].pc \in {"insert", "commit"} =>
              \A q \in published : Revision(q) < Revision(p) =>
                  publisher[q].issued <= publisher[p].issued
        /\ publisher[p].pc = "commit" =>
              /\ Revision(p) = Cardinality(published) + 1
              /\ \A q \in Publication : publisher[q].pc = "commit" => q = p

(* What a client caches is a committed row.                                *)
CachesStored ==
    \A i \in Installation : installation[i].cached \in published \cup {NoConfig}

ConfigHeld == ConfigInv /\ RowsNamed /\ PublishersInStep /\ CachesStored
===============================================================================
