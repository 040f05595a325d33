----------------------------- MODULE MCOperator -----------------------------
(***************************************************************************)
(* A small instance of what operators manage: KeyAdministration,           *)
(* WebSessions and RemoteConfig.  They share no variable, so a behaviour   *)
(* moves one of them and leaves the others in an initial state.            *)
(***************************************************************************)
EXTENDS KeyAdministration, WebSessions, RemoteConfig, TLC

CONSTANTS c1, c2, c3, c4, c5, t1, t2, n1, n2, l1, l2, k1, k2, h1, h2, p1, p2, p3, i1, i2

(* Three runs for one new tenant, one of them with another name, one       *)
(* malformed run, one for another tenant.                                  *)
MCTable == c1 :> "ingest" @@ c2 :> "ci" @@ c3 :> "query" @@ c4 :> "query" @@ c5 :> "ingest"
MCTenantOf == [c \in Run |-> IF c = c5 THEN t2 ELSE t1]
MCName == [c \in Run |-> IF c = c3 THEN n2 ELSE n1]

(* k1 expires within a second, k2 after the run; two replicas whose clocks *)
(* differ.                                                                 *)
MCKeyOf == l1 :> k1 @@ l2 :> k2
MCExpiry == k1 :> 5 @@ k2 :> 20
MCOffset == h1 :> 0 @@ h2 :> 2

(* Three publications of different life, the last with a partial rollout   *)
(* that leaves i2 out.                                                     *)
MCLifetime == p1 :> 3 @@ p2 :> 1 @@ p3 :> 2
MCRollout == p1 :> 2 @@ p2 :> 2 @@ p3 :> 1
MCBucket == [i \in Installation |-> IF i = i1 THEN 0 ELSE 1]

OperatorInit == KeyInit /\ SessionInit /\ ConfigInit

SessionIdle == SessionInit /\ request.host = h1

OperatorNext ==
    \/ SessionIdle /\ ConfigInit /\ KeyNext /\ UNCHANGED <<sessionVars, configVars>>
    \/ KeyInit /\ ConfigInit /\ SessionNext /\ UNCHANGED <<keyVars, configVars>>
    \/ KeyInit /\ SessionIdle /\ ConfigNext /\ UNCHANGED <<keyVars, sessionVars>>

OperatorSpec == OperatorInit /\ [][OperatorNext]_<<keyVars, sessionVars, configVars>>
=============================================================================
