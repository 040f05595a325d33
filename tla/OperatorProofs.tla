----------------------------- MODULE OperatorProofs -----------------------------
(***************************************************************************)
(* Proofs about what operators manage: the keys of KeyAdministration, the  *)
(* sessions of WebSessions and the revisions of RemoteConfig, each for any *)
(* number of runs, logins, replicas, publications and clients.             *)
(***************************************************************************)
EXTENDS KeyAdministration, WebSessions, RemoteConfig, FiniteSetTheorems, TLAPS

-----------------------------------------------------------------------------
(* Keys.                                                                   *)

(* Before any run nothing is stored, so nothing can be wrong.              *)
LEMMA KeyInitHolds == KeyInit => KeyHeld
BY RunAssumption
   DEF KeyInit, KeyHeld, KeyInv, KeyTypeOK, RunState, KeysBelongToNamedTenant, SeenIsStored,
       InsertersAlone, ShowsAreStored, Row

(* A step of run c that stores nothing.                                    *)
LEMMA RunMoves ==
    ASSUME KeyHeld, NEW c \in Run, NEW state \in RunState,
           run' = [run EXCEPT ![c] = state],
           UNCHANGED <<tenants, keys, audited>>,
           shown' \subseteq keys,
           state.seen # NoTenant => state.seen = Row(c) /\ Name[Row(c)] = Name[c],
           state.pc = "commit" /\ state.seen = NoTenant =>
               Row(c) = NoTenant /\ TenantBlockers(c) = {},
           state.pc = "show" => c \in keys
    PROVE  KeyHeld'
<1>1. /\ run' \in [Run -> RunState] /\ run'[c] = state
      /\ \A d \in Run : d # c => run'[d] = run[d]
    BY DEF KeyHeld, KeyInv, KeyTypeOK
<1>2. \A d \in Run : Row(d)' = Row(d)
    BY DEF Row
<1>3. KeyInv'
    BY <1>1, <1>2 DEF KeyHeld, KeyInv, KeyTypeOK, KeysBelongToNamedTenant
<1>4. SeenIsStored'
    BY <1>1, <1>2 DEF KeyHeld, SeenIsStored
<1>5. ShowsAreStored'
    BY <1>1 DEF KeyHeld, ShowsAreStored
<1>6. InsertersAlone'
    <2> SUFFICES ASSUME NEW d \in Run, run'[d].pc = "commit", run'[d].seen = NoTenant
                 PROVE  Row(d) = NoTenant /\ TenantBlockers(d)' = {}
        BY <1>2 DEF InsertersAlone
    <2>1. CASE d = c
        <3>1. Row(d) = NoTenant /\ TenantBlockers(d) = {}
            BY <1>1, <2>1
        <3>2. \A x \in Run \ {d} : run'[x] = run[x]
            BY <1>1, <2>1
        <3> QED BY <3>1, <3>2 DEF TenantBlockers
    <2>2. CASE d # c
        <3>1. Row(d) = NoTenant /\ TenantBlockers(d) = {}
            BY <1>1, <2>2 DEF KeyHeld, InsertersAlone
        <3>2. ASSUME NEW x \in TenantBlockers(d)' PROVE FALSE
            <4>1. /\ x \in Run /\ x # d /\ run'[x].pc = "commit" /\ run'[x].seen = NoTenant
                  /\ TenantOf[x] = TenantOf[d]
                BY <3>2 DEF TenantBlockers
            <4>2. CASE x = c
                <5>1. d \in TenantBlockers(c)
                    BY <1>1, <2>2, <4>1, <4>2 DEF TenantBlockers
                <5> QED BY <1>1, <4>1, <4>2, <5>1
            <4>3. CASE x # c
                <5>1. x \in TenantBlockers(d)
                    BY <1>1, <4>1, <4>3 DEF TenantBlockers
                <5> QED BY <3>1, <5>1
            <4> QED BY <4>2, <4>3
        <3> QED BY <3>1, <3>2
    <2> QED BY <2>1, <2>2
<1> QED BY <1>3, <1>4, <1>5, <1>6 DEF KeyHeld

(* The commit: only the run alone with its new tenant writes the tenant's  *)
(* row, so no other row, and no key under it, changes its tenant.          *)
LEMMA CommitKeeps ==
    ASSUME KeyHeld, NEW c \in Run, CommitRows(c)
    PROVE  KeyHeld'
<1>1. /\ run[c] \in RunState /\ run[c].pc = "commit" /\ TenantOf[c] \in Tenant
      /\ tenants \in [Tenant -> Run \cup {NoTenant}] /\ run \in [Run -> RunState]
    BY RunAssumption DEF KeyHeld, KeyInv, KeyTypeOK, CommitRows
<1>2. /\ run' \in [Run -> RunState] /\ run'[c].pc = "show" /\ run'[c].seen = run[c].seen
      /\ \A d \in Run : d # c => run'[d] = run[d]
    BY <1>1 DEF CommitRows, Go, RunState
<1>3. \A d \in Run : Row(d) # NoTenant => Row(d)' = Row(d)
    <2>1. CASE run[c].seen = NoTenant
        <3>1. Row(c) = NoTenant
            BY <1>1, <2>1 DEF KeyHeld, InsertersAlone
        <3> QED BY <1>1, <2>1, <3>1, RunAssumption DEF CommitRows, Row
    <2>2. CASE run[c].seen # NoTenant
        BY <2>2 DEF CommitRows, Row
    <2> QED BY <2>1, <2>2
<1>4. Row(c)' # NoTenant /\ Name[Row(c)'] = Name[c]
    <2>1. CASE run[c].seen = NoTenant
        BY <1>1, <2>1, RunAssumption DEF CommitRows, Row
    <2>2. CASE run[c].seen # NoTenant
        BY <1>3, <2>2 DEF KeyHeld, SeenIsStored
    <2> QED BY <2>1, <2>2
<1>5. KeyTypeOK'
    BY <1>1, <1>2 DEF KeyHeld, KeyInv, KeyTypeOK, CommitRows
<1>6. KeysBelongToNamedTenant'
    <2>1. \A d \in keys' : Row(d)' # NoTenant /\ Name[Row(d)'] = Name[d]
        BY <1>3, <1>4 DEF KeyHeld, KeyInv, KeyTypeOK, KeysBelongToNamedTenant, CommitRows
    <2> QED BY <2>1 DEF KeyHeld, KeyInv, KeysBelongToNamedTenant, CommitRows
<1>7. SeenIsStored'
    BY <1>2, <1>3, RunAssumption DEF KeyHeld, SeenIsStored
<1>8. ShowsAreStored'
    BY <1>2 DEF KeyHeld, ShowsAreStored, CommitRows
<1>9. InsertersAlone'
    <2> SUFFICES ASSUME NEW d \in Run, run'[d].pc = "commit", run'[d].seen = NoTenant
                 PROVE  Row(d)' = NoTenant /\ TenantBlockers(d)' = {}
        BY DEF InsertersAlone
    <2>1. d # c /\ run'[d] = run[d]
        BY <1>2
    <2>2. Row(d) = NoTenant /\ TenantBlockers(d) = {}
        BY <2>1 DEF KeyHeld, InsertersAlone
    <2>3. TenantBlockers(d)' = {}
        BY <1>2, <2>2 DEF TenantBlockers
    <2>4. Row(d)' = Row(d)
        <3>1. CASE run[c].seen = NoTenant
            <4>1. TenantOf[d] # TenantOf[c]
                BY <1>1, <2>1, <2>2, <3>1 DEF TenantBlockers
            <4> QED BY <1>1, <3>1, <4>1, RunAssumption DEF CommitRows, Row
        <3>2. CASE run[c].seen # NoTenant
            BY <3>2 DEF CommitRows, Row
        <3> QED BY <3>1, <3>2
    <2> QED BY <2>2, <2>3, <2>4
<1> QED BY <1>5, <1>6, <1>7, <1>8, <1>9 DEF KeyHeld, KeyInv

(* Every step of the three commands keeps the invariant.                   *)
LEMMA KeyStep ==
    ASSUME KeyHeld, [KeyNext]_keyVars
    PROVE  KeyHeld'
<1>0. run \in [Run -> RunState]
    BY DEF KeyHeld, KeyInv, KeyTypeOK
<1>1. CASE UNCHANGED keyVars
    BY <1>1 DEF keyVars, KeyHeld, KeyInv, KeyTypeOK, KeysBelongToNamedTenant, SeenIsStored,
        InsertersAlone, ShowsAreStored, Row, TenantBlockers
<1>2. ASSUME NEW c \in Run, ReadTenant(c)
      PROVE  KeyHeld'
    <2> DEFINE state == run'[c]
    <2>1. /\ run' = [run EXCEPT ![c] = state] /\ state \in RunState
          /\ state.pc \in {"failed", "insert"}
          /\ state.seen \in {run[c].seen, Row(c)}
          /\ state.seen # run[c].seen =>
                 state.seen = NoTenant \/ Name[Row(c)] = Name[c]
        <3>1. Row(c) \in Run \cup {NoTenant} /\ run[c] \in RunState
            BY <1>0, RunAssumption DEF KeyHeld, KeyInv, KeyTypeOK, Row
        <3>2. CASE Go(c, "failed")
            BY <1>0, <3>1, <3>2 DEF Go, RunState
        <3>3. CASE /\ Row(c) = NoTenant \/ Name[Row(c)] = Name[c]
                   /\ run' = [run EXCEPT ![c] = [pc |-> "insert", seen |-> Row(c)]]
            BY <1>0, <3>1, <3>3 DEF RunState
        <3> QED BY <1>2, <3>2, <3>3 DEF ReadTenant
    <2>2. UNCHANGED <<tenants, keys, audited>> /\ shown' \subseteq keys
        BY <1>2 DEF ReadTenant, KeyHeld, KeyInv, KeysBelongToNamedTenant
    <2>3. state.seen # NoTenant => state.seen = Row(c) /\ Name[Row(c)] = Name[c]
        BY <2>1 DEF KeyHeld, SeenIsStored
    <2> HIDE DEF state
    <2> QED BY <2>1, <2>2, <2>3, RunMoves
<1>3. ASSUME NEW c \in Run, InsertRows(c)
      PROVE  KeyHeld'
    <2> DEFINE state == run'[c]
    <2>1. /\ run' = [run EXCEPT ![c] = state] /\ state \in RunState
          /\ state.pc = (IF DuplicateTenant(c) THEN "failed" ELSE "commit")
          /\ state.seen = run[c].seen
        BY <1>0, <1>3 DEF InsertRows, Go, RunState
    <2>2. UNCHANGED <<tenants, keys, audited>> /\ shown' \subseteq keys
        BY <1>3 DEF InsertRows, KeyHeld, KeyInv, KeysBelongToNamedTenant
    <2>3. state.seen # NoTenant => state.seen = Row(c) /\ Name[Row(c)] = Name[c]
        BY <2>1 DEF KeyHeld, SeenIsStored
    <2>4. state.pc = "commit" /\ state.seen = NoTenant =>
              Row(c) = NoTenant /\ TenantBlockers(c) = {}
        BY <1>3, <2>1 DEF InsertRows, DuplicateTenant
    <2>5. state.pc # "show"
        BY <2>1
    <2> HIDE DEF state
    <2> QED BY <2>1, <2>2, <2>3, <2>4, <2>5, RunMoves
<1>4. ASSUME NEW c \in Run, ShowKey(c) \/ Interrupt(c)
      PROVE  KeyHeld'
    <2> DEFINE state == run'[c]
    <2>1. /\ run' = [run EXCEPT ![c] = state] /\ state \in RunState
          /\ state.pc \in {"done", "failed"} /\ state.seen = run[c].seen
        BY <1>0, <1>4 DEF ShowKey, Interrupt, Go, RunState
    <2>2. UNCHANGED <<tenants, keys, audited>> /\ shown' \subseteq keys
        BY <1>4 DEF ShowKey, Interrupt, KeyHeld, KeyInv, KeysBelongToNamedTenant, ShowsAreStored
    <2>3. state.seen # NoTenant => state.seen = Row(c) /\ Name[Row(c)] = Name[c]
        BY <2>1 DEF KeyHeld, SeenIsStored
    <2> HIDE DEF state
    <2> QED BY <2>1, <2>2, <2>3, RunMoves
<1>5. ASSUME NEW c \in Run, CreateIngestKey(c) \/ CreateCiKey(c) \/ CreateQueryKey(c)
      PROVE  KeyHeld'
    BY <1>5, CommitKeeps DEF CreateIngestKey, CreateCiKey, CreateQueryKey
<1> QED BY <1>1, <1>2, <1>3, <1>4, <1>5 DEF KeyNext

(* However runs that name the same new tenant interleave, fail or are      *)
(* interrupted, every key stored and every plaintext printed belongs to a  *)
(* stored tenant of the name its run gave, and is audited: the check of    *)
(* the name, made when the tenant was read, is not undone by the insert of *)
(* another run, thanks to the primary key of tenants.                      *)
THEOREM KeysAreOfNamedTenant == KeySpec => []KeyInv
<1>1. KeyHeld /\ [KeyNext]_keyVars => KeyHeld'
    BY KeyStep
<1>2. KeyHeld => KeyInv
    BY DEF KeyHeld
<1> QED BY <1>1, <1>2, KeyInitHolds, PTL DEF KeySpec
-----------------------------------------------------------------------------
(* Sessions.                                                               *)

(* Whole seconds of a tick: the quotient is at most the dividend, grows    *)
(* with it, and a whole number of seconds comes out of it unchanged.       *)
LEMMA WholeSeconds ==
    ASSUME NEW t \in Nat
    PROVE  /\ Seconds(t) \in Nat
           /\ Seconds(t) * TicksPerSecond <= t
           /\ t < (Seconds(t) + 1) * TicksPerSecond
<1> DEFINE T == TicksPerSecond
<1>1. T \in Nat /\ T > 0
    BY SessionAssumption
<1> HIDE DEF T
<1>2. /\ t \div T \in Nat
      /\ (t \div T) * T <= t
      /\ t < ((t \div T) + 1) * T
    BY <1>1
<1> QED BY <1>2 DEF Seconds, T

(* Quotients compare as what they are quotients of.                        *)
LEMMA SecondsBelow ==
    ASSUME NEW s \in Nat, NEW t \in Nat, NEW k \in Nat, s <= t + k * TicksPerSecond
    PROVE  Seconds(s) <= Seconds(t) + k
<1> DEFINE T == TicksPerSecond
           a == Seconds(s)
           b == Seconds(t)
<1>1. T \in Nat /\ T > 0
    BY SessionAssumption
<1>2. a \in Nat /\ b \in Nat /\ a * T <= s /\ t < (b + 1) * T
    BY WholeSeconds
<1>3. s <= t + k * T
    OBVIOUS
<1> HIDE DEF T, a, b
<1>4. a * T < (b + 1 + k) * T
    <2>1. (b + 1 + k) * T = (b + 1) * T + k * T
        BY <1>1, <1>2
    <2>2. a * T \in Nat /\ (b + 1) * T \in Nat /\ k * T \in Nat
        BY <1>1, <1>2
    <2> QED BY <1>1, <1>2, <1>3, <2>1, <2>2
<1>5. a < b + 1 + k
    <2> SUFFICES ASSUME b + 1 + k <= a PROVE FALSE
        BY <1>2
    <2>1. (b + 1 + k) * T <= a * T
        BY <1>1, <1>2
    <2>2. a * T \in Nat /\ (b + 1 + k) * T \in Nat
        BY <1>1, <1>2
    <2> QED BY <1>4, <2>1, <2>2
<1>6. a <= b + k
    BY <1>2, <1>5
<1> QED BY <1>6 DEF a, b

(* Nobody is logged in at first.                                           *)
LEMMA SessionInitHolds == SessionInit => SessionHeld
<1> SUFFICES ASSUME SessionInit PROVE SessionHeld
    OBVIOUS
<1>1. SessionTypeOK
    BY SessionAssumption DEF SessionInit, SessionTypeOK, LoginState, CookieRequest
<1> QED BY <1>1 DEF SessionInit, SessionHeld, TokensBounded, LoginsHoldTheirToken,
        SessionWithinKey, RevocationIsImmediate, CookiesMatch

(* A step of a login other than the signature, or of the browser's cookies *)
(* alone.                                                                  *)
LEMMA LoginMoves ==
    ASSUME SessionHeld, NEW l \in Login, NEW state \in LoginState,
           login' = [login EXCEPT ![l] = state],
           state.pc = "commit" => state.token.login = l,
           UNCHANGED <<now, revoked, issued, request, sentRevoked>>,
           session' \in Tokens \cup {NoToken}, csrf' \in Login \cup {NoToken},
           CookiesMatch'
    PROVE  SessionHeld'
<1>1. SessionTypeOK'
    BY DEF SessionHeld, SessionTypeOK
<1>2. LoginsHoldTheirToken'
    BY DEF SessionHeld, SessionTypeOK, LoginsHoldTheirToken
<1>3. TokensBounded' /\ SessionWithinKey' /\ RevocationIsImmediate'
    BY DEF SessionHeld, TokensBounded, SessionWithinKey, RevocationIsImmediate
<1> QED BY <1>1, <1>2, <1>3 DEF SessionHeld

(* The signature: the claims keep the bounds of decode_web_session on the  *)
(* slowest clock, and the key's expiry.                                    *)
LEMMA ClaimsBounded ==
    ASSUME SessionHeld, NEW l \in Login, Claims(l).iat < Claims(l).exp
    PROVE  /\ Claims(l) \in Tokens /\ Claims(l).login = l
           /\ Claims(l).iat <= Seconds(now) + Skew
           /\ Claims(l).exp - Claims(l).iat <= Ttl
           /\ Claims(l).exp * TicksPerSecond <= Expiry[KeyOf[l]]
<1> DEFINE h    == login[l].host
           iat  == Seconds(Clock(h))
           last == Seconds(Expiry[KeyOf[l]])
<1>1. /\ h \in Host /\ now \in Nat /\ Offset[h] \in Nat
      /\ Offset[h] <= Skew * TicksPerSecond /\ Expiry[KeyOf[l]] \in Nat
      /\ Ttl \in Nat /\ Skew \in Nat /\ TicksPerSecond \in Nat /\ TicksPerSecond > 0
    <2>1. Skew * TicksPerSecond \in Nat
        BY SessionAssumption
    <2> QED BY <2>1, SessionAssumption DEF SessionHeld, SessionTypeOK, LoginState
<1>2. Clock(h) \in Nat /\ Clock(h) <= now + Skew * TicksPerSecond
    <2>1. Skew * TicksPerSecond \in Nat
        BY <1>1
    <2> QED BY <1>1, <2>1 DEF Clock
<1>3. iat \in Nat /\ iat <= Seconds(now) + Skew
    BY <1>1, <1>2, SecondsBelow, WholeSeconds
<1>4. last \in Nat /\ last * TicksPerSecond <= Expiry[KeyOf[l]]
    BY <1>1, WholeSeconds
<1>5. /\ Claims(l) = [login |-> l, iat |-> iat, exp |-> Earlier(iat + Ttl, last)]
    BY DEF Claims
<1> HIDE DEF h, iat, last
<1>6. Earlier(iat + Ttl, last) \in Nat /\ Earlier(iat + Ttl, last) <= iat + Ttl
      /\ Earlier(iat + Ttl, last) <= last
    BY <1>1, <1>3, <1>4 DEF Earlier
<1> DEFINE exp == Earlier(iat + Ttl, last)
<1>7. exp * TicksPerSecond <= last * TicksPerSecond
    <2> HIDE DEF exp
    <2>1. exp \in Nat /\ exp <= last
        BY <1>6 DEF exp
    <2> QED BY <1>1, <1>4, <2>1
<1>8. exp * TicksPerSecond \in Nat /\ last * TicksPerSecond \in Nat
    <2> HIDE DEF exp
    <2>1. exp \in Nat
        BY <1>6 DEF exp
    <2> QED BY <1>1, <1>4, <2>1
<1>9. Claims(l) \in Tokens /\ Claims(l).login = l /\ Claims(l).iat = iat /\ Claims(l).exp = exp
    BY <1>3, <1>5, <1>6 DEF Tokens
<1>10. exp - iat <= Ttl
    BY <1>1, <1>3, <1>6
<1>11. exp * TicksPerSecond <= Expiry[KeyOf[l]]
    <2> HIDE DEF exp
    <2> QED BY <1>1, <1>4, <1>7, <1>8
<1> QED BY <1>3, <1>9, <1>10, <1>11

LEMMA SignKeeps ==
    ASSUME SessionHeld, NEW l \in Login, SignSession(l)
    PROVE  SessionHeld'
<1> DEFINE token == Claims(l)
<1>0. login \in [Login -> LoginState]
    BY DEF SessionHeld, SessionTypeOK
<1>1. CASE Drop(l) /\ UNCHANGED issued
    <2>1. [login[l] EXCEPT !.pc = "done"] \in LoginState
        BY <1>0 DEF LoginState
    <2> DEFINE state == [login[l] EXCEPT !.pc = "done"]
    <2>2. state.pc = "done"
        BY <1>0 DEF LoginState
    <2>3. login' = [login EXCEPT ![l] = state]
        BY <1>1 DEF Drop, Goes
    <2>4. CookiesMatch' /\ session' \in Tokens \cup {NoToken} /\ csrf' \in Login \cup {NoToken}
        BY DEF SignSession, SessionHeld, CookiesMatch, SessionTypeOK
    <2>5. UNCHANGED <<now, revoked, issued, request, sentRevoked>>
        BY <1>1 DEF SignSession
    <2> HIDE DEF state
    <2> QED BY <2>1, <2>2, <2>3, <2>4, <2>5, LoginMoves DEF state
<1>2. CASE /\ ~(token.exp <= token.iat)
           /\ Goes(l, [login[l] EXCEPT !.pc = "commit", !.token = token])
           /\ issued' = issued \cup {token}
    <2>0. token.iat \in Nat /\ token.exp \in Nat
        <3>1. /\ Clock(login[l].host) \in Nat /\ Expiry[KeyOf[l]] \in Nat /\ Ttl \in Nat
            BY <1>0, SessionAssumption DEF SessionHeld, SessionTypeOK, LoginState, Clock
        <3> QED BY <3>1, WholeSeconds DEF Claims, Earlier
    <2>1. token.iat < token.exp
        BY <1>2, <2>0
    <2> HIDE DEF token
    <2>2. /\ token \in Tokens /\ token.login = l /\ token.iat <= Seconds(now) + Skew
          /\ token.exp - token.iat <= Ttl /\ token.exp * TicksPerSecond <= Expiry[KeyOf[l]]
        BY <2>1, ClaimsBounded DEF token
    <2> DEFINE state == [login[l] EXCEPT !.pc = "commit", !.token = token]
    <2>3. state \in LoginState /\ state.token.login = l
        BY <1>0, <2>2 DEF LoginState
    <2>4. /\ login' = [login EXCEPT ![l] = state] /\ issued' = issued \cup {token}
          /\ UNCHANGED <<now, revoked, session, csrf, request, sentRevoked>>
        BY <1>2 DEF SignSession, Goes
    <2> HIDE DEF state
    <2>5. SessionTypeOK'
        BY <2>2, <2>3, <2>4 DEF SessionHeld, SessionTypeOK
    <2>6. LoginsHoldTheirToken'
        BY <1>0, <2>3, <2>4 DEF SessionHeld, LoginsHoldTheirToken
    <2>7. TokensBounded'
        BY <2>1, <2>2, <2>4 DEF SessionHeld, TokensBounded
    <2>8. SessionWithinKey'
        BY <2>2, <2>4 DEF SessionHeld, SessionWithinKey
    <2>9. RevocationIsImmediate' /\ CookiesMatch' /\ sentRevoked' \subseteq revoked'
        BY <2>4 DEF SessionHeld, RevocationIsImmediate, CookiesMatch
    <2> QED BY <2>5, <2>6, <2>7, <2>8, <2>9 DEF SessionHeld
<1> QED BY <1>1, <1>2 DEF SignSession

(* The other steps of a login.                                             *)
LEMMA LoginSteps ==
    ASSUME SessionHeld, NEW l \in Login,
           \/ \E h \in Host : LoadForLogin(l, h)
           \/ CheckForLogin(l) \/ AnswerLogin(l)
    PROVE  SessionHeld'
<1> DEFINE state == login'[l]
<1>0. login \in [Login -> LoginState]
    BY DEF SessionHeld, SessionTypeOK
<1>1. /\ login' = [login EXCEPT ![l] = state] /\ state \in LoginState /\ state.pc # "commit"
    <2>1. CASE Drop(l)
        BY <1>0, <2>1 DEF Drop, Goes, LoginState
    <2>2. CASE \E h \in Host : Goes(l, [login[l] EXCEPT !.pc = "check", !.host = h])
        BY <1>0, <2>2 DEF Goes, LoginState
    <2>3. CASE Goes(l, [login[l] EXCEPT !.pc = "sign"])
        BY <1>0, <2>3 DEF Goes, LoginState
    <2> QED BY <2>1, <2>2, <2>3 DEF LoadForLogin, CheckForLogin, AnswerLogin
<1>2. UNCHANGED <<now, revoked, issued, request, sentRevoked>>
    BY DEF LoadForLogin, CheckForLogin, AnswerLogin
<1>3. /\ session' \in Tokens \cup {NoToken} /\ csrf' \in Login \cup {NoToken}
      /\ CookiesMatch'
    <2>1. CASE UNCHANGED <<session, csrf>>
        BY <2>1 DEF SessionHeld, SessionTypeOK, CookiesMatch
    <2>2. CASE login[l].pc = "commit" /\ SetSessionCookies(l)
        <3>1. login[l].token.login = l /\ login[l].token \in Tokens \cup {NoToken}
            BY <1>0, <2>2 DEF SessionHeld, LoginsHoldTheirToken, LoginState
        <3> QED BY <2>2, <3>1 DEF SetSessionCookies, CookiesMatch
    <2> QED BY <2>1, <2>2 DEF LoadForLogin, CheckForLogin, AnswerLogin
<1> HIDE DEF state
<1> QED BY <1>1, <1>2, <1>3, LoginMoves

(* The steps of the browser, its request and the key's owner.              *)
LEMMA BrowserSteps ==
    ASSUME SessionHeld,
           \/ ForgetCookies \/ DecodeSession \/ Revalidate
           \/ \E kind \in {"read", "write", "logout"}, h \in Host : SendWithCookie(kind, h)
           \/ \E k \in Key : RevokeKey(k)
    PROVE  SessionHeld'
<1>1. UNCHANGED <<now, login, issued>>
    BY DEF ForgetCookies, DecodeSession, Revalidate, SendWithCookie, RevokeKey
<1>2. TokensBounded' /\ LoginsHoldTheirToken' /\ SessionWithinKey'
    BY <1>1 DEF SessionHeld, TokensBounded, LoginsHoldTheirToken, SessionWithinKey
<1>3. /\ session' \in Tokens \cup {NoToken} /\ csrf' \in Login \cup {NoToken}
      /\ CookiesMatch'
    BY DEF ForgetCookies, DecodeSession, Revalidate, SendWithCookie, RevokeKey,
           SessionHeld, SessionTypeOK, CookiesMatch
<1>4. /\ revoked \subseteq revoked' /\ revoked' \subseteq Key
      /\ sentRevoked' \subseteq revoked'
    BY DEF ForgetCookies, DecodeSession, Revalidate, SendWithCookie, RevokeKey,
           SessionHeld, SessionTypeOK
<1>5. request' \in CookieRequest /\ RevocationIsImmediate'
    <2>0. request \in CookieRequest
        BY DEF SessionHeld, SessionTypeOK
    <2>1. CASE UNCHANGED <<request, sentRevoked>>
        BY <2>0, <2>1 DEF SessionHeld, RevocationIsImmediate
    <2>2. CASE DecodeSession
        BY <2>0, <2>2 DEF DecodeSession, CookieRequest, RevocationIsImmediate
    <2>3. CASE Revalidate
        <3>1. CASE KeyStillUsable(KeyOf[request.token.login], Clock(request.host))
            <4>1. KeyOf[request.token.login] \notin sentRevoked
                BY <3>1 DEF KeyStillUsable, SessionHeld
            <4> QED BY <2>0, <2>3, <4>1 DEF Revalidate, CookieRequest, RevocationIsImmediate
        <3>2. CASE ~KeyStillUsable(KeyOf[request.token.login], Clock(request.host))
            BY <2>0, <2>3, <3>2 DEF Revalidate, CookieRequest, RevocationIsImmediate
        <3> QED BY <3>1, <3>2
    <2>4. CASE \E kind \in {"read", "write", "logout"}, h \in Host : SendWithCookie(kind, h)
        BY <2>4 DEF SendWithCookie, CookieRequest, RevocationIsImmediate, SessionHeld,
            SessionTypeOK
    <2> QED BY <2>1, <2>2, <2>3, <2>4 DEF ForgetCookies, RevokeKey
<1>6. SessionTypeOK'
    BY <1>1, <1>3, <1>4, <1>5 DEF SessionHeld, SessionTypeOK
<1> QED BY <1>2, <1>3, <1>4, <1>5, <1>6 DEF SessionHeld

(* The clocks advance: no token comes to lie further in the future.        *)
LEMMA SessionTickKeeps ==
    ASSUME SessionHeld, SessionTick
    PROVE  SessionHeld'
<1>1. /\ now \in Nat /\ now' = now + 1 /\ now' \in 0..MaxTime
      /\ UNCHANGED <<revoked, login, issued, session, csrf, request, sentRevoked>>
    BY SessionAssumption DEF SessionTick, SessionHeld, SessionTypeOK
<1>2. Seconds(now) <= Seconds(now')
    <2>1. now <= now' + 0 * TicksPerSecond
        BY <1>1, SessionAssumption
    <2>2. Seconds(now) <= Seconds(now') + 0
        BY <1>1, <2>1, SecondsBelow
    <2> QED BY <1>1, <2>2, WholeSeconds
<1>3. TokensBounded'
    <2>1. Seconds(now) \in Nat /\ Seconds(now') \in Nat /\ Skew \in Nat
        BY <1>1, WholeSeconds, SessionAssumption
    <2>2. \A token \in issued : token.iat \in Nat
        BY DEF SessionHeld, SessionTypeOK, Tokens
    <2>3. \A token \in issued : token.iat <= Seconds(now) + Skew
        BY DEF SessionHeld, TokensBounded
    <2>4. \A token \in issued : token.iat <= Seconds(now') + Skew
        BY <1>2, <2>1, <2>2, <2>3
    <2>5. Seconds(now)' = Seconds(now')
        BY DEF Seconds
    <2> QED BY <1>1, <2>4, <2>5 DEF SessionHeld, TokensBounded
<1> QED BY <1>1, <1>3 DEF SessionHeld, SessionTypeOK, LoginsHoldTheirToken, SessionWithinKey,
        RevocationIsImmediate, CookiesMatch

LEMMA SessionStep ==
    ASSUME SessionHeld, [SessionNext]_sessionVars
    PROVE  SessionHeld'
<1>1. CASE UNCHANGED sessionVars
    BY <1>1 DEF sessionVars, SessionHeld, SessionTypeOK, TokensBounded, LoginsHoldTheirToken,
        SessionWithinKey, RevocationIsImmediate, CookiesMatch
<1>2. ASSUME NEW l \in Login, SignSession(l) PROVE SessionHeld'
    BY <1>2, SignKeeps
<1>3. CASE SessionTick
    BY <1>3, SessionTickKeeps
<1> QED BY <1>1, <1>2, <1>3, LoginSteps, BrowserSteps DEF SessionNext

(* The invariant behind the four results that follow: what the tokens      *)
(* signed so far claim is bounded by the slowest clock and by their key.   *)
THEOREM SessionInductive == SessionSpec => []SessionHeld
<1>1. SessionHeld /\ [SessionNext]_sessionVars => SessionHeld'
    BY SessionStep
<1> QED BY <1>1, SessionInitHolds, PTL DEF SessionSpec

(* Every replica accepts the clock bounds of every token another replica   *)
(* signed, until it expires, whenever the clocks are at most               *)
(* WEB_SESSION_CLOCK_SKEW_SECONDS apart.                                   *)
THEOREM EveryReplicaDecodes == SessionSpec => []SessionInv
<1>1. SessionHeld => SessionInv
    <2> SUFFICES ASSUME SessionHeld, NEW token \in issued, NEW h \in Host,
                        Seconds(Clock(h)) < token.exp
                 PROVE  token.iat <= Seconds(Clock(h)) + Skew
        BY DEF SessionHeld, SessionInv, SessionsDecodeEverywhere, ClockBounds, TokensBounded
    <2>1. now \in Nat /\ Offset[h] \in Nat /\ Skew \in Nat /\ token.iat \in Nat
        BY SessionAssumption DEF SessionHeld, SessionTypeOK, Tokens
    <2>2. Clock(h) \in Nat /\ now <= Clock(h) + 0 * TicksPerSecond
        BY <2>1, SessionAssumption DEF Clock
    <2>3. Seconds(now) <= Seconds(Clock(h)) + 0
        BY <2>1, <2>2, SecondsBelow
    <2>4. Seconds(now) \in Nat /\ Seconds(Clock(h)) \in Nat
        BY <2>1, <2>2, WholeSeconds
    <2>5. token.iat <= Seconds(now) + Skew
        BY DEF SessionHeld, TokensBounded
    <2> QED BY <2>1, <2>3, <2>4, <2>5
<1> QED BY <1>1, SessionInductive, PTL

(* No session outlives its key, to the tick, for every resolution of the   *)
(* clock: the claims of create_web_session round the key's expiry down.    *)
THEOREM SessionsEndWithKey == SessionSpec => []SessionWithinKey
<1>1. SessionHeld => SessionWithinKey
    BY DEF SessionHeld
<1> QED BY <1>1, SessionInductive, PTL

(* A cookie request that was accepted was sent before its key was revoked: *)
(* the key's row is read after the request arrived.                        *)
THEOREM RevocationHolds == SessionSpec => []RevocationIsImmediate
<1>1. SessionHeld => RevocationIsImmediate
    BY DEF SessionHeld
<1> QED BY <1>1, SessionInductive, PTL

(* The browser's two cookies come from one login.                          *)
THEOREM CookiesStayMatched == SessionSpec => []CookiesMatch
<1>1. SessionHeld => CookiesMatch
    BY DEF SessionHeld
<1> QED BY <1>1, SessionInductive, PTL
-----------------------------------------------------------------------------
(* Remote configuration.                                                   *)

(* The committed rows are finitely many.                                   *)
LEMMA PublishedFinite ==
    ASSUME published \subseteq Publication
    PROVE  IsFiniteSet(published) /\ Cardinality(published) \in Nat
<1>1. IsFiniteSet(published)
    BY ConfigAssumption, FS_Subset
<1> QED BY <1>1, FS_CardinalityType

(* Nothing is published and nothing cached at first.                       *)
LEMMA ConfigInitHolds == ConfigInit => ConfigHeld
<1> SUFFICES ASSUME ConfigInit PROVE ConfigHeld
    OBVIOUS
<1>1. ConfigTypeOK
    BY ConfigAssumption DEF ConfigInit, ConfigTypeOK, PublisherState, InstallationState
<1>2. RevisionsInOrder
    <2>1. published = {} /\ Cardinality(published) = 0
        BY FS_EmptySet DEF ConfigInit
    <2> QED BY <2>1 DEF RevisionsInOrder
<1>3. NotModifiedIsTrue /\ RowsNamed /\ PublishersInStep /\ CachesStored
    BY DEF ConfigInit, NotModifiedIsTrue, RowsNamed, PublishersInStep, CachesStored
<1> QED BY <1>1, <1>2, <1>3 DEF ConfigHeld, ConfigInv

(* A step of publication p that commits nothing: the table, and with it    *)
(* what clients were given, stays as it was.                               *)
LEMMA PublisherMoves ==
    ASSUME ConfigHeld, NEW p \in Publication, NEW state \in PublisherState,
           publisher[p].pc # "published", state.pc # "published",
           publisher' = [publisher EXCEPT ![p] = state],
           UNCHANGED <<clock, published, installation, answered>>,
           state.issued <= clock,
           state.pc \in {"sign", "insert", "commit"} =>
               state.revision \in 1..(Cardinality(published) + 1),
           state.pc \in {"insert", "commit"} =>
               \A q \in published : Revision(q) < state.revision =>
                   publisher[q].issued <= state.issued,
           state.pc = "commit" =>
               /\ state.revision = Cardinality(published) + 1
               /\ \A q \in Publication : publisher[q].pc = "commit" => q = p
    PROVE  ConfigHeld'
<1>1. /\ publisher' \in [Publication -> PublisherState] /\ publisher'[p] = state
      /\ \A q \in Publication : q # p => publisher'[q] = publisher[q]
      /\ published \subseteq Publication
    BY DEF ConfigHeld, ConfigInv, ConfigTypeOK
<1>2. p \notin published
    BY DEF ConfigHeld, RowsNamed
<1>3. \A q \in published : publisher'[q] = publisher[q] /\ Revision(q)' = Revision(q)
    BY <1>1, <1>2 DEF Revision
<1>4. ConfigTypeOK'
    BY <1>1 DEF ConfigHeld, ConfigInv, ConfigTypeOK
<1>5. RevisionsInOrder'
    <2>1. {Revision(q)' : q \in published} = {Revision(q) : q \in published}
        BY <1>3
    <2>2. {Revision(q) : q \in published} = 1..Cardinality(published)
        BY DEF ConfigHeld, ConfigInv, RevisionsInOrder
    <2>3. \A q, r \in published : Revision(q) < Revision(r) => publisher[q].issued <= publisher[r].issued
        BY DEF ConfigHeld, ConfigInv, RevisionsInOrder
    <2> QED BY <1>3, <2>1, <2>2, <2>3 DEF RevisionsInOrder
<1>6. NotModifiedIsTrue' /\ CachesStored'
    BY DEF ConfigHeld, ConfigInv, NotModifiedIsTrue, CachesStored
<1>7. RowsNamed'
    BY <1>1, <1>2, <1>3 DEF ConfigHeld, RowsNamed
<1>8. PublishersInStep'
    <2> SUFFICES ASSUME NEW q \in Publication
                 PROVE  /\ publisher'[q].issued <= clock
                        /\ publisher'[q].pc \in {"sign", "insert", "commit"} =>
                              Revision(q)' \in 1..(Cardinality(published) + 1)
                        /\ publisher'[q].pc \in {"insert", "commit"} =>
                              \A r \in published : Revision(r)' < Revision(q)' =>
                                  publisher'[r].issued <= publisher'[q].issued
                        /\ publisher'[q].pc = "commit" =>
                              /\ Revision(q)' = Cardinality(published) + 1
                              /\ \A r \in Publication : publisher'[r].pc = "commit" => r = q
        BY DEF PublishersInStep
    <2>1. CASE q = p
        <3>1. Revision(q)' = state.revision
            BY <1>1, <2>1 DEF Revision
        <3> QED BY <1>1, <1>3, <2>1, <3>1
    <2>2. CASE q # p
        <3>1. publisher'[q] = publisher[q] /\ Revision(q)' = Revision(q)
            BY <1>1, <2>2 DEF Revision
        <3>2. publisher[q].pc = "commit" => state.pc # "commit"
            BY <2>2
        <3> QED BY <1>1, <1>3, <2>2, <3>1, <3>2 DEF ConfigHeld, PublishersInStep
    <2> QED BY <2>1, <2>2
<1> QED BY <1>4, <1>5, <1>6, <1>7, <1>8 DEF ConfigHeld, ConfigInv

(* The number after the greatest committed one is at most one ahead.       *)
LEMMA NextRevisionInStep ==
    ASSUME ConfigHeld, NEW n \in Nat, IsNextRevision(n)
    PROVE  n \in 1..(Cardinality(published) + 1)
<1>1. Cardinality(published) \in Nat
    BY PublishedFinite DEF ConfigHeld, ConfigInv, ConfigTypeOK
<1>2. \A q \in published : Revision(q) \in 1..Cardinality(published)
    BY DEF ConfigHeld, ConfigInv, RevisionsInOrder
<1> QED BY <1>1, <1>2 DEF IsNextRevision

(* The steps before the commit.                                            *)
LEMMA PublisherSteps ==
    ASSUME ConfigHeld, NEW p \in Publication,
           ReadMaximum(p) \/ SignConfig(p) \/ InsertConfig(p) \/ AbortPublication(p)
    PROVE  ConfigHeld'
<1>0. /\ publisher \in [Publication -> PublisherState] /\ publisher[p] \in PublisherState
      /\ clock \in Nat /\ published \subseteq Publication /\ Cardinality(published) \in Nat
      /\ publisher[p].issued <= clock
    BY PublishedFinite, ConfigAssumption
       DEF ConfigHeld, ConfigInv, ConfigTypeOK, PublishersInStep
<1>1. CASE /\ publisher[p].pc \in {"read", "sign", "insert", "commit"}
           /\ Publish(p, [publisher[p] EXCEPT !.pc = "failed"]) /\ UNCHANGED published
    <2> DEFINE state == [publisher[p] EXCEPT !.pc = "failed"]
    <2>1. state \in PublisherState /\ state.pc = "failed" /\ state.issued = publisher[p].issued
        BY <1>0 DEF PublisherState
    <2>2. publisher[p].pc # "published" /\ publisher' = [publisher EXCEPT ![p] = state]
          /\ UNCHANGED <<clock, published, installation, answered>>
        BY <1>1 DEF Publish
    <2> HIDE DEF state
    <2> QED BY <1>0, <2>1, <2>2, PublisherMoves
<1>2. ASSUME publisher[p].pc = "read", NEW n \in 1..(Cardinality(Publication) + 1),
             IsNextRevision(n), UNCHANGED published,
             Publish(p, [publisher[p] EXCEPT !.pc = "sign", !.revision = n])
      PROVE  ConfigHeld'
    <2> DEFINE state == [publisher[p] EXCEPT !.pc = "sign", !.revision = n]
    <2>1. n \in Nat
        BY FS_CardinalityType, ConfigAssumption
    <2>2. n \in 1..(Cardinality(published) + 1)
        BY <1>2, <2>1, NextRevisionInStep
    <2>3. /\ state \in PublisherState /\ state.pc = "sign" /\ state.revision = n
          /\ state.issued = publisher[p].issued
        BY <1>0, <2>1 DEF PublisherState
    <2>4. publisher' = [publisher EXCEPT ![p] = state]
          /\ UNCHANGED <<clock, published, installation, answered>>
        BY <1>2 DEF Publish
    <2> HIDE DEF state
    <2> QED BY <1>0, <1>2, <2>2, <2>3, <2>4, PublisherMoves
<1>3. CASE /\ publisher[p].pc = "sign" /\ UNCHANGED published
           /\ Publish(p, [publisher[p] EXCEPT !.pc = "insert", !.issued = clock,
                                              !.expires = clock + Lifetime[p]])
    <2> DEFINE state == [publisher[p] EXCEPT !.pc = "insert", !.issued = clock,
                                             !.expires = clock + Lifetime[p]]
    <2>0. clock + Lifetime[p] \in Nat
        BY <1>0, ConfigAssumption
    <2>1. /\ state \in PublisherState /\ state.pc = "insert" /\ state.issued = clock
          /\ state.revision = Revision(p)
        BY <1>0, <2>0 DEF PublisherState, Revision
    <2>2. Revision(p) \in 1..(Cardinality(published) + 1)
        BY <1>3 DEF ConfigHeld, PublishersInStep
    <2>3. \A q \in published : publisher[q].issued <= clock
        BY <1>0 DEF ConfigHeld, PublishersInStep
    <2>4. publisher' = [publisher EXCEPT ![p] = state]
          /\ UNCHANGED <<clock, published, installation, answered>>
        BY <1>3 DEF Publish
    <2>5. state.issued <= clock
        BY <1>0, <2>1
    <2> HIDE DEF state
    <2> QED BY <1>0, <1>3, <2>1, <2>2, <2>3, <2>4, <2>5, PublisherMoves
<1>4. CASE InsertConfig(p) /\ ~RevisionTaken(p)
    <2> DEFINE state == [publisher[p] EXCEPT !.pc = "commit"]
    <2>1. /\ state \in PublisherState /\ state.pc = "commit"
          /\ state.issued = publisher[p].issued /\ state.revision = Revision(p)
        BY <1>0 DEF PublisherState, Revision
    <2>2. /\ Revision(p) \in 1..(Cardinality(published) + 1)
          /\ \A q \in published : Revision(q) < Revision(p) =>
                 publisher[q].issued <= publisher[p].issued
        BY <1>4 DEF InsertConfig, ConfigHeld, PublishersInStep
    <2>3. Revision(p) \notin 1..Cardinality(published)
        BY <1>4 DEF RevisionTaken, ConfigHeld, ConfigInv, RevisionsInOrder
    <2>4. Revision(p) = Cardinality(published) + 1
        BY <1>0, <2>2, <2>3
    <2>5. \A q \in Publication : publisher[q].pc = "commit" => q = p
        <3> SUFFICES ASSUME NEW q \in Publication, publisher[q].pc = "commit", q # p
                     PROVE  FALSE
            OBVIOUS
        <3>1. Revision(q) = Cardinality(published) + 1
            BY DEF ConfigHeld, PublishersInStep
        <3>2. q \in InsertBlockers(p)
            BY <2>4, <3>1 DEF InsertBlockers
        <3> QED BY <1>4, <3>2 DEF InsertConfig
    <2>6. publisher[p].pc = "insert" /\ publisher' = [publisher EXCEPT ![p] = state]
          /\ UNCHANGED <<clock, published, installation, answered>>
        BY <1>4 DEF InsertConfig, Publish
    <2> HIDE DEF state
    <2> QED BY <1>0, <2>1, <2>2, <2>4, <2>5, <2>6, PublisherMoves
<1>5. CASE InsertConfig(p) /\ RevisionTaken(p)
    BY <1>1, <1>5 DEF InsertConfig
<1> QED BY <1>1, <1>2, <1>3, <1>4, <1>5 DEF ReadMaximum, SignConfig, AbortPublication

(* The commit adds the next number to the table, not before its            *)
(* predecessors were issued.                                               *)
LEMMA PublicationCommits ==
    ASSUME ConfigHeld, NEW p \in Publication, CommitConfig(p)
    PROVE  ConfigHeld'
<1> DEFINE N == Cardinality(published)
<1>0. /\ publisher \in [Publication -> PublisherState] /\ publisher[p] \in PublisherState
      /\ published \subseteq Publication /\ IsFiniteSet(published) /\ N \in Nat
    BY PublishedFinite DEF ConfigHeld, ConfigInv, ConfigTypeOK
<1>1. /\ publisher[p].pc = "commit" /\ published' = published \cup {p}
      /\ publisher' = [publisher EXCEPT ![p] = [publisher[p] EXCEPT !.pc = "published"]]
      /\ UNCHANGED <<clock, installation, answered>>
    BY DEF CommitConfig, Publish
<1>2. /\ publisher' \in [Publication -> PublisherState] /\ publisher'[p].pc = "published"
      /\ \A q \in Publication : /\ publisher'[q].revision = publisher[q].revision
                                /\ publisher'[q].issued = publisher[q].issued
                                /\ q # p => publisher'[q] = publisher[q]
    BY <1>0, <1>1 DEF PublisherState
<1>3. /\ Revision(p) = N + 1
      /\ \A q \in Publication : publisher[q].pc = "commit" => q = p
      /\ \A q \in published : Revision(q) < Revision(p) =>
             publisher[q].issued <= publisher[p].issued
    BY <1>1 DEF ConfigHeld, PublishersInStep
<1>4. p \notin published
    BY <1>1 DEF ConfigHeld, RowsNamed
<1>5. Cardinality(published') = N + 1
    BY <1>0, <1>1, <1>4, FS_AddElement
<1>6. /\ {Revision(q) : q \in published} = 1..N
      /\ \A q, r \in published : Revision(q) < Revision(r) =>
             publisher[q].issued <= publisher[r].issued
    BY DEF ConfigHeld, ConfigInv, RevisionsInOrder
<1>7. \A q \in Publication : Revision(q)' = Revision(q)
    BY <1>2 DEF Revision
<1>8. \A q \in published : Revision(q) \in 1..N
    BY <1>6
<1> HIDE DEF N
<1>9. RevisionsInOrder'
    <2>1. {Revision(q)' : q \in published'} = {Revision(q) : q \in published} \cup {Revision(p)}
        BY <1>0, <1>1, <1>7
    <2>2. 1..(N + 1) = (1..N) \cup {N + 1}
        BY <1>0
    <2>3. {Revision(q)' : q \in published'} = 1..Cardinality(published')
        BY <1>3, <1>5, <1>6, <2>1, <2>2
    <2>4. ASSUME NEW q \in published', NEW r \in published', Revision(q)' < Revision(r)'
          PROVE  publisher'[q].issued <= publisher'[r].issued
        <3>1. q \in Publication /\ r \in Publication /\ Revision(q) < Revision(r)
            BY <1>0, <1>1, <1>7, <2>4
        <3>2. CASE r = p
            <4>1. q \in published
                BY <1>1, <1>3, <2>4, <3>1, <3>2, <1>0
            <4> QED BY <1>2, <1>3, <3>1, <3>2, <4>1
        <3>3. CASE r # p
            <4>1. r \in published
                BY <1>1, <3>3
            <4>2. q # p
                BY <1>0, <1>3, <1>8, <3>1, <4>1
            <4> QED BY <1>1, <1>2, <1>6, <3>1, <4>1, <4>2
        <3> QED BY <3>2, <3>3
    <2> QED BY <2>3, <2>4 DEF RevisionsInOrder
<1>10. RowsNamed'
    <2>1. \A q \in Publication : q \in published' <=> publisher'[q].pc = "published"
        BY <1>1, <1>2 DEF ConfigHeld, RowsNamed
    <2>2. ASSUME NEW q \in published', NEW r \in published', Revision(q)' = Revision(r)'
          PROVE  q = r
        <3>1. q \in Publication /\ r \in Publication /\ Revision(q) = Revision(r)
            BY <1>0, <1>1, <1>7, <2>2
        <3>2. \A x \in published : Revision(x) # Revision(p)
            BY <1>0, <1>3, <1>8
        <3> QED BY <1>1, <3>1, <3>2 DEF ConfigHeld, RowsNamed
    <2> QED BY <2>1, <2>2 DEF RowsNamed
<1>11. PublishersInStep'
    <2> SUFFICES ASSUME NEW q \in Publication
                 PROVE  /\ publisher'[q].issued <= clock
                        /\ publisher'[q].pc \in {"sign", "insert", "commit"} =>
                              Revision(q) \in 1..((N + 1) + 1)
                        /\ publisher'[q].pc \in {"insert", "commit"} =>
                              \A r \in published' : Revision(r) < Revision(q) =>
                                  publisher'[r].issued <= publisher'[q].issued
                        /\ publisher'[q].pc # "commit"
        BY <1>0, <1>1, <1>5, <1>7 DEF PublishersInStep
    <2>1. publisher'[q].issued <= clock
        BY <1>2 DEF ConfigHeld, PublishersInStep
    <2>2. publisher'[q].pc # "commit"
        BY <1>2, <1>3
    <2>3. ASSUME publisher'[q].pc \in {"sign", "insert", "commit"}
          PROVE  /\ Revision(q) \in 1..(N + 1)
                 /\ publisher[q].pc \in {"insert", "commit"} =>
                       \A r \in published : Revision(r) < Revision(q) =>
                           publisher[r].issued <= publisher[q].issued
                 /\ publisher[q].pc = publisher'[q].pc
        BY <1>2, <2>3 DEF ConfigHeld, PublishersInStep, N
    <2>4. publisher'[q].pc \in {"insert", "commit"} =>
              \A r \in published' : Revision(r) < Revision(q) =>
                  publisher'[r].issued <= publisher'[q].issued
        <3> SUFFICES ASSUME publisher'[q].pc \in {"insert", "commit"}, NEW r \in published',
                            Revision(r) < Revision(q)
                     PROVE  publisher'[r].issued <= publisher'[q].issued
            OBVIOUS
        <3>1. r # p
            BY <1>0, <1>3, <2>3
        <3> QED BY <1>0, <1>1, <1>2, <2>3, <3>1
    <2>5. publisher'[q].pc \in {"sign", "insert", "commit"} => Revision(q) \in 1..((N + 1) + 1)
        BY <1>0, <2>3
    <2> QED BY <2>1, <2>2, <2>4, <2>5
<1>12. ConfigTypeOK'
    BY <1>0, <1>1, <1>2 DEF ConfigHeld, ConfigInv, ConfigTypeOK
<1>13. NotModifiedIsTrue' /\ CachesStored'
    BY <1>1 DEF ConfigHeld, ConfigInv, NotModifiedIsTrue, CachesStored
<1> QED BY <1>9, <1>10, <1>11, <1>12, <1>13 DEF ConfigHeld, ConfigInv

(* A step of client i, or of the clock: the table does not change.         *)
LEMMA ClientMoves ==
    ASSUME ConfigHeld,
           UNCHANGED <<publisher, published>>, clock' \in 0..LastTick, clock <= clock',
           installation' \in [Installation -> InstallationState],
           answered' \in [Installation -> Publication \cup {NoConfig}],
           NotModifiedIsTrue', CachesStored'
    PROVE  ConfigHeld'
<1>1. \A p \in Publication : Revision(p)' = Revision(p)
    BY DEF Revision
<1>2. published \subseteq Publication
    BY DEF ConfigHeld, ConfigInv, ConfigTypeOK
<1>3. RevisionsInOrder' /\ RowsNamed'
    BY DEF ConfigHeld, ConfigInv, RevisionsInOrder, RowsNamed, Revision
<1>4. PublishersInStep'
    <2>1. \A p \in Publication : publisher[p].issued <= clock'
        <3>1. clock \in Nat /\ clock' \in Nat
            BY ConfigAssumption DEF ConfigHeld, ConfigInv, ConfigTypeOK
        <3>2. \A p \in Publication : publisher[p].issued \in Nat /\ publisher[p].issued <= clock
            BY DEF ConfigHeld, ConfigInv, ConfigTypeOK, PublisherState, PublishersInStep
        <3> QED BY <3>1, <3>2
    <2> QED BY <2>1 DEF ConfigHeld, PublishersInStep, Revision
<1>5. ConfigTypeOK'
    BY DEF ConfigHeld, ConfigInv, ConfigTypeOK
<1> QED BY <1>3, <1>4, <1>5 DEF ConfigHeld, ConfigInv

(* What an answer with the latest row does: the cache ends with it, and it *)
(* is the row a 304 stands for.                                            *)
LEMMA ServedCache ==
    ASSUME ConfigHeld, NEW i \in Installation, NEW p \in published, ServeConfig(i, p)
    PROVE  /\ installation' \in [Installation -> InstallationState]
           /\ installation'[i].cached = p
           /\ answered' = [answered EXCEPT ![i] = p]
           /\ \A j \in Installation : j # i => installation'[j] = installation[j]
           /\ UNCHANGED <<clock, publisher, published>>
<1> DEFINE cached == installation[i].cached
           same == IF cached = NoConfig THEN FALSE ELSE Revision(cached) = Revision(p)
           state == [installation[i] EXCEPT !.pc = "idle",
                                            !.cached = IF same THEN cached ELSE p,
                                            !.status = IF same THEN "304" ELSE "200"]
<1>1. /\ installation \in [Installation -> InstallationState]
      /\ published \subseteq Publication
    BY DEF ConfigHeld, ConfigInv, ConfigTypeOK
<1>2. cached \in published \cup {NoConfig}
    BY DEF ConfigHeld, CachesStored
<1>3. same => cached = p
    BY <1>2 DEF ConfigHeld, RowsNamed
<1>4. /\ installation' = [installation EXCEPT ![i] = state]
      /\ answered' = [answered EXCEPT ![i] = p]
      /\ UNCHANGED <<clock, publisher, published>>
    BY DEF ServeConfig, Respond
<1>5. (IF same THEN cached ELSE p) = p
    BY <1>3
<1>6. state \in InstallationState /\ state.cached = p
    <2>1. state = [installation[i] EXCEPT !.pc = "idle", !.cached = p,
                                          !.status = IF same THEN "304" ELSE "200"]
        BY <1>5
    <2> HIDE DEF same, state
    <2> QED BY <1>1, <2>1 DEF InstallationState
<1> HIDE DEF state
<1> QED BY <1>1, <1>4, <1>6

(* The steps of a client.                                                  *)
LEMMA ClientSteps ==
    ASSUME ConfigHeld, NEW i \in Installation,
           \/ BeginFetch(i) \/ ServeNothing(i) \/ LoseFetch(i)
           \/ \E p \in published : ServeConfig(i, p)
    PROVE  ConfigHeld'
<1>0. /\ installation \in [Installation -> InstallationState] /\ clock \in Nat
      /\ answered \in [Installation -> Publication \cup {NoConfig}]
      /\ clock \in 0..LastTick /\ published \subseteq Publication
    BY ConfigAssumption DEF ConfigHeld, ConfigInv, ConfigTypeOK
<1>1. CASE BeginFetch(i) \/ ServeNothing(i) \/ LoseFetch(i)
    <2>1. /\ installation' \in [Installation -> InstallationState]
          /\ UNCHANGED <<clock, publisher, published, answered>>
          /\ \A j \in Installation : /\ installation'[j].cached = installation[j].cached
                                     /\ installation'[j].status = "304" =>
                                            installation[j].status = "304"
        <3>1. CASE BeginFetch(i)
            BY <1>0, <3>1 DEF BeginFetch, Respond, InstallationState
        <3>2. CASE ServeNothing(i)
            BY <1>0, <3>2 DEF ServeNothing, Respond, InstallationState
        <3>3. CASE LoseFetch(i)
            BY <1>0, <3>3 DEF LoseFetch, Respond, InstallationState
        <3> QED BY <1>1, <3>1, <3>2, <3>3
    <2>2. NotModifiedIsTrue' /\ CachesStored'
        BY <2>1 DEF ConfigHeld, ConfigInv, NotModifiedIsTrue, CachesStored
    <2>3. clock' \in 0..LastTick /\ clock <= clock'
        BY <1>0, <2>1
    <2> QED BY <1>0, <2>1, <2>2, <2>3, ClientMoves
<1>2. ASSUME NEW p \in published, ServeConfig(i, p) PROVE ConfigHeld'
    <2>1. /\ installation' \in [Installation -> InstallationState]
          /\ installation'[i].cached = p /\ answered' = [answered EXCEPT ![i] = p]
          /\ \A j \in Installation : j # i => installation'[j] = installation[j]
          /\ UNCHANGED <<clock, publisher, published>>
        BY <1>2, ServedCache
    <2>2. NotModifiedIsTrue'
        BY <1>0, <2>1 DEF ConfigHeld, ConfigInv, NotModifiedIsTrue
    <2>3. CachesStored'
        BY <2>1 DEF ConfigHeld, CachesStored
    <2>4. clock' \in 0..LastTick /\ clock <= clock'
        BY <1>0, <2>1
    <2>5. answered' \in [Installation -> Publication \cup {NoConfig}]
        BY <1>0, <2>1
    <2> QED BY <2>1, <2>2, <2>3, <2>4, <2>5, ClientMoves
<1> QED BY <1>1, <1>2

LEMMA ConfigStep ==
    ASSUME ConfigHeld, [ConfigNext]_configVars
    PROVE  ConfigHeld'
<1>0. /\ clock \in 0..LastTick /\ clock \in Nat
      /\ installation \in [Installation -> InstallationState]
      /\ answered \in [Installation -> Publication \cup {NoConfig}]
    BY ConfigAssumption DEF ConfigHeld, ConfigInv, ConfigTypeOK
<1>1. CASE UNCHANGED configVars \/ ConfigTick
    <2>1. /\ UNCHANGED <<publisher, published, installation, answered>>
          /\ clock' \in 0..LastTick /\ clock <= clock'
        BY <1>0, <1>1, ConfigAssumption DEF configVars, ConfigTick
    <2>2. NotModifiedIsTrue' /\ CachesStored'
        BY <2>1 DEF ConfigHeld, ConfigInv, NotModifiedIsTrue, CachesStored
    <2> QED BY <1>0, <2>1, <2>2, ClientMoves
<1> QED BY <1>1, PublisherSteps, PublicationCommits, ClientSteps DEF ConfigNext

(* Revisions are numbered without gap or repetition in the order of their  *)
(* issue, although publish-config reads the maximum long before it         *)
(* inserts, and a 304 is only sent to a client whose cache holds what a    *)
(* 200 would have carried.                                                 *)
THEOREM ConfigIsConsistent == ConfigSpec => []ConfigInv
<1>1. ConfigHeld /\ [ConfigNext]_configVars => ConfigHeld'
    BY ConfigStep
<1>2. ConfigHeld => ConfigInv
    BY DEF ConfigHeld
<1> QED BY <1>1, <1>2, ConfigInitHolds, PTL DEF ConfigSpec

(* No client is moved back to an older revision than the one it has,       *)
(* unless that one had expired when it asked.                              *)
THEOREM ConfigNeverGoesBack == ConfigSpec => NeverOlderUnlessExpired
<1> DEFINE Step(i) ==
        LET had == installation[i].cached IN
        had # NoConfig /\ installation'[i].cached # had =>
            \/ Revision(installation'[i].cached) > Revision(had)
            \/ ~Unexpired(had, installation[i].asOf)
<1>1. ConfigHeld /\ [ConfigNext]_configVars => ConfigHeld'
    BY ConfigStep
<1>2. ASSUME ConfigHeld, ConfigNext, NEW i \in Installation
      PROVE  Step(i)
    <2> DEFINE had == installation[i].cached
    <2> SUFFICES ASSUME had # NoConfig, installation'[i].cached # had,
                        Unexpired(had, installation[i].asOf)
                 PROVE  Revision(installation'[i].cached) > Revision(had)
        OBVIOUS
    <2>0. /\ installation \in [Installation -> InstallationState]
          /\ publisher \in [Publication -> PublisherState] /\ published \subseteq Publication
        BY <1>2 DEF ConfigHeld, ConfigInv, ConfigTypeOK
    <2>1. had \in published
        BY <1>2 DEF ConfigHeld, CachesStored
    <2>2. ASSUME NEW p \in published, ServeConfig(i, p)
          PROVE  Revision(installation'[i].cached) > Revision(had)
        <3>1. installation'[i].cached = p
            BY <1>2, <2>2, ServedCache
        <3>2. Revision(had) <= Revision(p)
            BY <2>1, <2>2 DEF ServeConfig, IsLatest, Candidates
        <3>3. Revision(had) # Revision(p)
            BY <1>2, <2>1, <2>2, <3>1 DEF ConfigHeld, RowsNamed
        <3>4. Revision(had) \in Nat /\ Revision(p) \in Nat
            BY <2>0, <2>1 DEF Revision, PublisherState
        <3> QED BY <3>1, <3>2, <3>3, <3>4
    <2>3. ASSUME NEW j \in Installation, NEW p \in published, ServeConfig(j, p), j # i
          PROVE  FALSE
        BY <2>3, <1>2, ServedCache
    <2>4. ASSUME NEW j \in Installation, BeginFetch(j) \/ ServeNothing(j) \/ LoseFetch(j)
          PROVE  FALSE
        <3>1. installation'[i].cached = installation[i].cached
            <4>1. CASE BeginFetch(j)
                BY <2>0, <4>1 DEF BeginFetch, Respond, InstallationState
            <4>2. CASE ServeNothing(j)
                BY <2>0, <4>2 DEF ServeNothing, Respond, InstallationState
            <4>3. CASE LoseFetch(j)
                BY <2>0, <4>3 DEF LoseFetch, Respond, InstallationState
            <4> QED BY <2>4, <4>1, <4>2, <4>3
        <3> QED BY <3>1
    <2>5. ASSUME UNCHANGED installation PROVE FALSE
        BY <2>5
    <2> QED BY <1>2, <2>2, <2>3, <2>4, <2>5
        DEF ConfigNext, ReadMaximum, SignConfig, InsertConfig, CommitConfig, AbortPublication,
            Publish, ConfigTick
<1>3. ConfigHeld /\ [ConfigNext]_configVars => [\A i \in Installation : Step(i)]_configVars
    BY <1>2
<1> QED BY <1>1, <1>3, ConfigInitHolds, PTL DEF ConfigSpec, NeverOlderUnlessExpired
=================================================================================
