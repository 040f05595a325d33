------------------------------ MODULE WebSessions ------------------------------
(***************************************************************************)
(* Web sessions (web_auth.py, api/web.py): a Query key is exchanged for a  *)
(* signed cookie that names the key, and every request with the cookie     *)
(* looks the key up again.  The server keeps no session: what a session    *)
(* may do depends on the claims in the cookie, the key's row and the       *)
(* clock, which the replicas of the gateway read each for itself.          *)
(*                                                                         *)
(* The clock counts ticks, TicksPerSecond of them in the whole seconds the *)
(* claims are written in.  A token's login stands for its CSRF digest.     *)
(***************************************************************************)
EXTENDS Naturals, FiniteSets

CONSTANTS
    Login,          \* POST /v1/web/session requests
    Key,
    KeyOf,          \* KeyOf[l]: the key the login presents, with its secret
    Expiry,         \* Expiry[k]: tick of expires_at
    Host,           \* replicas of the gateway
    Offset,         \* Offset[h]: how far its clock is ahead of the slowest
    TicksPerSecond,
    Ttl,            \* web_session_ttl_seconds
    Skew,           \* WEB_SESSION_CLOCK_SKEW_SECONDS
    NoToken,
    MaxTime         \* bound on the clock

ASSUME SessionAssumption ==
    /\ KeyOf \in [Login -> Key] /\ Expiry \in [Key -> Nat]
    /\ TicksPerSecond \in Nat \ {0} /\ Ttl \in Nat \ {0} /\ Skew \in Nat
    /\ Offset \in [Host -> 0..(Skew * TicksPerSecond)]
    /\ MaxTime \in Nat

VARIABLES
    now,        \* the slowest clock
    revoked,    \* keys revoked or disabled
    login,      \* progress of each login
    issued,     \* history: every token that was signed
    session,    \* the browser's session cookie
    csrf,       \* its CSRF cookie, by the login it came from
    request,    \* one request of the browser with its cookies
    sentRevoked \* history: the keys revoked when the request was sent

sessionVars == <<now, revoked, login, issued, session, csrf, request, sentRevoked>>

Seconds(t) == t \div TicksPerSecond

Clock(h) == now + Offset[h]

Tokens == [login: Login, iat: Nat, exp: Nat]

(* pc of a login: load the row, check it after the hash, sign, commit.     *)
LoginState ==
    [pc: {"load", "check", "sign", "commit", "done"}, host: Host, token: Tokens \cup {NoToken}]

(* pc of a request: decode the cookie, look the key up, answer.            *)
CookieRequest ==
    [pc: {"idle", "decode", "revalidate", "accepted", "refused"},
     kind: {"read", "write", "logout"},
     host: Host,
     token: Tokens \cup {NoToken},
     csrf: Login \cup {NoToken}]

SessionTypeOK ==
    /\ now \in 0..MaxTime
    /\ revoked \subseteq Key
    /\ login \in [Login -> LoginState]
    /\ issued \subseteq Tokens
    /\ session \in Tokens \cup {NoToken} /\ csrf \in Login \cup {NoToken}
    /\ request \in CookieRequest
    /\ sentRevoked \subseteq Key

SessionInit ==
    /\ now = 0 /\ revoked = {} /\ issued = {}
    /\ \E h \in Host :
          /\ login = [l \in Login |-> [pc |-> "load", host |-> h, token |-> NoToken]]
          /\ request = [pc |-> "idle", kind |-> "read", host |-> h,
                        token |-> NoToken, csrf |-> NoToken]
    /\ session = NoToken /\ csrf = NoToken
    /\ sentRevoked = {}

-----------------------------------------------------------------------------
Goes(l, state) == login' = [login EXCEPT ![l] = state]

Drop(l) == Goes(l, [login[l] EXCEPT !.pc = "done"])

(* authenticate_query_key on some replica: the row is read before the hash *)
(* is awaited ...                                                          *)
LoadForLogin(l, h) ==
    /\ login[l].pc = "load"
    /\ IF KeyOf[l] \in revoked THEN Drop(l)
       ELSE Goes(l, [login[l] EXCEPT !.pc = "check", !.host = h])
    /\ UNCHANGED <<now, revoked, issued, session, csrf, request, sentRevoked>>

(* ... and the expiry is compared with the clock after it.                 *)
CheckForLogin(l) ==
    /\ login[l].pc = "check"
    /\ IF Expiry[KeyOf[l]] <= Clock(login[l].host) THEN Drop(l)
       ELSE Goes(l, [login[l] EXCEPT !.pc = "sign"])
    /\ UNCHANGED <<now, revoked, issued, session, csrf, request, sentRevoked>>

Earlier(s, t) == IF s <= t THEN s ELSE t

(* Slip: the key's expiry is rounded up to a whole second.                 *)
ClaimsRoundedUp(l) ==
    LET iat == Seconds(Clock(login[l].host))
    IN [login |-> l, iat |-> iat,
        exp |-> Earlier(iat + Ttl, Seconds(Expiry[KeyOf[l]] + TicksPerSecond - 1))]

(* The claims of create_web_session.                                       *)
Claims(l) ==
    LET iat == Seconds(Clock(login[l].host))
    IN [login |-> l, iat |-> iat, exp |-> Earlier(iat + Ttl, Seconds(Expiry[KeyOf[l]]))]

(* create_web_session: nothing is signed for a key in its last second.     *)
SignSession(l) ==
    /\ login[l].pc = "sign"
    /\ LET token == Claims(l) IN
       IF token.exp <= token.iat
       THEN Drop(l) /\ UNCHANGED issued
       ELSE /\ Goes(l, [login[l] EXCEPT !.pc = "commit", !.token = token])
            /\ issued' = issued \cup {token}
    /\ UNCHANGED <<now, revoked, session, csrf, request, sentRevoked>>

(* Slip: the CSRF cookie of an earlier login is kept.                      *)
SetSessionCookiesKeepingCsrf(l) ==
    /\ session' = login[l].token
    /\ csrf' = IF csrf = NoToken THEN l ELSE csrf

(* _set_session_cookies: one response sets both.                           *)
SetSessionCookies(l) ==
    /\ session' = login[l].token
    /\ csrf' = l

(* The audit row is committed and the answer reaches the browser, or not.  *)
AnswerLogin(l) ==
    /\ login[l].pc = "commit"
    /\ Drop(l)
    /\ SetSessionCookies(l) \/ UNCHANGED <<session, csrf>>
    /\ UNCHANGED <<now, revoked, issued, request, sentRevoked>>

(* The browser drops both cookies: they carry the same expiry.             *)
ForgetCookies ==
    /\ session # NoToken
    /\ session' = NoToken /\ csrf' = NoToken
    /\ UNCHANGED <<now, revoked, login, issued, request, sentRevoked>>

-----------------------------------------------------------------------------
(* The page sends a request; a write copies the CSRF cookie to the header. *)
SendWithCookie(kind, h) ==
    /\ request.pc \in {"idle", "accepted", "refused"}
    /\ session # NoToken
    /\ request' = [pc |-> "decode", kind |-> kind, host |-> h, token |-> session, csrf |-> csrf]
    /\ sentRevoked' = revoked
    /\ UNCHANGED <<now, revoked, login, issued, session, csrf>>

(* Slip: a token from the future is always refused.                        *)
ClockBoundsStrict(token, second) ==
    /\ token.iat <= second
    /\ second < token.exp
    /\ token.iat < token.exp
    /\ token.exp - token.iat <= Ttl

(* The clock bounds of decode_web_session.                                 *)
ClockBounds(token, second) ==
    /\ token.iat <= second + Skew
    /\ second < token.exp
    /\ token.iat < token.exp
    /\ token.exp - token.iat <= Ttl

DecodeSession ==
    /\ request.pc = "decode"
    /\ request' = [request EXCEPT !.pc =
          IF ClockBounds(request.token, Seconds(Clock(request.host)))
          THEN "revalidate" ELSE "refused"]
    /\ UNCHANGED <<now, revoked, login, issued, session, csrf, sentRevoked>>

(* Slip: the signature is proof enough.                                    *)
KeyStillUsableTrusted(key, tick) == TRUE

(* authenticate_query_key_id.  The role, which _active_principal checks    *)
(* too, is written once by create_query_key, out of QUERY_ROLES.           *)
KeyStillUsable(key, tick) == key \notin revoked /\ tick < Expiry[key]

(* _verify_csrf, on cookie writes only.                                    *)
CsrfHolds == request.kind = "read" \/ request.csrf = request.token.login

(* The key is looked up and the principal returned; a logout then commits  *)
(* its audit row and clears both cookies (its answer may be lost).         *)
Revalidate ==
    /\ request.pc = "revalidate"
    /\ LET ok == /\ KeyStillUsable(KeyOf[request.token.login], Clock(request.host))
                 /\ CsrfHolds
       IN /\ request' = [request EXCEPT !.pc = IF ok THEN "accepted" ELSE "refused"]
          /\ \/ ok /\ request.kind = "logout" /\ session' = NoToken /\ csrf' = NoToken
             \/ UNCHANGED <<session, csrf>>
    /\ UNCHANGED <<now, revoked, login, issued, sentRevoked>>

-----------------------------------------------------------------------------
RevokeKey(k) ==
    /\ k \notin revoked
    /\ revoked' = revoked \cup {k}
    /\ UNCHANGED <<now, login, issued, session, csrf, request, sentRevoked>>

SessionTick ==
    /\ now < MaxTime
    /\ now' = now + 1
    /\ UNCHANGED <<revoked, login, issued, session, csrf, request, sentRevoked>>

SessionNext ==
    \/ \E l \in Login :
          \/ \E h \in Host : LoadForLogin(l, h)
          \/ CheckForLogin(l) \/ SignSession(l) \/ AnswerLogin(l)
    \/ ForgetCookies
    \/ \E kind \in {"read", "write", "logout"}, h \in Host : SendWithCookie(kind, h)
    \/ DecodeSession
    \/ Revalidate
    \/ \E k \in Key : RevokeKey(k)
    \/ SessionTick

SessionSpec == SessionInit /\ [][SessionNext]_sessionVars

-----------------------------------------------------------------------------
(* A session never outlives the key it was made from, to the fraction of a *)
(* second, although its claims are written in whole seconds.               *)
SessionWithinKey ==
    \A token \in issued : token.exp * TicksPerSecond <= Expiry[KeyOf[token.login]]

(* Until it expires, every replica accepts the clock bounds of a token     *)
(* another replica signed.                                                 *)
SessionsDecodeEverywhere ==
    \A token \in issued, h \in Host :
        Seconds(Clock(h)) < token.exp => ClockBounds(token, Seconds(Clock(h)))

(* A request that a cookie got through was sent while its key was not yet  *)
(* revoked: revocation takes effect on the next request.                   *)
RevocationIsImmediate ==
    request.pc = "accepted" => KeyOf[request.token.login] \notin sentRevoked

(* The two cookies of the browser always come from the same login, however *)
(* logins, logouts and lost answers interleave, so that a page is never    *)
(* locked out by its own CSRF check.                                       *)
CookiesMatch == (session = NoToken /\ csrf = NoToken) \/ session.login = csrf

(* Well-typed sessions that every replica can read.                        *)
SessionInv == SessionTypeOK /\ SessionsDecodeEverywhere

(* What makes them inductive.  A token was signed by a clock that is at    *)
(* most the skew ahead of the slowest one, within the lifetime and the     *)
(* key.                                                                    *)
TokensBounded ==
    \A token \in issued :
        /\ token.iat <= Seconds(now) + Skew
        /\ token.iat < token.exp /\ token.exp - token.iat <= Ttl

(* The answer of a login carries the token signed for that login.          *)
LoginsHoldTheirToken ==
    \A l \in Login : login[l].pc = "commit" => login[l].token.login = l

SessionHeld ==
    /\ SessionTypeOK /\ TokensBounded /\ LoginsHoldTheirToken
    /\ SessionWithinKey /\ RevocationIsImmediate /\ CookiesMatch
    /\ sentRevoked \subseteq revoked
================================================================================
