------------------------------ MODULE TokenSession ------------------------------
(***************************************************************************)
(* The session of one browser tab: the authentication service and the HTTP  *)
(* client of the web interface, and the REST API that logs users in, renews *)
(* their access token, logs them out and answers their requests             *)
(* (mui/src/services/authentication.ts, mui/src/api/client.ts,              *)
(* services/api/routes/auth.py, channels.py, deps.py, core/security).       *)
(*                                                                          *)
(* A step is one statement of the database, one command of Redis, or what   *)
(* the interface runs between two awaits.  The access token is kept in the  *)
(* memory of the tab, the refresh token in a cookie.                        *)
(***************************************************************************)
EXTENDS Naturals, Sequences, FiniteSets

CONSTANTS
    User,        \* accounts
    Reader,      \* requests for data that can be in flight
    Logout,      \* logouts that can be in flight: each click starts one
    MaxTokens,   \* bound: access tokens issued
    MaxSessions, \* bound: logins, each with a refresh token
    MaxIncidents \* bound: changes by an administrator, requests that fail, page loads

ASSUME SessionAssumption ==
    /\ {MaxTokens, MaxSessions, MaxIncidents} \subseteq Nat
    /\ {"login", "auto", "init"} \cap (Reader \cup Logout) = {}
    /\ Reader \cap Logout = {}

VARIABLES
    \* --- the database and Redis ---
    users,    \* exists, role and whether the scope of a viewer has the channel
    revoked,  \* jwt:revoked, the sessions whose refresh token is in it
    \* --- what the API has signed ---
    issued,   \* access tokens issued: their ids are 1..issued
    expired,  \* the ids up to this one are past their exp
    sessions, \* the payloads of the refresh tokens
    \* --- the browser ---
    cookie,   \* the refresh token it keeps, 0 when there is none
    token,    \* AuthenticationService.token
    page,     \* what the router shows
    call,     \* the requests in flight
    \* --- history ---
    left,     \* a logout was the last to set or clear the token by intent
    crossed,  \* two calls that decide about the session were in flight together
    since,    \* for each user, the tokens issued before its last change
    raced,    \* a user has changed while a call was between its two statements
    incidents

store  == <<users, since, raced>>
signed == <<revoked, issued, expired, sessions>>
tab    == <<cookie, token, page, left>>
svars  == <<store, signed, tab, call, crossed, incidents>>

None == [id |-> 0]
Role == {"viewer", "admin"}
\* The claims of a token: whose it is, and what it allows.
Claims == [user : User, role : Role, granted : BOOLEAN]
\* An access token; session is the login it goes back to (history).
Token  == [id : 1..MaxTokens, claims : Claims, session : 1..MaxSessions]

\* The calls that decide about the session, next to the requests for data.
Deciding == {"login", "auto", "init"} \cup Logout
Call     == Deciding \cup Reader

\* A call: its step, the access token or the session it was sent with, the
\* user row it has read, and its answer.
Free == [step |-> "free", with |-> None, session |-> 0, user |-> <<>>, answer |-> <<>>]

SInit ==
    /\ users = [u \in User |-> [exists |-> TRUE, role |-> "viewer", granted |-> TRUE]]
    /\ revoked = {} /\ issued = 0 /\ expired = 0 /\ sessions = <<>>
    /\ cookie = 0 /\ token = None /\ page = "login" /\ left = FALSE
    /\ call = [c \in Call |-> Free]
    /\ since = [u \in User |-> 0] /\ raced = FALSE
    /\ crossed = FALSE /\ incidents = 0

InFlight(c) == call[c].step # "free"

Incident == incidents < MaxIncidents /\ incidents' = incidents + 1

\* The call c starts, with these fields.
Start(c, sent) ==
    /\ ~InFlight(c)
    /\ call' = [call EXCEPT ![c] = sent]
    /\ crossed' = (crossed \/ (c \in Deciding /\ \E d \in Deciding \ {c} : InFlight(d)))

\* The page after the token has become t.
PageWith(t) == IF page = "private" /\ t = None THEN "login" ELSE page

(***************************************************************************)
(* The interface starts a call.                                             *)
(***************************************************************************)
\* The form of the login page is submitted; it is disabled until the answer.
SubmitLogin(u) ==
    /\ page = "login"
    /\ Len(sessions) < MaxSessions
    /\ Start("login", [Free EXCEPT !.step = "user", !.user = <<u>>])
    /\ UNCHANGED <<store, signed, tab, incidents>>

\* A private page is shown: initialize asks for a token if there is none.
OpenPrivatePage ==
    /\ page = "login"
    /\ IF token # None
       THEN page' = "private" /\ UNCHANGED <<call, crossed>>
       ELSE /\ page' = "loading"
            /\ Start("init", [Free EXCEPT !.step = "check", !.session = cookie])
    /\ UNCHANGED <<store, signed, cookie, token, left, incidents>>

\* The user picture of a private page is clicked.  The cookie is bound to the
\* path of the refresh, so whether the logout has it depends on the client.
ClickLogout(c) ==
    /\ page = "private"
    /\ \E s \in {0, cookie} : Start(c, [Free EXCEPT !.step = "revoke", !.session = s])
    /\ UNCHANGED <<store, signed, tab, incidents>>

\* A private page asks for data: onRequest adds the token.
SendRead(c) ==
    /\ page = "private"
    /\ Start(c, [Free EXCEPT !.step = "sent", !.with = token])
    /\ UNCHANGED <<store, signed, tab, incidents>>

(***************************************************************************)
(* The REST API.                                                            *)
(***************************************************************************)
Answered(result)  == [Free EXCEPT !.step = "answer", !.answer = <<result>>]
Answer(c, result) == call' = [call EXCEPT ![c] = Answered(result)]

\* refresh: the cookie is there, it is valid, and it is not revoked.
CheckRefresh(c) ==
    /\ c \in {"auto", "init"} /\ call[c].step = "check"
    /\ IF call[c].session = 0 \/ call[c].session \in revoked
       THEN Answer(c, "unauthorized")
       ELSE call' = [call EXCEPT ![c].step = "user",
                                 ![c].user = <<sessions[call[c].session].user>>]
    /\ UNCHANGED <<store, signed, tab, crossed, incidents>>

\* login and refresh: the row of the user; a login may have a wrong password.
FetchUser(c) ==
    /\ call[c].step = "user"
    /\ LET u == call[c].user[1] IN
       \/ /\ users[u].exists
          /\ call' = [call EXCEPT ![c].step = "scope", ![c].user = <<u, users[u].role>>]
       \/ /\ ~users[u].exists \/ c = "login"
          /\ Answer(c, "unauthorized")
    /\ UNCHANGED <<store, signed, tab, crossed, incidents>>

\* Mutation of GrantOf: the scope of the refresh token is used again.
GrantOfSession(c) ==
    [user |-> call[c].user[1], role |-> call[c].user[2],
     granted |-> IF call[c].session = 0 THEN users[call[c].user[1]].granted
                 ELSE sessions[call[c].session].granted]

\* The claims of a new token: the scope is read after the role.  The scope of
\* an administrator is every channel.
GrantOf(c) ==
    [user |-> call[c].user[1], role |-> call[c].user[2],
     granted |-> call[c].user[2] = "admin" \/ users[call[c].user[1]].granted]

\* Mutation of SessionOf: off by one.
SessionOfNext(c, opened) == IF c = "login" THEN Len(opened) + 1 ELSE call[c].session

\* A login opens a session, a refresh stays in its own.
SessionOf(c, opened) == IF c = "login" THEN Len(opened) ELSE call[c].session

\* login and refresh: the scope is read and a token issued; a login also gets
\* a refresh token with the same claims.  At the bound the call fails.
FetchScope(c) ==
    /\ call[c].step = "scope"
    /\ issued < MaxTokens
    /\ issued' = issued + 1
    /\ IF c = "login" THEN sessions' = Append(sessions, GrantOf(c)) ELSE UNCHANGED sessions
    /\ call' = [call EXCEPT ![c].step = "answer", ![c].answer = <<"ok">>,
                            ![c].user = <<>>, ![c].session = SessionOf(c, sessions'),
                            ![c].with = [id |-> issued + 1, claims |-> GrantOf(c),
                                         session |-> SessionOf(c, sessions')]]
    /\ UNCHANGED <<store, revoked, expired, tab, crossed, incidents>>

NoMoreTokens(c) ==
    /\ call[c].step = "scope" /\ issued = MaxTokens
    /\ Answer(c, "failed")
    /\ UNCHANGED <<store, signed, tab, crossed, incidents>>

\* logout: the refresh token that came with it is revoked, expired or not; an
\* error of Redis is ignored.
Revoke(c) ==
    /\ c \in Logout /\ call[c].step = "revoke"
    /\ \/ call[c].session # 0 /\ revoked' = revoked \cup {call[c].session}
          /\ UNCHANGED incidents
       \/ call[c].session = 0 /\ UNCHANGED <<revoked, incidents>>
       \/ call[c].session # 0 /\ Incident /\ UNCHANGED revoked
    /\ Answer(c, "ok")
    /\ UNCHANGED <<store, issued, expired, sessions, tab, crossed>>

\* get_current_user, then the access to the channel: an access token is valid
\* until its exp.  Its id is looked up among the revoked ones, but only the
\* logout adds to them, and only refresh tokens.  Whether the request is then
\* answered, refused (403) or fails, it ends; a 401 of the first attempt comes
\* back to onResponse, that of the second goes to its caller.
Serve(c) ==
    /\ c \in Reader /\ call[c].step \in {"sent", "retried"}
    /\ IF call[c].step = "sent" /\ (call[c].with = None \/ call[c].with.id <= expired)
       THEN Answer(c, "unauthorized")
       ELSE call' = [call EXCEPT ![c] = Free]
    /\ UNCHANGED <<store, signed, tab, crossed, incidents>>

(***************************************************************************)
(* The interface gets an answer.                                            *)
(***************************************************************************)
Result(c) == call[c].answer[1]

\* Mutation of LoginAnswered: a cookie that is there is kept.
LoginAnsweredKeep ==
    /\ call["login"].step = "answer"
    /\ IF Result("login") = "ok"
       THEN /\ cookie' = IF cookie = 0 THEN call["login"].session ELSE cookie
            /\ token' = call["login"].with
            /\ page' = "private" /\ left' = FALSE
       ELSE UNCHANGED tab
    /\ call' = [call EXCEPT !["login"] = Free]
    /\ UNCHANGED <<store, signed, crossed, incidents>>

\* login: the cookie and the token of the new session.
LoginAnswered ==
    /\ call["login"].step = "answer"
    /\ IF Result("login") = "ok"
       THEN /\ cookie' = call["login"].session
            /\ token' = call["login"].with
            /\ page' = "private" /\ left' = FALSE
       ELSE UNCHANGED tab
    /\ call' = [call EXCEPT !["login"] = Free]
    /\ UNCHANGED <<store, signed, crossed, incidents>>

\* initialize: an error leaves the tab without a token.
InitAnswered ==
    /\ call["init"].step = "answer"
    /\ token' = IF Result("init") = "ok" THEN call["init"].with ELSE token
    /\ page' = IF page # "loading" THEN page
               ELSE IF token' # None THEN "private" ELSE "login"
    /\ call' = [call EXCEPT !["init"] = Free]
    /\ UNCHANGED <<store, signed, cookie, left, crossed, incidents>>

\* Mutation of LogoutAnswered: the cookie is kept.
LogoutAnsweredKeep(c) ==
    /\ c \in Logout /\ call[c].step = "answer"
    /\ token' = None /\ page' = PageWith(None)
    /\ left' = TRUE
    /\ call' = [call EXCEPT ![c] = Free]
    /\ UNCHANGED <<store, signed, cookie, crossed, incidents>>

\* logout: the answer removes the cookie; the token is cleared in any case.
LogoutAnswered(c) ==
    /\ c \in Logout /\ call[c].step = "answer"
    /\ cookie' = IF Result(c) = "ok" THEN 0 ELSE cookie
    /\ token' = None /\ page' = PageWith(None)
    /\ left' = (Result(c) = "ok")
    /\ call' = [call EXCEPT ![c] = Free]
    /\ UNCHANGED <<store, signed, crossed, incidents>>

\* A request for data: after a 401 it waits for the refresh that is in flight,
\* or starts one (onResponse, handleAuthError).
ReadAnswered(c) ==
    /\ c \in Reader /\ call[c].step = "answer"
    /\ call' = [call EXCEPT ![c] = [Free EXCEPT !.step = "waiting"],
                     !["auto"] = IF InFlight("auto") THEN @
                                 ELSE [Free EXCEPT !.step = "check", !.session = cookie]]
    /\ crossed' = (crossed \/ (~InFlight("auto") /\ \E d \in Deciding : InFlight(d)))
    /\ UNCHANGED <<store, signed, tab, incidents>>

\* Every waiting request goes on: it is sent again with the token t, or fails.
Released(t) ==
    [c \in Call |->
        IF c = "auto" THEN Free
        ELSE IF c \in Reader /\ call[c].step = "waiting"
        THEN IF t = None THEN Free ELSE [Free EXCEPT !.step = "retried", !.with = t]
        ELSE call[c]]

\* Mutation of RefreshAnswered: a 401 of the refresh waits for the refresh.
RefreshAnsweredWaits ==
    /\ call["auto"].step = "answer"
    /\ IF Result("auto") = "unauthorized" THEN UNCHANGED <<token, page, call>>
       ELSE LET t == IF Result("auto") = "ok" THEN call["auto"].with ELSE None
            IN token' = t /\ page' = PageWith(t) /\ call' = Released(t)
    /\ UNCHANGED <<store, signed, cookie, left, crossed, incidents>>

\* attemptTokenRefresh: the new token, or none after any error; those who wait
\* for it go on in the same turn of the event loop.
RefreshAnswered ==
    /\ call["auto"].step = "answer"
    /\ LET t == IF Result("auto") = "ok" THEN call["auto"].with ELSE None
       IN token' = t /\ page' = PageWith(t) /\ call' = Released(t)
    /\ UNCHANGED <<store, signed, cookie, left, crossed, incidents>>

(***************************************************************************)
(* The environment.                                                         *)
(***************************************************************************)
\* The oldest valid access token expires.
ExpireToken ==
    /\ expired < issued /\ expired' = expired + 1
    /\ UNCHANGED <<store, revoked, issued, sessions, tab, call, crossed, incidents>>

\* The refresh token expires, and the browser drops the cookie with it.
ExpireCookie ==
    /\ cookie # 0 /\ cookie' = 0
    /\ Incident
    /\ UNCHANGED <<store, signed, token, page, left, call, crossed>>

\* An administrator changes the role or the scope of a user, or deletes it.
ChangeUser(u) ==
    /\ Incident
    /\ users[u].exists
    /\ \/ users' = [users EXCEPT ![u].role = IF @ = "admin" THEN "viewer" ELSE "admin"]
       \/ users' = [users EXCEPT ![u].granted = ~@]
       \/ users' = [users EXCEPT ![u].exists = FALSE]
    /\ since' = [since EXCEPT ![u] = issued]
    /\ raced' = (raced \/ \E c \in Call : call[c].step = "scope" /\ call[c].user[1] = u)
    /\ UNCHANGED <<signed, tab, call, crossed>>

\* A call fails: an error of the server or of the network, also one that
\* takes the answer.
CallFails(c) ==
    /\ InFlight(c) /\ call[c].step # "waiting"
    /\ Incident
    /\ call' = [call EXCEPT ![c] = IF c \in Reader THEN Free ELSE Answered("failed")]
    /\ UNCHANGED <<store, signed, tab, crossed>>

\* The page is loaded again: the token and the calls are lost, but a logout
\* may still reach the API.
Reload ==
    /\ Incident
    /\ token' = None /\ page' = "loading"
    /\ call' = [c \in Call |-> IF c = "init" THEN [Free EXCEPT !.step = "check", !.session = cookie]
                               ELSE Free]
    /\ \/ UNCHANGED revoked
       \/ revoked' = revoked \cup {call[c].session : c \in
                        {d \in Logout : call[d].step = "revoke" /\ call[d].session # 0}}
    /\ UNCHANGED <<store, issued, expired, sessions, cookie, left, crossed>>

ServerStep(c) ==
    CheckRefresh(c) \/ FetchUser(c) \/ FetchScope(c) \/ NoMoreTokens(c) \/ Revoke(c) \/ Serve(c)
TabStep(c) ==
    \/ LogoutAnswered(c) \/ ReadAnswered(c)
    \/ c = "login" /\ LoginAnswered
    \/ c = "init" /\ InitAnswered
    \/ c = "auto" /\ RefreshAnswered

SNext ==
    \/ \E u \in User : SubmitLogin(u) \/ ChangeUser(u)
    \/ OpenPrivatePage
    \/ \E c \in Logout : ClickLogout(c)
    \/ \E c \in Reader : SendRead(c)
    \/ \E c \in Call : ServerStep(c) \/ TabStep(c) \/ CallFails(c)
    \/ ExpireToken \/ ExpireCookie \/ Reload

SSpec == SInit /\ [][SNext]_svars

RefreshStep ==
    \/ CheckRefresh("auto") \/ FetchUser("auto") \/ FetchScope("auto") \/ NoMoreTokens("auto")
    \/ RefreshAnswered

\* The API answers the requests for data and the refresh, and the event loop of
\* the tab runs what is ready; the user need not do anything.
SFairness ==
    /\ \A c \in Reader : WF_svars(Serve(c) \/ ReadAnswered(c))
    /\ WF_svars(RefreshStep)

SFairSpec == SSpec /\ SFairness

-----------------------------------------------------------------------------
\* Types.
STypeOK ==
    /\ users \in [User -> [exists : BOOLEAN, role : Role, granted : BOOLEAN]]
    /\ issued \in 0..MaxTokens /\ expired \in 0..issued
    /\ sessions \in Seq(Claims) /\ Len(sessions) <= MaxSessions
    /\ cookie \in 0..Len(sessions)
    /\ token \in {None} \cup Token
    /\ page \in {"loading", "private", "login"}
    /\ DOMAIN call = Call
    /\ \A c \in Call :
        /\ call[c].step \in {"free", "user", "check", "scope", "revoke", "sent", "answer",
                             "waiting", "retried"}
        /\ call[c].with \in {None} \cup Token
        /\ call[c].session \in 0..Len(sessions)
    /\ since \in [User -> 0..issued]
    /\ left \in BOOLEAN /\ crossed \in BOOLEAN /\ raced \in BOOLEAN
    /\ incidents \in 0..MaxIncidents

\* After a logout that was answered, the tab has no token until the next login:
\* a request that still comes back with a 401 finds no cookie to renew with.
\* Two calls that decide about the session at a time are excepted: the answer
\* of a refresh that arrives after that of a logout signs the user in again.
SignedOutStays == left /\ ~crossed => token = None /\ cookie = 0

\* The access token and the cookie belong to the same login, whatever fails and
\* whenever the page is loaded, while no two deciding calls cross: else the tab
\* shows one user and renews the token of another.
TokenMatchesCookie ==
    ~crossed /\ token # None /\ cookie # 0 => token.session = cookie

Held == {token} \cup {call[c].with : c \in Call}

\* A token issued after the last change of its user has the user's role and
\* scope: a change reaches the interface with the next refresh (auth.py:188).
\* A change between the two statements that read the role and the scope is
\* excepted.
GrantsAreFresh ==
    ~raced => \A t \in Held \ {None} :
        t.id > since[t.claims.user] =>
            LET u == users[t.claims.user] IN
            /\ u.exists
            /\ t.claims.role = u.role
            /\ t.claims.granted = (u.role = "admin" \/ u.granted)

\* Every request for data ends, with or without a refresh on its way: a 401 of
\* the refresh itself must not wait for that refresh (client.ts:29).
RequestsEnd == \A c \in Reader : []<>~InFlight(c)
=============================================================================
