--------------------------- MODULE TokenSessionProofs ---------------------------
(***************************************************************************)
(* The session of the tab, for any accounts, requests and logouts: what a   *)
(* call carries is well-formed, a logout lasts, the access token and the    *)
(* cookie agree, and a token that is not older than the last change of its  *)
(* user says what the database says.                                        *)
(***************************************************************************)
EXTENDS TokenSession, SequenceTheorems, TLAPS

LEMMA SessionConstants ==
    /\ MaxTokens \in Nat /\ MaxSessions \in Nat /\ MaxIncidents \in Nat
    /\ "login" \in Call /\ "auto" \in Call /\ "init" \in Call
    /\ "login" \notin Logout /\ "auto" \notin Logout /\ "init" \notin Logout
    /\ "login" \notin Reader /\ "auto" \notin Reader /\ "init" \notin Reader
    /\ Logout \cap Reader = {}
BY SessionAssumption DEF SessionAssumption, Call, Deciding

(***************************************************************************)
(* What a call looks like.                                                  *)
(***************************************************************************)
Renewing == {"auto", "init"}

\* The steps of each kind of call.
Steps(c) ==
    IF c = "login" THEN {"free", "user", "scope", "answer"}
    ELSE IF c \in Renewing THEN {"free", "check", "user", "scope", "answer"}
    ELSE IF c \in Logout THEN {"free", "revoke", "answer"}
    ELSE {"free", "sent", "answer", "waiting", "retried"}

CallRecord ==
    [step : {"free", "user", "check", "scope", "revoke", "sent", "answer", "waiting", "retried"},
     with : {None} \cup Token,
     session : 0..MaxSessions,
     user : {<<>>} \cup {<<u>> : u \in User} \cup (User \X Role),
     answer : {<<>>, <<"ok">>, <<"unauthorized">>, <<"failed">>}]

\* A call with the fields r, when n sessions have been opened: it has read the
\* rows its step says, a refresh that has got past its check has a session, and
\* the token it is given goes back to that session.
Shape(c, r, n) ==
    /\ r \in CallRecord
    /\ r.step \in Steps(c)
    /\ r.session <= n
    /\ r.step = "free" => r.session = 0
    /\ r.step = "user" => \E u \in User : r.user = <<u>>
    /\ r.step = "scope" => r.user \in User \X Role
    /\ r.step = "answer" => r.answer # <<>>
    /\ c \in Renewing /\ r.step \in {"user", "scope"} => r.session # 0
    /\ c = "login" /\ r.step \in {"user", "scope"} => n < MaxSessions
    /\ c \in Renewing \cup {"login"} /\ r.step = "answer" /\ r.answer = <<"ok">> =>
           /\ r.with \in Token /\ r.with.session = r.session

CallsInv ==
    /\ call \in [Call -> CallRecord]
    /\ \A c \in Call : Shape(c, call[c], Len(sessions))

TypesInv == STypeOK /\ CallsInv

(***************************************************************************)
(* The calls that decide about the session, one at a time.                  *)
(***************************************************************************)
AloneInv == ~crossed => \A c, d \in Deciding : InFlight(c) /\ InFlight(d) => c = d

\* After a logout no refresh that is in flight has a session.
SignedOutInv ==
    left /\ ~crossed =>
        /\ token = None /\ cookie = 0
        /\ \A c \in Renewing : call[c].session = 0

\* A refresh in flight was sent with the cookie the browser has, if it has one.
MatchInv ==
    ~crossed /\ cookie # 0 =>
        /\ token # None => token.session = cookie
        /\ \A c \in Renewing : call[c].session \in {0, cookie}

(***************************************************************************)
(* Fresh grants.                                                            *)
(***************************************************************************)
Agrees(t) ==
    t.id > since[t.claims.user] =>
        LET u == users[t.claims.user] IN
        /\ u.exists
        /\ t.claims.role = u.role
        /\ t.claims.granted = (u.role = "admin" \/ u.granted)

\* A role that was read is still the user's when the scope is read.
FreshInv ==
    /\ \A t \in Held \ {None} : t.id <= issued
    /\ ~raced => /\ \A t \in Held \ {None} : Agrees(t)
                 /\ \A c \in Call : call[c].step = "scope" =>
                        /\ users[call[c].user[1]].exists
                        /\ users[call[c].user[1]].role = call[c].user[2]

(***************************************************************************)
(* Types.  A step changes the record of one call, except for a 401 of a     *)
(* request, the answer of a refresh, and a page load.                       *)
(***************************************************************************)
LEMMA FreeFields ==
    /\ Free.step = "free" /\ Free.with = None /\ Free.session = 0
    /\ Free.user = <<>> /\ Free.answer = <<>>
BY DEF Free

LEMMA TokenIds == None \notin Token /\ \A t \in Token : t # None /\ t.id \in 1..MaxTokens
<1>1. \A t \in Token : t.id \in 1..MaxTokens  BY DEF Token
<1>2. None.id = 0  BY DEF None
<1>3. QED  BY <1>1, <1>2, SessionConstants

LEMMA FreeShape ==
    ASSUME NEW c \in Call, NEW n \in Nat
    PROVE  Shape(c, Free, n)
BY SessionConstants DEF Shape, CallRecord, Free, Steps

\* The only answers a call of the API may have without a token.
LEMMA AnsweredShape ==
    ASSUME NEW c \in Call, NEW n \in Nat, NEW result \in {"ok", "unauthorized", "failed"},
           c \in Renewing \cup {"login"} => result # "ok",
           c \in Reader \cup Logout \cup Renewing \cup {"login"}
    PROVE  /\ Shape(c, Answered(result), n)
           /\ Answered(result).step = "answer" /\ Answered(result).session = 0
           /\ Answered(result).with = None /\ Answered(result).answer = <<result>>
<1>1. Free \in CallRecord  BY FreeShape DEF Shape
<1> DEFINE a == <<result>>
<1>2. Answered(result) = [Free EXCEPT !.step = "answer", !.answer = a]  BY DEF Answered
<1>3. a \in {<<>>, <<"ok">>, <<"unauthorized">>, <<"failed">>}  OBVIOUS
<1>4. a # <<>> /\ (result # "ok" => a # <<"ok">>)  OBVIOUS
<1> HIDE DEF a
<1>5. /\ Answered(result) \in CallRecord
      /\ Answered(result).step = "answer" /\ Answered(result).session = 0
      /\ Answered(result).with = None /\ Answered(result).answer = a
  BY <1>1, <1>2, <1>3, FreeFields DEF CallRecord
<1>6. Shape(c, Answered(result), n)
  BY <1>4, <1>5, SessionConstants DEF Shape, Steps, Renewing
<1>7. QED  BY <1>5, <1>6 DEF a

LEMMA CallsGrow ==
    ASSUME NEW c \in Call, NEW r, NEW n \in Nat, NEW m \in Nat, n <= m,
           Shape(c, r, n), c # "login"
    PROVE  Shape(c, r, m)
BY DEF Shape, CallRecord

LEMMA CallsUpdate ==
    ASSUME CallsInv, NEW c \in Call, NEW r, call' = [call EXCEPT ![c] = r],
           Len(sessions) \in Nat, UNCHANGED sessions, Shape(c, r, Len(sessions))
    PROVE  CallsInv'
<1>1. r \in CallRecord  BY DEF Shape
<1>2. call' \in [Call -> CallRecord]  BY <1>1 DEF CallsInv
<1>3. ASSUME NEW d \in Call PROVE Shape(d, call'[d], Len(sessions'))
  BY DEF CallsInv
<1>4. QED  BY <1>2, <1>3 DEF CallsInv

\* What STypeOK says of the calls.
LEMMA CallsTyped ==
    ASSUME CallsInv PROVE
      /\ DOMAIN call = Call
      /\ \A c \in Call :
          /\ call[c].step \in {"free", "user", "check", "scope", "revoke", "sent", "answer",
                               "waiting", "retried"}
          /\ call[c].with \in {None} \cup Token
          /\ call[c].session \in 0..Len(sessions)
<1>1. DOMAIN call = Call  BY DEF CallsInv
<1>2. ASSUME NEW c \in Call
      PROVE /\ call[c].step \in {"free", "user", "check", "scope", "revoke", "sent", "answer",
                               "waiting", "retried"}
            /\ call[c].with \in {None} \cup Token
            /\ call[c].session \in 0..MaxSessions /\ call[c].session <= Len(sessions)
  BY DEF CallsInv, CallRecord, Shape
<1>3. QED  BY <1>1, <1>2, SessionConstants

\* The rows and the sessions do not matter to the steps of the interface.
LEMMA CallsNext == TypesInv /\ [SNext]_svars => CallsInv'
<1> SUFFICES ASSUME TypesInv, [SNext]_svars PROVE CallsInv'
  OBVIOUS
<1>a. /\ CallsInv /\ Len(sessions) \in Nat /\ Len(sessions) <= MaxSessions
      /\ sessions \in Seq(Claims) /\ cookie \in 0..Len(sessions)
      /\ token \in {None} \cup Token /\ issued \in 0..MaxTokens
  BY LenProperties DEF TypesInv, STypeOK
<1>e. cookie \in 0..MaxSessions  BY <1>a, SessionConstants
<1>b. Free \in CallRecord /\ \A c \in Call : Shape(c, Free, Len(sessions))
  <2>1. \A c \in Call : Shape(c, Free, Len(sessions))  BY <1>a, FreeShape
  <2>2. QED  BY <2>1, SessionConstants DEF Shape
<1>c. \A c \in Call : call[c] \in CallRecord /\ Shape(c, call[c], Len(sessions))
  BY <1>a DEF CallsInv
<1>d. ASSUME NEW c \in Call, NEW result \in {"unauthorized", "failed"}
      PROVE  Shape(c, Answered(result), Len(sessions))
  BY <1>a, AnsweredShape DEF Call, Deciding, Renewing
<1>1. ASSUME NEW u \in User, SubmitLogin(u) PROVE CallsInv'
  <2> DEFINE x == <<u>>
             r == [Free EXCEPT !.step = "user", !.user = x]
  <2>1. call' = [call EXCEPT !["login"] = r] /\ UNCHANGED sessions /\ Len(sessions) < MaxSessions
    BY <1>1 DEF SubmitLogin, Start, signed
  <2>2. x \in {<<v>> : v \in User}  OBVIOUS
  <2>3. Shape("login", r, Len(sessions))
    <3> HIDE DEF x
    <3>1. r \in CallRecord /\ r.step = "user" /\ r.user = x /\ r.session = 0
      BY <1>b, <2>2, FreeFields DEF CallRecord
    <3>2. QED  BY <1>a, <2>1, <2>2, <3>1 DEF Shape, Steps, Renewing
  <2>4. QED  BY <1>a, <2>1, <2>3, CallsUpdate, SessionConstants
<1>2. CASE OpenPrivatePage
  <2>1. CASE token # None
    BY <1>2, <1>a, <2>1 DEF OpenPrivatePage, CallsInv, signed
  <2>2. CASE token = None
    <3> DEFINE r == [Free EXCEPT !.step = "check", !.session = cookie]
    <3>1. call' = [call EXCEPT !["init"] = r] /\ UNCHANGED sessions
      BY <1>2, <2>2 DEF OpenPrivatePage, Start, signed
    <3>2. r \in CallRecord /\ r.step = "check" /\ r.session = cookie
      BY <1>b, <1>e, FreeFields DEF CallRecord
    <3>3. Shape("init", r, Len(sessions))  BY <1>a, <3>2 DEF Shape, Steps, Renewing
    <3>4. QED  BY <1>a, <3>1, <3>3, CallsUpdate, SessionConstants
  <2>3. QED  BY <2>1, <2>2
<1>3. ASSUME NEW c \in Logout, ClickLogout(c) PROVE CallsInv'
  <2>1. PICK s \in {0, cookie} : Start(c, [Free EXCEPT !.step = "revoke", !.session = s])
    BY <1>3 DEF ClickLogout
  <2> DEFINE r == [Free EXCEPT !.step = "revoke", !.session = s]
  <2>2. call' = [call EXCEPT ![c] = r] /\ UNCHANGED sessions
    BY <1>3, <2>1 DEF ClickLogout, Start, signed
  <2>3. r \in CallRecord /\ r.step = "revoke" /\ r.session = s
    <3>1. s \in 0..MaxSessions  BY <1>e, SessionConstants
    <3>2. QED  BY <1>b, <3>1, FreeFields DEF CallRecord
  <2>4. Shape(c, r, Len(sessions))
    BY <1>a, <2>3, SessionConstants DEF Shape, Steps, Renewing
  <2>5. QED  BY <1>a, <2>2, <2>4, CallsUpdate DEF Call, Deciding
<1>4. ASSUME NEW c \in Reader, SendRead(c) PROVE CallsInv'
  <2> DEFINE r == [Free EXCEPT !.step = "sent", !.with = token]
  <2>1. call' = [call EXCEPT ![c] = r] /\ UNCHANGED sessions
    BY <1>4 DEF SendRead, Start, signed
  <2>2. r \in CallRecord /\ r.step = "sent" /\ r.session = 0
    BY <1>a, <1>b, FreeFields DEF CallRecord
  <2>3. Shape(c, r, Len(sessions))
    BY <1>a, <2>2, SessionConstants DEF Shape, Steps, Renewing
  <2>4. QED  BY <1>a, <2>1, <2>3, CallsUpdate DEF Call
<1>5. ASSUME NEW c \in Call, CheckRefresh(c) PROVE CallsInv'
  <2>1. UNCHANGED sessions /\ c \in Renewing /\ call[c].step = "check"
    BY <1>5 DEF CheckRefresh, signed, Renewing
  <2>2. CASE Answer(c, "unauthorized")
    BY <1>a, <1>d, <2>1, <2>2, CallsUpdate DEF Answer
  <2>3. CASE call[c].session # 0 /\ ~Answer(c, "unauthorized")
    <3> DEFINE x == <<sessions[call[c].session].user>>
               r == [call[c] EXCEPT !.step = "user", !.user = x]
    <3>1. call' = [call EXCEPT ![c] = r]
      BY <1>5, <1>a, <2>3 DEF CheckRefresh, CallsInv
    <3>2. call[c].session \in 1..Len(sessions)
      BY <1>a, <1>c, <2>3, SessionConstants DEF Shape, CallRecord
    <3>3. sessions[call[c].session].user \in User
      <4>1. sessions[call[c].session] \in Claims  BY <1>a, <3>2, ElementOfSeq
      <4>2. QED  BY <4>1 DEF Claims
    <3>4. x \in {<<v>> : v \in User}  BY <3>3
    <3>5. Shape(c, r, Len(sessions))
      <4> HIDE DEF x
      <4>1. r \in CallRecord /\ r.step = "user" /\ r.user = x /\ r.session = call[c].session
        BY <1>c, <3>4 DEF CallRecord
      <4>2. QED  BY <1>c, <2>1, <2>3, <3>4, <4>1 DEF Shape, Steps, Renewing
    <3>6. QED  BY <1>a, <2>1, <3>1, <3>5, CallsUpdate
  <2>4. QED  BY <1>5, <2>2, <2>3 DEF CheckRefresh
<1>6. ASSUME NEW c \in Call, FetchUser(c) PROVE CallsInv'
  <2>1. UNCHANGED sessions /\ call[c].step = "user"  BY <1>6 DEF FetchUser, signed
  <2>2. CASE Answer(c, "unauthorized")
    BY <1>a, <1>d, <2>1, <2>2, CallsUpdate DEF Answer
  <2>3. CASE ~Answer(c, "unauthorized")
    <3>1. PICK u \in User : call[c].user = <<u>>  BY <1>c, <2>1 DEF Shape
    <3> DEFINE x == <<u, users[u].role>>
               r == [call[c] EXCEPT !.step = "scope", !.user = x]
    <3>2. call' = [call EXCEPT ![c] = r]
      <4>1. call[c].user[1] = u  BY <3>1
      <4> DEFINE y == <<call[c].user[1], users[call[c].user[1]].role>>
      <4>2. call' = [call EXCEPT ![c].step = "scope", ![c].user = y]
        BY <1>6, <2>3 DEF FetchUser
      <4>3. y = x  BY <4>1
      <4> HIDE DEF x, y
      <4>4. QED  BY <1>a, <4>2, <4>3 DEF CallsInv
    <3>3. x \in User \X Role  BY DEF TypesInv, STypeOK
    <3>4. Shape(c, r, Len(sessions))
      <4> HIDE DEF x
      <4>1. r \in CallRecord /\ r.step = "scope" /\ r.user = x /\ r.session = call[c].session
        BY <1>c, <3>3 DEF CallRecord
      <4>2. c \in Renewing \cup {"login"}  BY <1>c, <2>1, SessionConstants DEF Shape, Steps
      <4>3. QED  BY <1>c, <2>1, <3>3, <4>1, <4>2 DEF Shape, Steps, Renewing
    <3>5. QED  BY <1>a, <2>1, <3>2, <3>4, CallsUpdate
  <2>4. QED  BY <2>2, <2>3
<1>7. ASSUME NEW c \in Call, FetchScope(c) PROVE CallsInv'
  <2> DEFINE s == SessionOf(c, sessions')
             t == [id |-> issued + 1, claims |-> GrantOf(c), session |-> s]
             e == <<>>
             a == <<"ok">>
             r == [call[c] EXCEPT !.step = "answer", !.answer = a, !.user = e,
                                  !.session = s, !.with = t]
  <2>1. call[c].step = "scope" /\ c \in Renewing \cup {"login"}
    <3>1. call[c].step = "scope"  BY <1>7 DEF FetchScope
    <3>2. QED  BY <1>c, <3>1, SessionConstants DEF Shape, Steps
  <2>2. call' = [call EXCEPT ![c] = r]  BY <1>7, <1>a DEF FetchScope, CallsInv
  <2>3. GrantOf(c) \in Claims
    <3>1. PICK u \in User, role \in Role : call[c].user = <<u, role>>
      BY <1>c, <2>1 DEF Shape
    <3>2. GrantOf(c) = [user |-> u, role |-> role, granted |-> role = "admin" \/ users[u].granted]
      BY <3>1 DEF GrantOf
    <3>3. users[u].granted \in BOOLEAN  BY DEF TypesInv, STypeOK
    <3>4. QED  BY <3>2, <3>3 DEF Claims
  <2>4. /\ Len(sessions') \in Nat /\ Len(sessions) <= Len(sessions')
        /\ Len(sessions') <= MaxSessions /\ s \in 1..Len(sessions')
    <3>1. CASE c = "login"
      <4>1. sessions' = Append(sessions, GrantOf(c))  BY <1>7, <3>1 DEF FetchScope
      <4>2. Len(sessions') = Len(sessions) + 1  BY <1>a, <2>3, <4>1, AppendProperties
      <4>3. Len(sessions) < MaxSessions  BY <1>c, <2>1, <3>1 DEF Shape
      <4>4. QED  BY <1>a, <3>1, <4>2, <4>3, SessionConstants DEF SessionOf
    <3>2. CASE c # "login"
      <4>1. UNCHANGED sessions  BY <1>7, <3>2 DEF FetchScope
      <4>2. call[c].session \in 0..MaxSessions /\ call[c].session # 0
            /\ call[c].session <= Len(sessions)
        BY <1>c, <2>1, <3>2 DEF Shape, CallRecord
      <4>3. QED  BY <1>a, <3>2, <4>1, <4>2, SessionConstants DEF SessionOf
    <3>3. QED  BY <3>1, <3>2
  <2>5. t \in Token /\ t.session = s
    <3>1. issued + 1 \in 1..MaxTokens  BY <1>7, <1>a, SessionConstants DEF FetchScope
    <3>2. s \in 1..MaxSessions  BY <2>4, SessionConstants
    <3> HIDE DEF s
    <3>3. QED  BY <2>3, <3>1, <3>2 DEF Token
  <2>6. Shape(c, r, Len(sessions'))
    <3>1. a # <<>> /\ a \in {<<>>, <<"ok">>, <<"unauthorized">>, <<"failed">>}  OBVIOUS
    <3> HIDE DEF s, t, a, e
    <3>2. s \in 0..MaxSessions  BY <2>4, SessionConstants
    <3>3. e = <<>>  BY DEF e
    <3>4. /\ r \in CallRecord /\ r.step = "answer" /\ r.answer = a
          /\ r.session = s /\ r.with = t
      BY <1>c, <2>5, <3>1, <3>2, <3>3 DEF CallRecord
    <3>5. QED  BY <2>1, <2>4, <2>5, <3>1, <3>4 DEF Shape, Steps, Renewing
  <2> HIDE DEF r
  <2>7. ASSUME NEW d \in Call, d # c PROVE Shape(d, call[d], Len(sessions'))
    <3>1. CASE d = "login"
      <4>1. UNCHANGED sessions  BY <1>7, <2>7, <3>1 DEF FetchScope
      <4>2. QED  BY <1>c, <4>1
    <3>2. CASE d # "login"  BY <1>a, <1>c, <2>4, <3>2, CallsGrow
    <3>3. QED  BY <3>1, <3>2
  <2>8. r \in CallRecord  BY <2>6 DEF Shape
  <2>9. /\ call' \in [Call -> CallRecord] /\ call'[c] = r
        /\ \A d \in Call : d # c => call'[d] = call[d]
    BY <1>a, <2>2, <2>8 DEF CallsInv
  <2>10. QED  BY <2>6, <2>7, <2>9 DEF CallsInv
<1>8. ASSUME NEW c \in Call, NoMoreTokens(c) PROVE CallsInv'
  BY <1>8, <1>a, <1>d, CallsUpdate DEF NoMoreTokens, Answer, signed
<1>9. ASSUME NEW c \in Call, Revoke(c) PROVE CallsInv'
  <2>1. UNCHANGED sessions /\ c \in Logout /\ call' = [call EXCEPT ![c] = Answered("ok")]
    BY <1>9 DEF Revoke, Answer
  <2>2. Shape(c, Answered("ok"), Len(sessions))
    BY <1>a, <2>1, AnsweredShape, SessionConstants DEF Renewing
  <2>3. QED  BY <1>a, <2>1, <2>2, CallsUpdate
<1>10. ASSUME NEW c \in Call, Serve(c) PROVE CallsInv'
  <2>1. UNCHANGED sessions  BY <1>10 DEF Serve, signed
  <2>2. CASE call' = [call EXCEPT ![c] = Free]  BY <1>a, <1>b, <2>1, <2>2, CallsUpdate
  <2>3. CASE Answer(c, "unauthorized")  BY <1>a, <1>d, <2>1, <2>3, CallsUpdate DEF Answer
  <2>4. QED  BY <1>10, <2>2, <2>3 DEF Serve
<1>11. ASSUME NEW c \in Call, LogoutAnswered(c) PROVE CallsInv'
  BY <1>11, <1>a, <1>b, CallsUpdate DEF LogoutAnswered, signed
<1>12. CASE LoginAnswered
  BY <1>12, <1>a, <1>b, CallsUpdate, SessionConstants DEF LoginAnswered, signed
<1>13. CASE InitAnswered
  BY <1>13, <1>a, <1>b, CallsUpdate, SessionConstants DEF InitAnswered, signed
<1>14. ASSUME NEW c \in Call, ReadAnswered(c) PROVE CallsInv'
  <2> DEFINE w == [Free EXCEPT !.step = "waiting"]
             r == [Free EXCEPT !.step = "check", !.session = cookie]
             q == IF InFlight("auto") THEN call["auto"] ELSE r
  <2>1. UNCHANGED sessions /\ c \in Reader /\ c # "auto"
    BY <1>14, SessionConstants DEF ReadAnswered, signed
  <2>2. call' = [call EXCEPT ![c] = w, !["auto"] = q]
    BY <1>14, <1>a, <2>1, SessionConstants DEF ReadAnswered, CallsInv
  <2>3. w \in CallRecord /\ w.step = "waiting" /\ w.session = 0
    BY <1>b, FreeFields DEF CallRecord
  <2>4. r \in CallRecord /\ r.step = "check" /\ r.session = cookie
    BY <1>b, <1>e, FreeFields DEF CallRecord
  <2>5. Shape(c, w, Len(sessions))
    BY <1>a, <2>1, <2>3, SessionConstants DEF Shape, Steps, Renewing
  <2>6. Shape("auto", q, Len(sessions))
    <3>1. Shape("auto", r, Len(sessions))  BY <1>a, <2>4 DEF Shape, Steps, Renewing
    <3>2. QED  BY <1>c, <3>1, SessionConstants
  <2>7. q \in CallRecord  BY <2>6 DEF Shape
  <2> HIDE DEF w, r, q
  <2>8. /\ call' \in [Call -> CallRecord] /\ call'[c] = w /\ call'["auto"] = q
        /\ \A d \in Call : d \notin {c, "auto"} => call'[d] = call[d]
    BY <1>a, <2>1, <2>2, <2>3, <2>7, SessionConstants DEF CallsInv
  <2>9. QED  BY <1>c, <2>1, <2>5, <2>6, <2>8 DEF CallsInv
<1>15. CASE RefreshAnswered
  <2>1. PICK t \in {None} \cup Token : call' = Released(t)
    <3>1. Result("auto") = "ok" => call["auto"].with \in {None} \cup Token
      BY <1>c, SessionConstants DEF CallRecord
    <3>2. QED  BY <1>15, <3>1 DEF RefreshAnswered
  <2>2. UNCHANGED sessions  BY <1>15 DEF RefreshAnswered, signed
  <2> DEFINE r == [Free EXCEPT !.step = "retried", !.with = t]
  <2>3. r \in CallRecord /\ r.step = "retried" /\ r.session = 0
    BY <1>b, FreeFields DEF CallRecord
  <2>4. ASSUME NEW c \in Reader PROVE Shape(c, r, Len(sessions))
    BY <1>a, <2>3, SessionConstants DEF Shape, Steps, Renewing, Call
  <2> HIDE DEF r
  <2>5. \A c \in Call : call'[c] \in {Free, call[c]} \/ (c \in Reader /\ call'[c] = r)
    BY <2>1 DEF Released, r
  <2>6. ASSUME NEW c \in Call PROVE call'[c] \in CallRecord /\ Shape(c, call'[c], Len(sessions))
    BY <1>b, <1>c, <2>3, <2>4, <2>5
  <2>7. call' = [c \in Call |-> call'[c]]  BY <2>1 DEF Released
  <2>8. call' \in [Call -> CallRecord]  BY <2>6, <2>7
  <2>9. QED  BY <2>2, <2>6, <2>8 DEF CallsInv
<1>16. ASSUME NEW c \in Call, CallFails(c) PROVE CallsInv'
  <2>1. UNCHANGED sessions  BY <1>16 DEF CallFails, signed
  <2>2. CASE c \in Reader  BY <1>16, <1>a, <1>b, <2>1, <2>2, CallsUpdate DEF CallFails
  <2>3. CASE c \notin Reader  BY <1>16, <1>a, <1>d, <2>1, <2>3, CallsUpdate DEF CallFails
  <2>4. QED  BY <2>2, <2>3
<1>17. CASE Reload
  <2> DEFINE r == [Free EXCEPT !.step = "check", !.session = cookie]
  <2>1. call' = [c \in Call |-> IF c = "init" THEN r ELSE Free] /\ UNCHANGED sessions
    BY <1>17 DEF Reload
  <2>2. r \in CallRecord /\ r.step = "check" /\ r.session = cookie
    BY <1>b, <1>e, FreeFields DEF CallRecord
  <2>3. Shape("init", r, Len(sessions))  BY <1>a, <2>2 DEF Shape, Steps, Renewing
  <2> HIDE DEF r
  <2>4. call' \in [Call -> CallRecord]  BY <1>b, <2>1, <2>2
  <2>5. QED  BY <1>b, <2>1, <2>3, <2>4 DEF CallsInv
<1>18. CASE ExpireToken \/ ExpireCookie \/ UNCHANGED svars \/ \E u \in User : ChangeUser(u)
  BY <1>18, <1>a DEF ExpireToken, ExpireCookie, ChangeUser, svars, signed, CallsInv
<1>19. QED
  BY <1>1, <1>2, <1>3, <1>4, <1>5, <1>6, <1>7, <1>8, <1>9, <1>10, <1>11, <1>12, <1>13, <1>14,
     <1>15, <1>16, <1>17, <1>18 DEF SNext, ServerStep, TabStep

LEMMA TypesNext == TypesInv /\ [SNext]_svars => TypesInv'
<1> SUFFICES ASSUME TypesInv, [SNext]_svars PROVE TypesInv'
  OBVIOUS
<1>1. CallsInv'  BY CallsNext
<1>a. /\ users \in [User -> [exists : BOOLEAN, role : Role, granted : BOOLEAN]]
      /\ issued \in 0..MaxTokens /\ expired \in 0..issued
      /\ sessions \in Seq(Claims) /\ Len(sessions) <= MaxSessions /\ Len(sessions) \in Nat
      /\ cookie \in 0..Len(sessions) /\ token \in {None} \cup Token
      /\ page \in {"loading", "private", "login"}
      /\ since \in [User -> 0..issued]
      /\ left \in BOOLEAN /\ crossed \in BOOLEAN /\ raced \in BOOLEAN
      /\ incidents \in 0..MaxIncidents
  BY LenProperties DEF TypesInv, STypeOK
<1>c. ASSUME NEW c \in Call
      PROVE  /\ Shape(c, call[c], Len(sessions))
             /\ call[c].with \in {None} \cup Token
             /\ call[c].session \in 0..Len(sessions)
  BY CallsTyped DEF TypesInv, CallsInv
<1>d. Incident => incidents' \in 0..MaxIncidents  BY <1>a, SessionConstants DEF Incident
\* What the other conjuncts of STypeOK need.
<1> DEFINE Tab == /\ cookie' \in 0..Len(sessions') /\ token' \in {None} \cup Token
                  /\ page' \in {"loading", "private", "login"} /\ left' \in BOOLEAN
           Sign == /\ issued' \in 0..MaxTokens /\ expired' \in 0..issued'
                   /\ sessions' \in Seq(Claims) /\ Len(sessions') <= MaxSessions
                   /\ since' \in [User -> 0..issued']
           Rest == /\ users' \in [User -> [exists : BOOLEAN, role : Role, granted : BOOLEAN]]
                   /\ crossed' \in BOOLEAN /\ raced' \in BOOLEAN
                   /\ incidents' \in 0..MaxIncidents
<1>t. UNCHANGED <<cookie, token, left, sessions>> /\ page' \in {"loading", "private", "login"}
      => Tab
  BY <1>a
<1>s. UNCHANGED <<issued, expired, sessions, since>> => Sign  BY <1>a
<1>r. UNCHANGED <<users, raced>> /\ crossed' \in BOOLEAN /\ (Incident \/ UNCHANGED incidents)
      => Rest
  BY <1>a, <1>d
<1>u. \A c, r : Start(c, r) => crossed' \in BOOLEAN  BY <1>a DEF Start
<1>p. \A t : PageWith(t) \in {"loading", "private", "login"}  BY <1>a DEF PageWith
<1> HIDE DEF Tab, Sign, Rest
<1>2. ASSUME NEW u \in User, SubmitLogin(u) PROVE Tab /\ Sign /\ Rest
  BY <1>2, <1>a, <1>t, <1>s, <1>r, <1>u DEF SubmitLogin, store, signed, tab
<1>3. ASSUME OpenPrivatePage PROVE Tab /\ Sign /\ Rest
  <2>1. page' \in {"loading", "private", "login"} /\ crossed' \in BOOLEAN
    BY <1>3, <1>a, <1>u DEF OpenPrivatePage
  <2>2. Tab  BY <1>3, <1>t, <2>1 DEF OpenPrivatePage, store, signed
  <2>3. Sign  BY <1>3, <1>s DEF OpenPrivatePage, store, signed
  <2>4. Rest  BY <1>3, <1>r, <2>1 DEF OpenPrivatePage, store
  <2>5. QED  BY <2>2, <2>3, <2>4
<1>4. ASSUME NEW c \in Logout, ClickLogout(c) PROVE Tab /\ Sign /\ Rest
  <2>1. crossed' \in BOOLEAN  BY <1>4, <1>u DEF ClickLogout
  <2>2. QED  BY <1>4, <1>a, <1>t, <1>s, <1>r, <2>1 DEF ClickLogout, store, signed, tab
<1>5. ASSUME NEW c \in Reader, SendRead(c) PROVE Tab /\ Sign /\ Rest
  <2>1. crossed' \in BOOLEAN  BY <1>5, <1>u DEF SendRead
  <2>2. QED  BY <1>5, <1>a, <1>t, <1>s, <1>r, <2>1 DEF SendRead, store, signed, tab
<1>6. ASSUME NEW c \in Call, CheckRefresh(c) \/ FetchUser(c) \/ NoMoreTokens(c) \/ Serve(c)
      PROVE  Tab /\ Sign /\ Rest
  <2>1. UNCHANGED <<store, signed, tab, crossed, incidents>>
    BY <1>6 DEF CheckRefresh, FetchUser, NoMoreTokens, Serve
  <2>2. QED  BY <2>1, <1>a, <1>t, <1>s, <1>r DEF store, signed, tab
<1>7. ASSUME NEW c \in Call, FetchScope(c) PROVE Tab /\ Sign /\ Rest
  <2>1. call[c].step = "scope" /\ issued' = issued + 1 /\ issued < MaxTokens
        /\ UNCHANGED <<users, since, raced, expired, cookie, token, page, left, crossed, incidents>>
    BY <1>7 DEF FetchScope, store, tab
  <2>2. GrantOf(c) \in Claims
    <3>1. PICK u \in User, role \in Role : call[c].user = <<u, role>>
      BY <1>c, <2>1 DEF Shape
    <3>2. GrantOf(c) = [user |-> u, role |-> role, granted |-> role = "admin" \/ users[u].granted]
      BY <3>1 DEF GrantOf
    <3>3. users[u].granted \in BOOLEAN  BY <1>a
    <3>4. QED  BY <3>2, <3>3 DEF Claims
  <2>3. /\ sessions' \in Seq(Claims) /\ Len(sessions') <= MaxSessions
        /\ Len(sessions) <= Len(sessions') /\ Len(sessions') \in Nat
    <3>1. CASE c = "login"
      <4>1. sessions' = Append(sessions, GrantOf(c))  BY <1>7, <3>1 DEF FetchScope
      <4>2. sessions' \in Seq(Claims) /\ Len(sessions') = Len(sessions) + 1
        BY <1>a, <2>2, <4>1, AppendProperties
      <4>3. Len(sessions) < MaxSessions  BY <1>c, <2>1, <3>1 DEF Shape
      <4>4. QED  BY <1>a, <4>2, <4>3, SessionConstants
    <3>2. CASE c # "login"  BY <1>7, <1>a, <3>2 DEF FetchScope
    <3>3. QED  BY <3>1, <3>2
  <2>4. since' \in [User -> 0..issued']  BY <1>a, <2>1, SessionConstants
  <2>5. Sign  BY <1>a, <2>1, <2>3, <2>4, SessionConstants DEF Sign
  <2>6. Tab  BY <1>a, <2>1, <2>3 DEF Tab
  <2>7. QED  BY <1>a, <1>r, <2>1, <2>5, <2>6
<1>8. ASSUME NEW c \in Call, Revoke(c) PROVE Tab /\ Sign /\ Rest
  BY <1>8, <1>a, <1>t, <1>s, <1>r DEF Revoke, store, tab
<1>9. ASSUME NEW c \in Call, LogoutAnswered(c) PROVE Tab /\ Sign /\ Rest
  <2>1. Tab  BY <1>9, <1>a, <1>p DEF LogoutAnswered, signed, Tab
  <2>2. QED  BY <1>9, <1>a, <1>t, <1>s, <1>r, <2>1 DEF LogoutAnswered, store, signed
<1>10. ASSUME LoginAnswered PROVE Tab /\ Sign /\ Rest
  <2>1. Tab
    <3>1. CASE Result("login") = "ok"
      <4>1. call["login"].with \in {None} \cup Token /\ call["login"].session \in 0..Len(sessions)
        BY <1>c, SessionConstants
      <4>2. QED  BY <1>10, <3>1, <4>1 DEF LoginAnswered, signed, Tab
    <3>2. CASE Result("login") # "ok"
      BY <1>10, <1>a, <3>2 DEF LoginAnswered, signed, tab, Tab
    <3>3. QED  BY <3>1, <3>2
  <2>2. Sign /\ Rest
    <3>1. Sign  BY <1>10, <1>s DEF LoginAnswered, store, signed
    <3>2. UNCHANGED crossed /\ (Incident \/ UNCHANGED incidents) /\ UNCHANGED <<users, raced>>
      BY <1>10 DEF LoginAnswered, store
    <3>3. Rest  BY <1>a, <1>r, <3>2
    <3>4. QED  BY <3>1, <3>3
  <2>3. QED  BY <2>1, <2>2
<1>11. ASSUME InitAnswered PROVE Tab /\ Sign /\ Rest
  <2>1. call["init"].with \in {None} \cup Token  BY <1>c, SessionConstants
  <2>2. Tab  BY <1>11, <1>a, <2>1 DEF InitAnswered, signed, Tab
  <2>3. Sign /\ Rest
    <3>1. Sign  BY <1>11, <1>s DEF InitAnswered, store, signed
    <3>2. UNCHANGED crossed /\ (Incident \/ UNCHANGED incidents) /\ UNCHANGED <<users, raced>>
      BY <1>11 DEF InitAnswered, store
    <3>3. Rest  BY <1>a, <1>r, <3>2
    <3>4. QED  BY <3>1, <3>3
  <2>4. QED  BY <2>2, <2>3
<1>12. ASSUME NEW c \in Call, ReadAnswered(c) PROVE Tab /\ Sign /\ Rest
  <2>1. crossed' \in BOOLEAN  BY <1>12, <1>a DEF ReadAnswered
  <2>2. QED  BY <1>12, <1>a, <1>t, <1>s, <1>r, <2>1 DEF ReadAnswered, store, signed, tab
<1>13. ASSUME RefreshAnswered PROVE Tab /\ Sign /\ Rest
  <2>1. call["auto"].with \in {None} \cup Token  BY <1>c, SessionConstants
  <2>2. token' \in {None} \cup Token  BY <1>13, <2>1 DEF RefreshAnswered
  <2>3. page' \in {"loading", "private", "login"}  BY <1>13, <1>p DEF RefreshAnswered
  <2>4. Tab  BY <1>13, <1>a, <2>2, <2>3 DEF RefreshAnswered, signed, Tab
  <2>5. Sign /\ Rest
    <3>1. Sign  BY <1>13, <1>s DEF RefreshAnswered, store, signed
    <3>2. UNCHANGED crossed /\ (Incident \/ UNCHANGED incidents) /\ UNCHANGED <<users, raced>>
      BY <1>13 DEF RefreshAnswered, store
    <3>3. Rest  BY <1>a, <1>r, <3>2
    <3>4. QED  BY <3>1, <3>3
  <2>6. QED  BY <2>4, <2>5
<1>14. ASSUME NEW c \in Call, CallFails(c) PROVE Tab /\ Sign /\ Rest
  BY <1>14, <1>a, <1>t, <1>s, <1>r DEF CallFails, store, signed, tab
<1>15. ASSUME Reload PROVE Tab /\ Sign /\ Rest
  <2>1. Tab  BY <1>15, <1>a DEF Reload, Tab
  <2>2. Sign /\ Rest
    <3>1. Sign  BY <1>15, <1>s DEF Reload, store
    <3>2. UNCHANGED crossed /\ (Incident \/ UNCHANGED incidents) /\ UNCHANGED <<users, raced>>
      BY <1>15 DEF Reload, store
    <3>3. Rest  BY <1>a, <1>r, <3>2
    <3>4. QED  BY <3>1, <3>3
  <2>3. QED  BY <2>1, <2>2
<1>16. ASSUME ExpireToken PROVE Tab /\ Sign /\ Rest
  <2>1. Tab /\ Rest  BY <1>16, <1>a, <1>t, <1>s, <1>r DEF ExpireToken, store, tab
  <2>2. Sign
    <3>1. /\ UNCHANGED <<issued, sessions, since>> /\ expired' = expired + 1 /\ expired < issued
      BY <1>16 DEF ExpireToken, store
    <3>2. expired' \in 0..issued'  BY <1>a, <3>1, SessionConstants
    <3>3. QED  BY <1>a, <3>1, <3>2 DEF Sign
  <2>3. QED  BY <2>1, <2>2
<1>17. ASSUME ExpireCookie PROVE Tab /\ Sign /\ Rest
  <2>1. Tab  BY <1>17, <1>a DEF ExpireCookie, signed, Tab
  <2>2. Sign /\ Rest
    <3>1. Sign  BY <1>17, <1>s DEF ExpireCookie, store, signed
    <3>2. UNCHANGED crossed /\ (Incident \/ UNCHANGED incidents) /\ UNCHANGED <<users, raced>>
      BY <1>17 DEF ExpireCookie, store
    <3>3. Rest  BY <1>a, <1>r, <3>2
    <3>4. QED  BY <3>1, <3>3
  <2>3. QED  BY <2>1, <2>2
<1>18. ASSUME NEW u \in User, ChangeUser(u) PROVE Tab /\ Sign /\ Rest
  <2>1. users' \in [User -> [exists : BOOLEAN, role : Role, granted : BOOLEAN]]
    <3> DEFINE row == [exists : BOOLEAN, role : Role, granted : BOOLEAN]
    <3>1. PICK n \in row : users' = [users EXCEPT ![u] = n]
      <4>1. CASE users' = [users EXCEPT ![u].role = IF users[u].role = "admin" THEN "viewer" ELSE "admin"]
        <5> DEFINE n == [users[u] EXCEPT !.role = IF users[u].role = "admin" THEN "viewer" ELSE "admin"]
        <5>1. n \in row  BY <1>a DEF Role
        <5>2. users' = [users EXCEPT ![u] = n]  BY <4>1, <1>a
        <5>3. QED  BY <5>1, <5>2
      <4>2. CASE users' = [users EXCEPT ![u].granted = ~users[u].granted]
        <5> DEFINE n == [users[u] EXCEPT !.granted = ~users[u].granted]
        <5>1. n \in row  BY <1>a
        <5>2. users' = [users EXCEPT ![u] = n]  BY <4>2, <1>a
        <5>3. QED  BY <5>1, <5>2
      <4>3. CASE users' = [users EXCEPT ![u].exists = FALSE]
        <5> DEFINE n == [users[u] EXCEPT !.exists = FALSE]
        <5>1. n \in row  BY <1>a
        <5>2. users' = [users EXCEPT ![u] = n]  BY <4>3, <1>a
        <5>3. QED  BY <5>1, <5>2
      <4>4. QED  BY <1>18, <4>1, <4>2, <4>3 DEF ChangeUser
    <3> HIDE DEF row
    <3>2. users \in [User -> row]  BY <1>a DEF row
    <3>3. users' \in [User -> row]  BY <3>1, <3>2
    <3>4. QED  BY <3>3 DEF row
  <2>2. Rest  BY <1>18, <1>a, <1>d, <2>1 DEF ChangeUser, Rest
  <2>3. Sign  BY <1>18, <1>a DEF ChangeUser, signed, Sign
  <2>4. Tab  BY <1>18, <1>a, <1>t, <1>s, <1>r DEF ChangeUser, signed, tab
  <2>5. QED  BY <2>2, <2>3, <2>4
<1>19. ASSUME UNCHANGED svars PROVE Tab /\ Sign /\ Rest
  <2>1. /\ UNCHANGED <<cookie, token, left, sessions, page, issued, expired, since>>
        /\ UNCHANGED <<users, raced, crossed, incidents>>
    BY <1>19 DEF svars, store, signed, tab
  <2>2. Tab  BY <1>a, <1>t, <2>1
  <2>3. Sign  BY <1>s, <2>1
  <2>4. Rest  BY <1>a, <1>r, <2>1
  <2>5. QED  BY <2>2, <2>3, <2>4
<1>20. Tab /\ Sign /\ Rest
  <2>1. ASSUME NEW c \in Call, ServerStep(c) PROVE Tab /\ Sign /\ Rest
    BY <2>1, <1>6, <1>7, <1>8 DEF ServerStep
  <2>2. ASSUME NEW c \in Call, TabStep(c) PROVE Tab /\ Sign /\ Rest
    BY <2>2, <1>9, <1>10, <1>11, <1>12, <1>13 DEF TabStep
  <2>3. QED
    BY <2>1, <2>2, <1>2, <1>3, <1>4, <1>5, <1>14, <1>15, <1>16, <1>17, <1>18, <1>19 DEF SNext
<1>21. STypeOK'
  <2> DEFINE Step == {"free", "user", "check", "scope", "revoke", "sent", "answer",
                      "waiting", "retried"}
  <2>1. (DOMAIN call = Call)' /\ \A c \in Call : /\ call'[c].step \in Step
            /\ call'[c].with \in {None} \cup Token /\ call'[c].session \in 0..Len(sessions')
    <3>1. ASSUME NEW c \in Call
          PROVE  /\ call'[c].step \in Step /\ call'[c].with \in {None} \cup Token
                 /\ call'[c].session \in 0..MaxSessions /\ call'[c].session <= Len(sessions')
      BY <1>1 DEF CallsInv, CallRecord, Shape
    <3>2. Len(sessions') \in Nat  BY <1>20, LenProperties DEF Sign
    <3>3. DOMAIN call' = Call  BY <1>1 DEF CallsInv
    <3>4. QED  BY <3>1, <3>2, <3>3, SessionConstants
  <2> HIDE DEF Step
  <2>2. QED  BY <1>20, <2>1 DEF Tab, Sign, Rest, STypeOK, Step
<1>22. QED  BY <1>1, <1>21 DEF TypesInv

LEMMA TypesStart == SInit => TypesInv
<1> SUFFICES ASSUME SInit PROVE TypesInv
  OBVIOUS
<1>1. sessions = <<>> /\ Len(sessions) = 0 /\ sessions \in Seq(Claims)
  BY EmptySeq DEF SInit
<1>2. CallsInv
  <2>1. \A c \in Call : Shape(c, Free, Len(sessions))  BY <1>1, FreeShape
  <2>2. Free \in CallRecord  BY <2>1, SessionConstants DEF Shape
  <2>3. QED  BY <2>1, <2>2 DEF SInit, CallsInv
<1>3. STypeOK
  <2>1. users \in [User -> [exists : BOOLEAN, role : Role, granted : BOOLEAN]]
    BY DEF SInit, Role
  <2>2. /\ issued = 0 /\ expired = 0 /\ cookie = 0 /\ token = None /\ page = "login"
        /\ left = FALSE /\ raced = FALSE /\ crossed = FALSE /\ incidents = 0
        /\ since \in [User -> 0..issued]
    BY DEF SInit
  <2>3. /\ DOMAIN call = Call
        /\ \A c \in Call :
          /\ call[c].step \in {"free", "user", "check", "scope", "revoke", "sent", "answer",
                               "waiting", "retried"}
          /\ call[c].with \in {None} \cup Token
          /\ call[c].session \in 0..Len(sessions)
    BY <1>2, CallsTyped
  <2>4. /\ issued \in 0..MaxTokens /\ expired \in 0..issued /\ Len(sessions) <= MaxSessions
        /\ cookie \in 0..Len(sessions) /\ incidents \in 0..MaxIncidents
    BY <1>1, <2>2, SessionConstants
  <2>5. QED  BY <1>1, <2>1, <2>2, <2>3, <2>4 DEF STypeOK
<1>4. QED  BY <1>2, <1>3 DEF TypesInv

LEMMA TypesAlways == SSpec => []TypesInv
BY TypesStart, TypesNext, PTL DEF SSpec

\* Every call carries what its step needs, whatever crosses and whatever fails:
\* ids, sessions and cookies stay among those that were issued.
THEOREM SessionTypes == SSpec => []STypeOK
<1>1. TypesInv => STypeOK  BY DEF TypesInv
<1>2. QED  BY <1>1, TypesAlways, PTL

(***************************************************************************)
(* One deciding call at a time, as long as none have crossed.               *)
(***************************************************************************)
\* A step of the API, or of a call that ends or fails: no deciding call is
\* started, and a refresh stays in its session or is refused.
GoesOn ==
    /\ UNCHANGED crossed
    /\ \A d \in Deciding : InFlight(d)' => InFlight(d)
    /\ \A d \in Renewing : call'[d].session \in {0, call[d].session}

\* The call c is started, alone or crossing another; a refresh goes out with the
\* cookie of the browser.
Begins(c) ==
    /\ UNCHANGED <<cookie, token, left>>
    /\ \A d \in Deciding \ {c} : InFlight(d)' => InFlight(d)
    /\ crossed' = (crossed \/ (c \in Deciding /\ \E d \in Deciding \ {c} : InFlight(d)))
    /\ \A d \in Renewing : call'[d].session = IF d = c THEN cookie ELSE call[d].session

LEMMA OneCall ==
    ASSUME CallsInv, NEW c \in Call, NEW r, call' = [call EXCEPT ![c] = r]
    PROVE  call'[c] = r /\ \A d \in Call : d # c => call'[d] = call[d]
BY DEF CallsInv

LEMMA OneGoesOn ==
    ASSUME CallsInv, UNCHANGED crossed, NEW c \in Call, InFlight(c), NEW r,
           call' = [call EXCEPT ![c] = r],
           c \in Renewing => r.session \in {0, call[c].session}
    PROVE  GoesOn
<1>1. call'[c] = r /\ \A d \in Call : d # c => call'[d] = call[d]  BY OneCall
<1>2. Deciding \subseteq Call /\ Renewing \subseteq Call  BY DEF Call, Deciding, Renewing
<1>3. QED  BY <1>1, <1>2 DEF GoesOn, InFlight

LEMMA OneBegins ==
    ASSUME CallsInv, NEW c \in Call, NEW r, Start(c, r), UNCHANGED <<cookie, token, left>>,
           c \in Renewing => r.session = cookie
    PROVE  Begins(c)
<1>1. call'[c] = r /\ \A d \in Call : d # c => call'[d] = call[d]
  BY OneCall DEF Start
<1>2. Deciding \subseteq Call /\ Renewing \subseteq Call  BY DEF Call, Deciding, Renewing
<1>3. QED  BY <1>1, <1>2 DEF Start, Begins, InFlight

LEMMA FreeSession == Free.session = 0 /\ \A result : Answered(result).session = 0
<1>1. Free \in [step : {"free"}, with : {None}, session : {0}, user : {<<>>}, answer : {<<>>}]
  BY DEF Free
<1> DEFINE e == {<<>>}
<1>2. Free \in [step : {"free"}, with : {None}, session : {0}, user : e, answer : e]
  BY <1>1
<1> HIDE DEF e
<1>3. ASSUME NEW result PROVE Answered(result).session = 0
  <2> DEFINE a == <<result>>
  <2>1. Answered(result) = [Free EXCEPT !.step = "answer", !.answer = a]  BY DEF Answered
  <2> HIDE DEF a
  <2>2. QED  BY <1>2, <2>1
<1>4. QED  BY <1>2, <1>3

LEMMA ServerGoesOn ==
    ASSUME TypesInv, NEW c \in Call, ServerStep(c) \/ CallFails(c)
    PROVE  GoesOn
<1>1. CallsInv  BY DEF TypesInv
<1>2. UNCHANGED crossed
  BY DEF ServerStep, CheckRefresh, FetchUser, FetchScope, NoMoreTokens, Revoke, Serve, CallFails
<1>3. InFlight(c)
  <2>1. CASE ServerStep(c)
    BY <2>1 DEF ServerStep, CheckRefresh, FetchUser, FetchScope, NoMoreTokens, Revoke, Serve,
       InFlight
  <2>2. QED  BY <2>1 DEF CallFails
<1>4. \E r : call' = [call EXCEPT ![c] = r] /\ (c \in Renewing => r.session \in {0, call[c].session})
  <2>a. \A result : Answer(c, result) =>
             \E r : call' = [call EXCEPT ![c] = r] /\ r.session \in {0, call[c].session}
    BY FreeSession DEF Answer
  <2>b. call \in [Call -> CallRecord] /\ call[c] \in CallRecord  BY <1>1 DEF CallsInv
  <2>1. CASE CheckRefresh(c)
    <3> DEFINE x == <<sessions[call[c].session].user>>
               r == [call[c] EXCEPT !.step = "user", !.user = x]
    <3>1. Answer(c, "unauthorized") \/ call' = [call EXCEPT ![c].step = "user", ![c].user = x]
      BY <2>1 DEF CheckRefresh
    <3> HIDE DEF x
    <3>2. r.session = call[c].session  BY <2>b DEF CallRecord
    <3>3. CASE call' = [call EXCEPT ![c].step = "user", ![c].user = x]
      <4>1. call' = [call EXCEPT ![c] = r]  BY <2>b, <3>3
      <4>2. QED  BY <3>2, <4>1
    <3>4. QED  BY <2>a, <3>1, <3>3
  <2>2. CASE FetchUser(c)
    <3> DEFINE x == <<call[c].user[1], users[call[c].user[1]].role>>
               r == [call[c] EXCEPT !.step = "scope", !.user = x]
    <3>1. Answer(c, "unauthorized") \/ call' = [call EXCEPT ![c].step = "scope", ![c].user = x]
      BY <2>2 DEF FetchUser
    <3> HIDE DEF x
    <3>2. r.session = call[c].session  BY <2>b DEF CallRecord
    <3>3. CASE call' = [call EXCEPT ![c].step = "scope", ![c].user = x]
      <4>1. call' = [call EXCEPT ![c] = r]  BY <2>b, <3>3
      <4>2. QED  BY <3>2, <4>1
    <3>4. QED  BY <2>a, <3>1, <3>3
  <2>3. CASE FetchScope(c)
    <3> DEFINE s == SessionOf(c, sessions')
               t == [id |-> issued + 1, claims |-> GrantOf(c), session |-> s]
               e == <<>>
               a == <<"ok">>
               r == [call[c] EXCEPT !.step = "answer", !.answer = a, !.user = e,
                                    !.session = s, !.with = t]
    <3>1. call' = [call EXCEPT ![c].step = "answer", ![c].answer = a, ![c].user = e,
                               ![c].session = s, ![c].with = t]
      BY <2>3 DEF FetchScope
    <3>2. c \in Renewing => s = call[c].session  BY DEF SessionOf, Renewing
    <3> HIDE DEF s, t, e, a
    <3>3. call' = [call EXCEPT ![c] = r]  BY <2>b, <3>1
    <3>4. r.session = s  BY <2>b DEF CallRecord
    <3>5. QED  BY <3>2, <3>3, <3>4
  <2>4. CASE NoMoreTokens(c)  BY <2>4, <2>a DEF NoMoreTokens
  <2>5. CASE Revoke(c)  BY <2>5, <2>a DEF Revoke
  <2>6. CASE Serve(c)  BY <2>6, <2>a, FreeSession DEF Serve
  <2>7. CASE CallFails(c)
    <3>1. PICK r \in {Free, Answered("failed")} : call' = [call EXCEPT ![c] = r]
      BY <2>7 DEF CallFails
    <3>2. QED  BY <3>1, FreeSession
  <2>8. QED  BY <2>1, <2>2, <2>3, <2>4, <2>5, <2>6, <2>7 DEF ServerStep
<1>5. QED  BY <1>1, <1>2, <1>3, <1>4, OneGoesOn

\* An answer ends its call.
LEMMA AnswerGoesOn ==
    ASSUME TypesInv, NEW c \in Call, InFlight(c), call' = [call EXCEPT ![c] = Free],
           UNCHANGED crossed
    PROVE  GoesOn
BY OneGoesOn, FreeSession DEF TypesInv

LEMMA RefreshGoesOn == TypesInv /\ RefreshAnswered => GoesOn
<1> SUFFICES ASSUME TypesInv, RefreshAnswered PROVE GoesOn
  OBVIOUS
<1>1. UNCHANGED crossed /\ InFlight("auto")  BY DEF RefreshAnswered, InFlight
<1>2. PICK t : call' = Released(t)  BY DEF RefreshAnswered
<1>3. ASSUME NEW d \in Deciding PROVE call'[d] \in {Free, call[d]}
  <2>1. d \in Call /\ d \notin Reader  BY SessionConstants DEF Deciding, Call
  <2>2. QED  BY <1>2, <2>1 DEF Released
<1>4. Renewing \subseteq Deciding  BY DEF Renewing, Deciding
<1>5. QED  BY <1>1, <1>3, <1>4, FreeFields, FreeSession DEF GoesOn, InFlight

LEMMA ReadKinds ==
    ASSUME TypesInv, NEW c \in Reader, ReadAnswered(c)
    PROVE  GoesOn \/ Begins("auto")
<1> DEFINE w == [Free EXCEPT !.step = "waiting"]
           r == [Free EXCEPT !.step = "check", !.session = cookie]
           q == IF InFlight("auto") THEN call["auto"] ELSE r
<1>1. /\ call \in [Call -> CallRecord] /\ c \in Call /\ c # "auto" /\ c \notin Deciding
      /\ UNCHANGED <<cookie, token, left>>
  BY SessionConstants DEF TypesInv, CallsInv, Call, Deciding, ReadAnswered, tab
<1>2. call' = [call EXCEPT ![c] = w, !["auto"] = q]
  BY <1>1, SessionConstants DEF ReadAnswered
<1>3. r.session = cookie
  <2>1. Free \in CallRecord  BY FreeShape, SessionConstants DEF Shape
  <2>2. QED  BY <2>1 DEF CallRecord
<1>4. crossed' = (crossed \/ (~InFlight("auto") /\ \E d \in Deciding : InFlight(d)))
  BY DEF ReadAnswered
<1> HIDE DEF w, r
<1>5. call'["auto"] = q /\ \A d \in Call : d \notin {c, "auto"} => call'[d] = call[d]
  BY <1>1, <1>2, SessionConstants
<1>6. /\ Deciding \subseteq Call /\ Renewing \subseteq Deciding /\ c \notin Renewing
      /\ "auto" \in Deciding
  BY <1>1 DEF Call, Deciding, Renewing
<1>7. CASE InFlight("auto")
  <2>a. call'["auto"] = call["auto"]  BY <1>5, <1>7
  <2>1. ASSUME NEW d \in Deciding PROVE call'[d] = call[d]
    <3>1. d \in Call /\ d # c  BY <1>1, <1>6
    <3>2. CASE d = "auto"  BY <2>a, <3>2
    <3>3. CASE d # "auto"  BY <1>5, <3>1, <3>3
    <3>4. QED  BY <3>2, <3>3
  <2>2. UNCHANGED crossed
    <3>1. crossed \in BOOLEAN  BY DEF TypesInv, STypeOK
    <3>2. QED  BY <1>4, <1>7, <3>1
  <2>3. QED  BY <1>6, <2>1, <2>2 DEF GoesOn, InFlight
<1>8. CASE ~InFlight("auto")
  <2>1. \A d \in Deciding \ {"auto"} : call'[d] = call[d]  BY <1>1, <1>5, <1>6
  <2>2. call'["auto"].session = cookie  BY <1>3, <1>5, <1>8
  <2>3. crossed' = (crossed \/ ("auto" \in Deciding /\ \E d \in Deciding \ {"auto"} : InFlight(d)))
    BY <1>4, <1>6, <1>8
  <2>4. QED  BY <1>1, <1>6, <2>1, <2>2, <2>3 DEF Begins, InFlight
<1>9. QED  BY <1>7, <1>8

\* The tab does not touch its token between two awaits: either a call begins,
\* or it goes on, or the page is loaded again.
LEMMA StepKinds ==
    ASSUME TypesInv, [SNext]_svars
    PROVE  \/ \E c \in Call : Begins(c)
           \/ Reload
           \/ /\ GoesOn
              /\ \/ UNCHANGED <<cookie, token, left>>
                 \/ ExpireCookie \/ LoginAnswered \/ InitAnswered \/ RefreshAnswered
                 \/ \E c \in Logout : LogoutAnswered(c)
<1>a. CallsInv /\ Free \in CallRecord
  BY FreeShape, SessionConstants DEF TypesInv, Shape
<1>b. [Free EXCEPT !.step = "check", !.session = cookie].session = cookie
  BY <1>a DEF CallRecord
<1>1. ASSUME NEW u \in User, SubmitLogin(u) PROVE Begins("login")
  BY <1>1, <1>a, OneBegins, SessionConstants DEF SubmitLogin, tab, Renewing
<1>2. CASE OpenPrivatePage
  <2>1. CASE token # None
    BY <1>2, <2>1 DEF OpenPrivatePage, GoesOn, InFlight
  <2>2. CASE token = None
    <3>1. Begins("init")
      BY <1>2, <1>a, <1>b, <2>2, OneBegins, SessionConstants DEF OpenPrivatePage
    <3>2. QED  BY <3>1, SessionConstants
  <2>3. QED  BY <2>1, <2>2
<1>3. ASSUME NEW c \in Logout, ClickLogout(c) PROVE Begins(c)
  <2>1. PICK r : Start(c, r)  BY <1>3 DEF ClickLogout
  <2>2. c \in Call /\ c \notin Renewing  BY SessionConstants DEF Call, Deciding, Renewing
  <2>3. QED  BY <1>3, <1>a, <2>1, <2>2, OneBegins DEF ClickLogout, tab
<1>4. ASSUME NEW c \in Reader, SendRead(c) PROVE Begins(c)
  <2>1. PICK r : Start(c, r)  BY <1>4 DEF SendRead
  <2>2. c \in Call /\ c \notin Renewing  BY SessionConstants DEF Call, Renewing
  <2>3. QED  BY <1>4, <1>a, <2>1, <2>2, OneBegins DEF SendRead, tab
<1>5. ASSUME NEW c \in Call, ServerStep(c) \/ CallFails(c)
      PROVE  GoesOn /\ UNCHANGED <<cookie, token, left>>
  <2>1. GoesOn  BY <1>5, ServerGoesOn
  <2>2. UNCHANGED tab
    BY <1>5 DEF ServerStep, CheckRefresh, FetchUser, FetchScope, NoMoreTokens, Revoke, Serve,
       CallFails
  <2>3. QED  BY <2>1, <2>2 DEF tab
<1>6. CASE LoginAnswered
  BY <1>6, AnswerGoesOn, SessionConstants DEF LoginAnswered, InFlight
<1>7. CASE InitAnswered
  BY <1>7, AnswerGoesOn, SessionConstants DEF InitAnswered, InFlight
<1>8. ASSUME NEW c \in Call, LogoutAnswered(c) PROVE GoesOn /\ c \in Logout
  BY <1>8, AnswerGoesOn DEF LogoutAnswered, InFlight
<1>9. CASE RefreshAnswered  BY <1>9, RefreshGoesOn
<1>10. ASSUME NEW c \in Call, ReadAnswered(c)
       PROVE  (GoesOn /\ UNCHANGED <<cookie, token, left>>) \/ Begins("auto")
  BY <1>10, ReadKinds DEF ReadAnswered, tab
<1>11. CASE ExpireCookie  BY <1>11 DEF ExpireCookie, GoesOn, InFlight
<1>12. CASE ExpireToken \/ UNCHANGED svars \/ \E u \in User : ChangeUser(u)
  BY <1>12 DEF ExpireToken, ChangeUser, svars, tab, GoesOn, InFlight
<1>13. CASE Reload  BY <1>13
<1>14. ASSUME NEW c \in Call, TabStep(c)
       PROVE  \/ Begins("auto")
              \/ /\ GoesOn
                 /\ \/ UNCHANGED <<cookie, token, left>>
                    \/ LoginAnswered \/ InitAnswered \/ RefreshAnswered
                    \/ \E d \in Logout : LogoutAnswered(d)
  BY <1>14, <1>6, <1>7, <1>8, <1>9, <1>10, AnswerGoesOn, RefreshGoesOn, SessionConstants
     DEF TabStep, LoginAnswered, InitAnswered, InFlight
<1>15. QED
  BY <1>1, <1>2, <1>3, <1>4, <1>5, <1>11, <1>12, <1>13, <1>14, SessionConstants
     DEF SNext, Call, Deciding

LEMMA AloneNext == TypesInv /\ AloneInv /\ [SNext]_svars => AloneInv'
<1> SUFFICES ASSUME TypesInv, AloneInv, [SNext]_svars PROVE AloneInv'
  OBVIOUS
<1>1. ASSUME NEW c \in Call, Begins(c) PROVE AloneInv'
  BY <1>1 DEF Begins, AloneInv
<1>2. CASE Reload
  <2>1. \A d \in Deciding : InFlight(d)' => d = "init"
    <3>1. \A d \in Call : d # "init" => call'[d] = Free  BY <1>2 DEF Reload
    <3>2. Deciding \subseteq Call  BY DEF Call
    <3>3. QED  BY <3>1, <3>2, FreeFields DEF InFlight
  <2>2. QED  BY <2>1 DEF AloneInv
<1>3. CASE GoesOn  BY <1>3 DEF GoesOn, AloneInv
<1>4. QED  BY <1>1, <1>2, <1>3, StepKinds

\* A call that is not in flight has no session.
LEMMA NoSession ==
    ASSUME CallsInv, NEW c \in Call, ~InFlight(c)
    PROVE  call[c].session = 0
BY DEF CallsInv, Shape, InFlight

\* The answer of a deciding call, alone, leaves no refresh.
LEMMA NoRefresh ==
    ASSUME TypesInv, AloneInv, ~crossed, NEW c \in Deciding \ Renewing, InFlight(c)
    PROVE  \A d \in Renewing : call[d].session = 0
<1>1. Renewing \subseteq Deciding /\ Renewing \subseteq Call
  BY DEF Renewing, Deciding, Call
<1>2. QED  BY <1>1, NoSession DEF AloneInv, TypesInv

\* A refresh that is granted has a session, and its token goes back to it.
LEMMA GrantedSession ==
    ASSUME TypesInv, NEW c \in Renewing \cup {"login"}, call[c].step = "answer", Result(c) = "ok"
    PROVE  call[c].with.session = call[c].session /\ call[c].session # 0
<1>1. c \in Call  BY SessionConstants DEF Renewing
<1>2. Shape(c, call[c], Len(sessions))  BY <1>1 DEF TypesInv, CallsInv
<1>3. call[c].answer \in {<<"ok">>, <<"unauthorized">>, <<"failed">>}
  BY <1>2 DEF Shape, CallRecord
<1>4. call[c].answer = <<"ok">>  BY <1>3 DEF Result
<1>5. call[c].with \in Token /\ call[c].with.session = call[c].session  BY <1>2, <1>4 DEF Shape
<1>6. call[c].with.session \in 1..MaxSessions  BY <1>5 DEF Token
<1>7. QED  BY <1>5, <1>6, SessionConstants

LEMMA SignedOutNext ==
    TypesInv /\ AloneInv /\ SignedOutInv /\ [SNext]_svars => SignedOutInv'
<1> SUFFICES ASSUME TypesInv, AloneInv, SignedOutInv, [SNext]_svars, left', ~crossed'
             PROVE  /\ token' = None /\ cookie' = 0
                    /\ \A c \in Renewing : call'[c].session = 0
  BY DEF SignedOutInv
<1> DEFINE Out == /\ token' = None /\ cookie' = 0
                  /\ \A c \in Renewing : call'[c].session = 0
<1>1. ASSUME NEW c \in Call, Begins(c) PROVE Out
  BY <1>1 DEF Begins, SignedOutInv
<1>2. ASSUME Reload PROVE Out
  <2>1. token' = None /\ cookie = 0 /\ UNCHANGED cookie
    BY <1>2 DEF Reload, SignedOutInv
  <2>2. \A c \in Call : call'[c] = IF c = "init" THEN [Free EXCEPT !.step = "check", !.session = cookie]
                                   ELSE Free
    BY <1>2 DEF Reload
  <2>3. [Free EXCEPT !.step = "check", !.session = cookie].session = cookie
    <3>1. Free \in CallRecord  BY FreeShape, SessionConstants DEF Shape
    <3>2. QED  BY <3>1 DEF CallRecord
  <2>4. Renewing \subseteq Call  BY DEF Renewing, Call, Deciding
  <2>5. QED  BY <2>1, <2>2, <2>3, <2>4, FreeSession
<1>3. ASSUME GoesOn, UNCHANGED <<cookie, token, left>> PROVE Out
  BY <1>3 DEF GoesOn, SignedOutInv
<1>4. ASSUME GoesOn, ExpireCookie PROVE Out
  BY <1>4 DEF GoesOn, SignedOutInv, ExpireCookie
<1>5. ASSUME GoesOn, LoginAnswered PROVE Out
  <2>1. UNCHANGED tab  BY <1>5 DEF LoginAnswered
  <2>2. QED  BY <1>3, <1>5, <2>1 DEF tab
<1>6. ASSUME GoesOn, InitAnswered PROVE Out
  <2>1. left /\ ~crossed  BY <1>6 DEF InitAnswered, GoesOn
  <2>2. call["init"].session = 0  BY <2>1 DEF SignedOutInv, Renewing
  <2>3. Result("init") # "ok"  BY <1>6, <2>2, GrantedSession DEF InitAnswered, Renewing
  <2>4. UNCHANGED <<cookie, token, left>>  BY <1>6, <2>3 DEF InitAnswered
  <2>5. QED  BY <1>3, <1>6, <2>4
<1>7. ASSUME GoesOn, RefreshAnswered PROVE Out
  <2>1. left /\ ~crossed  BY <1>7 DEF RefreshAnswered, GoesOn
  <2>2. call["auto"].session = 0  BY <2>1 DEF SignedOutInv, Renewing
  <2>3. Result("auto") # "ok"  BY <1>7, <2>2, GrantedSession DEF RefreshAnswered, Renewing
  <2>4. token' = None /\ UNCHANGED <<cookie, left>>  BY <1>7, <2>3 DEF RefreshAnswered
  <2>5. QED  BY <1>7, <2>1, <2>4 DEF GoesOn, SignedOutInv
<1>8. ASSUME NEW c \in Logout, GoesOn, LogoutAnswered(c) PROVE Out
  <2>1. token' = None /\ cookie' = 0  BY <1>8 DEF LogoutAnswered
  <2>2. c \in Deciding \ Renewing /\ InFlight(c)
    BY <1>8, SessionConstants DEF LogoutAnswered, InFlight, Deciding, Renewing
  <2>3. \A d \in Renewing : call[d].session = 0  BY <1>8, <2>2, NoRefresh DEF GoesOn
  <2>4. QED  BY <1>8, <2>1, <2>3 DEF GoesOn
<1>9. QED  BY <1>1, <1>2, <1>3, <1>4, <1>5, <1>6, <1>7, <1>8, StepKinds

LEMMA MatchNext == TypesInv /\ AloneInv /\ MatchInv /\ [SNext]_svars => MatchInv'
<1> SUFFICES ASSUME TypesInv, AloneInv, MatchInv, [SNext]_svars, ~crossed', cookie' # 0
             PROVE  /\ token' # None => token'.session = cookie'
                    /\ \A c \in Renewing : call'[c].session \in {0, cookie'}
  BY DEF MatchInv
<1> DEFINE Same == /\ token' # None => token'.session = cookie'
                   /\ \A c \in Renewing : call'[c].session \in {0, cookie'}
<1>1. ASSUME NEW c \in Call, Begins(c) PROVE Same
  BY <1>1 DEF Begins, MatchInv
<1>2. ASSUME Reload PROVE Same
  <2>1. token' = None /\ UNCHANGED cookie  BY <1>2 DEF Reload
  <2>2. \A c \in Call : call'[c] = IF c = "init" THEN [Free EXCEPT !.step = "check", !.session = cookie]
                                   ELSE Free
    BY <1>2 DEF Reload
  <2>3. [Free EXCEPT !.step = "check", !.session = cookie].session = cookie
    <3>1. Free \in CallRecord  BY FreeShape, SessionConstants DEF Shape
    <3>2. QED  BY <3>1 DEF CallRecord
  <2>4. Renewing \subseteq Call  BY DEF Renewing, Call, Deciding
  <2>5. QED  BY <2>1, <2>2, <2>3, <2>4, FreeSession
<1>3. ASSUME GoesOn, UNCHANGED <<cookie, token, left>> PROVE Same
  BY <1>3 DEF GoesOn, MatchInv
<1>4. ASSUME GoesOn, ExpireCookie PROVE Same
  BY <1>4 DEF ExpireCookie
<1>5. ASSUME GoesOn, LoginAnswered PROVE Same
  <2>1. CASE Result("login") = "ok"
    <3>1. call["login"].with.session = call["login"].session
      BY <1>5, <2>1, GrantedSession DEF LoginAnswered
    <3>2. token' = call["login"].with /\ cookie' = call["login"].session
      BY <1>5, <2>1 DEF LoginAnswered
    <3>3. "login" \in Deciding \ Renewing /\ InFlight("login")
      BY <1>5 DEF LoginAnswered, InFlight, Deciding, Renewing
    <3>4. \A d \in Renewing : call[d].session = 0  BY <1>5, <3>3, NoRefresh DEF GoesOn
    <3>5. QED  BY <1>5, <3>1, <3>2, <3>4 DEF GoesOn
  <2>2. CASE Result("login") # "ok"
    <3>1. UNCHANGED tab  BY <1>5, <2>2 DEF LoginAnswered
    <3>2. QED  BY <1>3, <1>5, <3>1 DEF tab
  <2>3. QED  BY <2>1, <2>2
<1>6. ASSUME GoesOn, InitAnswered PROVE Same
  <2>1. ~crossed /\ cookie # 0 /\ UNCHANGED <<cookie, left>>
    BY <1>6 DEF InitAnswered, GoesOn
  <2>2. CASE Result("init") = "ok"
    <3>1. call["init"].with.session = call["init"].session /\ call["init"].session # 0
      BY <1>6, <2>2, GrantedSession DEF InitAnswered, Renewing
    <3>2. call["init"].session = cookie  BY <2>1, <3>1 DEF MatchInv, Renewing
    <3>3. token' = call["init"].with  BY <1>6, <2>2 DEF InitAnswered
    <3>4. QED  BY <1>6, <2>1, <3>1, <3>2, <3>3 DEF GoesOn, MatchInv
  <2>3. CASE Result("init") # "ok"  BY <1>3, <1>6, <2>1, <2>3 DEF InitAnswered
  <2>4. QED  BY <2>2, <2>3
<1>7. ASSUME GoesOn, RefreshAnswered PROVE Same
  <2>1. ~crossed /\ cookie # 0 /\ UNCHANGED <<cookie, left>>
    BY <1>7 DEF RefreshAnswered, GoesOn
  <2>2. CASE Result("auto") = "ok"
    <3>1. call["auto"].with.session = call["auto"].session /\ call["auto"].session # 0
      BY <1>7, <2>2, GrantedSession DEF RefreshAnswered, Renewing
    <3>2. call["auto"].session = cookie  BY <2>1, <3>1 DEF MatchInv, Renewing
    <3>3. token' = call["auto"].with  BY <1>7, <2>2 DEF RefreshAnswered
    <3>4. QED  BY <1>7, <2>1, <3>1, <3>2, <3>3 DEF GoesOn, MatchInv
  <2>3. CASE Result("auto") # "ok"
    <3>1. token' = None  BY <1>7, <2>3 DEF RefreshAnswered
    <3>2. QED  BY <1>7, <2>1, <3>1 DEF GoesOn, MatchInv
  <2>4. QED  BY <2>2, <2>3
<1>8. ASSUME NEW c \in Logout, GoesOn, LogoutAnswered(c) PROVE Same
  BY <1>8 DEF LogoutAnswered, GoesOn, MatchInv
<1>9. QED  BY <1>1, <1>2, <1>3, <1>4, <1>5, <1>6, <1>7, <1>8, StepKinds

LEMMA SessionStart == SInit => AloneInv /\ SignedOutInv /\ MatchInv
<1> SUFFICES ASSUME SInit PROVE AloneInv /\ SignedOutInv /\ MatchInv
  OBVIOUS
<1>1. Deciding \subseteq Call  BY DEF Call
<1>2. \A c \in Deciding : ~InFlight(c)  BY <1>1, FreeFields DEF SInit, InFlight
<1>3. left = FALSE /\ cookie = 0  BY DEF SInit
<1>4. QED  BY <1>2, <1>3 DEF AloneInv, SignedOutInv, MatchInv

\* A logout lasts until the next login, unless a refresh crossed it: a refresh
\* that is sent after it finds no cookie (auth.py:152).
THEOREM LogoutLasts == SSpec => []SignedOutStays
<1>1. SignedOutInv => SignedOutStays  BY DEF SignedOutInv, SignedOutStays
<1>2. QED  BY <1>1, SessionStart, AloneNext, SignedOutNext, TypesAlways, PTL DEF SSpec

\* The tab never shows one user and renews the token of another: a refresh is
\* answered with a token of the login its cookie goes back to (auth.py:161).
THEOREM OneSession == SSpec => []TokenMatchesCookie
<1>1. MatchInv => TokenMatchesCookie  BY DEF MatchInv, TokenMatchesCookie
<1>2. QED  BY <1>1, SessionStart, AloneNext, MatchNext, TypesAlways, PTL DEF SSpec

(***************************************************************************)
(* Fresh grants.                                                            *)
(***************************************************************************)
\* A step that issues no token, changes no user and reads no role.
LEMMA FreshKept ==
    ASSUME TypesInv, FreshInv, UNCHANGED <<users, since, raced, issued>>,
           Held' \subseteq Held \cup {None},
           \A c \in Call : call'[c].step = "scope" =>
               call[c].step = "scope" /\ call'[c].user = call[c].user
    PROVE  FreshInv'
<1>1. \A t \in (Held \ {None})' : t \in Held \ {None}  OBVIOUS
<1>2. \A t \in Held \ {None} : Agrees(t) => Agrees(t)'  BY DEF Agrees
<1>3. QED  BY <1>1, <1>2 DEF FreshInv

\* A call that becomes r, which holds t.
LEMMA HeldUpdate ==
    ASSUME CallsInv, NEW c \in Call, NEW r, call' = [call EXCEPT ![c] = r],
           token' \in Held \cup {None}
    PROVE  Held' \subseteq Held \cup {None, r.with}
<1>1. call'[c] = r /\ \A d \in Call : d # c => call'[d] = call[d]  BY OneCall
<1>2. \A d \in Call : call'[d].with \in Held \cup {r.with}  BY <1>1 DEF Held
<1>3. QED  BY <1>2 DEF Held

LEMMA FreshUpdate ==
    ASSUME TypesInv, FreshInv, UNCHANGED <<users, since, raced, issued>>,
           NEW c \in Call, NEW r, call' = [call EXCEPT ![c] = r],
           r.step # "scope", r.with \in Held \cup {None}, token' \in Held \cup {None}
    PROVE  FreshInv'
<1>1. CallsInv  BY DEF TypesInv
<1>2. Held' \subseteq Held \cup {None}  BY <1>1, HeldUpdate
<1>3. call'[c] = r /\ \A d \in Call : d # c => call'[d] = call[d]  BY <1>1, OneCall
<1>4. \A d \in Call : call'[d].step = "scope" => d # c  BY <1>3
<1>5. QED  BY <1>2, <1>3, <1>4, FreshKept

\* The fields of Free with one or two of them replaced.
LEMMA StartFields ==
    /\ \A s : [Free EXCEPT !.step = s].step = s /\ [Free EXCEPT !.step = s].with = None
    /\ \A s, x : /\ [Free EXCEPT !.step = s, !.user = x].step = s
                 /\ [Free EXCEPT !.step = s, !.user = x].with = None
    /\ \A s, x : /\ [Free EXCEPT !.step = s, !.session = x].step = s
                 /\ [Free EXCEPT !.step = s, !.session = x].with = None
    /\ \A s, x : /\ [Free EXCEPT !.step = s, !.with = x].step = s
                 /\ [Free EXCEPT !.step = s, !.with = x].with = x
    /\ \A result : Answered(result).step = "answer" /\ Answered(result).with = None
<1> DEFINE e == {<<>>}
<1>1. Free \in [step : {"free"}, with : {None}, session : {0}, user : e, answer : e]
  BY DEF Free
<1> HIDE DEF e
<1>2. ASSUME NEW result PROVE Answered(result).step = "answer" /\ Answered(result).with = None
  <2> DEFINE a == <<result>>
  <2>1. Answered(result) = [Free EXCEPT !.step = "answer", !.answer = a]  BY DEF Answered
  <2> HIDE DEF a
  <2>2. QED  BY <1>1, <2>1
<1>3. QED  BY <1>1, <1>2

LEMMA FreshNext == TypesInv /\ FreshInv /\ [SNext]_svars => FreshInv'
<1> SUFFICES ASSUME TypesInv, FreshInv, [SNext]_svars PROVE FreshInv'
  OBVIOUS
<1>a. /\ CallsInv /\ call \in [Call -> CallRecord] /\ issued \in Nat
      /\ token \in Held /\ \A c \in Call : call[c].with \in Held
      /\ Free.step # "scope" /\ Free.with = None
  BY SessionConstants, FreeFields DEF TypesInv, STypeOK, CallsInv, Held
<1>1. ASSUME NEW u \in User, SubmitLogin(u) PROVE FreshInv'
  <2> DEFINE x == <<u>>
             r == [Free EXCEPT !.step = "user", !.user = x]
  <2>1. Start("login", r)  BY <1>1 DEF SubmitLogin
  <2>2. UNCHANGED <<users, since, raced, issued, token>>
    BY <1>1 DEF SubmitLogin, store, signed, tab
  <2> HIDE DEF x
  <2>3. r.step # "scope" /\ r.with = None  BY StartFields
  <2> HIDE DEF r
  <2>4. QED  BY <1>a, <2>1, <2>2, <2>3, FreshUpdate, SessionConstants DEF Start
<1>2. CASE OpenPrivatePage
  <2>1. UNCHANGED <<users, since, raced, issued, token>>
    BY <1>2 DEF OpenPrivatePage, store, signed
  <2>2. CASE token # None
    <3>1. UNCHANGED call  BY <1>2, <2>2 DEF OpenPrivatePage
    <3>2. QED  BY <2>1, <3>1, FreshKept DEF Held
  <2>3. CASE token = None
    <3> DEFINE r == [Free EXCEPT !.step = "check", !.session = cookie]
    <3>1. Start("init", r)  BY <1>2, <2>3 DEF OpenPrivatePage
    <3>2. r.step # "scope" /\ r.with = None  BY StartFields
    <3> HIDE DEF r
    <3>3. QED  BY <1>a, <2>1, <3>1, <3>2, FreshUpdate, SessionConstants DEF Start
  <2>4. QED  BY <2>2, <2>3
<1>3. ASSUME NEW c \in Logout, ClickLogout(c) PROVE FreshInv'
  <2>1. PICK s : Start(c, [Free EXCEPT !.step = "revoke", !.session = s])  BY <1>3 DEF ClickLogout
  <2>2. UNCHANGED <<users, since, raced, issued, token>> /\ c \in Call
    BY <1>3 DEF ClickLogout, store, signed, tab, Call, Deciding
  <2> DEFINE r == [Free EXCEPT !.step = "revoke", !.session = s]
  <2>3. r.step # "scope" /\ r.with = None  BY StartFields
  <2>4. Start(c, r)  BY <2>1
  <2> HIDE DEF r
  <2>5. QED  BY <1>a, <2>2, <2>3, <2>4, FreshUpdate DEF Start
<1>4. ASSUME NEW c \in Reader, SendRead(c) PROVE FreshInv'
  <2> DEFINE r == [Free EXCEPT !.step = "sent", !.with = token]
  <2>1. Start(c, r)  BY <1>4 DEF SendRead
  <2>2. UNCHANGED <<users, since, raced, issued, token>> /\ c \in Call
    BY <1>4 DEF SendRead, store, signed, tab, Call
  <2>3. r.step # "scope" /\ r.with = token  BY StartFields
  <2> HIDE DEF r
  <2>4. QED  BY <1>a, <2>1, <2>2, <2>3, FreshUpdate DEF Start
<1>b. ASSUME NEW c \in Call, NEW result, Answer(c, result), UNCHANGED <<users, since, raced, issued, token>>
      PROVE  FreshInv'
  <2> DEFINE r == Answered(result)
  <2>1. r.step # "scope" /\ r.with = None  BY StartFields
  <2>2. call' = [call EXCEPT ![c] = r]  BY <1>b DEF Answer
  <2> HIDE DEF r
  <2>3. QED  BY <1>a, <1>b, <2>1, <2>2, FreshUpdate
<1>c. ASSUME NEW c \in Call, call' = [call EXCEPT ![c] = Free],
             UNCHANGED <<users, since, raced, issued>>, token' \in Held \cup {None}
      PROVE  FreshInv'
  BY <1>a, <1>c, FreshUpdate
<1>5. ASSUME NEW c \in Call, CheckRefresh(c) PROVE FreshInv'
  <2> DEFINE x == <<sessions[call[c].session].user>>
             r == [call[c] EXCEPT !.step = "user", !.user = x]
  <2>1. UNCHANGED <<users, since, raced, issued, token>>
    BY <1>5 DEF CheckRefresh, store, signed, tab
  <2>2. Answer(c, "unauthorized") \/ call' = [call EXCEPT ![c].step = "user", ![c].user = x]
    BY <1>5 DEF CheckRefresh
  <2>3. CASE call' = [call EXCEPT ![c].step = "user", ![c].user = x]
    <3> HIDE DEF x
    <3>1. call' = [call EXCEPT ![c] = r]  BY <1>a, <2>3
    <3>2. r.step # "scope" /\ r.with = call[c].with  BY <1>a DEF CallRecord
    <3>3. QED  BY <1>a, <2>1, <3>1, <3>2, FreshUpdate
  <2>4. QED  BY <1>b, <2>1, <2>2, <2>3
<1>6. ASSUME NEW c \in Call, FetchUser(c) PROVE FreshInv'
  <2>1. UNCHANGED <<users, since, raced, issued, token>>
    BY <1>6 DEF FetchUser, store, signed, tab
  <2>2. CASE Answer(c, "unauthorized")  BY <1>b, <2>1, <2>2
  <2>3. CASE ~Answer(c, "unauthorized")
    <3> DEFINE u == call[c].user[1]
               x == <<u, users[u].role>>
               r == [call[c] EXCEPT !.step = "scope", !.user = x]
    <3>1. call' = [call EXCEPT ![c].step = "scope", ![c].user = x] /\ users[u].exists
      BY <1>6, <2>3 DEF FetchUser
    <3>2. x[1] = u /\ x[2] = users[u].role  OBVIOUS
    <3> HIDE DEF x
    <3>3. call' = [call EXCEPT ![c] = r]  BY <1>a, <3>1
    <3>4. r.with = call[c].with /\ r.user = x  BY <1>a DEF CallRecord
    <3> HIDE DEF u, r
    <3>5. Held' \subseteq Held \cup {None}  BY <1>a, <2>1, <3>3, <3>4, HeldUpdate
    <3>6. call'[c] = r /\ \A d \in Call : d # c => call'[d] = call[d]  BY <1>a, <3>3, OneCall
    <3>7. \A t \in (Held \ {None})' : t \in Held \ {None} /\ (Agrees(t) => Agrees(t)')
      BY <2>1, <3>5 DEF Agrees
    <3>8. ASSUME NEW d \in Call, call'[d].step = "scope", ~raced
          PROVE  /\ users'[call'[d].user[1]].exists
                 /\ users'[call'[d].user[1]].role = call'[d].user[2]
      <4>1. CASE d = c  BY <2>1, <3>1, <3>2, <3>4, <3>6, <4>1
      <4>2. CASE d # c  BY <2>1, <3>6, <3>8, <4>2 DEF FreshInv
      <4>3. QED  BY <4>1, <4>2
    <3>9. QED  BY <2>1, <3>7, <3>8 DEF FreshInv
  <2>4. QED  BY <2>2, <2>3
<1>7. ASSUME NEW c \in Call, FetchScope(c) PROVE FreshInv'
  <2> DEFINE s == SessionOf(c, sessions')
             e == <<>>
             a == <<"ok">>
  <2>0. PICK t : t = [id |-> issued + 1, claims |-> GrantOf(c), session |-> s]
    OBVIOUS
  <2> DEFINE r == [call[c] EXCEPT !.step = "answer", !.answer = a, !.user = e,
                                  !.session = s, !.with = t]
  <2>1. /\ call' = [call EXCEPT ![c].step = "answer", ![c].answer = a, ![c].user = e,
                                ![c].session = s, ![c].with = t]
        /\ UNCHANGED <<users, since, raced, token>> /\ issued' = issued + 1
        /\ call[c].step = "scope"
    BY <1>7, <2>0 DEF FetchScope, store, tab
  <2>2. t.id = issued + 1 /\ t.claims = GrantOf(c)  BY <2>0
  <2> HIDE DEF s, e, a
  <2>3. call' = [call EXCEPT ![c] = r]  BY <1>a, <2>1
  <2>4. r.with = t /\ r.step = "answer"  BY <1>a DEF CallRecord
  <2> HIDE DEF r
  <2>5. Held' \subseteq Held \cup {None, t}  BY <1>a, <2>1, <2>3, <2>4, HeldUpdate
  <2>6. call'[c] = r /\ \A d \in Call : d # c => call'[d] = call[d]  BY <1>a, <2>3, OneCall
  <2>7. ~raced => Agrees(t)'
    <3> SUFFICES ASSUME ~raced PROVE Agrees(t)'
      OBVIOUS
    <3> DEFINE u == call[c].user[1]
    <3>1. users[u].exists /\ users[u].role = call[c].user[2]  BY <2>1 DEF FreshInv
    <3>2. /\ GrantOf(c).user = u /\ GrantOf(c).role = call[c].user[2]
          /\ GrantOf(c).granted = (call[c].user[2] = "admin" \/ users[u].granted)
      BY DEF GrantOf
    <3>3. QED  BY <2>1, <2>2, <3>1, <3>2 DEF Agrees
  <2>8. ASSUME NEW z \in (Held \ {None})'
        PROVE  z.id <= issued' /\ (~raced' => Agrees(z)')
    <3>1. CASE z = t  BY <1>a, <2>1, <2>2, <2>7, <3>1
    <3>2. CASE z \in Held \ {None}
      <4>1. z.id <= issued /\ (~raced => Agrees(z))  BY <3>2 DEF FreshInv
      <4>2. z.id \in Int
        BY <3>2, <1>a, TokenIds, SessionConstants DEF Held, TypesInv, STypeOK, CallRecord
      <4>3. Agrees(z) => Agrees(z)'  BY <2>1 DEF Agrees
      <4>4. QED  BY <1>a, <2>1, <4>1, <4>2, <4>3
    <3>3. QED  BY <2>5, <3>1, <3>2
  <2>9. \A d \in Call : call'[d].step = "scope" =>
            call[d].step = "scope" /\ call'[d].user = call[d].user
    BY <2>4, <2>6
  <2>10. QED  BY <2>1, <2>8, <2>9 DEF FreshInv
<1>8. ASSUME NEW c \in Call, NoMoreTokens(c) \/ Revoke(c) PROVE FreshInv'
  <2>1. UNCHANGED <<users, since, raced, issued, token>>
    BY <1>8 DEF NoMoreTokens, Revoke, store, signed, tab
  <2>2. QED  BY <1>8, <1>b, <2>1 DEF NoMoreTokens, Revoke
<1>9. ASSUME NEW c \in Call, Serve(c) PROVE FreshInv'
  <2>1. UNCHANGED <<users, since, raced, issued, token>>
    BY <1>9 DEF Serve, store, signed, tab
  <2>2. QED  BY <1>9, <1>a, <1>b, <1>c, <2>1 DEF Serve
<1>10. ASSUME NEW c \in Call, LogoutAnswered(c) PROVE FreshInv'
  <2>1. UNCHANGED <<users, since, raced, issued>> /\ token' = None
    BY <1>10 DEF LogoutAnswered, store, signed
  <2>2. QED  BY <1>10, <1>c, <2>1 DEF LogoutAnswered
<1>11. CASE LoginAnswered
  <2>1. UNCHANGED <<users, since, raced, issued>> /\ token' \in {token, call["login"].with}
    BY <1>11 DEF LoginAnswered, store, signed, tab
  <2>2. QED  BY <1>11, <1>a, <1>c, <2>1, SessionConstants DEF LoginAnswered
<1>12. CASE InitAnswered
  <2>1. UNCHANGED <<users, since, raced, issued>> /\ token' \in {token, call["init"].with}
    BY <1>12 DEF InitAnswered, store, signed
  <2>2. QED  BY <1>12, <1>a, <1>c, <2>1, SessionConstants DEF InitAnswered
<1>13. ASSUME NEW c \in Call, ReadAnswered(c) PROVE FreshInv'
  <2> DEFINE w == [Free EXCEPT !.step = "waiting"]
             r == [Free EXCEPT !.step = "check", !.session = cookie]
             q == IF InFlight("auto") THEN call["auto"] ELSE r
  <2>1. UNCHANGED <<users, since, raced, issued, token>> /\ c # "auto"
    BY <1>13, SessionConstants DEF ReadAnswered, store, signed, tab
  <2>2. call' = [call EXCEPT ![c] = w, !["auto"] = q]
    BY <1>13, <1>a, <2>1, SessionConstants DEF ReadAnswered
  <2>3. w.step # "scope" /\ w.with = None /\ r.step # "scope" /\ r.with = None
    BY StartFields
  <2> HIDE DEF w, r
  <2>4. call'[c] = w /\ call'["auto"] = q /\ \A d \in Call : d \notin {c, "auto"} => call'[d] = call[d]
    BY <1>a, <2>1, <2>2, SessionConstants
  <2>5. \A d \in Call : call'[d] \in {w, r, call[d]}  BY <2>4
  <2>6. Held' \subseteq Held \cup {None}  BY <1>a, <2>1, <2>3, <2>5 DEF Held
  <2>7. QED  BY <2>1, <2>3, <2>5, <2>6, FreshKept
<1>14. CASE RefreshAnswered
  <2>1. PICK t \in {None, call["auto"].with} : call' = Released(t) /\ token' = t
    BY <1>14 DEF RefreshAnswered
  <2>2. UNCHANGED <<users, since, raced, issued>>  BY <1>14 DEF RefreshAnswered, store, signed
  <2> DEFINE r == [Free EXCEPT !.step = "retried", !.with = t]
  <2>3. r.step # "scope" /\ r.with = t  BY StartFields
  <2>4. \A d \in Call : call'[d] \in {Free, r, call[d]}  BY <2>1 DEF Released
  <2> HIDE DEF r
  <2>5. t \in Held \cup {None}  BY <1>a, SessionConstants
  <2>6. Held' \subseteq Held \cup {None}  BY <1>a, <2>1, <2>3, <2>4, <2>5 DEF Held
  <2>7. QED  BY <1>a, <2>2, <2>3, <2>4, <2>6, FreshKept
<1>15. ASSUME NEW c \in Call, CallFails(c) PROVE FreshInv'
  <2>1. UNCHANGED <<users, since, raced, issued, token>>
    BY <1>15 DEF CallFails, store, signed, tab
  <2>2. CASE c \in Reader  BY <1>15, <1>a, <1>c, <2>1, <2>2 DEF CallFails
  <2>3. CASE c \notin Reader  BY <1>15, <1>b, <2>1, <2>3 DEF CallFails, Answer
  <2>4. QED  BY <2>2, <2>3
<1>16. CASE Reload
  <2> DEFINE r == [Free EXCEPT !.step = "check", !.session = cookie]
  <2>1. UNCHANGED <<users, since, raced, issued>> /\ token' = None
    BY <1>16 DEF Reload, store
  <2>2. \A d \in Call : call'[d] \in {Free, r}  BY <1>16 DEF Reload
  <2>3. r.step # "scope" /\ r.with = None  BY StartFields
  <2> HIDE DEF r
  <2>4. Held' \subseteq Held \cup {None}  BY <1>a, <2>1, <2>2, <2>3 DEF Held
  <2>5. QED  BY <1>a, <2>1, <2>2, <2>3, <2>4, FreshKept
<1>17. CASE ExpireToken \/ ExpireCookie \/ UNCHANGED svars
  <2>1. UNCHANGED <<users, since, raced, issued, token, call>>
    BY <1>17 DEF ExpireToken, ExpireCookie, svars, store, signed, tab
  <2>2. QED  BY <2>1, FreshKept DEF Held
<1>18. ASSUME NEW u \in User, ChangeUser(u) PROVE FreshInv'
  <2>1. /\ UNCHANGED <<issued, token, call>>
        /\ since' = [since EXCEPT ![u] = issued]
        /\ raced' = (raced \/ \E c \in Call : call[c].step = "scope" /\ call[c].user[1] = u)
        /\ \A v \in User : v # u => users'[v] = users[v]
    BY <1>18 DEF ChangeUser, signed, tab, TypesInv, STypeOK
  <2>2. since \in [User -> Nat]  BY SessionConstants DEF TypesInv, STypeOK
  <2>3. ASSUME NEW t \in Held \ {None}, ~raced' PROVE Agrees(t)'
    <3>1. t.id <= issued /\ Agrees(t)  BY <2>1, <2>3 DEF FreshInv
    <3>2. t \in Token
      BY <1>a DEF Held, TypesInv, STypeOK, CallRecord
    <3>3. t.id \in Int /\ t.claims.user \in User
      BY <3>2, TokenIds, SessionConstants DEF Token, Claims
    <3>4. CASE t.claims.user = u
      <4>1. ~(t.id > since'[t.claims.user])  BY <1>a, <2>1, <2>2, <3>1, <3>3, <3>4
      <4>2. QED  BY <4>1 DEF Agrees
    <3>5. CASE t.claims.user # u
      <4>1. since'[t.claims.user] = since[t.claims.user] /\ users'[t.claims.user] = users[t.claims.user]
        BY <2>1, <2>2, <3>3, <3>5
      <4>2. QED  BY <3>1, <4>1 DEF Agrees
    <3>6. QED  BY <3>4, <3>5
  <2>4. ASSUME NEW c \in Call, call'[c].step = "scope", ~raced'
        PROVE  /\ users'[call'[c].user[1]].exists
               /\ users'[call'[c].user[1]].role = call'[c].user[2]
    <3>1. call'[c] = call[c] /\ call[c].user[1] # u /\ ~raced  BY <2>1, <2>4
    <3>2. call[c].user \in User \X Role  BY <2>1, <2>4 DEF TypesInv, CallsInv, Shape
    <3>3. call[c].user[1] \in User  BY <3>2
    <3>4. users'[call[c].user[1]] = users[call[c].user[1]]  BY <2>1, <3>1, <3>3
    <3>5. QED  BY <2>4, <3>1, <3>4 DEF FreshInv
  <2>5. Held' = Held  BY <2>1 DEF Held
  <2>6. QED  BY <2>1, <2>3, <2>4, <2>5 DEF FreshInv
<1>19. ASSUME NEW c \in Call, ServerStep(c) \/ TabStep(c) \/ CallFails(c) PROVE FreshInv'
  BY <1>19, <1>5, <1>6, <1>7, <1>8, <1>9, <1>10, <1>11, <1>12, <1>13, <1>14, <1>15
     DEF ServerStep, TabStep
<1>20. QED  BY <1>1, <1>2, <1>3, <1>4, <1>16, <1>17, <1>18, <1>19 DEF SNext

\* What an access token allows is what its user is allowed, unless the user has
\* changed after the token was issued: a change reaches the interface with the
\* next refresh (auth.py:187).
THEOREM FreshGrants == SSpec => []GrantsAreFresh
<1>1. SInit => FreshInv
  <2> SUFFICES ASSUME SInit PROVE FreshInv
    OBVIOUS
  <2>1. Held = {None}  BY FreeFields DEF SInit, Held, Call, Deciding
  <2>2. \A c \in Call : call[c].step # "scope"  BY FreeFields DEF SInit
  <2>3. QED  BY <2>1, <2>2 DEF FreshInv
<1>2. FreshInv => GrantsAreFresh  BY DEF FreshInv, GrantsAreFresh, Agrees
<1>3. QED  BY <1>1, <1>2, FreshNext, TypesAlways, PTL DEF SSpec
=============================================================================
