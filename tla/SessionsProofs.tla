--------------------------- MODULE SessionsProofs ---------------------------
(***************************************************************************)
(* What holds of accounts and refresh tokens for every number of requests, *)
(* logins and passwords: the types, that accounts and revocations are      *)
(* final, that a session whose client sends one request at a time has one  *)
(* live token at most, and that nobody can use a token beside one that it  *)
(* was exchanged for.                                                      *)
(***************************************************************************)
EXTENDS Sessions, TLAPS

\* A request under way is at a statement of its own operation, and the token it
\* presented is in the table.
ControlOK ==
  \A r \in Request :
    /\ pc[r] \in Working => call[r] # None
    /\ pc[r] = "revoke" => call[r].op \in {"Refresh", "Logout"}
    /\ pc[r] = "issue" => call[r].op \in {"Login", "Refresh"}
    /\ pc[r] \in Working /\ call[r].op # "Login" =>
         call[r].token \in Request /\ token[call[r].token] # None

\* A token was issued by a request that has its answer, in a session that a
\* Login of its user began.
TokenOK ==
  \A t \in Request : token[t] # None =>
    LET s == token[t].session
    IN  /\ pc[t] \in {"ok", "error"} /\ pc[s] \in {"ok", "error"}
        /\ call[s] # None /\ call[s].op = "Login" /\ call[s].login = token[t].user

TypeInv == TypeOK /\ ControlOK /\ TokenOK

\* The records of a call, told apart by their field op.
LEMMA CallFields ==
  ASSUME NEW c \in Call
  PROVE  /\ c # None
         /\ c.op \in {"Register", "Login", "Refresh", "Logout"}
         /\ c.op \in {"Register", "Login"} => c.login \in Login
         /\ c.op \in {"Refresh", "Logout"} => c.token \in Request \cup {None}
BY SessionsAssumption DEF Call

\* At first there are no accounts, no tokens and no requests.
LEMMA TypeInit == Init => TypeInv
BY SessionsAssumption DEF Init, TypeInv, TypeOK, ControlOK, TokenOK, Working

\* A request that arrives has its answer, or goes on with a token it presented
\* or as a login.
LEMMA StartType ==
  ASSUME TypeInv, NEW r \in Request, NEW c \in Call,
         NEW p \in Working \cup Replied, Start(r, c, p),
         UNCHANGED token, account' \in [Login -> Password \cup {None}],
         p = "revoke" => c.op \in {"Refresh", "Logout"},
         p = "issue" => c.op = "Login",
         p \in Working /\ c.op # "Login" => c.token \in Request /\ token[c.token] # None
  PROVE  TypeInv'
<1>1. pc[r] = "new" /\ pc'[r] = p /\ call'[r] = c /\ c # None
  BY CallFields DEF TypeInv, TypeOK, Start
<1>2. \A q \in Request \ {r} : pc'[q] = pc[q] /\ call'[q] = call[q]
  BY DEF TypeInv, TypeOK, Start
<1>3. TypeOK'
  BY DEF TypeInv, TypeOK, Start
<1>4. ControlOK'
  BY <1>1, <1>2 DEF TypeInv, ControlOK
<1>5. TokenOK'
  <2>. SUFFICES ASSUME NEW t \in Request, token[t] # None
                PROVE  LET s == token[t].session
                       IN  /\ pc'[t] \in {"ok", "error"} /\ pc'[s] \in {"ok", "error"}
                           /\ call'[s] # None /\ call'[s].op = "Login"
                           /\ call'[s].login = token[t].user
    BY DEF TokenOK
  <2>1. token[t].session \in Request
    BY DEF TypeInv, TypeOK, Row
  <2>2. t # r /\ token[t].session # r
    BY <1>1 DEF TypeInv, TokenOK
  <2>. QED
    BY <1>2, <2>1, <2>2 DEF TypeInv, TokenOK
<1>. QED
  BY <1>3, <1>4, <1>5 DEF TypeInv

\* A request that has begun goes on, or ends, and changes no call.
LEMMA GoOnType ==
  ASSUME TypeInv, NEW r \in Request, Revoke(r) \/ Issue(r) \/ Fail(r)
  PROVE  TypeInv'
<1>1. /\ pc[r] \in Working /\ call[r] # None
      /\ call[r].op # "Login" => call[r].token \in Request /\ token[call[r].token] # None
  BY DEF Revoke, Issue, Fail, TypeInv, ControlOK, Working
<1>2. \A q \in Request \ {r} : pc'[q] = pc[q]
  BY DEF Revoke, Issue, Fail, TypeInv, TypeOK
<1>3. call' = call /\ account' = account
  BY DEF Revoke, Issue, Fail
<1>4. CASE Revoke(r)
  <2>. DEFINE t == call[r].token
  <2>1. t \in Request /\ token[t] \in Row /\ token[t] # None
    BY <1>1, <1>4 DEF Revoke, TypeInv, TypeOK, ControlOK
  <2>2. \A u \in Request : /\ u # t => token'[u] = token[u]
                           /\ token'[u] # None => token[u] # None
    BY <1>4, <2>1 DEF Revoke, TypeInv, TypeOK
  <2>3. token'[t] = [token[t] EXCEPT !.revokedBy = IF @ = None THEN r ELSE @]
    BY <1>4, <2>1 DEF Revoke, TypeInv, TypeOK
  <2>4. token'[t] \in Row /\ token'[t].user = token[t].user
          /\ token'[t].session = token[t].session
    BY <2>1, <2>3 DEF Row
  <2>5. token'[t] # None
    BY <2>4, SessionsAssumption
  <2>6. token' \in [Request -> Row \cup {None}]
    BY <1>4, <2>4 DEF Revoke, TypeInv, TypeOK
  <2>7. pc'[r] \in {"issue", "ok"} /\ (pc'[r] = "issue" => call[r].op = "Refresh")
    BY <1>4 DEF Revoke, TypeInv, TypeOK
  <2>8. TypeOK'
    BY <1>3, <1>4, <2>6 DEF Revoke, TypeInv, TypeOK, Working, Replied
  <2>9. ControlOK'
    BY <1>1, <1>2, <1>3, <2>1, <2>2, <2>5, <2>7 DEF TypeInv, ControlOK, Working
  <2>10. TokenOK'
    <3>. SUFFICES ASSUME NEW u \in Request, token'[u] # None
                  PROVE  LET s == token'[u].session
                         IN  /\ pc'[u] \in {"ok", "error"} /\ pc'[s] \in {"ok", "error"}
                             /\ call'[s] # None /\ call'[s].op = "Login"
                             /\ call'[s].login = token'[u].user
      BY DEF TokenOK
    <3>1. /\ token[u] # None /\ token'[u].user = token[u].user
          /\ token'[u].session = token[u].session
      BY <2>1, <2>2, <2>4
    <3>2. token[u].session \in Request
      BY <3>1 DEF TypeInv, TypeOK, Row
    <3>3. u # r /\ token[u].session # r
      BY <1>1, <3>1 DEF TypeInv, TokenOK, Working
    <3>. QED
      BY <1>2, <1>3, <3>1, <3>2, <3>3 DEF TypeInv, TokenOK
  <2>. QED
    BY <2>8, <2>9, <2>10 DEF TypeInv
<1>5. CASE Issue(r)
  <2>. DEFINE new == token'[r]
  <2>1. /\ call[r].op = "Login" => /\ new.user = call[r].login /\ new.session = r
                                   /\ call[r].login \in Login
        /\ call[r].op # "Login" => /\ new.user = token[call[r].token].user
                                   /\ new.session = token[call[r].token].session
                                   /\ token[call[r].token] \in Row
        /\ new.revokedBy = None /\ new.expired = FALSE
        /\ DOMAIN new = {"user", "session", "revokedBy", "expired"}
    BY <1>1, <1>5, CallFields DEF Issue, SessionOf, TypeInv, TypeOK
  <2>2. new \in Row
    BY <1>1, <1>5, CallFields DEF Issue, SessionOf, TypeInv, TypeOK, Row
  <2>3. \A u \in Request \ {r} : token'[u] = token[u]
    BY <1>5 DEF Issue, TypeInv, TypeOK
  <2>4. token' \in [Request -> Row \cup {None}]
    BY <1>5, <2>2 DEF Issue, TypeInv, TypeOK
  <2>5. pc'[r] \in {"ok", "error"}
    BY <1>5 DEF Issue, TypeInv, TypeOK
  <2>6. TypeOK'
    BY <1>3, <1>5, <2>4 DEF Issue, TypeInv, TypeOK, Working, Replied
  <2>7. ControlOK'
    BY <1>2, <1>3, <2>2, <2>3, <2>5, SessionsAssumption DEF TypeInv, ControlOK, Working
  <2>8. TokenOK'
    <3>. SUFFICES ASSUME NEW u \in Request, token'[u] # None
                  PROVE  LET s == token'[u].session
                         IN  /\ pc'[u] \in {"ok", "error"} /\ pc'[s] \in {"ok", "error"}
                             /\ call'[s] # None /\ call'[s].op = "Login"
                             /\ call'[s].login = token'[u].user
      BY DEF TokenOK
    <3>1. CASE u # r
      BY <1>1, <1>2, <1>3, <2>3, <2>5, <3>1 DEF TypeInv, TypeOK, TokenOK, Row, Working
    <3>2. CASE u = r /\ call[r].op = "Login"
      BY <1>1, <1>3, <2>1, <2>5, <3>2
    <3>3. CASE u = r /\ call[r].op # "Login"
      BY <1>1, <1>2, <1>3, <2>1, <2>5, <3>3 DEF TypeInv, TokenOK, Row
    <3>. QED
      BY <3>1, <3>2, <3>3
  <2>. QED
    BY <2>6, <2>7, <2>8 DEF TypeInv
<1>6. CASE Fail(r)
  <2>1. token' = token /\ pc'[r] = "error"
    BY <1>6 DEF Fail, TypeInv, TypeOK
  <2>2. TypeOK'
    BY <1>3, <1>6, <2>1 DEF Fail, TypeInv, TypeOK, Replied
  <2>3. ControlOK'
    BY <1>2, <1>3, <2>1 DEF TypeInv, ControlOK, Working
  <2>4. TokenOK'
    BY <1>2, <1>3, <2>1 DEF TypeInv, TypeOK, TokenOK, Row
  <2>. QED
    BY <2>2, <2>3, <2>4 DEF TypeInv
<1>. QED
  BY <1>4, <1>5, <1>6

\* A token that runs out is revoked or not as before.
LEMMA ExpireType ==
  ASSUME TypeInv, NEW t \in Request, Expire(t)
  PROVE  TypeInv'
<1>1. token[t] \in Row /\ token' = [token EXCEPT ![t].expired = TRUE]
      /\ UNCHANGED <<account, call, pc>>
  BY DEF Expire, TypeInv, TypeOK
<1>2. token'[t] = [token[t] EXCEPT !.expired = TRUE]
  BY <1>1 DEF TypeInv, TypeOK
<1>3. /\ token'[t] \in Row /\ token'[t] # None
      /\ token'[t].user = token[t].user /\ token'[t].session = token[t].session
  BY <1>1, <1>2, SessionsAssumption DEF Row
<1>4. \A u \in Request \ {t} : token'[u] = token[u]
  BY <1>1 DEF TypeInv, TypeOK
<1>5. token[t] # None
  BY DEF Expire
<1>6. TypeOK'
  BY <1>1, <1>3 DEF TypeInv, TypeOK
<1>7. ControlOK'
  BY <1>1, <1>3, <1>4 DEF TypeInv, ControlOK
<1>8. TokenOK'
  BY <1>1, <1>3, <1>4, <1>5 DEF TypeInv, TokenOK
<1>. QED
  BY <1>6, <1>7, <1>8 DEF TypeInv

\* A request that arrives, seen without its operation: it starts with a token it
\* presented, if it has one to present, and the session of that token is idle.
Arrives(r, c, p) ==
  /\ Start(r, c, p) /\ UNCHANGED token
  /\ account' \in [Login -> Password \cup {None}]
  /\ \A l \in Login : account[l] # None => account'[l] = account[l]
  /\ p = "revoke" => c.op \in {"Refresh", "Logout"} /\ c.token \in Request
                       /\ Known(c.token) /\ SessionIdle(c.token)
                       /\ (c.op = "Refresh" => Usable(c.token))
  /\ p = "issue" => c.op = "Login"

\* What arrives is one of these.
LEMMA Arrivals ==
  ASSUME TypeInv, NEW r \in Request,
         Register(r) \/ LogIn(r) \/ StartRefresh(r) \/ StartLogout(r)
  PROVE  \E c \in Call, p \in Working \cup Replied : Arrives(r, c, p)
<1>1. CASE Register(r)
  <2>. PICK l \in Login, w \in Password :
         \/ /\ account[l] = None /\ account' = [account EXCEPT ![l] = w]
            /\ \E answer \in {"ok", "error"} :
                 Start(r, [op |-> "Register", login |-> l, password |-> w], answer)
         \/ /\ Start(r, [op |-> "Register", login |-> l, password |-> w], "ErrAlreadyExists")
            /\ UNCHANGED account
    BY <1>1 DEF Register
  <2>. DEFINE c == [op |-> "Register", login |-> l, password |-> w]
  <2>1. c \in Call
    BY DEF Call
  <2>2. PICK p \in {"ok", "error", "ErrAlreadyExists"} : Start(r, c, p)
    OBVIOUS
  <2>3. /\ account' \in [Login -> Password \cup {None}]
        /\ \A k \in Login : account[k] # None => account'[k] = account[k]
    BY DEF TypeInv, TypeOK
  <2>4. Arrives(r, c, p)
    BY <1>1, <2>2, <2>3 DEF Arrives, Register
  <2>. QED
    BY <2>1, <2>4 DEF Replied
<1>2. CASE LogIn(r)
  <2>. PICK l \in Login, w \in Password :
         Start(r, [op |-> "Login", login |-> l, password |-> w],
               IF account[l] = w THEN "issue" ELSE "ErrUnauthorized")
    BY <1>2 DEF LogIn
  <2>1. [op |-> "Login", login |-> l, password |-> w] \in Call
    BY DEF Call
  <2>. QED
    BY <1>2, <2>1 DEF LogIn, Arrives, Working, Replied, TypeInv, TypeOK
<1>3. CASE StartRefresh(r)
  <2>. PICK t \in {t \in Request : Known(t)} \cup {None} :
         /\ SessionIdle(t)
         /\ Start(r, [op |-> "Refresh", token |-> t],
                  IF Usable(t) THEN "revoke" ELSE "ErrUnauthorized")
    BY <1>3 DEF StartRefresh
  <2>1. [op |-> "Refresh", token |-> t] \in Call
    BY DEF Call
  <2>. QED
    BY <1>3, <2>1 DEF StartRefresh, Arrives, Working, Replied, Usable, TypeInv, TypeOK
<1>4. CASE StartLogout(r)
  <2>. PICK t \in {t \in Request : Known(t)} \cup {None} :
         /\ SessionIdle(t)
         /\ Start(r, [op |-> "Logout", token |-> t], IF t = None THEN "ok" ELSE "revoke")
    BY <1>4 DEF StartLogout
  <2>1. [op |-> "Logout", token |-> t] \in Call
    BY DEF Call
  <2>. QED
    BY <1>4, <2>1 DEF StartLogout, Arrives, Working, Replied, TypeInv, TypeOK
<1>. QED
  BY <1>1, <1>2, <1>3, <1>4

\* Every step keeps the types.
LEMMA TypeNext == TypeInv /\ [Next]_vars => TypeInv'
<1>. SUFFICES ASSUME TypeInv, [Next]_vars PROVE TypeInv'
  OBVIOUS
<1>1. ASSUME NEW r \in Request, Register(r) \/ LogIn(r) \/ StartRefresh(r) \/ StartLogout(r)
      PROVE  TypeInv'
  <2>. PICK c \in Call, p \in Working \cup Replied : Arrives(r, c, p)
    BY <1>1, Arrivals
  <2>. QED
    BY StartType DEF Arrives, Known, Working, Replied
<1>2. ASSUME NEW r \in Request, Refuse(r) PROVE TypeInv'
  <2>1. /\ pc[r] = "new" /\ pc'[r] = "ErrInvalid" /\ UNCHANGED <<account, token, call>>
        /\ \A q \in Request \ {r} : pc'[q] = pc[q]
    BY <1>2 DEF Refuse, TypeInv, TypeOK
  <2>2. TypeOK'
    BY <1>2, <2>1 DEF Refuse, TypeInv, TypeOK, Replied
  <2>3. ControlOK'
    BY <2>1 DEF TypeInv, ControlOK, Working
  <2>4. TokenOK'
    BY <2>1 DEF TypeInv, TypeOK, TokenOK, Row
  <2>. QED
    BY <2>2, <2>3, <2>4 DEF TypeInv
<1>3. CASE UNCHANGED vars
  BY <1>3 DEF vars, TypeInv, TypeOK, ControlOK, TokenOK
<1>. QED
  BY <1>1, <1>2, <1>3, GoOnType, ExpireType DEF Next

\* The types hold in every reachable state.
LEMMA TypeInvariance == Spec => []TypeInv
BY TypeInit, TypeNext, PTL DEF Spec

\* Every variable keeps its type.
THEOREM SessionsTypeCorrect == Spec => []TypeOK
<1>1. TypeInv => TypeOK
  BY DEF TypeInv
<1>. QED
  BY <1>1, TypeInvariance, PTL

\* The password of an account stays what its first Register made it.
THEOREM AccountsAreKept == Spec => AccountsKept
<1>. DEFINE Step == \A l \in Login : account[l] # None => account'[l] = account[l]
<1>1. TypeInv /\ [Next]_vars => Step
  <2>. SUFFICES ASSUME TypeInv, [Next]_vars PROVE Step
    OBVIOUS
  <2>1. ASSUME NEW r \in Request, Register(r) PROVE Step
    BY <2>1, Arrivals DEF Arrives
  <2>. QED
    BY <2>1 DEF Next, vars, Refuse, LogIn, StartRefresh, StartLogout, Revoke, Issue, Fail, Expire
<1>. QED
  BY <1>1, TypeInvariance, PTL DEF Spec, AccountsKept

\* A revoked token stays revoked, by the request that revoked it first.
THEOREM RevocationsStand == Spec => RevokedOnce
<1>. DEFINE Step == \A t \in Request :
       token[t] # None /\ token[t].revokedBy # None =>
         token'[t] # None /\ token'[t].revokedBy = token[t].revokedBy
<1>1. TypeInv /\ [Next]_vars => Step
  <2>. SUFFICES ASSUME TypeInv, [Next]_vars, NEW t \in Request,
                       token[t] # None, token[t].revokedBy # None
                PROVE  token'[t] # None /\ token'[t].revokedBy = token[t].revokedBy
    OBVIOUS
  <2>0. token[t] \in Row
    BY DEF TypeInv, TypeOK
  <2>1. ASSUME NEW r \in Request, Revoke(r)
        PROVE  token'[t] # None /\ token'[t].revokedBy = token[t].revokedBy
    <3>1. CASE t = call[r].token
      <4>1. token'[t] = [token[t] EXCEPT !.revokedBy = token[t].revokedBy]
        BY <2>1, <3>1 DEF Revoke, TypeInv, TypeOK
      <4>2. token'[t] \in Row /\ token'[t].revokedBy = token[t].revokedBy
        BY <2>0, <4>1 DEF Row
      <4>. QED
        BY <4>2, SessionsAssumption
    <3>2. CASE t # call[r].token
      BY <2>1, <3>2 DEF Revoke, TypeInv, TypeOK
    <3>. QED
      BY <3>1, <3>2
  <2>2. ASSUME NEW r \in Request, Issue(r)
        PROVE  token'[t] # None /\ token'[t].revokedBy = token[t].revokedBy
    <3>1. t # r
      BY <2>2 DEF Issue, TypeInv, TokenOK
    <3>. QED
      BY <2>2, <3>1 DEF Issue, TypeInv, TypeOK
  <2>3. ASSUME NEW u \in Request, Expire(u)
        PROVE  token'[t] # None /\ token'[t].revokedBy = token[t].revokedBy
    <3>1. CASE t = u
      <4>1. token'[t] = [token[t] EXCEPT !.expired = TRUE]
        BY <2>3, <3>1 DEF Expire, TypeInv, TypeOK
      <4>2. token'[t] \in Row /\ token'[t].revokedBy = token[t].revokedBy
        BY <2>0, <4>1 DEF Row
      <4>. QED
        BY <4>2, SessionsAssumption
    <3>2. CASE t # u
      BY <2>3, <3>2 DEF Expire, TypeInv, TypeOK
    <3>. QED
      BY <3>1, <3>2
  <2>. QED
    BY <2>1, <2>2, <2>3
    DEF Next, vars, Refuse, Register, LogIn, StartRefresh, StartLogout, Fail
<1>. QED
  BY <1>1, TypeInvariance, PTL DEF Spec, RevokedOnce

-----------------------------------------------------------------------------
(* Sessions whose requests come one after the other. *)

SerialSession(s) == call[s].login \in Serial

\* Two requests of a serial session are never under way together.
OneAtATime ==
  \A q, r \in Request :
    /\ pc[q] \in Working /\ pc[r] \in Working
    /\ SessionOf(q) = SessionOf(r) /\ SerialSession(SessionOf(r))
    => q = r

\* A Refresh that is about to revoke its token revokes the only live one.
RevokesLast ==
  \A r \in Request :
    pc[r] = "revoke" /\ call[r].op = "Refresh" /\ InSerialSession(call[r].token) =>
      LiveTokens(SessionOf(r)) \subseteq {call[r].token}

SerialInv == OneAtATime /\ RevokesLast /\ OneLiveToken /\ NoTokenWhileRotating

\* The session a request works for has begun, and is serial if the user of the
\* request's token is.
LEMMA SessionFacts ==
  ASSUME TypeInv, NEW r \in Request, pc[r] \in Working
  PROVE  /\ SessionOf(r) \in Request /\ pc[SessionOf(r)] # "new"
         /\ call[r].op # "Login" =>
              /\ token[call[r].token].session = SessionOf(r)
              /\ SerialSession(SessionOf(r)) <=> InSerialSession(call[r].token)
              /\ pc[SessionOf(r)] \in {"ok", "error"}
BY DEF TypeInv, TypeOK, ControlOK, TokenOK, SessionOf, SerialSession, InSerialSession, Row, Working

\* A request that arrives in a serial session is alone in it.
LEMMA ArriveSerial ==
  ASSUME TypeInv, SerialInv, NEW r \in Request, NEW c \in Call,
         NEW p \in Working \cup Replied, Arrives(r, c, p)
  PROVE  SerialInv'
<1>1. pc[r] = "new" /\ pc'[r] = p /\ call'[r] = c /\ token' = token
  BY DEF Arrives, Start, TypeInv, TypeOK
<1>2. \A q \in Request \ {r} : pc'[q] = pc[q] /\ call'[q] = call[q]
  BY DEF Arrives, Start, TypeInv, TypeOK
<1>3. \A s : LiveTokens(s)' = LiveTokens(s)
  BY <1>1 DEF LiveTokens, Usable
<1>4. \A t : InSerialSession(t)' = InSerialSession(t)
  BY <1>1 DEF InSerialSession
<1>5. ASSUME NEW q \in Request \ {r}, pc[q] \in Working
      PROVE  /\ SessionOf(q)' = SessionOf(q) /\ SessionOf(q) # r
             /\ SerialSession(SessionOf(q))' = SerialSession(SessionOf(q))
  BY <1>1, <1>2, <1>5, SessionFacts DEF SessionOf, SerialSession
<1>6. CASE p = "revoke"
  <2>. DEFINE t == c.token  s == token[t].session
  <2>1. /\ t \in Request /\ t # None /\ token[t] # None /\ SessionIdle(t)
        /\ c.op \in {"Refresh", "Logout"} /\ (c.op = "Refresh" => Usable(t))
    BY <1>6, SessionsAssumption DEF Arrives, Known
  <2>2. s \in Request /\ s # r /\ call[s].login = token[t].user
    BY <1>1, <2>1 DEF TypeInv, TypeOK, TokenOK, Row
  <2>3. SessionOf(r)' = s /\ (SerialSession(s)' <=> token[t].user \in Serial)
    BY <1>1, <1>2, <2>1, <2>2 DEF SessionOf, SerialSession
  <2>4. token[t].user \in Serial =>
          \A q \in Request : pc[q] \in Working => SessionOf(q) # s
    BY <2>1 DEF SessionIdle
  <2>5. OneAtATime'
    <3>. SUFFICES ASSUME NEW q1 \in Request, NEW q2 \in Request,
                         pc'[q1] \in Working, pc'[q2] \in Working,
                         SessionOf(q1)' = SessionOf(q2)', SerialSession(SessionOf(q2))'
                  PROVE  q1 = q2
      BY DEF OneAtATime
    <3>1. CASE q1 # r /\ q2 # r
      BY <1>2, <1>5, <3>1 DEF SerialInv, OneAtATime
    <3>2. CASE q1 = r /\ q2 # r
      <4>1. SessionOf(q2) = s
        BY <1>2, <1>5, <2>3, <3>2
      <4>2. SerialSession(s)'
        BY <1>1, <2>3, <3>2 DEF SerialSession
      <4>. QED
        BY <1>2, <2>3, <2>4, <3>2, <4>1, <4>2
    <3>3. CASE q1 # r /\ q2 = r
      <4>1. SessionOf(q1) = s
        BY <1>2, <1>5, <2>3, <3>3
      <4>2. SerialSession(s)'
        BY <1>1, <2>3, <3>3 DEF SerialSession
      <4>. QED
        BY <1>2, <2>3, <2>4, <3>3, <4>1, <4>2
    <3>. QED
      BY <3>1, <3>2, <3>3
  <2>6. RevokesLast'
    <3>. SUFFICES ASSUME NEW q \in Request, pc'[q] = "revoke", call'[q].op = "Refresh",
                         InSerialSession(call'[q].token)
                  PROVE  LiveTokens(SessionOf(q)') \subseteq {call'[q].token}
      BY <1>1, <1>3, <1>4 DEF RevokesLast, InSerialSession, LiveTokens, Usable
    <3>1. CASE q = r
      <4>1. t \in LiveTokens(s) /\ InSerialSession(t)
        BY <1>1, <2>1, <3>1 DEF LiveTokens
      <4>. QED
        BY <1>1, <2>2, <2>3, <3>1, <4>1 DEF SerialInv, OneLiveToken
    <3>2. CASE q # r
      BY <1>2, <1>5, <3>2 DEF SerialInv, RevokesLast, Working
    <3>. QED
      BY <3>1, <3>2
  <2>7. NoTokenWhileRotating'
    <3>. SUFFICES ASSUME NEW q \in Request, pc'[q] = "issue", call'[q].op = "Refresh",
                         InSerialSession(call'[q].token)
                  PROVE  LiveTokens(SessionOf(q)') = {}
      BY <1>1, <1>3, <1>4 DEF NoTokenWhileRotating, InSerialSession, LiveTokens, Usable
    <3>1. q # r
      BY <1>1, <1>6
    <3>. QED
      BY <1>2, <1>5, <3>1 DEF SerialInv, NoTokenWhileRotating, Working
  <2>8. OneLiveToken'
    BY <1>1 DEF SerialInv, OneLiveToken, LiveTokens, Usable, InSerialSession
  <2>. QED
    BY <2>5, <2>6, <2>7, <2>8 DEF SerialInv
<1>7. CASE p # "revoke"
  <2>1. p = "issue" => c.op = "Login" /\ SessionOf(r)' = r
    BY <1>1 DEF Arrives, SessionOf
  <2>2. OneAtATime'
    <3>. SUFFICES ASSUME NEW q1 \in Request, NEW q2 \in Request,
                         pc'[q1] \in Working, pc'[q2] \in Working,
                         SessionOf(q1)' = SessionOf(q2)', SerialSession(SessionOf(q2))'
                  PROVE  q1 = q2
      BY DEF OneAtATime
    <3>1. CASE q1 # r /\ q2 # r
      BY <1>2, <1>5, <3>1 DEF SerialInv, OneAtATime
    <3>2. CASE q1 = r \/ q2 = r
      BY <1>1, <1>2, <1>5, <1>7, <2>1, <3>2 DEF Working
    <3>. QED
      BY <3>1, <3>2
  <2>3. RevokesLast'
    <3>. SUFFICES ASSUME NEW q \in Request, pc'[q] = "revoke", call'[q].op = "Refresh",
                         InSerialSession(call'[q].token)
                  PROVE  LiveTokens(SessionOf(q)') \subseteq {call'[q].token}
      BY <1>1, <1>3, <1>4 DEF RevokesLast, InSerialSession, LiveTokens, Usable
    <3>1. q # r
      BY <1>1, <1>7
    <3>. QED
      BY <1>2, <1>5, <3>1 DEF SerialInv, RevokesLast, Working
  <2>4. NoTokenWhileRotating'
    <3>. SUFFICES ASSUME NEW q \in Request, pc'[q] = "issue", call'[q].op = "Refresh",
                         InSerialSession(call'[q].token)
                  PROVE  LiveTokens(SessionOf(q)') = {}
      BY <1>1, <1>3, <1>4 DEF NoTokenWhileRotating, InSerialSession, LiveTokens, Usable
    <3>1. q # r
      BY <1>1, <2>1
    <3>. QED
      BY <1>2, <1>5, <3>1 DEF SerialInv, NoTokenWhileRotating, Working
  <2>5. OneLiveToken'
    BY <1>1 DEF SerialInv, OneLiveToken, LiveTokens, Usable, InSerialSession
  <2>. QED
    BY <2>2, <2>3, <2>4, <2>5 DEF SerialInv
<1>. QED
  BY <1>6, <1>7

\* A step that keeps the calls and the sessions of tokens, and makes no token
\* live, can only break what it says of the request that moves.
LEMMA ShrinkSerial ==
  ASSUME TypeInv, SerialInv, NEW r \in Request,
         call' = call,
         \A q \in Request \ {r} : pc'[q] = pc[q],
         pc'[r] \in Working => pc[r] \in Working,
         pc'[r] # "revoke" \/ pc[r] = "revoke",
         \A t \in Request : token[t] # None =>
           token'[t].session = token[t].session /\ token'[t].user = token[t].user,
         \A s : LiveTokens(s)' \subseteq LiveTokens(s),
         pc'[r] = "issue" /\ pc[r] # "issue" /\ InSerialSession(call[r].token) =>
           LiveTokens(SessionOf(r))' = {}
  PROVE  SerialInv'
<1>1. ASSUME NEW q \in Request, pc[q] \in Working
      PROVE  /\ SessionOf(q)' = SessionOf(q)
             /\ SerialSession(SessionOf(q))' = SerialSession(SessionOf(q))
             /\ call[q].op # "Login" =>
                  InSerialSession(call[q].token)' = InSerialSession(call[q].token)
  BY <1>1 DEF SessionOf, SerialSession, InSerialSession, TypeInv, ControlOK
<1>2. \A q \in Request : pc'[q] \in Working => pc[q] \in Working
  OBVIOUS
<1>3. OneAtATime'
  <2>. SUFFICES ASSUME NEW q1 \in Request, NEW q2 \in Request,
                       pc'[q1] \in Working, pc'[q2] \in Working,
                       SessionOf(q1)' = SessionOf(q2)', SerialSession(SessionOf(q2))'
                PROVE  q1 = q2
    BY DEF OneAtATime
  <2>. QED
    BY <1>1, <1>2 DEF SerialInv, OneAtATime
<1>4. RevokesLast'
  <2>. SUFFICES ASSUME NEW q \in Request, pc'[q] = "revoke", call[q].op = "Refresh",
                       InSerialSession(call[q].token)'
                PROVE  LiveTokens(SessionOf(q))' \subseteq {call[q].token}
    BY DEF RevokesLast
  <2>1. pc[q] = "revoke"
    OBVIOUS
  <2>2. SessionOf(q)' = SessionOf(q) /\ InSerialSession(call[q].token)
    BY <1>1, <2>1 DEF Working
  <2>3. LiveTokens(SessionOf(q)) \subseteq {call[q].token}
    BY <2>1, <2>2 DEF SerialInv, RevokesLast
  <2>4. LiveTokens(SessionOf(q))' \subseteq LiveTokens(SessionOf(q))
    BY <2>2 DEF LiveTokens
  <2>. QED
    BY <2>3, <2>4
<1>5. NoTokenWhileRotating'
  <2>. SUFFICES ASSUME NEW q \in Request, pc'[q] = "issue", call[q].op = "Refresh",
                       InSerialSession(call[q].token)'
                PROVE  LiveTokens(SessionOf(q))' = {}
    BY DEF NoTokenWhileRotating
  <2>1. SessionOf(q)' = SessionOf(q) /\ InSerialSession(call[q].token)
    BY <1>1, <1>2 DEF Working
  <2>2. CASE pc[q] = "issue"
    <3>1. LiveTokens(SessionOf(q)) = {}
      BY <2>1, <2>2 DEF SerialInv, NoTokenWhileRotating
    <3>2. LiveTokens(SessionOf(q))' \subseteq LiveTokens(SessionOf(q))
      BY <2>1 DEF LiveTokens
    <3>. QED
      BY <3>1, <3>2
  <2>3. CASE pc[q] # "issue"
    BY <2>1, <2>3
  <2>. QED
    BY <2>2, <2>3
<1>6. OneLiveToken'
  <2>. SUFFICES ASSUME NEW s \in Request, NEW t \in LiveTokens(s)', NEW u \in LiveTokens(s)',
                       InSerialSession(t)'
                PROVE  t = u
    BY DEF OneLiveToken
  <2>1. t \in LiveTokens(s) /\ u \in LiveTokens(s)
    OBVIOUS
  <2>2. InSerialSession(t)
    BY <2>1 DEF InSerialSession, LiveTokens
  <2>. QED
    BY <2>1, <2>2 DEF SerialInv, OneLiveToken
<1>. QED
  BY <1>3, <1>4, <1>5, <1>6 DEF SerialInv

\* Revoking a token leaves the other tokens of the session as they are.
LEMMA RevokeSerial ==
  ASSUME TypeInv, SerialInv, NEW r \in Request, Revoke(r)
  PROVE  /\ SerialInv'
         /\ \A s : LiveTokens(s)' \subseteq LiveTokens(s) \ {call[r].token}
<1>. DEFINE t == call[r].token
<1>1. /\ pc[r] = "revoke" /\ call' = call /\ t \in Request /\ t # None
      /\ token[t] # None /\ token[t] \in Row
  BY SessionsAssumption DEF Revoke, TypeInv, TypeOK, ControlOK, Working
<1>2. token'[t] = [token[t] EXCEPT !.revokedBy = IF @ = None THEN r ELSE @]
  BY <1>1 DEF Revoke, TypeInv, TypeOK
<1>3. \A u \in Request \ {t} : token'[u] = token[u]
  BY DEF Revoke, TypeInv, TypeOK
<1>4. /\ token'[t].session = token[t].session /\ token'[t].user = token[t].user
      /\ token'[t].expired = token[t].expired /\ token'[t].revokedBy # None
  BY <1>1, <1>2, SessionsAssumption DEF Row
<1>5. \A s : LiveTokens(s)' \subseteq LiveTokens(s) \ {t}
  BY <1>3, <1>4 DEF LiveTokens, Usable
<1>6. pc'[r] = IF call[r].op = "Refresh" THEN "issue" ELSE "ok"
  BY DEF Revoke, TypeInv, TypeOK
<1>7. \A q \in Request \ {r} : pc'[q] = pc[q]
  BY DEF Revoke, TypeInv, TypeOK
<1>8. ASSUME pc'[r] = "issue", InSerialSession(t)
      PROVE  LiveTokens(SessionOf(r))' = {}
  <2>1. LiveTokens(SessionOf(r)) \subseteq {t}
    BY <1>1, <1>6, <1>8 DEF SerialInv, RevokesLast
  <2>2. SessionOf(r)' = SessionOf(r)
    BY <1>1, <1>4 DEF SessionOf
  <2>3. LiveTokens(SessionOf(r))' \subseteq LiveTokens(SessionOf(r)) \ {t}
    BY <1>5, <2>2 DEF LiveTokens
  <2>. QED
    BY <2>1, <2>3
<1>9. SerialInv'
  BY <1>1, <1>3, <1>4, <1>5, <1>6, <1>7, <1>8, ShrinkSerial DEF Working
<1>. QED
  BY <1>5, <1>9

\* A token is issued into a session that has no live one, by the only request of
\* the session.
LEMMA IssueSerial ==
  ASSUME TypeInv, SerialInv, NEW r \in Request, Issue(r)
  PROVE  SerialInv'
<1>. DEFINE s == SessionOf(r)
<1>1. /\ pc[r] = "issue" /\ pc'[r] \in {"ok", "error"} /\ call' = call
      /\ \A q \in Request \ {r} : pc'[q] = pc[q] /\ token'[q] = token[q]
      /\ token[r] = None
  BY DEF Issue, TypeInv, TypeOK, TokenOK
<1>2. /\ token'[r].session = s
      /\ token'[r].user = IF call[r].op = "Login" THEN call[r].login
                          ELSE token[call[r].token].user
  BY DEF Issue, TypeInv, TypeOK
<1>3. ASSUME NEW q \in Request, pc[q] \in Working
      PROVE  /\ SessionOf(q)' = SessionOf(q)
             /\ SerialSession(SessionOf(q))' = SerialSession(SessionOf(q))
             /\ call[q].op # "Login" =>
                  InSerialSession(call[q].token)' = InSerialSession(call[q].token)
  BY <1>1, <1>3 DEF SessionOf, SerialSession, InSerialSession, TypeInv, ControlOK
<1>4. \A g : LiveTokens(g)' \subseteq LiveTokens(g) \cup {r}
  BY <1>1 DEF LiveTokens, Usable
<1>5. \A g : g # s => LiveTokens(g)' \subseteq LiveTokens(g)
  BY <1>1, <1>2 DEF LiveTokens, Usable
<1>6. ASSUME NEW q \in Request \ {r}, pc[q] \in Working, SerialSession(SessionOf(q))
      PROVE  SessionOf(q) # s
  BY <1>1, <1>6 DEF SerialInv, OneAtATime, Working
<1>7. ASSUME SerialSession(s) PROVE LiveTokens(s) = {}
  <2>1. CASE call[r].op = "Refresh"
    BY <1>1, <1>7, <2>1, SessionFacts DEF SerialInv, NoTokenWhileRotating, Working
  <2>2. CASE call[r].op = "Login"
    BY <1>1, <2>2 DEF LiveTokens, SessionOf, TypeInv, TokenOK
  <2>. QED
    BY <1>1, <2>1, <2>2 DEF TypeInv, ControlOK
<1>8. OneAtATime'
  <2>. SUFFICES ASSUME NEW q1 \in Request, NEW q2 \in Request,
                       pc'[q1] \in Working, pc'[q2] \in Working,
                       SessionOf(q1)' = SessionOf(q2)', SerialSession(SessionOf(q2))'
                PROVE  q1 = q2
    BY DEF OneAtATime
  <2>1. q1 # r /\ q2 # r
    BY <1>1 DEF Working
  <2>. QED
    BY <1>1, <1>3, <2>1 DEF SerialInv, OneAtATime
<1>9. RevokesLast'
  <2>. SUFFICES ASSUME NEW q \in Request, pc'[q] = "revoke", call[q].op = "Refresh",
                       InSerialSession(call[q].token)'
                PROVE  LiveTokens(SessionOf(q))' \subseteq {call[q].token}
    BY <1>1 DEF RevokesLast
  <2>1. q # r /\ pc[q] = "revoke"
    BY <1>1
  <2>2. /\ SessionOf(q)' = SessionOf(q) /\ InSerialSession(call[q].token)
        /\ SerialSession(SessionOf(q))
    BY <1>3, <2>1, SessionFacts DEF Working
  <2>3. LiveTokens(SessionOf(q)) \subseteq {call[q].token}
    BY <2>1, <2>2 DEF SerialInv, RevokesLast
  <2>4. SessionOf(q) # s
    BY <1>6, <2>1, <2>2 DEF Working
  <2>5. LiveTokens(SessionOf(q))' \subseteq LiveTokens(SessionOf(q))
    BY <1>5, <2>2, <2>4 DEF LiveTokens
  <2>. QED
    BY <2>3, <2>5
<1>10. NoTokenWhileRotating'
  <2>. SUFFICES ASSUME NEW q \in Request, pc'[q] = "issue", call[q].op = "Refresh",
                       InSerialSession(call[q].token)'
                PROVE  LiveTokens(SessionOf(q))' = {}
    BY <1>1 DEF NoTokenWhileRotating
  <2>1. q # r /\ pc[q] = "issue"
    BY <1>1
  <2>2. /\ SessionOf(q)' = SessionOf(q) /\ InSerialSession(call[q].token)
        /\ SerialSession(SessionOf(q))
    BY <1>3, <2>1, SessionFacts DEF Working
  <2>3. LiveTokens(SessionOf(q)) = {}
    BY <2>1, <2>2 DEF SerialInv, NoTokenWhileRotating
  <2>4. SessionOf(q) # s
    BY <1>6, <2>1, <2>2 DEF Working
  <2>5. LiveTokens(SessionOf(q))' \subseteq LiveTokens(SessionOf(q))
    BY <1>5, <2>2, <2>4 DEF LiveTokens
  <2>. QED
    BY <2>3, <2>5
<1>11. OneLiveToken'
  <2>. SUFFICES ASSUME NEW g \in Request, NEW t \in LiveTokens(g)', NEW u \in LiveTokens(g)',
                       InSerialSession(t)'
                PROVE  t = u
    BY DEF OneLiveToken
  <2>1. CASE g # s
    <3>1. t \in LiveTokens(g) /\ u \in LiveTokens(g)
      BY <1>5, <2>1
    <3>2. t # r
      BY <1>1, <3>1 DEF LiveTokens
    <3>3. InSerialSession(t)
      BY <1>1, <3>2 DEF InSerialSession, LiveTokens
    <3>. QED
      BY <3>1, <3>3 DEF SerialInv, OneLiveToken
  <2>2. CASE g = s
    <3>1. SerialSession(s)
      <4>1. CASE t = r /\ call[r].op = "Login"
        BY <1>2, <4>1 DEF InSerialSession, SerialSession, SessionOf
      <4>2. CASE t = r /\ call[r].op # "Login"
        BY <1>1, <1>2, <4>2, SessionFacts DEF InSerialSession, Working
      <4>3. CASE t # r
        <5>1. t \in LiveTokens(g) /\ t \in Request
          BY <1>4, <4>3 DEF LiveTokens
        <5>2. token[t].user \in Serial /\ token[t] # None /\ token[t].session = s
          BY <1>1, <2>2, <4>3, <5>1 DEF InSerialSession, LiveTokens
        <5>. QED
          BY <5>1, <5>2 DEF TypeInv, TokenOK, SerialSession
      <4>. QED
        BY <4>1, <4>2, <4>3
    <3>2. LiveTokens(g) = {}
      BY <1>7, <2>2, <3>1
    <3>. QED
      BY <1>4, <3>2
  <2>. QED
    BY <2>1, <2>2
<1>. QED
  BY <1>8, <1>9, <1>10, <1>11 DEF SerialInv

\* Every step keeps the serial sessions in order.
LEMMA SerialNext == TypeInv /\ SerialInv /\ [Next]_vars => SerialInv'
<1>. SUFFICES ASSUME TypeInv, SerialInv, [Next]_vars PROVE SerialInv'
  OBVIOUS
<1>1. ASSUME NEW r \in Request, Register(r) \/ LogIn(r) \/ StartRefresh(r) \/ StartLogout(r)
      PROVE  SerialInv'
  BY <1>1, Arrivals, ArriveSerial
<1>2. ASSUME NEW r \in Request, Refuse(r) \/ Fail(r) PROVE SerialInv'
  <2>1. /\ call' = call /\ token' = token /\ pc'[r] \in {"ErrInvalid", "error"}
        /\ \A q \in Request \ {r} : pc'[q] = pc[q]
    BY <1>2 DEF Refuse, Fail, TypeInv, TypeOK
  <2>2. \A s : LiveTokens(s)' \subseteq LiveTokens(s)
    BY <2>1 DEF LiveTokens, Usable
  <2>. QED
    BY <2>1, <2>2, ShrinkSerial DEF Working
<1>3. ASSUME NEW t \in Request, Expire(t) PROVE SerialInv'
  <2>1. /\ call' = call /\ pc' = pc /\ token[t] \in Row
        /\ token'[t] = [token[t] EXCEPT !.expired = TRUE]
        /\ \A u \in Request \ {t} : token'[u] = token[u]
    BY <1>3 DEF Expire, TypeInv, TypeOK
  <2>2. /\ token'[t].session = token[t].session /\ token'[t].user = token[t].user
        /\ token'[t].expired
    BY <2>1 DEF Row
  <2>3. \A s : LiveTokens(s)' \subseteq LiveTokens(s)
    BY <2>1, <2>2 DEF LiveTokens, Usable
  <2>. QED
    BY <2>1, <2>2, <2>3, ShrinkSerial
<1>4. CASE UNCHANGED vars
  <2>1. SerialInv' = SerialInv
    BY <1>4 DEF vars, SerialInv, OneAtATime, RevokesLast, OneLiveToken, NoTokenWhileRotating,
                SessionOf, SerialSession, InSerialSession, LiveTokens, Usable
  <2>. QED
    BY <2>1
<1>. QED
  BY <1>1, <1>2, <1>3, <1>4, RevokeSerial, IssueSerial DEF Next

\* The order holds in every reachable state.
LEMMA SerialInvariance == Spec => []SerialInv
<1>1. Init => SerialInv
  BY DEF Init, SerialInv, OneAtATime, RevokesLast, OneLiveToken, NoTokenWhileRotating,
         LiveTokens, Working
<1>. QED
  BY <1>1, SerialNext, TypeInvariance, PTL DEF Spec

\* A serial session has one live token at most, whatever fails.
THEOREM OneTokenEach == Spec => []OneLiveToken
<1>1. SerialInv => OneLiveToken
  BY DEF SerialInv
<1>. QED
  BY <1>1, SerialInvariance, PTL

\* It has none while a Refresh is between its two statements.
THEOREM NoneWhileRotating == Spec => []NoTokenWhileRotating
<1>1. SerialInv => NoTokenWhileRotating
  BY DEF SerialInv
<1>. QED
  BY <1>1, SerialInvariance, PTL

\* And none once the Logout of its live token is answered.
THEOREM LogoutsEndSessions == Spec => LogoutEndsSession
<1>. DEFINE Step == \A r \in Request :
       /\ pc[r] = "revoke" /\ pc'[r] = "ok"
       /\ Usable(call[r].token) /\ InSerialSession(call[r].token)
       => LiveTokens(SessionOf(r))' = {}
<1>1. TypeInv /\ SerialInv /\ [Next]_vars => Step
  <2>. SUFFICES ASSUME TypeInv, SerialInv, [Next]_vars, NEW r \in Request,
                       pc[r] = "revoke", pc'[r] = "ok",
                       Usable(call[r].token), InSerialSession(call[r].token)
                PROVE  LiveTokens(SessionOf(r))' = {}
    OBVIOUS
  <2>. DEFINE t == call[r].token
  <2>1. Revoke(r)
    BY DEF Next, vars, Refuse, Register, LogIn, StartRefresh, StartLogout, Start,
           Revoke, Issue, Fail, Expire, TypeInv, TypeOK
  <2>2. /\ t \in Request /\ token[t] # None /\ call[r].op # "Login"
        /\ token[t].session = SessionOf(r) /\ SessionOf(r) \in Request
    BY SessionFacts DEF TypeInv, ControlOK, Working
  <2>3. t \in LiveTokens(SessionOf(r))
    BY <2>2 DEF LiveTokens
  <2>4. LiveTokens(SessionOf(r)) \subseteq {t}
    BY <2>2, <2>3 DEF SerialInv, OneLiveToken
  <2>5. SessionOf(r)' = SessionOf(r)
    <3>1. call' = call /\ token'[t].session = token[t].session
      BY <2>1, <2>2 DEF Revoke, TypeInv, TypeOK, Row
    <3>. QED
      BY <2>2, <3>1 DEF SessionOf
  <2>6. LiveTokens(SessionOf(r))' \subseteq LiveTokens(SessionOf(r)) \ {t}
    BY <2>1, <2>5, RevokeSerial DEF LiveTokens
  <2>. QED
    BY <2>4, <2>6
<1>. QED
  BY <1>1, TypeInvariance, SerialInvariance, PTL DEF Spec, LogoutEndsSession

-----------------------------------------------------------------------------
(* What holds of every session, those of clients that race included.          *)

\* The token that request r, a Refresh, has exchanged or is about to.
Exchanges(r, t) ==
  /\ call[r] # None /\ call[r].op = "Refresh" /\ call[r].token = t
  /\ pc[r] = "issue" \/ token[r] # None

\* A token that has been exchanged is revoked, and what it was exchanged for is of its
\* user and its session: no token can be used beside one that descends from it.
ExchangedIsSpent ==
  \A r \in Request, t \in Request \cup {None} : Exchanges(r, t) =>
    /\ t \in Request /\ token[t] # None /\ token[t].revokedBy # None
    /\ token[r] # None =>
         token[r].user = token[t].user /\ token[r].session = token[t].session

\* No row is deleted, none changes its user or session, and none is unrevoked.
LEMMA RowsStay ==
  ASSUME TypeInv, [Next]_vars, NEW t \in Request, token[t] # None
  PROVE  /\ token'[t] # None
         /\ token'[t].user = token[t].user /\ token'[t].session = token[t].session
         /\ token[t].revokedBy # None => token'[t].revokedBy # None
<1>0. token[t] \in Row
  BY DEF TypeInv, TypeOK
<1>1. CASE token' = token
  BY <1>1
<1>2. ASSUME NEW r \in Request, Revoke(r)
      PROVE  \/ token'[t] = token[t]
             \/ token'[t] = [token[t] EXCEPT !.revokedBy = IF @ = None THEN r ELSE @]
  BY <1>2 DEF Revoke, TypeInv, TypeOK
<1>3. ASSUME NEW r \in Request, Issue(r) PROVE token'[t] = token[t]
  <2>1. t # r
    BY <1>3 DEF Issue, TypeInv, TokenOK
  <2>. QED
    BY <1>3, <2>1 DEF Issue, TypeInv, TypeOK
<1>4. ASSUME NEW r \in Request, Expire(r)
      PROVE  token'[t] = token[t] \/ token'[t] = [token[t] EXCEPT !.expired = TRUE]
  BY <1>4 DEF Expire, TypeInv, TypeOK
<1>5. ASSUME NEW r \in Request,
             token'[t] \in {token[t], [token[t] EXCEPT !.expired = TRUE],
                            [token[t] EXCEPT !.revokedBy = IF @ = None THEN r ELSE @]}
      PROVE  /\ token'[t] # None
             /\ token'[t].user = token[t].user /\ token'[t].session = token[t].session
             /\ token[t].revokedBy # None => token'[t].revokedBy # None
  <2>1. token'[t] \in Row
    BY <1>0, <1>5 DEF Row
  <2>2. token'[t] # None
    BY <2>1, SessionsAssumption
  <2>. QED
    BY <1>0, <1>5, <2>2 DEF Row
<1>. QED
  BY <1>1, <1>2, <1>3, <1>4, <1>5
  DEF Next, vars, Refuse, Register, LogIn, StartRefresh, StartLogout, Fail

\* What has been exchanged for a token stays so, and only a Refresh that has just
\* revoked it, or has just issued the next, says something new.
LEMMA ExchangedNext ==
  ASSUME TypeInv, ExchangedIsSpent, [Next]_vars
  PROVE  ExchangedIsSpent'
<1>1. ASSUME NEW r \in Request, NEW t \in Request, Exchanges(r, t),
             token'[r] = token[r] \/ token[r] # None
      PROVE  /\ token'[t] # None /\ token'[t].revokedBy # None
             /\ token'[r] # None =>
                  token'[r].user = token'[t].user /\ token'[r].session = token'[t].session
  BY <1>1, RowsStay DEF ExchangedIsSpent
<1>. SUFFICES ASSUME NEW r \in Request, NEW t \in Request \cup {None}, Exchanges(r, t)'
              PROVE  /\ t \in Request /\ token'[t] # None /\ token'[t].revokedBy # None
                     /\ token'[r] # None => /\ token'[r].user = token'[t].user
                                            /\ token'[r].session = token'[t].session
  BY DEF ExchangedIsSpent
<1>2. ASSUME Exchanges(r, t), token'[r] = token[r] \/ token[r] # None
      PROVE  /\ t \in Request /\ token'[t] # None /\ token'[t].revokedBy # None
             /\ token'[r] # None => /\ token'[r].user = token'[t].user
                                    /\ token'[r].session = token'[t].session
  BY <1>1, <1>2 DEF ExchangedIsSpent
<1>3. ASSUME NEW q \in Request, Register(q) \/ LogIn(q) \/ StartRefresh(q) \/ StartLogout(q)
      PROVE  Exchanges(r, t) /\ token'[r] = token[r]
  <2>. PICK c \in Call, p \in Working \cup Replied : Arrives(q, c, p)
    BY <1>3, Arrivals
  <2>1. token' = token /\ \A u \in Request \ {q} : pc'[u] = pc[u] /\ call'[u] = call[u]
    BY DEF Arrives, Start, TypeInv, TypeOK
  <2>2. pc'[q] = p /\ call'[q] = c /\ token[q] = None
    BY DEF Arrives, Start, TypeInv, TypeOK, TokenOK
  <2>3. q # r
    BY <2>1, <2>2 DEF Exchanges, Arrives
  <2>. QED
    BY <2>1, <2>3 DEF Exchanges
<1>4. ASSUME NEW q \in Request, Refuse(q) \/ Fail(q)
      PROVE  Exchanges(r, t) /\ token'[r] = token[r]
  BY <1>4 DEF Refuse, Fail, Exchanges, TypeInv, TypeOK
<1>5. ASSUME NEW q \in Request, Expire(q)
      PROVE  Exchanges(r, t) /\ (token'[r] = token[r] \/ token[r] # None)
  BY <1>5 DEF Expire, Exchanges, TypeInv, TypeOK
<1>6. ASSUME NEW q \in Request, Revoke(q)
      PROVE  /\ t \in Request /\ token'[t] # None /\ token'[t].revokedBy # None
             /\ token'[r] # None => /\ token'[r].user = token'[t].user
                                    /\ token'[r].session = token'[t].session
  <2>0. /\ call' = call /\ token[q] = None
        /\ call[q].token \in Request /\ token[call[q].token] # None
        /\ \A u \in Request : u # call[q].token => token'[u] = token[u]
    BY <1>6 DEF Revoke, TypeInv, TypeOK, ControlOK, TokenOK, Working
  <2>1. CASE r # q
    <3>1. pc'[r] = pc[r] /\ (token'[r] = token[r] \/ token[r] # None)
      BY <1>6, <2>0, <2>1 DEF Revoke, TypeInv, TypeOK
    <3>. QED
      BY <1>2, <2>0, <3>1 DEF Exchanges
  <2>2. CASE r = q
    <3>1. t = call[q].token /\ t \in Request /\ token[t] \in Row
      BY <2>0, <2>2 DEF Exchanges, TypeInv, TypeOK
    <3>2. token'[t].revokedBy # None
      BY <1>6, <3>1, SessionsAssumption DEF Revoke, TypeInv, TypeOK, Row
    <3>3. token'[t] # None /\ token'[r] = None
      BY <2>0, <2>2, <3>1, RowsStay
    <3>. QED
      BY <3>1, <3>2, <3>3
  <2>. QED
    BY <2>1, <2>2
<1>7. ASSUME NEW q \in Request, Issue(q)
      PROVE  /\ t \in Request /\ token'[t] # None /\ token'[t].revokedBy # None
             /\ token'[r] # None => /\ token'[r].user = token'[t].user
                                    /\ token'[r].session = token'[t].session
  <2>0. /\ call' = call /\ token[q] = None /\ pc[q] = "issue"
        /\ \A u \in Request \ {q} : token'[u] = token[u] /\ pc'[u] = pc[u]
    BY <1>7 DEF Issue, TypeInv, TypeOK, TokenOK
  <2>1. CASE r # q
    BY <1>2, <2>0, <2>1 DEF Exchanges
  <2>2. CASE r = q
    <3>1. Exchanges(r, t) /\ call[r].op = "Refresh" /\ call[r].token = t
      BY <2>0, <2>2 DEF Exchanges
    <3>2. t \in Request /\ token[t] # None /\ token[t].revokedBy # None
      BY <3>1 DEF ExchangedIsSpent
    <3>3. t # q /\ token'[t] = token[t]
      BY <2>0, <3>2
    <3>4. token'[r].user = token[t].user /\ token'[r].session = token[t].session
      BY <1>7, <2>2, <3>1 DEF Issue, SessionOf, TypeInv, TypeOK
    <3>. QED
      BY <3>2, <3>3, <3>4
  <2>. QED
    BY <2>1, <2>2
<1>8. CASE UNCHANGED vars
  BY <1>2, <1>8 DEF vars, Exchanges
<1>. QED
  BY <1>2, <1>3, <1>4, <1>5, <1>6, <1>7, <1>8 DEF Next

\* However often a client repeats a Refresh or races with itself, a token that was
\* exchanged is spent: Refresh revokes before it issues, so every Refresh that reads the
\* token after the next was issued is refused.
THEOREM ExchangedTokensAreSpent == Spec => []ExchangedIsSpent
<1>1. Init => ExchangedIsSpent
  BY DEF Init, ExchangedIsSpent, Exchanges
<1>2. TypeInv /\ ExchangedIsSpent /\ [Next]_vars => ExchangedIsSpent'
  BY ExchangedNext
<1>. QED
  BY <1>1, <1>2, TypeInvariance, PTL DEF Spec
=============================================================================
