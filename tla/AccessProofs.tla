---------------------------- MODULE AccessProofs ----------------------------
(***************************************************************************)
(* What holds of access tokens for every number of requests, logins and    *)
(* roles: the steps are those of Sessions, so that all that is proved of   *)
(* them holds here too; the middleware lets through what the account was   *)
(* registered for; and a session that is over stays over.                  *)
(***************************************************************************)
EXTENDS Access, SessionsProofs

\* Every step is one of Sessions, or changes access tokens only.
THEOREM AccessImplementsSessions == AccessSpec => Spec
<1>1. AccessInit => Init
  BY DEF AccessInit
<1>2. [AccessNext]_accessVars => [Next]_vars
  BY DEF AccessNext, accessVars, RegisterAs, IssuePair, ExpireAccess, OtherStep, Next, vars
<1>. QED
  BY <1>1, <1>2, PTL DEF AccessSpec, Spec

\* The user of a token, and of a login that is about to get one, has an account.
UserOK ==
  /\ \A t \in Request : token[t] # None => account[token[t].user] # None
  /\ \A r \in Request : pc[r] = "issue" /\ call[r].op = "Login" =>
       account[call[r].login] # None

\* An account has a role, and an access token says whose it is, and which.
ClaimsOK ==
  /\ \A l \in Login : account[l] # None => role[l] # None
  /\ \A t \in Request : access[t] # None =>
       /\ token[t] # None
       /\ access[t].user = token[t].user
       /\ access[t].role = role[token[t].user]

AccessInv == TypeInv /\ AccessTypeOK /\ UserOK /\ ClaimsOK

-----------------------------------------------------------------------------
(* What a step of Sessions may do to one token and one request. *)

\* A token keeps its session and user, and never becomes usable again.
LEMMA TokensKept ==
  ASSUME TypeInv, [Next]_vars, NEW t \in Request, token[t] # None
  PROVE  /\ token'[t] # None
         /\ token'[t].user = token[t].user /\ token'[t].session = token[t].session
         /\ Usable(t)' => Usable(t)
<1>1. token[t] \in Row
  BY DEF TypeInv, TypeOK
<1>2. ASSUME token'[t] \in Row, token'[t].user = token[t].user,
             token'[t].session = token[t].session,
             token[t].expired => token'[t].expired,
             token[t].revokedBy # None => token'[t].revokedBy # None
      PROVE  /\ token'[t] # None
             /\ token'[t].user = token[t].user /\ token'[t].session = token[t].session
             /\ Usable(t)' => Usable(t)
  BY <1>2, SessionsAssumption DEF Usable
<1>3. ASSUME NEW r \in Request, Revoke(r), t = call[r].token
      PROVE  token'[t] = [token[t] EXCEPT !.revokedBy = IF @ = None THEN r ELSE @]
  BY <1>3 DEF Revoke, TypeInv, TypeOK
<1>4. None \notin Request
  BY SessionsAssumption
<1>5. ASSUME NEW r \in Request, Revoke(r)
      PROVE  /\ token'[t] \in Row /\ token'[t].user = token[t].user
             /\ token'[t].session = token[t].session
             /\ token[t].expired => token'[t].expired
             /\ token[t].revokedBy # None => token'[t].revokedBy # None
  <2>1. CASE t = call[r].token
    BY <1>1, <1>3, <1>4, <1>5, <2>1 DEF Row
  <2>2. CASE t # call[r].token
    BY <1>1, <1>5, <2>2 DEF Revoke, TypeInv, TypeOK
  <2>. QED
    BY <2>1, <2>2
<1>6. ASSUME NEW r \in Request, Issue(r) PROVE token'[t] = token[t]
  <2>1. t # r
    BY <1>6 DEF Issue, TypeInv, TokenOK
  <2>. QED
    BY <1>6, <2>1 DEF Issue, TypeInv, TypeOK
<1>7. ASSUME NEW r \in Request, Expire(r)
      PROVE  /\ token'[t] \in Row /\ token'[t].user = token[t].user
             /\ token'[t].session = token[t].session
             /\ token[t].expired => token'[t].expired
             /\ token'[t].revokedBy = token[t].revokedBy
  <2>1. CASE t = r
    <3>1. token'[t] = [token[t] EXCEPT !.expired = TRUE]
      BY <1>7, <2>1 DEF Expire, TypeInv, TypeOK
    <3>. QED
      BY <1>1, <3>1 DEF Row
  <2>2. CASE t # r
    BY <1>1, <1>7, <2>2 DEF Expire, TypeInv, TypeOK
  <2>. QED
    BY <2>1, <2>2
<1>8. CASE UNCHANGED token
  BY <1>1, <1>2, <1>8
<1>. QED
  BY <1>1, <1>2, <1>5, <1>6, <1>7, <1>8
  DEF Next, vars, Refuse, Register, LogIn, StartRefresh, StartLogout, Fail

\* A new row is the one that its request has just issued.
LEMMA TokensIssued ==
  ASSUME TypeInv, [Next]_vars, NEW t \in Request, token[t] = None, token'[t] # None
  PROVE  /\ Issue(t) /\ pc[t] = "issue" /\ call[t].op \in {"Login", "Refresh"}
         /\ token'[t].session = SessionOf(t)
         /\ call[t].op = "Login" => token'[t].user = call[t].login
         /\ call[t].op = "Refresh" => token'[t].user = token[call[t].token].user
<1>1. ASSUME NEW r \in Request, Revoke(r) PROVE FALSE
  <2>1. call[r].token \in Request /\ token[call[r].token] # None
    BY <1>1 DEF Revoke, TypeInv, ControlOK, Working
  <2>. QED
    BY <1>1, <2>1 DEF Revoke, TypeInv, TypeOK
<1>2. ASSUME NEW r \in Request, Expire(r) PROVE FALSE
  BY <1>2 DEF Expire, TypeInv, TypeOK
<1>3. ASSUME NEW r \in Request, Issue(r), r # t PROVE FALSE
  BY <1>3 DEF Issue, TypeInv, TypeOK
<1>4. Issue(t)
  BY <1>1, <1>2, <1>3
  DEF Next, vars, Refuse, Register, LogIn, StartRefresh, StartLogout, Fail
<1>. QED
  BY <1>4 DEF Issue, TypeInv, TypeOK, ControlOK

\* A Refresh that is under way was, or has just read a token that is usable.
LEMMA RefreshesStart ==
  ASSUME TypeInv, [Next]_vars, NEW q \in Request,
         pc'[q] \in Working, call'[q].op = "Refresh"
  PROVE  \/ pc[q] \in Working /\ call'[q] = call[q]
         \/ /\ call'[q].token \in Request /\ token[call'[q].token] # None
            /\ Usable(call'[q].token) /\ token' = token
<1>1. ASSUME NEW r \in Request, Register(r) \/ LogIn(r) \/ StartRefresh(r) \/ StartLogout(r)
      PROVE  \/ pc[q] \in Working /\ call'[q] = call[q]
             \/ /\ call'[q].token \in Request /\ token[call'[q].token] # None
                /\ Usable(call'[q].token) /\ token' = token
  <2>1. PICK c \in Call, p \in Working \cup Replied : Arrives(r, c, p)
    BY <1>1, Arrivals
  <2>2. CASE q = r
    <3>1. call'[q] = c /\ pc'[q] = p
      BY <2>1, <2>2 DEF Arrives, Start, TypeInv, TypeOK
    <3>2. p = "revoke"
      BY <2>1, <3>1 DEF Arrives, Working
    <3>. QED
      BY <2>1, <3>1, <3>2 DEF Arrives, Known
  <2>3. CASE q # r
    BY <2>1, <2>3 DEF Arrives, Start, TypeInv, TypeOK
  <2>. QED
    BY <2>2, <2>3
<1>2. ASSUME NEW r \in Request, Refuse(r) \/ Revoke(r) \/ Issue(r) \/ Fail(r)
      PROVE  pc[q] \in Working /\ call'[q] = call[q]
  BY <1>2 DEF Refuse, Revoke, Issue, Fail, Working, TypeInv, TypeOK
<1>3. CASE UNCHANGED <<call, pc>>
  BY <1>3
<1>. QED
  BY <1>1, <1>2, <1>3 DEF Next, vars, Expire

-----------------------------------------------------------------------------
(* What a step does to accounts, roles and access tokens. *)

\* An account that is there stays, with its password and its role.
LEMMA RolesKept ==
  ASSUME TypeInv, AccessTypeOK, [AccessNext]_accessVars, NEW l \in Login, account[l] # None
  PROVE  account'[l] = account[l] /\ role'[l] = role[l]
<1>1. ASSUME NEW r \in Request, Register(r) PROVE account'[l] = account[l]
  BY <1>1, Arrivals DEF Arrives
<1>. QED
  BY <1>1 DEF AccessNext, accessVars, RegisterAs, IssuePair, ExpireAccess, OtherStep,
     Refuse, LogIn, StartRefresh, StartLogout, Revoke, Issue, Fail, Expire

\* An access token is new, and then says what its account is, or says what it
\* said before, but that its time may be over.
LEMMA ClaimsKept ==
  ASSUME TypeInv, AccessTypeOK, [AccessNext]_accessVars, NEW t \in Request, access'[t] # None
  PROVE  \/ Issue(t) /\ role' = role /\ access'[t] =
              [user |-> token'[t].user, role |-> role[token'[t].user], expired |-> FALSE]
         \/ /\ access[t] # None
            /\ access'[t].user = access[t].user /\ access'[t].role = access[t].role
            /\ access[t].expired => access'[t].expired
<1>1. ASSUME NEW r \in Request, IssuePair(r), r = t
      PROVE  Issue(t) /\ role' = role /\ access'[t] =
               [user |-> token'[t].user, role |-> role[token'[t].user], expired |-> FALSE]
  BY <1>1 DEF IssuePair, AccessTypeOK
<1>2. ASSUME NEW r \in Request, IssuePair(r), r # t PROVE access'[t] = access[t]
  BY <1>2 DEF IssuePair, AccessTypeOK
<1>3. ASSUME NEW r \in Request, ExpireAccess(r), r = t
      PROVE  /\ access[t] # None
             /\ access'[t].user = access[t].user /\ access'[t].role = access[t].role
             /\ access[t].expired => access'[t].expired
  <2>1. access[t] \in Claims /\ access'[t] = [access[t] EXCEPT !.expired = TRUE]
    BY <1>3 DEF ExpireAccess, AccessTypeOK
  <2>. QED
    BY <1>3, <2>1 DEF ExpireAccess, Claims
<1>4. ASSUME NEW r \in Request, ExpireAccess(r), r # t PROVE access'[t] = access[t]
  BY <1>4 DEF ExpireAccess, AccessTypeOK
<1>5. ASSUME UNCHANGED access PROVE access'[t] = access[t]
  BY <1>5
<1>. QED
  BY <1>1, <1>2, <1>3, <1>4, <1>5 DEF AccessNext, accessVars, RegisterAs, OtherStep

-----------------------------------------------------------------------------
(* The invariant. *)

\* At first there are no accounts, and no tokens of either kind.
LEMMA AccessInvInit == AccessInit => AccessInv
<1>. SUFFICES ASSUME AccessInit PROVE AccessInv
  OBVIOUS
<1>1. TypeInv
  BY TypeInit DEF AccessInit
<1>. QED
  BY <1>1 DEF AccessInit, Init, AccessInv, TypeInv, AccessTypeOK, UserOK, ClaimsOK

\* A login on its way to a token has found an account.
LEMMA LoginsFind ==
  ASSUME TypeInv, UserOK, [Next]_vars, NEW r \in Request,
         pc'[r] = "issue", call'[r].op = "Login"
  PROVE  call'[r].login \in Login /\ account[call'[r].login] # None
<1>1. CASE pc[r] = "issue" /\ call'[r] = call[r]
  <2>1. call[r] \in Call
    BY <1>1 DEF TypeInv, TypeOK, ControlOK, Working
  <2>. QED
    BY <1>1, <2>1, CallFields DEF UserOK
<1>2. ASSUME NEW q \in Request, LogIn(q) PROVE
        \/ pc[r] = "issue" /\ call'[r] = call[r]
        \/ call'[r].login \in Login /\ account[call'[r].login] # None
  <2>. PICK l \in Login, w \in Password :
         Start(q, [op |-> "Login", login |-> l, password |-> w],
               IF account[l] = w THEN "issue" ELSE "ErrUnauthorized")
    BY <1>2 DEF LogIn
  <2>1. CASE q = r
    BY <2>1, SessionsAssumption DEF Start, TypeInv, TypeOK
  <2>2. CASE q # r
    BY <2>2 DEF Start, TypeInv, TypeOK
  <2>. QED
    BY <2>1, <2>2
<1>3. ASSUME NEW q \in Request, Revoke(q)
      PROVE  pc[r] = "issue" /\ call'[r] = call[r]
  BY <1>3 DEF Revoke, TypeInv, TypeOK
<1>4. ASSUME NEW q \in Request, Refuse(q) \/ Issue(q) \/ Fail(q) \/ Expire(q)
      PROVE  pc[r] = "issue" /\ call'[r] = call[r]
  BY <1>4 DEF Refuse, Issue, Fail, Expire, TypeInv, TypeOK
<1>5. ASSUME NEW q \in Request, Register(q) \/ StartRefresh(q) \/ StartLogout(q)
      PROVE  pc[r] = "issue" /\ call'[r] = call[r]
  BY <1>5 DEF Register, StartRefresh, StartLogout, Start, TypeInv, TypeOK
<1>6. CASE UNCHANGED vars
  BY <1>1, <1>6 DEF vars
<1>. QED
  BY <1>1, <1>2, <1>3, <1>4, <1>5, <1>6 DEF Next

\* Every step keeps it.
LEMMA AccessInvNext == AccessInv /\ [AccessNext]_accessVars => AccessInv'
<1>. SUFFICES ASSUME AccessInv, [AccessNext]_accessVars PROVE AccessInv'
  OBVIOUS
<1>. USE DEF AccessInv
<1>1. [Next]_vars
  BY DEF AccessNext, accessVars, RegisterAs, IssuePair, ExpireAccess, OtherStep, Next, vars
<1>2. TypeInv'
  BY <1>1, TypeNext
<1>3. \A t \in Request : token'[t] # None =>
        token'[t].user \in Login /\ account[token'[t].user] # None
  <2>. SUFFICES ASSUME NEW t \in Request, token'[t] # None
                PROVE  token'[t].user \in Login /\ account[token'[t].user] # None
    OBVIOUS
  <2>1. token'[t].user \in Login
    BY <1>2 DEF TypeInv, TypeOK, Row
  <2>2. CASE token[t] # None
    BY <1>1, <2>1, <2>2, TokensKept DEF UserOK
  <2>3. CASE token[t] = None
    <3>1. /\ pc[t] = "issue" /\ call[t].op \in {"Login", "Refresh"}
          /\ call[t].op = "Login" => token'[t].user = call[t].login
          /\ call[t].op = "Refresh" => token'[t].user = token[call[t].token].user
      BY <1>1, <2>3, TokensIssued
    <3>. QED
      BY <2>1, <3>1 DEF UserOK, TypeInv, ControlOK, Working
  <2>. QED
    BY <2>2, <2>3
<1>4. UserOK'
  BY <1>1, <1>3, LoginsFind, RolesKept DEF UserOK
<1>5. role' \in [Login -> Roles \cup {None}]
  BY DEF AccessNext, accessVars, RegisterAs, IssuePair, ExpireAccess, OtherStep, AccessTypeOK
<1>6. \A l \in Login : account'[l] # None => role'[l] # None
  <2>1. ASSUME NEW r \in Request, RegisterAs(r)
        PROVE  \A l \in Login : account'[l] # None => role'[l] # None
    BY <2>1, AccessAssumption DEF RegisterAs, ClaimsOK, Role
  <2>. QED
    BY <2>1 DEF AccessNext, accessVars, IssuePair, ExpireAccess, OtherStep, ClaimsOK,
       Refuse, LogIn, StartRefresh, StartLogout, Revoke, Issue, Fail, Expire
<1>7. ASSUME NEW t \in Request, Issue(t) PROVE token'[t] \in Row /\ token'[t] # None
  <2>1. call[t] \in Call /\ pc[t] = "issue"
    BY <1>7 DEF Issue, TypeInv, TypeOK, ControlOK, Working
  <2>2. token'[t] \in Row
    BY <1>7, <2>1, CallFields DEF Issue, SessionOf, TypeInv, TypeOK, ControlOK, Working, Row
  <2>. QED
    BY <2>2, SessionsAssumption
<1>8. ASSUME NEW t \in Request, access'[t] # None
      PROVE  /\ token'[t] # None
             /\ access'[t].user = token'[t].user
             /\ access'[t].role = role'[token'[t].user]
  <2>1. CASE Issue(t) /\ role' = role /\ access'[t] =
               [user |-> token'[t].user, role |-> role[token'[t].user], expired |-> FALSE]
    BY <1>7, <2>1
  <2>2. CASE /\ access[t] # None
             /\ access'[t].user = access[t].user /\ access'[t].role = access[t].role
    <3>1. /\ token[t] # None /\ access[t].user = token[t].user
          /\ access[t].role = role[token[t].user]
      BY <2>2 DEF ClaimsOK
    <3>2. token'[t] # None /\ token'[t].user = token[t].user
      BY <1>1, <3>1, TokensKept
    <3>3. role'[token[t].user] = role[token[t].user]
      BY <1>3, <3>2, RolesKept
    <3>. QED
      BY <2>2, <3>1, <3>2, <3>3
  <2>. QED
    BY <1>8, <2>1, <2>2, ClaimsKept
<1>9. ClaimsOK'
  BY <1>6, <1>8 DEF ClaimsOK
<1>10. access' \in [Request -> Claims \cup {None}]
  <2>1. ASSUME NEW r \in Request, IssuePair(r) PROVE access' \in [Request -> Claims \cup {None}]
    <3>. DEFINE l == token'[r].user
    <3>1. /\ Issue(r)
          /\ access' = [access EXCEPT ![r] = [user |-> l, role |-> role[l], expired |-> FALSE]]
      BY <2>1 DEF IssuePair
    <3>2. l \in Login /\ account[l] # None
      BY <1>3, <1>7, <3>1
    <3>3. role[l] \in Role
      BY <3>2, AccessAssumption DEF ClaimsOK, AccessTypeOK
    <3>. QED
      BY <3>1, <3>2, <3>3 DEF AccessTypeOK, Claims
  <2>2. ASSUME NEW r \in Request, ExpireAccess(r)
        PROVE  access' \in [Request -> Claims \cup {None}]
    <3>1. access[r] \in Claims /\ access' = [access EXCEPT ![r].expired = TRUE]
      BY <2>2 DEF ExpireAccess, AccessTypeOK
    <3>2. [access[r] EXCEPT !.expired = TRUE] \in Claims
      BY <3>1 DEF Claims
    <3>. QED
      BY <3>1, <3>2 DEF AccessTypeOK
  <2>3. CASE UNCHANGED access
    BY <2>3 DEF AccessTypeOK
  <2>. QED
    BY <2>1, <2>2, <2>3 DEF AccessNext, accessVars, RegisterAs, OtherStep
<1>. QED
  BY <1>2, <1>4, <1>5, <1>9, <1>10 DEF TypeInv, AccessTypeOK

\* It holds in every reachable state.
LEMMA AccessInvariance == AccessSpec => []AccessInv
BY AccessInvInit, AccessInvNext, PTL DEF AccessSpec

-----------------------------------------------------------------------------
(* What the runs check. *)

\* The tables and the tokens keep their types.
THEOREM AccessTypeCorrect == AccessSpec => []AccessTypeOK
<1>1. AccessInv => AccessTypeOK
  BY DEF AccessInv
<1>. QED
  BY <1>1, AccessInvariance, PTL

\* The middleware lets through what the account was registered for.
THEOREM GatesFollowAccounts == AccessSpec => []GateFollowsAccount
<1>1. AccessInv => GateFollowsAccount
  <2>. SUFFICES ASSUME AccessInv, NEW t \in Request, NEW area \in Area, Verdict(t, area) = "ok"
                PROVE  /\ token[t] # None /\ token[t].user = access[t].user
                       /\ account[token[t].user] # None
                       /\ role[token[t].user] \in
                            IF area = "admin" THEN {"admin"} ELSE Role \ {"viewer"}
    BY DEF GateFollowsAccount
  <2>1. access[t] # None /\ access[t].role \in Allowed(area)
    BY DEF Verdict, Received
  <2>2. /\ token[t] # None /\ token[t].user = access[t].user
        /\ role[token[t].user] \in Allowed(area)
    BY <2>1 DEF AccessInv, ClaimsOK
  <2>. QED
    BY <2>2 DEF AccessInv, UserOK, Allowed, Area, Role
<1>. QED
  BY <1>1, AccessInvariance, PTL

\* A session that is over stays over.
THEOREM SessionsEndForGood == AccessSpec => OverForGood
<1>. DEFINE Step == \A s \in Request : Over(s) => Over(s)' /\ Honoured(s)' \subseteq Honoured(s)
<1>1. AccessInv /\ [AccessNext]_accessVars => Step
  <2>. SUFFICES ASSUME AccessInv, [AccessNext]_accessVars, NEW s \in Request, Over(s)
                PROVE  Over(s)' /\ Honoured(s)' \subseteq Honoured(s)
    OBVIOUS
  <2>. USE DEF AccessInv
  <2>1. [Next]_vars
    BY DEF AccessNext, accessVars, RegisterAs, IssuePair, ExpireAccess, OtherStep, Next, vars
  <2>2. token[s] # None /\ LiveTokens(s) = {}
    BY DEF Over
  <2>3. ASSUME NEW t \in Request, token[t] = None, token'[t] # None, token'[t].session = s
        PROVE  FALSE
    <3>1. /\ pc[t] = "issue" /\ call[t].op \in {"Login", "Refresh"} /\ SessionOf(t) = s
      BY <2>1, <2>3, TokensIssued
    <3>2. call[t].op = "Refresh"
      BY <2>2, <2>3, <3>1 DEF SessionOf
    <3>. QED
      BY <3>1, <3>2 DEF Over, Working
  <2>4. ASSUME NEW t \in Request, token'[t] # None, token'[t].session = s
        PROVE  /\ token[t] # None /\ token[t].session = s
               /\ Usable(t)' => Usable(t)
    BY <2>1, <2>3, <2>4, TokensKept
  <2>5. LiveTokens(s)' = {}
    BY <2>2, <2>4 DEF LiveTokens
  <2>6. token'[s] # None
    BY <2>1, <2>2, TokensKept
  <2>7. ASSUME NEW q \in Request, pc'[q] \in Working, call'[q].op = "Refresh"
        PROVE  SessionOf(q)' # s
    <3>. DEFINE u == call'[q].token
    <3>0. SessionOf(q)' = token'[u].session
      BY <2>7 DEF SessionOf
    <3>1. CASE pc[q] \in Working /\ call'[q] = call[q]
      <4>1. u \in Request /\ token[u] # None
        BY <2>7, <3>1 DEF TypeInv, ControlOK
      <4>2. token[u].session # s
        BY <2>7, <3>1 DEF Over, SessionOf
      <4>. QED
        BY <2>1, <3>0, <4>1, <4>2, TokensKept
    <3>2. CASE u \in Request /\ token[u] # None /\ Usable(u) /\ token' = token
      BY <2>2, <3>0, <3>2 DEF LiveTokens
    <3>. QED
      BY <2>1, <2>7, <3>1, <3>2, RefreshesStart
  <2>8. Over(s)'
    BY <2>5, <2>6, <2>7 DEF Over
  <2>9. ASSUME NEW t \in Honoured(s)' PROVE t \in Honoured(s)
    <3>1. t \in Request /\ token'[t] # None /\ token'[t].session = s
      BY DEF Honoured
    <3>2. PICK area \in Area : (Verdict(t, area) = "ok")'
      BY DEF Honoured
    <3>3. /\ access'[t] # None /\ ~access'[t].expired /\ access'[t].role \in Allowed(area)
          /\ pc'[t] = "ok"
      BY <3>2 DEF Verdict, Received
    <3>4. token[t] # None /\ token[t].session = s
      BY <2>4, <3>1
    <3>5. /\ access[t] # None /\ access[t].role = access'[t].role
          /\ access[t].expired => access'[t].expired
      <4>1. ~Issue(t)
        BY <3>1, <3>4 DEF Issue, TypeInv, TokenOK
      <4>. QED
        BY <3>1, <3>3, <4>1, ClaimsKept
    <3>6. pc[t] \in {"ok", "error"}
      BY <3>1, <3>4 DEF TypeInv, TokenOK
    <3>7. pc[t] = "ok"
      BY <2>1, <3>1, <3>3, <3>6 DEF Next, vars, Refuse, Register, LogIn, StartRefresh,
         StartLogout, Start, Revoke, Issue, Fail, Expire, Working, TypeInv, TypeOK
    <3>8. Verdict(t, area) = "ok"
      BY <3>1, <3>3, <3>5, <3>7 DEF Verdict, Received, AccessTypeOK, Claims
    <3>. QED
      BY <3>1, <3>4, <3>8 DEF Honoured
  <2>. QED
    BY <2>8, <2>9
<1>. QED
  BY <1>1, AccessInvariance, PTL DEF AccessSpec, OverForGood
=============================================================================
