------------------------------ MODULE Sessions ------------------------------
(***************************************************************************)
(* Accounts and refresh tokens: AuthService (Register, Login, Refresh,     *)
(* Logout) over PgUserRepo and PgRefreshTokenRepo.  No operation uses a    *)
(* transaction: each statement commits by itself, and requests interleave  *)
(* between statements.                                                     *)
(*                                                                         *)
(* A request runs once and issues at most one refresh token, so a token,   *)
(* its hash and its row are named after the request that issued it.  A     *)
(* client knows a token once it has the answer that carries it.  Access    *)
(* tokens are not stored and cannot be revoked; module Access adds them.   *)
(***************************************************************************)
EXTENDS Naturals

CONSTANTS
  Request,  \* the HTTP requests, and the refresh tokens they issue
  Login,    \* the login names
  Password, \* the passwords clients try
  Serial,   \* the logins whose clients have one request of a session under way
            \* at a time
  None      \* no row, no request, a token that was never issued

Call == [op : {"Register", "Login"}, login : Login, password : Password]
   \cup [op : {"Refresh", "Logout"}, token : Request \cup {None}]

\* A row of refresh_tokens.  revokedBy is the request that set revoked_at;
\* session, which is not a column, is the Login its chain of tokens began with.
Row == [user : Login, session : Request, revokedBy : Request \cup {None},
        expired : BOOLEAN]

ASSUME SessionsAssumption ==
  /\ Serial \subseteq Login
  /\ None \notin Request \cup Password \cup Row \cup Call

VARIABLES
  account,  \* account[l]: the password whose hash the row of users holds, or None
  token,    \* token[t]: the row of refresh_tokens issued by request t, or None
  call,     \* call[r]: what request r asks for, or None
  pc        \* pc[r]: the statement r runs next, or its outcome

vars == <<account, token, call, pc>>

Working == {"revoke", "issue"}
Replied == {"ok", "ErrInvalid", "ErrAlreadyExists", "ErrUnauthorized", "error"}

\* The columns and locals, and nothing else.
TypeOK ==
  /\ account \in [Login -> Password \cup {None}]
  /\ token \in [Request -> Row \cup {None}]
  /\ call \in [Request -> Call \cup {None}]
  /\ pc \in [Request -> {"new"} \cup Working \cup Replied]

Init ==
  /\ account = [l \in Login |-> None]
  /\ token = [t \in Request |-> None]
  /\ call = [r \in Request |-> None]
  /\ pc = [r \in Request |-> "new"]

-----------------------------------------------------------------------------
(* Tokens. *)

\* A client can present token t: the answer that carries it has arrived.
Known(t) == token[t] # None /\ pc[t] = "ok"

\* Refresh's tests on the row GetByHash found.
Usable(t) == t # None /\ token[t].revokedBy = None /\ ~token[t].expired

\* The session a request that presents a token, or is logging in, works for.
SessionOf(r) == IF call[r].op = "Login" THEN r ELSE token[call[r].token].session

\* No other request of the session of t is under way, if its client sees to that.
SessionIdle(t) ==
  t # None /\ token[t].user \in Serial =>
    \A q \in Request : pc[q] \in Working => SessionOf(q) # token[t].session

-----------------------------------------------------------------------------
(* Requests arrive, and their first statement runs. *)

\* Request r asks for c; its first statement is over, and p comes next.
Start(r, c, p) ==
  /\ pc[r] = "new"
  /\ call' = [call EXCEPT ![r] = c]
  /\ pc' = [pc EXCEPT ![r] = p]

\* The body does not parse, or Register finds no login, a short password or an
\* unknown role.
Refuse(r) ==
  /\ pc[r] = "new"
  /\ pc' = [pc EXCEPT ![r] = "ErrInvalid"]
  /\ UNCHANGED <<account, token, call>>

\* Mutant: ON CONFLICT DO UPDATE.
RegisterUpsert(r) ==
  \E l \in Login, p \in Password :
    /\ Start(r, [op |-> "Register", login |-> l, password |-> p], "ok")
    /\ account' = [account EXCEPT ![l] = p]
    /\ UNCHANGED token

\* INSERT INTO users: the unique login decides between registrations that race.
Register(r) ==
  \E l \in Login, p \in Password :
    LET c == [op |-> "Register", login |-> l, password |-> p]
    IN  /\ \/ /\ account[l] = None
              /\ account' = [account EXCEPT ![l] = p]
              /\ \E answer \in {"ok", "error"} : Start(r, c, answer)
           \/ /\ account[l] # None
              /\ Start(r, c, "ErrAlreadyExists")
              /\ UNCHANGED account
        /\ UNCHANGED token

\* Mutant: an unknown login has an answer of its own.
LogInNotFound(r) ==
  /\ \E l \in Login, p \in Password :
       Start(r, [op |-> "Login", login |-> l, password |-> p],
             IF account[l] = None THEN "ErrNotFound"
             ELSE IF account[l] = p THEN "issue" ELSE "ErrUnauthorized")
  /\ UNCHANGED <<account, token>>

\* GetByLogin and the comparison with the hash; one answer for both failures.
LogIn(r) ==
  /\ \E l \in Login, p \in Password :
       Start(r, [op |-> "Login", login |-> l, password |-> p],
             IF account[l] = p THEN "issue" ELSE "ErrUnauthorized")
  /\ UNCHANGED <<account, token>>

\* Mutant: the new token is issued first.
StartRefreshIssue(r) ==
  /\ \E t \in {t \in Request : Known(t)} \cup {None} :
       /\ SessionIdle(t)
       /\ Start(r, [op |-> "Refresh", token |-> t],
                IF Usable(t) THEN "issue" ELSE "ErrUnauthorized")
  /\ UNCHANGED <<account, token>>

\* Mutant: the test of revoked_at is forgotten.
StartRefreshRevoked(r) ==
  /\ \E t \in {t \in Request : Known(t)} \cup {None} :
       /\ SessionIdle(t)
       /\ Start(r, [op |-> "Refresh", token |-> t],
                IF t # None /\ ~token[t].expired THEN "revoke" ELSE "ErrUnauthorized")
  /\ UNCHANGED <<account, token>>

\* GetByHash, its tests, and GetByID, which finds the user: nobody deletes one.
StartRefresh(r) ==
  /\ \E t \in {t \in Request : Known(t)} \cup {None} :
       /\ SessionIdle(t)
       /\ Start(r, [op |-> "Refresh", token |-> t],
                IF Usable(t) THEN "revoke" ELSE "ErrUnauthorized")
  /\ UNCHANGED <<account, token>>

\* GetByHash; a token that was never issued is logged out already.
StartLogout(r) ==
  /\ \E t \in {t \in Request : Known(t)} \cup {None} :
       /\ SessionIdle(t)
       /\ Start(r, [op |-> "Logout", token |-> t],
                IF t = None THEN "ok" ELSE "revoke")
  /\ UNCHANGED <<account, token>>

-----------------------------------------------------------------------------
(* The statements that write tokens. *)

\* Mutant: the UPDATE reaches nothing.
RevokeNothing(r) ==
  /\ pc[r] = "revoke"
  /\ pc' = [pc EXCEPT ![r] = IF call[r].op = "Refresh" THEN "issue" ELSE "ok"]
  /\ UNCHANGED <<account, token, call>>

\* UPDATE refresh_tokens SET revoked_at ... WHERE id = $1 AND revoked_at IS NULL.
\* The number of rows it reached is ignored: when another request has revoked
\* the token since it was read, this one goes on all the same.
Revoke(r) ==
  /\ pc[r] = "revoke"
  /\ token' = [token EXCEPT ![call[r].token].revokedBy = IF @ = None THEN r ELSE @]
  /\ pc' = [pc EXCEPT ![r] = IF call[r].op = "Refresh" THEN "issue" ELSE "ok"]
  /\ UNCHANGED <<account, call>>

\* issueTokenPair's INSERT, for the user who logged in or whose token this was.
\* The answer may be lost, and the token with it.
Issue(r) ==
  /\ pc[r] = "issue"
  /\ token' = [token EXCEPT ![r] =
       [user |-> IF call[r].op = "Login" THEN call[r].login
                 ELSE token[call[r].token].user,
        session |-> SessionOf(r), revokedBy |-> None, expired |-> FALSE]]
  /\ \E answer \in {"ok", "error"} : pc' = [pc EXCEPT ![r] = answer]
  /\ UNCHANGED <<account, call>>

\* A statement fails or the process dies; what has committed stays.
Fail(r) ==
  /\ pc[r] \in Working
  /\ pc' = [pc EXCEPT ![r] = "error"]
  /\ UNCHANGED <<account, token, call>>

\* Time passes expires_at.
Expire(t) ==
  /\ token[t] # None /\ ~token[t].expired
  /\ token' = [token EXCEPT ![t].expired = TRUE]
  /\ UNCHANGED <<account, call, pc>>

Next ==
  \E r \in Request :
    \/ Refuse(r) \/ Register(r) \/ LogIn(r) \/ StartRefresh(r) \/ StartLogout(r)
    \/ Revoke(r) \/ Issue(r) \/ Fail(r) \/ Expire(r)

Spec == Init /\ [][Next]_vars

-----------------------------------------------------------------------------
(* Safety, whatever the clients do. *)

\* A registered account is nobody else's to take: no later or racing Register
\* changes its password.
AccountsKept ==
  [][\A l \in Login : account[l] # None => account'[l] = account[l]]_vars

\* revoked_at is set once and stays, however many requests revoke the token
\* after they all read it unrevoked.
RevokedOnce ==
  [][\A t \in Request :
       token[t] # None /\ token[t].revokedBy # None =>
         token'[t] # None /\ token'[t].revokedBy = token[t].revokedBy]_vars

-----------------------------------------------------------------------------
(* Safety of the sessions whose requests come one after the other. *)

\* The tokens of session s that can still be exchanged.
LiveTokens(s) ==
  {t \in Request : token[t] # None /\ token[t].session = s /\ Usable(t)}

\* The session of token t sends one request at a time.
InSerialSession(t) == token[t].user \in Serial

\* A session has one live refresh token at most: Refresh revokes the old one
\* before it issues the next, and a failure between leaves none, never two.
OneLiveToken ==
  \A s \in Request : \A t, u \in LiveTokens(s) : InSerialSession(t) => t = u

\* A Refresh under way that has revoked its token is the session's only way on:
\* until it issues, nothing of the session can be exchanged.
NoTokenWhileRotating ==
  \A r \in Request :
    pc[r] = "issue" /\ call[r].op = "Refresh" /\ InSerialSession(call[r].token) =>
      LiveTokens(SessionOf(r)) = {}

\* Once a Logout of the live token is answered the session is over.
LogoutEndsSession ==
  [][\A r \in Request :
       /\ pc[r] = "revoke" /\ pc'[r] = "ok"
       /\ Usable(call[r].token) /\ InSerialSession(call[r].token)
       => LiveTokens(SessionOf(r))' = {}]_vars
=============================================================================
