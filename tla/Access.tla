------------------------------- MODULE Access -------------------------------
(***************************************************************************)
(* Access tokens and the routes they open: what issueTokenPair signs, and  *)
(* AuthMiddleware and RequireRole, which the router puts before the        *)
(* handlers of organizers and administrators.  Sessions has the requests   *)
(* that registration, logging in, refreshing and logging out consist of;   *)
(* here each step also does to roles and access tokens what it does.       *)
(*                                                                         *)
(* An access token is signed, not stored: nothing but time ends it.  It is *)
(* named after the request that issued it, like the refresh token it comes *)
(* with.  Signatures hold: nobody has a token that was not issued.         *)
(***************************************************************************)
EXTENDS Sessions

CONSTANT Roles  \* the roles that people register with

Role == {"viewer", "organizer", "admin"}
Area == {"shows", "admin"}  \* the groups of routes behind the middleware

\* What an access token says, and whether its time is over.
Claims == [user : Login, role : Role, expired : BOOLEAN]

ASSUME AccessAssumption == Roles \subseteq Role /\ None \notin Role \cup Claims

VARIABLES
  role,   \* role[l]: the column role of the row of users, or None
  access  \* access[t]: the access token issued by request t, or None

accessVars == <<account, token, call, pc, role, access>>

\* The column and the claims, and nothing else.
AccessTypeOK ==
  /\ TypeOK
  /\ role \in [Login -> Roles \cup {None}]
  /\ access \in [Request -> Claims \cup {None}]

AccessInit ==
  /\ Init
  /\ role = [l \in Login |-> None]
  /\ access = [t \in Request |-> None]

-----------------------------------------------------------------------------
(* The middleware. *)

\* The access tokens that clients have received.
Received == {t \in Request : access[t] # None /\ pc[t] = "ok"}

\* Mutant: the group /admin takes what the group /shows takes.
AllowedAlike(area) == {"organizer", "admin"}

\* The roles the router gives RequireRole for each group.
Allowed(area) == IF area = "shows" THEN {"organizer", "admin"} ELSE {"admin"}

\* The outcome for a request that presents t, or no token, to a route of area:
\* AuthMiddleware wants a token whose time is not over, RequireRole a role.
Verdict(t, area) ==
  IF t \notin Received THEN "ErrUnauthorized"
  ELSE IF access[t].expired THEN "ErrUnauthorized"
  ELSE IF access[t].role \in Allowed(area) THEN "ok" ELSE "ErrForbidden"

-----------------------------------------------------------------------------
(* Steps. *)

\* The role is inserted with the account, and no statement changes it.
RegisterAs(r) ==
  /\ Register(r)
  /\ \E x \in Roles :
       role' = [l \in Login |-> IF account'[l] # account[l] THEN x ELSE role[l]]
  /\ UNCHANGED access

\* Mutant: the role is what the client wants it to be.
IssuePairAny(r) ==
  /\ Issue(r)
  /\ \E x \in Roles :
       access' = [access EXCEPT ![r] = [user |-> token'[r].user, role |-> x, expired |-> FALSE]]
  /\ UNCHANGED role

\* GenerateAccess signs the id and the role of the user who logged in or whose
\* refresh token was exchanged.
IssuePair(r) ==
  /\ Issue(r)
  /\ access' = [access EXCEPT ![r] =
       [user |-> token'[r].user, role |-> role[token'[r].user], expired |-> FALSE]]
  /\ UNCHANGED role

\* Time passes the claim exp.
ExpireAccess(t) ==
  /\ access[t] # None /\ ~access[t].expired
  /\ access' = [access EXCEPT ![t].expired = TRUE]
  /\ UNCHANGED <<account, token, call, pc, role>>

\* The steps of Sessions that touch neither roles nor access tokens.
OtherStep(r) ==
  /\ \/ Refuse(r) \/ LogIn(r) \/ StartRefresh(r) \/ StartLogout(r)
     \/ Revoke(r) \/ Fail(r) \/ Expire(r)
  /\ UNCHANGED <<role, access>>

AccessNext ==
  \E r \in Request : RegisterAs(r) \/ IssuePair(r) \/ ExpireAccess(r) \/ OtherStep(r)

AccessSpec == AccessInit /\ [][AccessNext]_accessVars

-----------------------------------------------------------------------------
(* Safety. *)

\* Whoever gets through the middleware holds a token of an account, and the
\* account was registered with a role for that area, however many refreshes ago:
\* administrators for /admin, anybody but viewers for the routes that write shows.
GateFollowsAccount ==
  \A t \in Request, area \in Area :
    Verdict(t, area) = "ok" =>
      /\ token[t] # None /\ token[t].user = access[t].user
      /\ account[token[t].user] # None
      /\ role[token[t].user] \in IF area = "admin" THEN {"admin"} ELSE Role \ {"viewer"}

\* The access tokens of session s that the middleware lets through somewhere.
Honoured(s) ==
  {t \in Request : /\ token[t] # None /\ token[t].session = s
                   /\ \E area \in Area : Verdict(t, area) = "ok"}

\* Session s has been, has no refresh token to exchange, and no Refresh of it is
\* under way.
Over(s) ==
  /\ token[s] # None /\ LiveTokens(s) = {}
  /\ \A r \in Request : pc[r] \in Working /\ call[r].op = "Refresh" => SessionOf(r) # s

\* A session that is over stays over, whether its client sends one request at a
\* time or races with itself: no old token, late answer or repeated request gets
\* it another refresh token or another access token, so that it ends altogether
\* when the access tokens it has expire.
OverForGood ==
  [][\A s \in Request : Over(s) => Over(s)' /\ Honoured(s)' \subseteq Honoured(s)]_accessVars
=============================================================================
