------------------------------- MODULE Routes -------------------------------
(***************************************************************************)
(* internal/routes/routes.go: which middleware stands before which         *)
(* handler.  The one rate limiter "rl" of Setup is shared by all endpoints *)
(* that name it; the other middleware only looks at the request, so a      *)
(* request's way through its chain is one action.                          *)
(*                                                                         *)
(* A bearer token is what AuthMiddleware can tell of it: "none", a header  *)
(* or token it refuses ("invalid": malformed, badly signed or expired),    *)
(* the temporary token of a login waiting for its code ("pending"), or an  *)
(* access token, named by the role in its claims.                          *)
(***************************************************************************)
EXTENDS RateLimiter

TwoFA == {"2fa/login", "2fa/setup", "2fa/confirm", "2fa/disable"}

OAuth == {"google/login", "google/callback", "github/login", "github/callback"}

Bearer == {"me", "2fa/setup", "2fa/confirm", "2fa/disable", "organizations/me"}

Staff == {"admin/dashboard"}

\* What anybody may call, the OAuth endpoints apart.
Open ==
  {"register", "login", "refresh", "logout", "verify-email", "forgot-password",
   "reset-password", "2fa/login"}

Endpoints == Open \cup OAuth \cup Bearer \cup Staff

\* Mutant: a route that does not name rl.
LimitedButLogout == Open \ {"logout"}

\* The routes that name rl.
Limited == Open

AccessTokens == {"user", "admin", "superadmin"}

Tokens == {"none", "invalid", "pending"} \cup AccessTokens

Statuses ==
  {"none", "preflight", "too many", "invalid", "unauthorized", "forbidden", "not found",
   "error", "ok", "handled"}

VARIABLES
  last,      \* the latest request, and the status it got
  handled    \* history: how many requests of each client reached a handler
             \* open to everyone, OAuth apart; over time, as "recent"

routesVars == <<vars, last, handled>>

RoutesTypeOK ==
  /\ TypeOK
  /\ last \in [endpoint : Endpoints \cup {Nil}, token : Tokens, status : Statuses]
  /\ handled \in [Clients -> [0..Window -> Nat]]

RoutesInit ==
  /\ Init
  /\ last = [endpoint |-> Nil, token |-> "none", status |-> "none"]
  /\ handled = [c \in Clients |-> [a \in 0..Window |-> 0]]

Reply(e, t, status) ==
  last' = [endpoint |-> e, token |-> t, status |-> status]

\* AuthMiddleware: a temporary token is well signed and passes.
Authenticated(t) == t \notin {"none", "invalid"}

(***************************************************************************)
(* Both kinds of token are signed claims.  Whoever bears one is a user in  *)
(* the table, with an organization: neither is ever deleted.               *)
(***************************************************************************)
UserIds == {"user"}

OrganizationIds == {"organization"}

\* uuid.Nil.  No row has it, as ids are drawn by uuid.New.
ZeroId == "zero"

\* GenerateAccessToken; an access token is named by its role.
AccessClaims(t) == [user_id |-> "user", role |-> t, organization_id |-> "organization"]

\* Mutant: the temporary token names its user the way an access token does.
TwoFAPendingClaimsWithId == [user_id |-> "user", iss |-> "2fa-pending"]

\* GenerateTwoFAPendingToken
TwoFAPendingClaims == [sub |-> "user", iss |-> "2fa-pending"]

Claims(t) == IF t = "pending" THEN TwoFAPendingClaims ELSE AccessClaims(t)

\* ValidateAccessToken decodes into TokenClaims: a claim the token does not have
\* is left at its zero value.
Claim(t, name, zero) == IF name \in DOMAIN Claims(t) THEN Claims(t)[name] ELSE zero

\* RequireRole("admin", "superadmin")
RequireRole(t) == Claim(t, "role", "") \in {"admin", "superadmin"}

\* What a lookup by id may come to.
FindByID(ids, id) == {IF id \in ids THEN "found" ELSE "no rows", "failed"}

FindUser(t) == FindByID(UserIds, Claim(t, "user_id", ZeroId))

FindOrganization(t) == FindByID(OrganizationIds, Claim(t, "organization_id", ZeroId))

\* A handler that shows what it looked up.
Show(outcome) ==
  CASE outcome = "found"   -> "ok"
    [] outcome = "no rows" -> "not found"
    [] outcome = "failed"  -> "error"

Me(t) == {Show(outcome) : outcome \in FindUser(t)}

GetMyOrganization(t) == {Show(outcome) : outcome \in FindOrganization(t)}

\* The 2FA handlers: any error of GetProfile is answered 500; then Setup may fail
\* to write, and the other two refuse a body, and a code, that is no good.
SetupConfirmDisable(e, t) ==
  {"error"}
  \cup (IF "found" \in FindUser(t) THEN {"ok"} ELSE {})
  \cup (IF "found" \in FindUser(t) /\ e # "2fa/setup" THEN {"unauthorized"} ELSE {})
  \cup (IF e # "2fa/setup" THEN {"invalid"} ELSE {})

\* What the handler may answer.
Handler(e, t) ==
  CASE e = "me" -> Me(t)
    [] e = "organizations/me" -> GetMyOrganization(t)
    [] e \in TwoFA \cap Bearer -> SetupConfirmDisable(e, t)
    [] e \in Staff -> {"ok"}
    [] OTHER -> {"handled"}

\* A request the browser makes to ask whether it may make one: CORS answers it.
Preflight(e) ==
  /\ Reply(e, "none", "preflight")
  /\ UNCHANGED <<vars, handled>>

\* rl, then the handler.
Rated(c, e, t) ==
  /\ e \in Limited
  /\ Allow(c)
  /\ IF verdict'[c] = "admitted"
     THEN /\ \E status \in Handler(e, t) : Reply(e, t, status)
          /\ handled' = [handled EXCEPT ![c] = OneMore(@)]
     ELSE Reply(e, t, "too many") /\ UNCHANGED handled

\* The middleware of what stands behind authed, then the handler.
Answered(e, t) ==
  CASE e \in Bearer \cup Staff /\ ~Authenticated(t) -> {"unauthorized"}
    [] e \in Staff /\ Authenticated(t) /\ ~RequireRole(t) -> {"forbidden"}
    [] OTHER -> Handler(e, t)

\* No limiter: the OAuth endpoints, and what stands behind authed.
Unrated(c, e, t) ==
  /\ e \notin Limited
  /\ UNCHANGED vars
  /\ \E status \in Answered(e, t) : Reply(e, t, status)
  /\ handled' = IF e \in Open THEN [handled EXCEPT ![c] = OneMore(@)] ELSE handled

Request(c, e, t) == Rated(c, e, t) \/ Unrated(c, e, t)

TimePasses ==
  /\ Tick
  /\ handled' = [c \in Clients |-> Older(handled[c])]
  /\ UNCHANGED last

\* Only AuthMiddleware looks at a token.
Shown(e) == IF e \in Bearer \cup Staff THEN Tokens ELSE {"none"}

RoutesNext ==
  \/ \E c \in Clients, e \in Endpoints : \E t \in Shown(e) : Request(c, e, t)
  \/ \E e \in Endpoints : Preflight(e)
  \/ TimePasses
  \/ Cleanup /\ UNCHANGED <<last, handled>>

RoutesSpec == RoutesInit /\ [][RoutesNext]_routesVars

\* Time passes, and the clean-up goroutine loops for ever.
RoutesFairness ==
  /\ WF_routesVars(TimePasses)
  /\ WF_routesVars(Cleanup /\ UNCHANGED <<last, handled>>)

RoutesFairSpec == RoutesSpec /\ RoutesFairness

----------------------------------------------------------------------------
\* Whatever endpoints a client spreads its requests over, the handlers open to
\* everyone (OAuth apart) run for it at most twice the quota less one within
\* any stretch of time as long as a window: routes.go has one limiter for all.
OpenHandlersBounded ==
  \A c \in Clients : handled[c][Window] <= 2 * Quota - 1

\* The temporary token of a login that waits for its code is signed with the key of
\* the access tokens and passes AuthMiddleware, which looks at no issuer.  Still no
\* endpoint behind it answers it with success: the ids it lacks decode to one that no
\* row has, and the role it lacks to none that rbac_middleware.go lets in.
PendingServedNothing ==
  last.token = "pending" /\ last.endpoint \in Bearer \cup Staff => last.status # "ok"
=============================================================================
