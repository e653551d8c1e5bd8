----------------------------- MODULE AuthService -----------------------------
(***************************************************************************)
(* internal/services/auth_service.go with the handlers that call it        *)
(* (internal/handlers/auth_handler.go, twofa_handler.go).  One action per  *)
(* SQL statement: between two statements of a handler every other handler, *)
(* the clean-up job and the clock may step.  What a handler computes       *)
(* between two statements (bcrypt, TOTP, token generation) is part of the  *)
(* action of the statement before it.                                      *)
(***************************************************************************)
EXTENDS Requests

VARIABLES
  sessionsAtReset   \* history: for a reset, the account's sessions that
                    \* existed when its password UPDATE took effect

vars == <<tables, locals, sessionsAtReset>>

\* A step fails and the handler answers "a"; where the code ignores the error
\* and goes on, the action says so itself.
Fails(r, a) == Faults /\ Reject(r, a)

----------------------------------------------------------------------------
(* What tokens and codes clients can present. *)

\* A refresh token some response handed out, still valid or not.
HandedOut(t) == answer[t] = "tokens"

\* A link that was stored, or the request that stored it is over: a consumed,
\* purged or made-up token.
Link(t) == verificationTokens[t] # Nil \/ pc[t] = "done"

\* Mutant: a temporary token's subject taken for an access token's user.
ValidateAccessTokenOfSubject(t) ==
  IF t \in Emails THEN t ELSE account[t]

\* AuthMiddleware and TokenService.ValidateAccessToken: the user a bearer
\* token speaks for.  A temporary 2FA token is well signed, so it passes, but
\* it carries no user_id and yields uuid.Nil.
ValidateAccessToken(t) ==
  IF t \in Emails THEN t
  ELSE IF answer[t] = "requires2fa" THEN Nil ELSE account[t]

\* Bearer tokens clients hold; that of an e-mail was issued before the start.
Bearers ==
  Registered \cup {t \in Reqs : answer[t] \in {"tokens", "requires2fa"}}

\* TOTP codes clients can compute: from secrets set up, or from none at all.
Codes ==
  Registered \cup {Nil} \cup {q \in Reqs : call[q].op = "setup" /\ answer[q] = "ok"}

\* totp.Validate: a code is accepted exactly for the secret it comes from.
ValidateCode(secret, code) == code = secret

----------------------------------------------------------------------------
(* Requests reaching the handlers. *)

AcceptRegister(r) ==
  \E e \in Emails, p \in Passwords :
    Accept(r, [NoCall EXCEPT !.op = "register", !.email = e, !.password = p],
           Nil, "register.lookup")

AcceptLogin(r) ==
  \E e \in Emails, p \in Passwords :
    Accept(r, [NoCall EXCEPT !.op = "login", !.email = e, !.password = p],
           Nil, "login.lookup")

AcceptRefresh(r) ==
  \E t \in Reqs :
    /\ HandedOut(t)
    /\ Accept(r, [NoCall EXCEPT !.op = "refresh", !.token = t], Nil, "refresh.lookup")

AcceptLogout(r) ==
  \E t \in Reqs :
    /\ HandedOut(t)
    /\ Accept(r, [NoCall EXCEPT !.op = "logout", !.token = t], Nil, "logout.delete")

AcceptVerifyEmail(r) ==
  \E t \in Reqs :
    /\ Link(t)
    /\ Accept(r, [NoCall EXCEPT !.op = "verify", !.token = t], Nil, "verify.lookup")

AcceptForgotPassword(r) ==
  \E e \in Emails :
    Accept(r, [NoCall EXCEPT !.op = "forgot", !.email = e], Nil, "forgot.lookup")

AcceptResetPassword(r) ==
  \E t \in Reqs, p \in Passwords :
    /\ Link(t)
    /\ Accept(r, [NoCall EXCEPT !.op = "reset", !.token = t, !.password = p],
              Nil, "reset.lookup")

\* POST /2fa/login: a temporary token of an earlier login, and a code.
AcceptLogin2FA(r) ==
  \E t \in Reqs, c \in Codes :
    /\ answer[t] = "requires2fa"
    /\ Accept(r, [NoCall EXCEPT !.op = "login2fa", !.token = t, !.code = c],
              account[t], "login2fa.lookup")

\* The authenticated 2FA endpoints run behind AuthMiddleware.
AcceptSetup(r) ==
  \E t \in Bearers :
    Accept(r, [NoCall EXCEPT !.op = "setup", !.token = t],
           ValidateAccessToken(t), "setup.lookup")

AcceptConfirm(r) ==
  \E t \in Bearers, c \in Codes :
    Accept(r, [NoCall EXCEPT !.op = "confirm", !.token = t, !.code = c],
           ValidateAccessToken(t), "confirm.lookup")

AcceptDisable(r) ==
  \E t \in Bearers, c \in Codes :
    Accept(r, [NoCall EXCEPT !.op = "disable", !.token = t, !.code = c],
           ValidateAccessToken(t), "disable.lookup")

AcceptAuth(r) ==
  /\ \/ AcceptRegister(r)
     \/ AcceptLogin(r)
     \/ AcceptRefresh(r)
     \/ AcceptLogout(r)
     \/ AcceptVerifyEmail(r)
     \/ AcceptForgotPassword(r)
     \/ AcceptResetPassword(r)
     \/ AcceptLogin2FA(r)
     \/ AcceptSetup(r)
     \/ AcceptConfirm(r)
     \/ AcceptDisable(r)
  /\ UNCHANGED <<tables, sessionsAtReset>>

----------------------------------------------------------------------------
(* generateTokens: the last statement of every flow that opens a session. *)

GenerateTokens(r) ==
  /\ pc[r] = "mint"
  /\ \/ /\ InsertRefreshToken(r, account[r])
        /\ Respond(r, "tokens")
        /\ UNCHANGED <<users, organizations, verificationTokens>>
     \/ Fails(r, "error")
  /\ UNCHANGED sessionsAtReset

----------------------------------------------------------------------------
(* Register *)

\* A lookup error is ignored ("existing, _ :="): the handler goes on as if
\* the address were free.  bcrypt may refuse the password.
RegisterLookup(r) ==
  /\ pc[r] = "register.lookup"
  /\ \/ users[call[r].email] # Nil /\ Reject(r, "conflict")
     \/ /\ users[call[r].email] = Nil \/ Faults
        /\ Goto(r, "register.org") /\ UNCHANGED tables
     \/ Fails(r, "error")
  /\ UNCHANGED sessionsAtReset

\* createOrganization, shared with OAuth sign-up; the slug may also collide.
CreateOrganization(r) ==
  /\ pc[r] \in {"register.org", "oauth.org"}
  /\ \/ /\ organizations' = organizations \cup {r}
        /\ Goto(r, IF pc[r] = "register.org" THEN "register.user" ELSE "oauth.user")
        /\ UNCHANGED <<users, refreshTokens, verificationTokens>>
     \/ Fails(r, "error")
  /\ UNCHANGED sessionsAtReset

\* Mutant: the error of userRepo.Create is dropped.
RegisterUserUnchecked(r) ==
  LET e == call[r].email IN
  /\ pc[r] = "register.user"
  /\ \/ InsertUser(e, NewUser(call[r].password, FALSE, Nil, r))
     \/ Faults /\ UNCHANGED users
  /\ GotoFor(r, "register.mail", e)
  /\ UNCHANGED <<organizations, refreshTokens, verificationTokens, sessionsAtReset>>

RegisterUser(r) ==
  LET e == call[r].email IN
  /\ pc[r] = "register.user"
  /\ \/ /\ InsertUser(e, NewUser(call[r].password, FALSE, Nil, r))
        /\ GotoFor(r, "register.mail", e)
        /\ UNCHANGED <<organizations, refreshTokens, verificationTokens>>
     \/ users[e] # Nil /\ Reject(r, "conflict")
     \/ Fails(r, "error")
  /\ UNCHANGED sessionsAtReset

\* sendVerificationEmail is best effort: its failure does not stop the handler.
SendVerificationEmail(r) ==
  /\ pc[r] = "register.mail"
  /\ Goto(r, "mint")
  /\ \/ InsertVerificationToken(r, account[r], "email_verify")
     \/ Faults /\ UNCHANGED verificationTokens
  /\ UNCHANGED <<users, organizations, refreshTokens, sessionsAtReset>>

----------------------------------------------------------------------------
(* Login, and its completion with a TOTP code *)

LoginLookup(r) ==
  LET e == call[r].email
      u == users[e] IN
  /\ pc[r] = "login.lookup"
  /\ \/ /\ u = Nil \/ (u # Nil /\ u.password # call[r].password)
        /\ Respond(r, "unauthorized")
     \/ /\ u # Nil /\ u.password = call[r].password
        /\ IF u.totpEnabled THEN RespondFor(r, "requires2fa", e)
                            ELSE GotoFor(r, "mint", e)
     \/ Faults /\ Respond(r, "error")
  /\ UNCHANGED <<tables, sessionsAtReset>>

\* An expired temporary token is refused as 401; a lookup error is
\* ErrUserNotFound, which the handler does not map: 500.
LoginWithTwoFA(r) ==
  LET u == users[account[r]] IN
  /\ pc[r] = "login2fa.lookup"
  /\ \/ Respond(r, "unauthorized")
     \/ /\ u.totpEnabled /\ ValidateCode(u.totpSecret, call[r].code)
        /\ Goto(r, "mint")
     \/ Faults /\ Respond(r, "error")
  /\ UNCHANGED <<tables, sessionsAtReset>>

----------------------------------------------------------------------------
(* Refresh and Logout *)

\* Mutant: the token's user is not carried on.
RefreshLookupForgetsUser(r) ==
  LET s == refreshTokens[call[r].token] IN
  /\ pc[r] = "refresh.lookup"
  /\ IF s = Nil THEN Respond(r, "unauthorized") ELSE Goto(r, "refresh.user")
  /\ UNCHANGED <<tables, sessionsAtReset>>

RefreshLookup(r) ==
  LET t == call[r].token
      s == refreshTokens[t] IN
  /\ pc[r] = "refresh.lookup"
  /\ \/ s = Nil /\ Respond(r, "unauthorized")
     \/ s # Nil /\ s.expired /\ Goto(r, "refresh.purge")
     \/ s # Nil /\ ~s.expired /\ GotoFor(r, "refresh.user", s.user)
     \/ Faults /\ Respond(r, "error")
  /\ UNCHANGED <<tables, sessionsAtReset>>

\* Mutant: the purge insists on deleting the row itself.
RefreshPurgeInsists(r) ==
  /\ pc[r] = "refresh.purge"
  /\ refreshTokens[call[r].token] # Nil
  /\ DeleteRefreshTokens({call[r].token})
  /\ Respond(r, "unauthorized")
  /\ UNCHANGED <<users, organizations, verificationTokens, sessionsAtReset>>

\* The purge of an expired token ignores its error.
RefreshPurge(r) ==
  /\ pc[r] = "refresh.purge"
  /\ \/ DeleteRefreshTokens({call[r].token})
     \/ Faults /\ UNCHANGED refreshTokens
  /\ Respond(r, "unauthorized")
  /\ UNCHANGED <<users, organizations, verificationTokens, sessionsAtReset>>

\* Mutant: new tokens without deleting the one presented.
RefreshUserKeepsToken(r) ==
  /\ pc[r] = "refresh.user"
  /\ Goto(r, "mint")
  /\ UNCHANGED <<tables, sessionsAtReset>>

RefreshUser(r) ==
  /\ pc[r] = "refresh.user"
  /\ \/ Goto(r, "refresh.delete") /\ UNCHANGED tables
     \/ Fails(r, "error")
  /\ UNCHANGED sessionsAtReset

\* Mutant: the error of DeleteByToken is dropped, as at the other call sites.
RefreshDeleteUnchecked(r) ==
  /\ pc[r] = "refresh.delete"
  /\ DeleteRefreshTokens({call[r].token})
  /\ Goto(r, "mint")
  /\ UNCHANGED <<users, organizations, verificationTokens, sessionsAtReset>>

RefreshDelete(r) ==
  LET t == call[r].token IN
  /\ pc[r] = "refresh.delete"
  /\ \/ /\ DeleteRefreshTokens({t})
        /\ IF DeleteSucceeds(refreshTokens[t] # Nil) THEN Goto(r, "mint")
                                                     ELSE Respond(r, "error")
        /\ UNCHANGED <<users, organizations, verificationTokens>>
     \/ Fails(r, "error")
  /\ UNCHANGED sessionsAtReset

Logout(r) ==
  LET t == call[r].token IN
  /\ pc[r] = "logout.delete"
  /\ \/ /\ DeleteRefreshTokens({t})
        /\ Respond(r, IF DeleteSucceeds(refreshTokens[t] # Nil) THEN "ok" ELSE "error")
        /\ UNCHANGED <<users, organizations, verificationTokens>>
     \/ Fails(r, "error")
  /\ UNCHANGED sessionsAtReset

----------------------------------------------------------------------------
(* VerifyEmail, ForgotPassword and ResetPassword *)

\* Mutant: the purpose is not compared.
ServesAnyPurpose(link, purpose) == ~link.expired

\* Whether the link found may serve the purpose.
Serves(link, purpose) == link.purpose = purpose /\ ~link.expired

\* FindByToken and the test on what it found.  A lookup error is answered like
\* an unknown token.
LinkLookup(r, lookup, purge, user, purpose) ==
  LET link == verificationTokens[call[r].token] IN
  /\ pc[r] = lookup
  /\ \/ /\ link = Nil \/ Faults
        /\ Respond(r, "invalid")
     \/ link # Nil /\ ~Serves(link, purpose) /\ Goto(r, purge)
     \/ link # Nil /\ Serves(link, purpose) /\ GotoFor(r, user, link.user)
  /\ UNCHANGED <<tables, sessionsAtReset>>

\* A link that is expired or has another purpose is deleted; errors ignored.
LinkPurge(r, purge) ==
  /\ pc[r] = purge
  /\ \/ DeleteVerificationToken(call[r].token)
     \/ Faults /\ UNCHANGED verificationTokens
  /\ Respond(r, "invalid")
  /\ UNCHANGED <<users, organizations, refreshTokens, sessionsAtReset>>

VerifyEmailLookup(r) ==
  LinkLookup(r, "verify.lookup", "verify.purge", "verify.user", "email_verify")
VerifyEmailPurge(r) == LinkPurge(r, "verify.purge")

VerifyEmailUser(r) ==
  /\ pc[r] = "verify.user"
  /\ \/ /\ GotoWith(r, "verify.update",
                    [users[account[r]] EXCEPT !.emailVerified = TRUE])
        /\ UNCHANGED tables
     \/ Fails(r, "invalid")
  /\ UNCHANGED sessionsAtReset

VerifyEmailUpdate(r) ==
  /\ pc[r] = "verify.update"
  /\ \/ /\ UpdateUser(account[r], row[r])
        /\ GotoWritten(r, "verify.delete")
        /\ UNCHANGED <<organizations, refreshTokens, verificationTokens>>
     \/ Fails(r, "error")
  /\ UNCHANGED sessionsAtReset

\* Mutant: the error of the DELETE is ignored, as ResetPassword does.
VerifyEmailDeleteUnchecked(r) ==
  /\ pc[r] = "verify.delete"
  /\ Respond(r, "ok")
  /\ \/ /\ DeleteVerificationToken(call[r].token)
        /\ UNCHANGED <<users, organizations, refreshTokens>>
     \/ Faults /\ UNCHANGED tables
  /\ UNCHANGED sessionsAtReset

VerifyEmailDelete(r) ==
  LET t == call[r].token IN
  /\ pc[r] = "verify.delete"
  /\ \/ /\ DeleteVerificationToken(t)
        /\ Respond(r, IF DeleteSucceeds(verificationTokens[t] # Nil) THEN "ok" ELSE "error")
        /\ UNCHANGED <<users, organizations, refreshTokens>>
     \/ Fails(r, "error")
  /\ UNCHANGED sessionsAtReset

\* An unknown address, and a lookup error, are answered with success.
ForgotPasswordLookup(r) ==
  LET e == call[r].email IN
  /\ pc[r] = "forgot.lookup"
  /\ \/ /\ users[e] = Nil \/ Faults
        /\ Respond(r, "ok")
     \/ users[e] # Nil /\ GotoFor(r, "forgot.create", e)
  /\ UNCHANGED <<tables, sessionsAtReset>>

\* The mail itself is best effort and is sent after the row is stored.
ForgotPasswordCreate(r) ==
  /\ pc[r] = "forgot.create"
  /\ \/ /\ InsertVerificationToken(r, account[r], "password_reset")
        /\ Respond(r, "ok")
        /\ UNCHANGED <<users, organizations, refreshTokens>>
     \/ Fails(r, "error")
  /\ UNCHANGED sessionsAtReset

ResetPasswordLookup(r) ==
  LinkLookup(r, "reset.lookup", "reset.purge", "reset.user", "password_reset")
ResetPasswordPurge(r) == LinkPurge(r, "reset.purge")

\* FindByID fails: 400; bcrypt fails: 500.
ResetPasswordUser(r) ==
  /\ pc[r] = "reset.user"
  /\ \/ /\ GotoWith(r, "reset.update",
                    [users[account[r]] EXCEPT !.password = call[r].password])
        /\ UNCHANGED tables
     \/ Fails(r, "invalid")
     \/ Fails(r, "error")
  /\ UNCHANGED sessionsAtReset

\* Mutant: the link is not deleted.
ResetPasswordUpdateKeepsLink(r) ==
  /\ pc[r] = "reset.update"
  /\ UpdateUser(account[r], row[r])
  /\ GotoWritten(r, "reset.revoke")
  /\ sessionsAtReset' = [sessionsAtReset EXCEPT ![r] = SessionsOf(account[r])]
  /\ UNCHANGED <<organizations, refreshTokens, verificationTokens>>

ResetPasswordUpdate(r) ==
  /\ pc[r] = "reset.update"
  /\ \/ /\ UpdateUser(account[r], row[r])
        /\ GotoWritten(r, "reset.delete")
        /\ sessionsAtReset' = [sessionsAtReset EXCEPT ![r] = SessionsOf(account[r])]
        /\ UNCHANGED <<organizations, refreshTokens, verificationTokens>>
     \/ Fails(r, "error") /\ UNCHANGED sessionsAtReset

\* The error of deleting the link is ignored: a used link may survive.
ResetPasswordDelete(r) ==
  /\ pc[r] = "reset.delete"
  /\ \/ DeleteVerificationToken(call[r].token)
     \/ Faults /\ UNCHANGED verificationTokens
  /\ Goto(r, "reset.revoke")
  /\ UNCHANGED <<users, organizations, refreshTokens, sessionsAtReset>>

\* Mutant: the error of DeleteByUserID is dropped.
ResetPasswordRevokeUnchecked(r) ==
  /\ pc[r] = "reset.revoke"
  /\ \/ DeleteRefreshTokens(SessionsOf(account[r]))
     \/ Faults /\ UNCHANGED refreshTokens
  /\ Respond(r, "ok")
  /\ UNCHANGED <<users, organizations, verificationTokens, sessionsAtReset>>

ResetPasswordRevoke(r) ==
  LET sessions == SessionsOf(account[r]) IN
  /\ pc[r] = "reset.revoke"
  /\ \/ /\ DeleteRefreshTokens(sessions)
        /\ Respond(r, IF DeleteSucceeds(sessions # {}) THEN "ok" ELSE "error")
        /\ UNCHANGED <<users, organizations, verificationTokens>>
     \/ Fails(r, "error")
  /\ UNCHANGED sessionsAtReset

----------------------------------------------------------------------------
(* SetupTwoFA, ConfirmTwoFA and DisableTwoFA: each reads the row of the       *)
(* authenticated user, changes its copy and writes the copy back.             *)

\* GetProfile finds nobody for the zero user id of a temporary token: 500.
NoProfile(r) ==
  /\ pc[r] \in {"setup.lookup", "confirm.lookup", "disable.lookup"}
  /\ account[r] = Nil \/ Faults
  /\ Reject(r, "error")
  /\ UNCHANGED sessionsAtReset

SetupLookup(r) ==
  /\ pc[r] = "setup.lookup"
  /\ account[r] # Nil
  /\ GotoWith(r, "setup.update", [users[account[r]] EXCEPT !.totpSecret = r])
  /\ UNCHANGED <<tables, sessionsAtReset>>

\* Mutant: no test for an empty secret before the code is validated.
ConfirmLookupEmptySecret(r) ==
  LET u == users[account[r]] IN
  /\ pc[r] = "confirm.lookup"
  /\ account[r] # Nil
  /\ IF ValidateCode(u.totpSecret, call[r].code)
     THEN GotoWith(r, "confirm.update", [u EXCEPT !.totpEnabled = TRUE])
     ELSE Respond(r, "unauthorized")
  /\ UNCHANGED <<tables, sessionsAtReset>>

ConfirmLookup(r) ==
  LET u == users[account[r]] IN
  /\ pc[r] = "confirm.lookup"
  /\ account[r] # Nil
  /\ IF u.totpSecret # Nil /\ ValidateCode(u.totpSecret, call[r].code)
     THEN GotoWith(r, "confirm.update", [u EXCEPT !.totpEnabled = TRUE])
     ELSE Respond(r, "unauthorized")
  /\ UNCHANGED <<tables, sessionsAtReset>>

DisableLookup(r) ==
  LET u == users[account[r]] IN
  /\ pc[r] = "disable.lookup"
  /\ account[r] # Nil
  /\ IF u.totpEnabled /\ ValidateCode(u.totpSecret, call[r].code)
     THEN GotoWith(r, "disable.update", [u EXCEPT !.totpEnabled = FALSE, !.totpSecret = Nil])
     ELSE Respond(r, "unauthorized")
  /\ UNCHANGED <<tables, sessionsAtReset>>

TwoFAUpdate(r) ==
  /\ pc[r] \in {"setup.update", "confirm.update", "disable.update"}
  /\ \/ /\ UpdateUser(account[r], row[r])
        /\ Respond(r, "ok")
        /\ UNCHANGED <<organizations, refreshTokens, verificationTokens>>
     \/ Fails(r, "error")
  /\ UNCHANGED sessionsAtReset

----------------------------------------------------------------------------
\* The next statement of the handler serving r.
StepAuth(r) ==
  \/ RegisterLookup(r) \/ CreateOrganization(r) \/ RegisterUser(r)
  \/ SendVerificationEmail(r) \/ GenerateTokens(r)
  \/ LoginLookup(r) \/ LoginWithTwoFA(r)
  \/ RefreshLookup(r) \/ RefreshPurge(r) \/ RefreshUser(r) \/ RefreshDelete(r)
  \/ Logout(r)
  \/ VerifyEmailLookup(r) \/ VerifyEmailPurge(r) \/ VerifyEmailUser(r)
  \/ VerifyEmailUpdate(r) \/ VerifyEmailDelete(r)
  \/ ForgotPasswordLookup(r) \/ ForgotPasswordCreate(r)
  \/ ResetPasswordLookup(r) \/ ResetPasswordPurge(r) \/ ResetPasswordUser(r)
  \/ ResetPasswordUpdate(r) \/ ResetPasswordDelete(r) \/ ResetPasswordRevoke(r)
  \/ NoProfile(r) \/ SetupLookup(r) \/ ConfirmLookup(r) \/ DisableLookup(r)
  \/ TwoFAUpdate(r)
=============================================================================
