------------------------------- MODULE Server -------------------------------
(***************************************************************************)
(* The running backend: every request served concurrently over the shared  *)
(* tables, the clean-up job started by cmd/server/main.go, the clock that  *)
(* expires tokens and links, and the death of the process; followed by     *)
(* what makes the whole correct.                                           *)
(***************************************************************************)
EXTENDS OAuthService

Init ==
  /\ StoreInit
  /\ RequestsInit
  /\ sessionsAtReset = [r \in Reqs |-> {}]

Receive(r) == AcceptAuth(r) \/ AcceptOAuth(r)

Step(r) == StepAuth(r) \/ StepOAuth(r)

Clock ==
  /\ \E t \in Reqs : ExpireRefreshToken(t) \/ ExpireVerificationToken(t)
  /\ UNCHANGED <<locals, sessionsAtReset>>

\* A DELETE that fails leaves the tables alone, and the job goes on (CleanupJob).
Cleanup == CleanupExpiredTokens /\ UNCHANGED <<locals, sessionsAtReset>>

Die == Crash /\ UNCHANGED sessionsAtReset

Next ==
  \/ \E r \in Reqs : Receive(r) \/ Step(r)
  \/ Clock
  \/ Cleanup
  \/ Die

Spec == Init /\ [][Next]_vars

----------------------------------------------------------------------------
TypeOK ==
  /\ StoreTypeOK
  /\ RequestsTypeOK
  /\ sessionsAtReset \in [Reqs -> SUBSET Reqs]

Live(t) == refreshTokens[t] # Nil

Answered(r, op, a) == call[r].op = op /\ answer[r] = a

----------------------------------------------------------------------------
(* Accounts *)

\* Statements that run on behalf of an account the handler has identified.
ForAccount ==
  {"mint", "register.mail", "login2fa.lookup", "refresh.user", "refresh.delete",
   "verify.user", "verify.update", "verify.delete", "forgot.create",
   "reset.user", "reset.update", "reset.delete", "reset.revoke",
   "setup.update", "confirm.update", "disable.update"}

\* Whatever account a session, a link, or a handler about to write refers to
\* is in the table: no flow goes on past a user row that was not stored.
ReferencesResolve ==
  /\ \A r \in Reqs : pc[r] \in ForAccount =>
       account[r] \in Emails /\ users[account[r]] # Nil
  /\ \A t \in Reqs : Live(t) => users[refreshTokens[t].user] # Nil
  /\ \A t \in Reqs :
       verificationTokens[t] # Nil => users[verificationTokens[t].user] # Nil

\* A registration that is answered with tokens owns the account: of several
\* registrations of one address racing each other only one opens a session,
\* and the account keeps its organization.
RegistrationWins ==
  \A r \in Reqs :
    Answered(r, "register", "tokens") =>
      /\ users[call[r].email] # Nil
      /\ users[call[r].email].organization = r

\* A statement that writes a user row writes the one of the account its
\* handler serves, and no other.
OnlyOwnRowWritten ==
  [][\A e \in Emails : users'[e] # users[e] =>
       \E r \in Reqs : pc'[r] # pc[r] /\ account'[r] = e]_vars

----------------------------------------------------------------------------
(* Sessions *)

\* When the engine reports a DELETE that hits nothing, rotation is single use:
\* of any requests presenting one refresh token at most one gets new tokens,
\* however they interleave.
RotationSingleUse ==
  DeleteMissingFails =>
    \A q, r \in Reqs :
      /\ call[q].op = "refresh" /\ call[r].op = "refresh"
      /\ call[q].token = call[r].token
      /\ pc[q] = "mint" \/ answer[q] = "tokens"
      /\ pc[r] = "mint" \/ answer[r] = "tokens"
      => q = r

\* The session an answer hands out was stored, and leaves the table only by
\* expiring, by its own rotation or logout, or by a reset of its account.
SessionEndsForAReason ==
  [][\A t \in Reqs :
       /\ answer'[t] = "tokens" /\ answer[t] # "tokens" => refreshTokens'[t] # Nil
       /\ Live(t) /\ refreshTokens'[t] = Nil =>
            \/ refreshTokens[t].expired
            \/ \E r \in Reqs :
                 /\ pc'[r] # pc[r]
                 /\ \/ call[r].op \in {"refresh", "logout"} /\ call[r].token = t
                    \/ call[r].op = "reset" /\ account[r] = refreshTokens[t].user]_vars

\* Once a reset is answered with success, no session that existed when the
\* password changed is left.
ResetRevokesExisting ==
  \A r \in Reqs : Answered(r, "reset", "ok") =>
    \A t \in sessionsAtReset[r] : ~Live(t)

\* "A password reset invalidates every existing session"
\* (auth_service.go:266): neither a session that existed when the password
\* changed nor one rotated out of it outlives a successful reset.
ExistingSessionsEnd ==
  \A r \in Reqs : Answered(r, "reset", "ok") =>
    \A t \in Reqs : Live(t) =>
      /\ t \notin sessionsAtReset[r]
      /\ call[t].op = "refresh" => call[t].token \notin sessionsAtReset[r]

----------------------------------------------------------------------------
(* Links *)

\* A link is honoured only for the purpose it was mailed for and only for the
\* account it was mailed to.
LinkOpensWhatItWasMadeFor ==
  \A r \in Reqs :
    /\ call[r].op \in {"verify", "reset"}
    /\ pc[r] \in ForAccount \/ answer[r] = "ok"
    => LET link == call[r].token IN
       /\ account[r] = account[link]
       /\ call[link].op = IF call[r].op = "verify" THEN "register" ELSE "forgot"

\* A link that has been used with success is gone.  (A reset does not look at
\* the outcome of its DELETE, so for resets only if no statement fails.)
UsedLinkIsGone ==
  \A r \in Reqs :
    Answered(r, "verify", "ok") \/ (~Faults /\ Answered(r, "reset", "ok")) =>
      verificationTokens[call[r].token] = Nil

\* A link leaves the table only in a request that presents it: using up one link
\* of an account, or purging it as expired, does away with no other.
LinkEndsOnlyWhenPresented ==
  [][\A t \in Reqs :
       verificationTokens[t] # Nil /\ verificationTokens'[t] = Nil =>
         \E r \in Reqs :
           pc'[r] # pc[r] /\ call[r].op \in {"verify", "reset"} /\ call[r].token = t]_vars

\* "VerifyEmail marks the user owning the token as verified"
\* (auth_service.go:194): once it has succeeded the account is verified.
VerifiedStays ==
  \A r \in Reqs : Answered(r, "verify", "ok") => users[account[r]].emailVerified

----------------------------------------------------------------------------
(* Two-factor authentication *)

\* An account with 2FA on has a secret, whatever copies of its row handlers
\* hold and in whatever order they write them back.
EnabledHasSecret ==
  /\ \A e \in Emails :
       users[e] # Nil /\ users[e].totpEnabled => users[e].totpSecret # Nil
  /\ \A r \in Reqs :
       row[r] # Nil /\ row[r].totpEnabled => row[r].totpSecret # Nil

\* The temporary token of a login waiting for its second factor gives access
\* to nothing but that login's completion.
PendingTokenOpensNothing ==
  \A r \in Reqs :
    /\ call[r].op \in {"setup", "confirm", "disable"}
    /\ call[r].token \in Reqs
    /\ answer[call[r].token] = "requires2fa"
    => answer[r] # "ok" /\ row[r] = Nil

\* SetupTwoFA "leaves 2FA disabled until ConfirmTwoFA verifies the user can
\* produce a valid code" (auth_service.go:270): a secret set up is in force
\* only if a code made from it was presented to ConfirmTwoFA.
EnabledSecretConfirmed ==
  \A e \in Emails :
    users[e] # Nil /\ users[e].totpEnabled /\ users[e].totpSecret \in Reqs =>
      \E q \in Reqs : call[q].op = "confirm" /\ call[q].code = users[e].totpSecret

----------------------------------------------------------------------------
(* Organizations *)

OrphanOrganizations ==
  organizations \ {users[e].organization : e \in {f \in Emails : users[f] # Nil}}

\* An organization without its account is the trace of a sign-up that is still
\* running or that was told it failed.
OrphansExplained ==
  \A o \in OrphanOrganizations :
    o \in Reqs /\ (InFlight(o) \/ answer[o] \in {"conflict", "error", "cut"})
=============================================================================
