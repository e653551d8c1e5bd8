------------------------------- MODULE Store -------------------------------
(***************************************************************************)
(* The PostgreSQL tables behind the backend (internal/database/init.sql)   *)
(* and the statements the repositories of internal/repository run on them. *)
(* Every statement is atomic and commits by itself: no code path opens a   *)
(* transaction.                                                            *)
(*                                                                         *)
(* Values the program draws at random (uuid.New, crypto/rand, TOTP         *)
(* secrets) never collide, so each is named by the request that drew it: a *)
(* request mints at most one refresh token, one verification token, one    *)
(* TOTP secret and one organization.  Values drawn before the modelled     *)
(* period are named by the e-mail of the account they belong to.           *)
(***************************************************************************)

CONSTANTS
  Reqs,               \* HTTP requests; each is served once, by its own goroutine
  Emails,             \* e-mail addresses; "email" is UNIQUE and never updated
  Passwords,          \* passwords clients may choose or present
  Identities,         \* (provider, providerId) pairs of OAuth providers
  Registered,         \* the e-mails already registered at the start
  DeleteMissingFails, \* does the query engine report a DELETE that hits no row
                      \* as an error?  The engine is outside the repository.
  Faults,             \* may a statement fail (connection, cancelled context), or
                      \* bcrypt, or the random source, and may the process die?
  Nil                 \* "no row", "no value": SQL NULL, Go's nil, "" and uuid.Nil

Ids == Reqs \cup Emails

UserRow ==
  [password      : Passwords \cup {Nil},
   emailVerified : BOOLEAN,
   totpSecret    : Ids \cup {Nil},
   totpEnabled   : BOOLEAN,
   identity      : Identities \cup {Nil},   \* Nil for provider "local"
   organization  : Ids]

\* "expired" stands for time.Now().After(ExpiresAt).
RefreshRow == [user : Emails, expired : BOOLEAN]

Purposes == {"email_verify", "password_reset"}

VerificationRow == [user : Emails, purpose : Purposes, expired : BOOLEAN]

ASSUME StoreAssumption ==
  /\ Reqs \cap Emails = {}
  /\ Registered \subseteq Emails
  /\ DeleteMissingFails \in BOOLEAN
  /\ Faults \in BOOLEAN

ASSUME NilAssumption ==
  /\ Nil \notin Reqs
  /\ Nil \notin Emails
  /\ Nil \notin Passwords
  /\ Nil \notin Identities
  /\ Nil \notin UserRow
  /\ Nil \notin RefreshRow
  /\ Nil \notin VerificationRow

VARIABLES
  users,              \* table "User", keyed by e-mail
  organizations,      \* table "Organization": the ids present
  refreshTokens,      \* table "RefreshToken", keyed by the token
  verificationTokens  \* table "VerificationToken", keyed by the token

tables == <<users, organizations, refreshTokens, verificationTokens>>

StoreTypeOK ==
  /\ users \in [Emails -> UserRow \cup {Nil}]
  /\ organizations \in SUBSET Ids
  /\ refreshTokens \in [Reqs -> RefreshRow \cup {Nil}]
  /\ verificationTokens \in [Reqs -> VerificationRow \cup {Nil}]

(***************************************************************************)
(* Accounts registered earlier, whose sessions and links are gone by now:  *)
(* verified or not, without 2FA, with a TOTP secret set up but never       *)
(* confirmed, or with 2FA on.                                              *)
(***************************************************************************)
EarlierAccount(e) ==
  {u \in [password : Passwords, emailVerified : BOOLEAN,
          totpSecret : {e, Nil}, totpEnabled : BOOLEAN,
          identity : {Nil}, organization : {e}] :
     u.totpEnabled => u.totpSecret # Nil}

StoreInit ==
  /\ users \in [Emails -> UNION {EarlierAccount(e) : e \in Registered} \cup {Nil}]
  /\ \A e \in Emails :
       users[e] \in IF e \in Registered THEN EarlierAccount(e) ELSE {Nil}
  /\ organizations = Registered
  /\ refreshTokens = [t \in Reqs |-> Nil]
  /\ verificationTokens = [t \in Reqs |-> Nil]

----------------------------------------------------------------------------
(* UserRepository *)

NewUser(password, verified, identity, organization) ==
  [password |-> password, emailVerified |-> verified, totpSecret |-> Nil,
   totpEnabled |-> FALSE, identity |-> identity, organization |-> organization]

\* Mutant: INSERT without the UNIQUE constraint on "email".
InsertUserOverwriting(e, row) ==
  users' = [users EXCEPT ![e] = row]

\* INSERT INTO "User": refused by UNIQUE ("email") when a row is there.
InsertUser(e, row) ==
  /\ users[e] = Nil
  /\ users' = [users EXCEPT ![e] = row]

\* Mutant: UserQuery.UpdateOne(), which drops the WHERE clause.
UpdateUserEverywhere(e, row) ==
  users' = [f \in Emails |->
              IF users[f] = Nil THEN Nil
              ELSE [users[f] EXCEPT !.password      = row.password,
                                    !.emailVerified = row.emailVerified,
                                    !.totpSecret    = row.totpSecret,
                                    !.totpEnabled   = row.totpEnabled]]

\* Mutant: the password is not among the columns written.
UpdateUserKeepsPassword(e, row) ==
  users' = [users EXCEPT ![e].emailVerified = row.emailVerified,
                         ![e].totpSecret    = row.totpSecret,
                         ![e].totpEnabled   = row.totpEnabled]

\* Mutant: the flag of 2FA is not among the columns written.
UpdateUserKeepsTwoFA(e, row) ==
  users' = [users EXCEPT ![e].password      = row.password,
                         ![e].emailVerified = row.emailVerified,
                         ![e].totpSecret    = row.totpSecret]

\* UPDATE "User" ... WHERE "id" = row's id: every mutable column is written
\* from the Go struct, whichever of them the caller meant to change.
UpdateUser(e, row) ==
  users' = [users EXCEPT ![e].password      = row.password,
                         ![e].emailVerified = row.emailVerified,
                         ![e].totpSecret    = row.totpSecret,
                         ![e].totpEnabled   = row.totpEnabled]

----------------------------------------------------------------------------
(* TokenRepository and VerificationTokenRepository *)

SessionsOf(e) ==
  {t \in Reqs : refreshTokens[t] # Nil /\ refreshTokens[t].user = e}

InsertRefreshToken(t, e) ==
  refreshTokens' = [refreshTokens EXCEPT ![t] = [user |-> e, expired |-> FALSE]]

InsertVerificationToken(t, e, purpose) ==
  verificationTokens' = [verificationTokens EXCEPT
                           ![t] = [user |-> e, purpose |-> purpose, expired |-> FALSE]]

\* A DELETE over the given tokens, and whether the engine reports success.
DeleteRefreshTokens(T) ==
  refreshTokens' = [t \in Reqs |-> IF t \in T THEN Nil ELSE refreshTokens[t]]

\* Mutant: DELETE by account instead of by token.
DeleteVerificationTokensOfUser(t) ==
  verificationTokens' = [u \in Reqs |->
    IF verificationTokens[t] # Nil /\ verificationTokens[u] # Nil
         /\ verificationTokens[u].user = verificationTokens[t].user
    THEN Nil ELSE verificationTokens[u]]

DeleteVerificationToken(t) ==
  verificationTokens' = [verificationTokens EXCEPT ![t] = Nil]

DeleteSucceeds(hit) == hit \/ ~DeleteMissingFails

----------------------------------------------------------------------------
(* The passage of time, and the hourly job that deletes what has expired. *)

ExpireRefreshToken(t) ==
  /\ refreshTokens[t] # Nil
  /\ ~refreshTokens[t].expired
  /\ refreshTokens' = [refreshTokens EXCEPT ![t].expired = TRUE]
  /\ UNCHANGED <<users, organizations, verificationTokens>>

ExpireVerificationToken(t) ==
  /\ verificationTokens[t] # Nil
  /\ ~verificationTokens[t].expired
  /\ verificationTokens' = [verificationTokens EXCEPT ![t].expired = TRUE]
  /\ UNCHANGED <<users, organizations, refreshTokens>>

\* Mutant: the comparison with NOW() the wrong way round.
UnexpiredSessions == {t \in Reqs : refreshTokens[t] # Nil /\ ~refreshTokens[t].expired}

ExpiredSessions == {t \in Reqs : refreshTokens[t] # Nil /\ refreshTokens[t].expired}

\* The job's DELETE.  One that fails is no step of the tables.
CleanupExpiredTokens ==
  /\ ExpiredSessions # {}
  /\ DeleteRefreshTokens(ExpiredSessions)
  /\ UNCHANGED <<users, organizations, verificationTokens>>
=============================================================================
