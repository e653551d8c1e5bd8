---------------------------- MODULE OAuthService ----------------------------
(***************************************************************************)
(* findOrCreateUser of internal/services/oauth_service.go, which both      *)
(* provider callbacks end in.  The exchange of the authorization code and  *)
(* the user-info request happen at the provider; what the backend learns   *)
(* from them is a profile: an identity and the e-mail address that goes    *)
(* with it at that moment.                                                 *)
(***************************************************************************)
EXTENDS AuthService

CONSTANT Profiles   \* what the providers may report

ASSUME ProfilesAssumption == Profiles \subseteq Identities \X Emails

AcceptOAuth(r) ==
  /\ \E p \in Profiles :
       Accept(r, [NoCall EXCEPT !.op = "oauth", !.identity = p[1], !.email = p[2]],
              Nil, "oauth.provider")
  /\ UNCHANGED <<tables, sessionsAtReset>>

\* Accounts created with the identity; (provider, providerId) is not UNIQUE.
AccountsOf(identity) == {e \in Emails : users[e] # Nil /\ users[e].identity = identity}

\* FindByProvider: the first row found wins.  An error is taken for "not found".
OAuthProvider(r) ==
  LET found == AccountsOf(call[r].identity) IN
  /\ pc[r] = "oauth.provider"
  /\ \/ \E e \in found : GotoFor(r, "mint", e)
     \/ /\ found = {} \/ Faults
        /\ Goto(r, "oauth.email")
  /\ UNCHANGED <<tables, sessionsAtReset>>

\* An address that is taken is refused, whatever provider it came from; an
\* error is taken for "free".
OAuthEmail(r) ==
  LET u == users[call[r].email] IN
  /\ pc[r] = "oauth.email"
  /\ \/ u # Nil /\ Respond(r, "conflict")
     \/ /\ u = Nil \/ Faults
        /\ Goto(r, "oauth.org")
  /\ UNCHANGED <<tables, sessionsAtReset>>

\* Mutant: a sign-up that lost the race takes the account over.
OAuthUserJoins(r) ==
  LET e == call[r].email IN
  /\ pc[r] = "oauth.user"
  /\ \/ InsertUser(e, NewUser(Nil, TRUE, call[r].identity, r))
     \/ users[e] # Nil /\ UNCHANGED users
  /\ GotoFor(r, "mint", e)
  /\ UNCHANGED <<organizations, refreshTokens, verificationTokens, sessionsAtReset>>

\* The account has no password and counts as verified.  A duplicate address is
\* not mapped to a conflict here, as Register maps it: 500.
OAuthUser(r) ==
  LET e == call[r].email IN
  /\ pc[r] = "oauth.user"
  /\ \/ /\ InsertUser(e, NewUser(Nil, TRUE, call[r].identity, r))
        /\ GotoFor(r, "mint", e)
        /\ UNCHANGED <<organizations, refreshTokens, verificationTokens>>
     \/ users[e] # Nil /\ Reject(r, "error")
     \/ Fails(r, "error")
  /\ UNCHANGED sessionsAtReset

StepOAuth(r) == OAuthProvider(r) \/ OAuthEmail(r) \/ OAuthUser(r)
=============================================================================
