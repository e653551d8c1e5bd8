--------------------------- MODULE AccountProofs ----------------------------
(***************************************************************************)
(* Accounts, for any number of requests: their second factor, who writes   *)
(* their rows, who registered them, which organizations are left without   *)
(* one, and what a pending login's temporary token opens; and the links    *)
(* mailed to clients: a link is honoured only for the purpose and the      *)
(* account it was made for, and one used with success is gone.             *)
(***************************************************************************)
EXTENDS ServerProofs

USE StoreAssumption, NilAssumption, NoAnswerAssumption

----------------------------------------------------------------------------
(* EnabledHasSecret *)

\* A row with 2FA on has a secret.
HasSecret(u) == u.totpEnabled => u.totpSecret # Nil

\* No copy of a row is taken: those there are stay or are dropped.
CopiesDropped == \A q \in Reqs : row'[q] \in {row[q], Nil}

\* Every form of going on or answering but GotoWith takes no copy.
LEMMA CopiesDroppedBy ==
  ASSUME RequestsTypeOK, NEW r \in Reqs
  PROVE  /\ \A l : Goto(r, l) => CopiesDropped
         /\ \A l, a : GotoFor(r, l, a) => CopiesDropped
         /\ \A l : GotoWritten(r, l) => CopiesDropped
         /\ \A s : Respond(r, s) => CopiesDropped
         /\ \A s : Reject(r, s) => CopiesDropped /\ UNCHANGED users
         /\ \A s : Fails(r, s) => CopiesDropped /\ UNCHANGED users
         /\ \A s, a : RespondFor(r, s, a) => CopiesDropped
  BY DEF RequestsTypeOK, Goto, GotoFor, GotoWritten, GotoWith, Respond, Reject, Fails,
         RespondFor, CopiesDropped, tables

\* A step that takes no copy and writes no row keeps EnabledHasSecret.
LEMMA DroppedKeeps ==
  ASSUME EnabledHasSecret, CopiesDropped, UNCHANGED users PROVE EnabledHasSecret'
  BY DEF EnabledHasSecret, CopiesDropped

\* Taking a copy with a secret, or without 2FA, keeps EnabledHasSecret.
LEMMA CopyKeeps ==
  ASSUME Inv, EnabledHasSecret, NEW r \in Reqs, NEW l, NEW w, HasSecret(w),
         GotoWith(r, l, w), UNCHANGED users
  PROVE  EnabledHasSecret'
  BY DEF Inv, RequestsInv, RequestsTypeOK, EnabledHasSecret, HasSecret, GotoWith

\* Creating an account keeps EnabledHasSecret.
LEMMA InsertKeeps ==
  ASSUME Inv, EnabledHasSecret, CopiesDropped, NEW e,
         \E p, v, i, o : InsertUser(e, NewUser(p, v, i, o))
  PROVE  EnabledHasSecret'
  <1>1. PICK u : InsertUser(e, u) /\ u.totpEnabled = FALSE
    BY DEF NewUser
  <1> QED BY <1>1 DEF InsertUser, EnabledHasSecret, CopiesDropped, Inv, StoreInv, StoreTypeOK

\* Writing a copy back keeps EnabledHasSecret: both columns are written at once.
LEMMA WriteKeeps ==
  ASSUME Inv, EnabledHasSecret, CopiesDropped, NEW r \in Reqs, pc[r] \in Writing,
         UpdateUser(account[r], row[r])
  PROVE  EnabledHasSecret'
  <1> DEFINE e == account[r]
             u == [users[e] EXCEPT !.password = row[r].password,
                                   !.emailVerified = row[r].emailVerified,
                                   !.totpSecret = row[r].totpSecret,
                                   !.totpEnabled = row[r].totpEnabled]
  <1>1. e \in Emails /\ users[e] \in UserRow /\ row[r] \in UserRow
    BY Known DEF Writing, ForAccount
  <1>2. HasSecret(row[r])
    BY <1>1 DEF EnabledHasSecret, HasSecret
  <1>3. u.totpSecret = row[r].totpSecret /\ u.totpEnabled = row[r].totpEnabled
    BY <1>1 DEF UserRow
  <1>4. users' = [users EXCEPT ![e] = u]
    BY <1>1 DEF UpdateUser, UserRow, Inv, StoreInv, StoreTypeOK
  <1>5. \A f \in Emails : users'[f] = IF f = e THEN u ELSE users[f]
    BY <1>1, <1>4 DEF Inv, StoreInv, StoreTypeOK
  <1> HIDE DEF u
  <1> QED BY <1>2, <1>3, <1>5 DEF EnabledHasSecret, CopiesDropped, HasSecret

\* Every handler keeps the secret of an account with 2FA on, and of its copies.
LEMMA SecretStep ==
  ASSUME Inv, EnabledHasSecret, NEW r \in Reqs, Step(r)
  PROVE  EnabledHasSecret'
  <1>0. RequestsTypeOK
    BY DEF Inv, RequestsInv
  <1>1. CASE RegisterLookup(r) \/ CreateOrganization(r) \/ RegisterUser(r)
             \/ SendVerificationEmail(r) \/ GenerateTokens(r)
    <2>1. CASE RegisterUser(r)
      BY <1>0, <2>1, CopiesDroppedBy, DroppedKeeps, InsertKeeps DEF RegisterUser
    <2> QED BY <1>0, <1>1, <2>1, CopiesDroppedBy, DroppedKeeps
            DEF RegisterLookup, CreateOrganization, SendVerificationEmail, GenerateTokens, tables
  <1>2. CASE \/ LoginLookup(r) \/ LoginWithTwoFA(r)
             \/ RefreshLookup(r) \/ RefreshPurge(r) \/ RefreshUser(r) \/ RefreshDelete(r)
             \/ Logout(r)
    BY <1>0, <1>2, CopiesDroppedBy, DroppedKeeps
       DEF LoginLookup, LoginWithTwoFA, RefreshLookup, RefreshPurge, RefreshUser,
           RefreshDelete, Logout, tables
  <1>3. CASE \/ VerifyEmailLookup(r) \/ VerifyEmailPurge(r) \/ VerifyEmailDelete(r)
             \/ ForgotPasswordLookup(r) \/ ForgotPasswordCreate(r)
             \/ ResetPasswordLookup(r) \/ ResetPasswordPurge(r)
             \/ ResetPasswordDelete(r) \/ ResetPasswordRevoke(r)
    BY <1>0, <1>3, CopiesDroppedBy, DroppedKeeps
       DEF VerifyEmailLookup, VerifyEmailPurge, VerifyEmailDelete, ForgotPasswordLookup,
           ForgotPasswordCreate, ResetPasswordLookup, ResetPasswordPurge, ResetPasswordDelete,
           ResetPasswordRevoke, LinkLookup, LinkPurge, tables
  <1>4. CASE \/ VerifyEmailUpdate(r) \/ ResetPasswordUpdate(r) \/ TwoFAUpdate(r)
    BY <1>0, <1>4, CopiesDroppedBy, DroppedKeeps, WriteKeeps
       DEF VerifyEmailUpdate, ResetPasswordUpdate, TwoFAUpdate, Writing
  <1>5. account[r] # Nil => users[account[r]] \in UserRow /\ HasSecret(users[account[r]])
    BY Known DEF EnabledHasSecret, HasSecret
  <1>6. CASE VerifyEmailUser(r)
    <2>1. account[r] # Nil
      BY <1>6, Known DEF VerifyEmailUser, ForAccount
    <2>2. HasSecret([users[account[r]] EXCEPT !.emailVerified = TRUE])
      BY <1>5, <2>1 DEF HasSecret, UserRow
    <2> QED BY <1>0, <1>6, <2>2, CopiesDroppedBy, DroppedKeeps, CopyKeeps
            DEF VerifyEmailUser, tables
  <1>7. CASE ResetPasswordUser(r)
    <2>1. account[r] # Nil
      BY <1>7, Known DEF ResetPasswordUser, ForAccount
    <2>2. HasSecret([users[account[r]] EXCEPT !.password = call[r].password])
      BY <1>5, <2>1 DEF HasSecret, UserRow
    <2> QED BY <1>0, <1>7, <2>2, CopiesDroppedBy, DroppedKeeps, CopyKeeps
            DEF ResetPasswordUser, tables
  <1>8. CASE NoProfile(r)
    BY <1>0, <1>8, CopiesDroppedBy, DroppedKeeps DEF NoProfile
  <1>9. CASE SetupLookup(r)
    <2>1. HasSecret([users[account[r]] EXCEPT !.totpSecret = r])
      BY <1>5, <1>9 DEF SetupLookup, HasSecret, UserRow
    <2> QED BY <1>9, <2>1, CopyKeeps DEF SetupLookup, tables
  <1>10. CASE ConfirmLookup(r)
    <2>1. users[account[r]].totpSecret # Nil
          => HasSecret([users[account[r]] EXCEPT !.totpEnabled = TRUE])
      BY <1>5, <1>10 DEF ConfirmLookup, HasSecret, UserRow
    <2> QED BY <1>0, <1>10, <2>1, CopiesDroppedBy, DroppedKeeps, CopyKeeps
            DEF ConfirmLookup, tables
  <1>11. CASE DisableLookup(r)
    <2>1. HasSecret([users[account[r]] EXCEPT !.totpEnabled = FALSE, !.totpSecret = Nil])
      BY <1>5, <1>11 DEF DisableLookup, HasSecret, UserRow
    <2> QED BY <1>0, <1>11, <2>1, CopiesDroppedBy, DroppedKeeps, CopyKeeps
            DEF DisableLookup, tables
  <1>12. CASE StepOAuth(r)
    BY <1>0, <1>12, CopiesDroppedBy, DroppedKeeps, InsertKeeps
       DEF StepOAuth, OAuthProvider, OAuthEmail, OAuthUser, tables
  <1> QED BY <1>1, <1>2, <1>3, <1>4, <1>6, <1>7, <1>8, <1>9, <1>10, <1>11, <1>12
          DEF Step, StepAuth

\* Initially no account has 2FA on without a secret.
LEMMA SecretInit == Init => EnabledHasSecret
  BY DEF Init, StoreInit, RequestsInit, EarlierAccount, EnabledHasSecret

\* Every step keeps EnabledHasSecret.
LEMMA SecretNext == Inv /\ EnabledHasSecret /\ [Next]_vars => EnabledHasSecret'
  <1> SUFFICES ASSUME Inv, EnabledHasSecret, [Next]_vars PROVE EnabledHasSecret'
    OBVIOUS
  <1>1. ASSUME NEW r \in Reqs, Receive(r) PROVE EnabledHasSecret'
    <2>1. UNCHANGED <<users, row>>
      BY <1>1, Received DEF Accept, tables
    <2> QED BY <2>1 DEF EnabledHasSecret
  <1>2. ASSUME NEW r \in Reqs, Step(r) PROVE EnabledHasSecret'
    BY <1>2, SecretStep
  <1>3. CASE Clock \/ Cleanup \/ UNCHANGED vars
    <2>1. UNCHANGED <<users, row>>
      BY <1>3 DEF Clock, ExpireRefreshToken, ExpireVerificationToken, Cleanup,
                  CleanupExpiredTokens, vars, tables, locals
    <2> QED BY <2>1 DEF EnabledHasSecret
  <1>4. CASE Die
    BY <1>4, DroppedKeeps DEF Die, Crash, tables, CopiesDropped
  <1> QED BY <1>1, <1>2, <1>3, <1>4 DEF Next

\* No interleaving of SetupTwoFA, ConfirmTwoFA, DisableTwoFA, VerifyEmail and
\* ResetPassword, which write whole rows back, leaves an account with 2FA on and
\* no secret to check codes against.
THEOREM Secrets == Spec => []EnabledHasSecret
  BY SecretInit, SecretNext, Invariant, PTL DEF Spec

----------------------------------------------------------------------------
(* OnlyOwnRowWritten *)

\* The row of an account is written only for the request that runs for it, which
\* goes on; a row that was there keeps its organization.
OwnRow(r) ==
  \A e \in Emails : users'[e] # users[e] =>
    /\ pc'[r] # pc[r] /\ account'[r] = e
    /\ users[e] # Nil => users'[e] # Nil /\ users'[e].organization = users[e].organization

\* Creating an account for the request writes its row only.
LEMMA InsertOwn ==
  ASSUME Inv, NEW r \in Reqs, NEW l, l # pc[r], NEW e \in Emails, NEW u,
         InsertUser(e, u), GotoFor(r, l, e)
  PROVE  OwnRow(r)
  BY DEF Inv, StoreInv, StoreTypeOK, RequestsInv, RequestsTypeOK, InsertUser, GotoFor, OwnRow

\* Writing the copy back writes the row of the request's account only, and not
\* its organization.
LEMMA WriteOwn ==
  ASSUME Inv, NEW r \in Reqs, NEW l, l # pc[r], pc[r] \in Writing,
         UpdateUser(account[r], row[r]),
         GotoWritten(r, l) \/ (l = "done" /\ \E s : Respond(r, s))
  PROVE  OwnRow(r)
  <1> DEFINE e == account[r]
             u == [users[e] EXCEPT !.password = row[r].password,
                                   !.emailVerified = row[r].emailVerified,
                                   !.totpSecret = row[r].totpSecret,
                                   !.totpEnabled = row[r].totpEnabled]
  <1>1. e \in Emails /\ users[e] \in UserRow /\ row[r] \in UserRow
    BY Known DEF Writing, ForAccount
  <1>2. u \in UserRow /\ u.organization = users[e].organization
    BY <1>1 DEF UserRow
  <1>3. users' = [users EXCEPT ![e] = u]
    BY <1>1 DEF UpdateUser, UserRow, Inv, StoreInv, StoreTypeOK
  <1>4. \A f \in Emails : users'[f] = IF f = e THEN u ELSE users[f]
    BY <1>1, <1>3 DEF Inv, StoreInv, StoreTypeOK
  <1>5. pc'[r] # pc[r] /\ account'[r] = e
    BY DEF Inv, RequestsInv, RequestsTypeOK, GotoWritten, GotoWith, Respond
  <1> HIDE DEF u
  <1> QED BY <1>2, <1>4, <1>5 DEF OwnRow

\* Every statement of every handler keeps to its own row.
LEMMA StepOwn ==
  ASSUME Inv, NEW r \in Reqs, Step(r)
  PROVE  OwnRow(r)
  <1>1. UNCHANGED users => OwnRow(r)
    BY DEF OwnRow
  <1>2. \A s : Reject(r, s) \/ Fails(r, s) => OwnRow(r)
    BY <1>1 DEF Reject, Fails, tables
  <1>3. pc[r] \in ByEmail => call[r].email \in Emails
    BY DEF Inv, RequestsInv, HandlersReady
  <1>4. CASE RegisterUser(r)
    <2>1. call[r].email \in Emails
      BY <1>3, <1>4 DEF RegisterUser, ByEmail
    <2> QED BY <1>2, <1>4, <2>1, InsertOwn DEF RegisterUser
  <1>5. CASE OAuthUser(r)
    <2>1. call[r].email \in Emails
      BY <1>3, <1>5 DEF OAuthUser, ByEmail
    <2> QED BY <1>2, <1>5, <2>1, InsertOwn DEF OAuthUser
  <1>6. CASE VerifyEmailUpdate(r) \/ ResetPasswordUpdate(r) \/ TwoFAUpdate(r)
    BY <1>2, <1>6, WriteOwn DEF VerifyEmailUpdate, ResetPasswordUpdate, TwoFAUpdate, Writing
  <1>7. CASE \/ RegisterLookup(r) \/ CreateOrganization(r) \/ SendVerificationEmail(r)
             \/ GenerateTokens(r) \/ LoginLookup(r) \/ LoginWithTwoFA(r)
             \/ RefreshLookup(r) \/ RefreshPurge(r) \/ RefreshUser(r) \/ RefreshDelete(r)
             \/ Logout(r) \/ OAuthProvider(r) \/ OAuthEmail(r)
    BY <1>1, <1>2, <1>7
       DEF RegisterLookup, CreateOrganization, SendVerificationEmail, GenerateTokens,
           LoginLookup, LoginWithTwoFA, RefreshLookup, RefreshPurge, RefreshUser,
           RefreshDelete, Logout, OAuthProvider, OAuthEmail, tables
  <1>8. CASE \/ VerifyEmailLookup(r) \/ VerifyEmailPurge(r) \/ VerifyEmailUser(r)
             \/ VerifyEmailDelete(r) \/ ForgotPasswordLookup(r) \/ ForgotPasswordCreate(r)
             \/ ResetPasswordLookup(r) \/ ResetPasswordPurge(r) \/ ResetPasswordUser(r)
             \/ ResetPasswordDelete(r) \/ ResetPasswordRevoke(r)
    BY <1>1, <1>2, <1>8
       DEF VerifyEmailLookup, VerifyEmailPurge, VerifyEmailUser, VerifyEmailDelete,
           ForgotPasswordLookup, ForgotPasswordCreate, ResetPasswordLookup,
           ResetPasswordPurge, ResetPasswordUser, ResetPasswordDelete, ResetPasswordRevoke,
           LinkLookup, LinkPurge, tables
  <1>9. CASE NoProfile(r) \/ SetupLookup(r) \/ ConfirmLookup(r) \/ DisableLookup(r)
    BY <1>1, <1>2, <1>9 DEF NoProfile, SetupLookup, ConfirmLookup, DisableLookup, tables
  <1> QED BY <1>4, <1>5, <1>6, <1>7, <1>8, <1>9 DEF Step, StepAuth, StepOAuth

\* A step that is not of a handler writes no user.
LEMMA OthersWriteNone ==
  ASSUME \/ \E r \in Reqs : Receive(r)
         \/ Clock \/ Cleanup \/ Die \/ UNCHANGED vars
  PROVE  UNCHANGED users
  BY Received DEF Clock, ExpireRefreshToken, ExpireVerificationToken, Cleanup,
     CleanupExpiredTokens, Die, Crash, vars, tables

\* No statement of a handler touches the row of another account, for any number
\* of accounts and whichever rows the handlers hold copies of.
THEOREM OwnRows == Spec => OnlyOwnRowWritten
  <1> DEFINE Own == \A e \in Emails : users'[e] # users[e] =>
                      \E r \in Reqs : pc'[r] # pc[r] /\ account'[r] = e
  <1>1. Inv /\ [Next]_vars => [Own]_vars
    <2> SUFFICES ASSUME Inv, [Next]_vars PROVE Own
      OBVIOUS
    <2>1. ASSUME NEW r \in Reqs, Step(r) PROVE Own
      BY <2>1, StepOwn DEF OwnRow
    <2> QED BY <2>1, OthersWriteNone DEF Next
  <1> QED BY <1>1, Invariant, PTL DEF Spec, OnlyOwnRowWritten

----------------------------------------------------------------------------
(* RegistrationWins *)

\* Where the handler of Register can be before its account is stored.
Unregistered == {"register.lookup", "register.org", "register.user"}

\* A registration past its INSERT owns the account of its address.
Owns(q) ==
  call[q].op = "register" =>
    /\ call[q].email \in Emails
    /\ pc[q] \in Unregistered \cup {"register.mail", "mint", "done"}
    /\ pc[q] \in {"register.mail", "mint"} \/ answer[q] = "tokens" =>
         /\ users[call[q].email] # Nil
         /\ users[call[q].email].organization = q

\* Every registration keeps to it.
RegisterInv == \A q \in Reqs : Owns(q)

\* How the handler of Register comes to own the account.
LEMMA RegisterSteps ==
  ASSUME Inv, NEW r \in Reqs, Step(r), pc[r] \in Unregistered \cup {"register.mail", "mint"}
  PROVE  /\ pc'[r] \in Unregistered \cup {"register.mail", "mint", "done"}
         /\ pc'[r] \in {"register.mail", "mint"} \/ answer'[r] = "tokens" =>
              \/ pc[r] \in {"register.mail", "mint"}
              \/ /\ users'[call[r].email] # Nil
                 /\ users'[call[r].email].organization = r
  <1> USE DEF Inv, RequestsInv, RequestsTypeOK, Unregistered
  <1>0. answer[r] = Nil /\ Nil # "tokens"
    BY DEF HandlersReady, Answers
  <1>1. CASE pc[r] \in {"register.mail", "mint"}
    <2>1. SendVerificationEmail(r) \/ GenerateTokens(r)
      BY <1>1, StatementOf
    <2> QED BY <1>1, <2>1 DEF SendVerificationEmail, GenerateTokens, Goto, Respond, Fails, Reject
  <1>2. CASE pc[r] \in {"register.lookup", "register.org"}
    <2>1. RegisterLookup(r) \/ CreateOrganization(r)
      BY <1>2, Statements DEF Step, StepAuth, StepOAuth
    <2>2. \/ \E s : Respond(r, s) /\ s \in {"conflict", "error"}
          \/ Goto(r, "register.org") \/ Goto(r, "register.user")
      BY <1>2, <2>1 DEF RegisterLookup, CreateOrganization, Fails, Reject
    <2> QED BY <1>0, <2>2 DEF Goto, Respond
  <1>3. CASE pc[r] = "register.user"
    <2> DEFINE e == call[r].email
               u == NewUser(call[r].password, FALSE, Nil, r)
    <2>1. RegisterUser(r) /\ e \in Emails
      BY <1>3, Statements DEF Step, StepAuth, StepOAuth, HandlersReady, ByEmail
    <2>2. \/ InsertUser(e, u) /\ GotoFor(r, "register.mail", e)
          \/ Respond(r, "conflict") \/ Respond(r, "error")
      BY <2>1 DEF RegisterUser, Fails, Reject
    <2>3. CASE Respond(r, "conflict") \/ Respond(r, "error")
      BY <1>0, <2>3 DEF Respond
    <2>4. CASE InsertUser(e, u) /\ GotoFor(r, "register.mail", e)
      <3>1. users'[e] = u
        BY <2>1, <2>4 DEF InsertUser, StoreInv, StoreTypeOK
      <3>2. u \in UserRow
        BY <2>1 DEF NewUser, UserRow, Ids, Call
      <3>3. u.organization = r
        BY DEF NewUser
      <3> QED BY <2>4, <3>1, <3>2, <3>3 DEF GotoFor
    <2> QED BY <2>2, <2>3, <2>4
  <1> QED BY <1>1, <1>2, <1>3

\* Initially nobody registers.
LEMMA RegisterInit == Init => RegisterInv
  BY DEF Init, RequestsInit, NoCall, AllOps, RegisterInv, Owns

\* A request that stays where it is, or is answered with no tokens, keeps what it
\* owns: the row of an account keeps its organization.
LEMMA OwnsKept ==
  ASSUME Inv, NEW q \in Reqs, Owns(q),
         \A e \in Emails : users[e] # Nil =>
           users'[e] # Nil /\ users'[e].organization = users[e].organization,
         call'[q] = call[q],
         pc'[q] = pc[q] \/ pc'[q] = "done",
         answer'[q] = "tokens" => answer[q] = "tokens"
  PROVE  Owns(q)'
  <1>1. CASE /\ call[q].op = "register"
             /\ pc'[q] \in {"register.mail", "mint"} \/ answer'[q] = "tokens"
    <2>1. users[call[q].email] # Nil /\ users[call[q].email].organization = q
      BY <1>1 DEF Owns
    <2> QED BY <1>1, <2>1 DEF Owns
  <1> QED BY <1>1 DEF Owns

\* Every step keeps RegisterInv.
LEMMA RegisterNext == Inv /\ RegisterInv /\ [Next]_vars => RegisterInv'
  <1> SUFFICES ASSUME Inv, RegisterInv, [Next]_vars, NEW q \in Reqs
               PROVE  Owns(q)'
    BY DEF RegisterInv
  <1>0. Owns(q) /\ RequestsTypeOK /\ Nil # "tokens"
    BY DEF RegisterInv, Inv, RequestsInv, Answers
  <1>1. ASSUME NEW r \in Reqs, Receive(r) PROVE Owns(q)'
    <2>1. PICK c, a, first : Accept(r, c, a, first) /\ Fits(c, a, first)
      BY <1>1, Received
    <2>2. UNCHANGED <<users, answer>>
      BY <1>1, <2>1, Received DEF Accept, tables
    <2>3. CASE q # r
      BY <1>0, <2>1, <2>2, <2>3 DEF Accept, RequestsTypeOK, Owns
    <2>4. CASE q = r /\ c.op # "register"
      BY <1>0, <2>1, <2>4 DEF Accept, RequestsTypeOK, Owns
    <2>5. CASE q = r /\ c.op = "register"
      <3>1. call'[q] = c /\ pc'[q] = "register.lookup" /\ answer'[q] # "tokens"
        BY <1>0, <2>1, <2>2, <2>5
           DEF Accept, Fits, Endpoints, RequestsTypeOK, Inv, RequestsInv, HandlersReady
      <3>2. call'[q].email \in Emails
        BY <3>1, NextInv DEF Inv, RequestsInv, HandlersReady, ByEmail
      <3> QED BY <3>1, <3>2 DEF Owns, Unregistered
    <2> QED BY <2>3, <2>4, <2>5
  <1>2. ASSUME NEW r \in Reqs, Step(r) PROVE Owns(q)'
    <2>1. call' = call /\ \A p \in Reqs \ {r} : pc'[p] = pc[p] /\ answer'[p] = answer[p]
      BY <1>0, <1>2, StepMoves, MovingFrame
    <2>2. \A e \in Emails : users[e] # Nil =>
            users'[e] # Nil /\ users'[e].organization = users[e].organization
      BY <1>2, StepOwn DEF OwnRow
    <2>3. CASE q # r
      BY <1>0, <2>1, <2>2, <2>3, OwnsKept
    <2>4. CASE q = r /\ call[r].op = "register"
      <3>1. pc[r] \in Unregistered \cup {"register.mail", "mint"}
        BY <1>0, <1>2, <2>4, StatementOf DEF Owns
      <3> QED BY <1>0, <1>2, <2>1, <2>2, <2>4, <3>1, RegisterSteps DEF Owns
    <2>5. CASE q = r /\ call[r].op # "register"
      BY <2>1, <2>5 DEF Owns
    <2> QED BY <2>3, <2>4, <2>5
  <1>3. CASE Clock \/ Cleanup \/ UNCHANGED vars
    <2>1. UNCHANGED <<users, locals>>
      BY <1>3, OthersWriteNone DEF Clock, Cleanup, vars, tables
    <2> QED BY <1>0, <2>1, OwnsKept DEF locals
  <1>4. CASE Die
    BY <1>0, <1>4, OwnsKept, OthersWriteNone DEF Die, Crash, RequestsTypeOK
  <1> QED BY <1>1, <1>2, <1>3, <1>4 DEF Next

\* However many sign-ups race for an address, a registration that is answered
\* with tokens is the one that created the account, and no row written back
\* later takes the account's organization away.
THEOREM Registrations == Spec => []RegistrationWins
  <1>1. RegisterInv => RegistrationWins
    BY DEF RegisterInv, Owns, RegistrationWins, Answered
  <1> QED BY <1>1, RegisterInit, RegisterNext, Invariant, PTL DEF Spec

----------------------------------------------------------------------------
(* OrphansExplained *)

\* Some account belongs to the organization.
Housed(o) == \E e \in Emails : users[e] # Nil /\ users[e].organization = o

\* The request is about to insert the account of the organization it created.
InsertsNext(o) == pc[o] \in {"register.user", "oauth.user"}

\* The client was told that the sign-up failed, or was told nothing.
ToldFailed(o) == answer[o] \in {"conflict", "error", "cut"}

\* The strengthening of OrphansExplained: of the sign-ups that are running only
\* those at their INSERT have an organization without an account.
OrganizationsInv ==
  \A o \in organizations : Housed(o) \/ (o \in Reqs /\ (InsertsNext(o) \/ ToldFailed(o)))

\* A step of a handler creates no organization but its own, and that just before
\* the account's INSERT.
LEMMA StepOrganizations ==
  ASSUME RequestsTypeOK, NEW r \in Reqs, Step(r)
  PROVE  \/ UNCHANGED organizations
         \/ organizations' = organizations \cup {r} /\ InsertsNext(r)'
  <1>1. \A s : Reject(r, s) \/ Fails(r, s) => UNCHANGED organizations
    BY DEF Reject, Fails, tables
  <1>2. CASE CreateOrganization(r)
    BY <1>1, <1>2 DEF CreateOrganization, Goto, RequestsTypeOK, InsertsNext
  <1>3. CASE RegisterLookup(r) \/ RegisterUser(r) \/ SendVerificationEmail(r) \/ GenerateTokens(r)
    BY <1>1, <1>3 DEF RegisterLookup, RegisterUser, SendVerificationEmail, GenerateTokens, tables
  <1>4. CASE \/ LoginLookup(r) \/ LoginWithTwoFA(r)
             \/ RefreshLookup(r) \/ RefreshPurge(r) \/ RefreshUser(r) \/ RefreshDelete(r)
             \/ Logout(r)
    BY <1>1, <1>4 DEF LoginLookup, LoginWithTwoFA, RefreshLookup, RefreshPurge, RefreshUser,
       RefreshDelete, Logout, tables
  <1>5. CASE \/ VerifyEmailLookup(r) \/ VerifyEmailPurge(r) \/ VerifyEmailUser(r)
             \/ VerifyEmailUpdate(r) \/ VerifyEmailDelete(r)
             \/ ForgotPasswordLookup(r) \/ ForgotPasswordCreate(r)
    BY <1>1, <1>5 DEF VerifyEmailLookup, VerifyEmailPurge, VerifyEmailUser,
       VerifyEmailUpdate, VerifyEmailDelete, ForgotPasswordLookup, ForgotPasswordCreate,
       LinkLookup, LinkPurge, tables
  <1>6. CASE \/ ResetPasswordLookup(r) \/ ResetPasswordPurge(r) \/ ResetPasswordUser(r)
             \/ ResetPasswordUpdate(r) \/ ResetPasswordDelete(r) \/ ResetPasswordRevoke(r)
    BY <1>1, <1>6 DEF ResetPasswordLookup, ResetPasswordPurge, ResetPasswordUser,
       ResetPasswordUpdate, ResetPasswordDelete, ResetPasswordRevoke, LinkLookup, LinkPurge,
       tables
  <1>7. CASE NoProfile(r) \/ SetupLookup(r) \/ ConfirmLookup(r) \/ DisableLookup(r)
             \/ TwoFAUpdate(r)
    BY <1>1, <1>7 DEF NoProfile, SetupLookup, ConfirmLookup, DisableLookup, TwoFAUpdate, tables
  <1>8. CASE StepOAuth(r)
    BY <1>1, <1>8 DEF StepOAuth, OAuthProvider, OAuthEmail, OAuthUser, tables
  <1> QED BY <1>2, <1>3, <1>4, <1>5, <1>6, <1>7, <1>8 DEF Step, StepAuth

\* The INSERT stores the account of the organization, or the client is told.
LEMMA InsertHouses ==
  ASSUME Inv, NEW r \in Reqs, Step(r), InsertsNext(r)
  PROVE  Housed(r)' \/ ToldFailed(r)'
  <1> DEFINE e == call[r].email
  <1>0. e \in Emails /\ RequestsTypeOK /\ users \in [Emails -> UserRow \cup {Nil}]
    BY Known DEF Inv, RequestsInv, StoreInv, StoreTypeOK, InsertsNext, ByEmail
  <1>1. RegisterUser(r) \/ OAuthUser(r)
    BY Statements DEF InsertsNext, Step, StepAuth, StepOAuth
  <1>2. PICK p \in Passwords \cup {Nil}, v \in BOOLEAN, i \in Identities \cup {Nil} :
          \/ InsertUser(e, NewUser(p, v, i, r))
          \/ Respond(r, "conflict") \/ Respond(r, "error")
    BY <1>0, <1>1 DEF RegisterUser, OAuthUser, Fails, Reject, RequestsTypeOK, Call
  <1>3. CASE Respond(r, "conflict") \/ Respond(r, "error")
    BY <1>0, <1>3 DEF Respond, RequestsTypeOK, ToldFailed
  <1>4. CASE InsertUser(e, NewUser(p, v, i, r))
    <2> DEFINE u == NewUser(p, v, i, r)
    <2>1. u \in UserRow /\ u.organization = r
      BY DEF NewUser, UserRow, Ids
    <2>2. users'[e] = u
      BY <1>0, <1>4 DEF InsertUser
    <2> HIDE DEF u
    <2> QED BY <1>0, <2>1, <2>2 DEF Housed
  <1> QED BY <1>2, <1>3, <1>4

\* Initially every organization has its account.
LEMMA OrganizationsInit == Init => OrganizationsInv
  <1> SUFFICES ASSUME Init, NEW o \in organizations PROVE Housed(o)
    BY DEF OrganizationsInv
  <1>1. o \in Emails /\ users[o] \in EarlierAccount(o)
    BY DEF Init, StoreInit
  <1>2. users[o] \in UserRow /\ users[o].organization = o
    BY <1>1 DEF EarlierAccount, UserRow, Ids
  <1> QED BY <1>1, <1>2 DEF Housed

\* Every step keeps OrganizationsInv.
LEMMA OrganizationsNext == Inv /\ OrganizationsInv /\ [Next]_vars => OrganizationsInv'
  <1> SUFFICES ASSUME Inv, OrganizationsInv, [Next]_vars, NEW o \in organizations'
               PROVE  (Housed(o) \/ (o \in Reqs /\ (InsertsNext(o) \/ ToldFailed(o))))'
    BY DEF OrganizationsInv
  <1>0. RequestsTypeOK /\ Nil \notin {"conflict", "error", "cut"}
    BY DEF Inv, RequestsInv, Answers
  <1>1. Housed(o) => Housed(o)'
    <2>1. \A e \in Emails : users[e] # Nil =>
            users'[e] # Nil /\ users'[e].organization = users[e].organization
      BY StepOwn, OthersWriteNone DEF OwnRow, Next
    <2> QED BY <2>1 DEF Housed
  <1>2. o \in Reqs /\ ToldFailed(o) => ToldFailed(o)'
    BY <1>0, AnswersFinal DEF ToldFailed
  <1>3. ASSUME NEW r \in Reqs, Step(r)
        PROVE  (Housed(o) \/ (o \in Reqs /\ (InsertsNext(o) \/ ToldFailed(o))))'
    <2>1. CASE o \in organizations /\ o # r
      <3>1. o \in Reqs => pc'[o] = pc[o]
        BY <1>0, <1>3, <2>1, StepMoves, MovingFrame
      <3> QED BY <1>1, <1>2, <2>1, <3>1 DEF OrganizationsInv, InsertsNext
    <2>2. CASE o \in organizations /\ o = r
      BY <1>1, <1>2, <1>3, <2>2, InsertHouses DEF OrganizationsInv
    <2> QED BY <1>0, <1>3, <2>1, <2>2, StepOrganizations
  <1>4. ASSUME NEW r \in Reqs, Receive(r)
        PROVE  (Housed(o) \/ (o \in Reqs /\ (InsertsNext(o) \/ ToldFailed(o))))'
    <2>1. PICK c, a, first : Accept(r, c, a, first) /\ UNCHANGED tables
      BY <1>4, Received
    <2>2. o \in organizations /\ (o \in Reqs /\ InsertsNext(o) => InsertsNext(o)')
      BY <1>0, <2>1 DEF Accept, RequestsTypeOK, InsertsNext, tables
    <2> QED BY <1>1, <1>2, <2>2 DEF OrganizationsInv
  <1>5. CASE Clock \/ Cleanup \/ UNCHANGED vars
    <2>1. UNCHANGED <<organizations, pc>>
      BY <1>5 DEF Clock, ExpireRefreshToken, ExpireVerificationToken, Cleanup,
         CleanupExpiredTokens, vars, tables, locals
    <2> QED BY <1>1, <1>2, <2>1 DEF OrganizationsInv, InsertsNext
  <1>6. CASE Die
    <2>1. /\ UNCHANGED organizations
          /\ o \in Reqs /\ InsertsNext(o) => ToldFailed(o)'
      BY <1>6 DEF Die, Crash, InFlight, InsertsNext, ToldFailed, tables
    <2> QED BY <1>1, <1>2, <2>1 DEF OrganizationsInv
  <1> QED BY <1>3, <1>4, <1>5, <1>6 DEF Next

\* An organization without an account is the trace of a sign-up that is still
\* running, or whose client was told that it failed or cut off: no sign-up that
\* succeeded leaves one, and no account ever loses its organization.
THEOREM Organizations == Spec => []OrphansExplained
  <1>1. OrganizationsInv => OrphansExplained
    BY DEF OrganizationsInv, OrphansExplained, OrphanOrganizations, Housed, InsertsNext,
           ToldFailed, InFlight
  <1> QED BY <1>1, OrganizationsInit, OrganizationsNext, Invariant, PTL DEF Spec

----------------------------------------------------------------------------
(* PendingTokenOpensNothing *)

\* The endpoints behind the authentication middleware.
Guarded == {"setup", "confirm", "disable"}

\* Their first statements.
GuardedLookups == {"setup.lookup", "confirm.lookup", "disable.lookup"}

\* A request to one of them bears a token that was handed out.
Bears(r) == call[r].op \in Guarded /\ call[r].token \in Reqs

\* A request that has not come in holds no copy.  One that bears a temporary
\* token has no account, and gets no further than the first lookup.
Stopped(r) ==
  /\ pc[r] = "idle" => row[r] = Nil
  /\ Bears(r) => answer[call[r].token] \in {"tokens", "requires2fa"}
  /\ Bears(r) /\ answer[call[r].token] = "requires2fa" =>
       /\ account[r] = Nil /\ row[r] = Nil /\ answer[r] # "ok"
       /\ pc[r] \in GuardedLookups \cup {"done"}

\* Every request keeps to it.
PendingInv == \A r \in Reqs : Stopped(r)

\* Initially no request has come in.
LEMMA PendingInit == Init => PendingInv
  <1> SUFFICES ASSUME Init PROVE PendingInv
    OBVIOUS
  <1>1. \A r \in Reqs : call[r].op \notin Guarded /\ row[r] = Nil
    BY DEF Init, RequestsInit, NoCall, AllOps, Guarded
  <1> QED BY <1>1 DEF PendingInv, Stopped, Bears

\* What the middleware lets through: a bearer token with the account it speaks
\* for, which for a temporary token is none.
LEMMA GuardedReceived ==
  ASSUME Inv, NEW r \in Reqs, Receive(r), call'[r].op \in Guarded
  PROVE  /\ pc'[r] \in GuardedLookups
         /\ call'[r].token \in Reqs =>
              /\ answer[call'[r].token] \in {"tokens", "requires2fa"}
              /\ answer[call'[r].token] = "requires2fa" => account'[r] = Nil
  <1> DEFINE Through(c, a, first) ==
               /\ Accept(r, c, a, first)
               /\ first \in GuardedLookups
               /\ c.token \in Bearers /\ a = ValidateAccessToken(c.token)
  <1>1. PICK d, b, f : Accept(r, d, b, f) /\ Fits(d, b, f)
    BY Received
  <1>2. f \in GuardedLookups
    BY <1>1 DEF Accept, Fits, Endpoints, Guarded, GuardedLookups, Inv, RequestsInv,
                RequestsTypeOK
  <1>3. pc'[r] \in GuardedLookups
    BY <1>1, <1>2 DEF Accept, Inv, RequestsInv, RequestsTypeOK
  <1>4. \A c, a, first : Accept(r, c, a, first) => first = pc'[r]
    BY DEF Accept, Inv, RequestsInv, RequestsTypeOK
  <1>5. AcceptSetup(r) \/ AcceptConfirm(r) \/ AcceptDisable(r)
    BY <1>3, <1>4 DEF Receive, AcceptAuth, AcceptOAuth, AcceptRegister, AcceptLogin,
       AcceptRefresh, AcceptLogout, AcceptVerifyEmail, AcceptForgotPassword,
       AcceptResetPassword, AcceptLogin2FA, GuardedLookups
  <1>6. \E c, a, first : Through(c, a, first)
    <2>1. CASE AcceptSetup(r)
      <3> DEFINE input(t) == [NoCall EXCEPT !.op = "setup", !.token = t]
      <3>1. PICK t \in Bearers : Accept(r, input(t), ValidateAccessToken(t), "setup.lookup")
        BY <2>1 DEF AcceptSetup
      <3>2. input(t).token = t
        BY DEF NoCall
      <3> HIDE DEF input
      <3> QED BY <3>1, <3>2 DEF GuardedLookups
    <2>2. CASE AcceptConfirm(r)
      <3> DEFINE input(t, c) == [NoCall EXCEPT !.op = "confirm", !.token = t, !.code = c]
      <3>1. PICK t \in Bearers, c \in Codes :
              Accept(r, input(t, c), ValidateAccessToken(t), "confirm.lookup")
        BY <2>2 DEF AcceptConfirm
      <3>2. input(t, c).token = t
        BY DEF NoCall
      <3> HIDE DEF input
      <3> QED BY <3>1, <3>2 DEF GuardedLookups
    <2>3. CASE AcceptDisable(r)
      <3> DEFINE input(t, c) == [NoCall EXCEPT !.op = "disable", !.token = t, !.code = c]
      <3>1. PICK t \in Bearers, c \in Codes :
              Accept(r, input(t, c), ValidateAccessToken(t), "disable.lookup")
        BY <2>3 DEF AcceptDisable
      <3>2. input(t, c).token = t
        BY DEF NoCall
      <3> HIDE DEF input
      <3> QED BY <3>1, <3>2 DEF GuardedLookups
    <2> QED BY <1>5, <2>1, <2>2, <2>3
  <1>7. PICK c, a, first : Through(c, a, first)
    BY <1>6
  <1>8. call'[r] = c /\ account'[r] = a
    BY <1>7 DEF Accept, Inv, RequestsInv, RequestsTypeOK
  <1>9. \A t \in Reqs : t \in Bearers =>
          /\ answer[t] \in {"tokens", "requires2fa"}
          /\ answer[t] = "requires2fa" => ValidateAccessToken(t) = Nil
    BY DEF Bearers, ValidateAccessToken
  <1> QED BY <1>3, <1>7, <1>8, <1>9

\* A request that stays where it is, or is answered without success, stays
\* stopped: the answer its token came with is final.
LEMMA StoppedKept ==
  ASSUME Inv, [Next]_vars, NEW q \in Reqs, Stopped(q),
         call'[q] = call[q], account'[q] = account[q],
         pc'[q] = pc[q] \/ pc'[q] = "done",
         row'[q] = row[q] \/ row'[q] = Nil,
         answer'[q] = "ok" => answer[q] = "ok"
  PROVE  Stopped(q)'
  <1>1. Bears(q)' => /\ Bears(q)
                     /\ answer'[call[q].token] = answer[call[q].token]
    BY AnswersFinal DEF Bears, Stopped, Inv, RequestsInv, HandlersReady, Answers
  <1> QED BY <1>1 DEF Stopped, Bears

\* Every step keeps PendingInv.
LEMMA PendingNext == Inv /\ PendingInv /\ [Next]_vars => PendingInv'
  <1> SUFFICES ASSUME Inv, PendingInv, [Next]_vars, NEW q \in Reqs
               PROVE  Stopped(q)'
    BY DEF PendingInv
  <1>0. Stopped(q) /\ RequestsTypeOK
    BY DEF PendingInv, Inv, RequestsInv
  <1>1. ASSUME NEW r \in Reqs, Receive(r) PROVE Stopped(q)'
    <2>1. PICK c, a, first : Accept(r, c, a, first) /\ Fits(c, a, first)
      BY <1>1, Received
    <2>2. CASE q # r
      BY <1>0, <2>1, <2>2, StoppedKept DEF Accept, RequestsTypeOK
    <2>3. CASE q = r
      <3>1. /\ pc[q] = "idle" /\ row'[q] = Nil /\ answer' = answer /\ answer[q] # "ok"
            /\ pc'[q] # "idle"
        <4>1. pc[q] = "idle" /\ pc'[q] = first /\ UNCHANGED <<row, answer>>
          BY <1>0, <2>1, <2>3 DEF Accept, RequestsTypeOK
        <4>2. first # "idle"
          BY <2>1 DEF Fits, Endpoints
        <4>3. answer[q] # "ok"
          BY <4>1 DEF Inv, RequestsInv, HandlersReady, Answers
        <4> QED BY <1>0, <4>1, <4>2, <4>3 DEF Stopped
      <3>2. Bears(q)' => /\ answer'[call'[q].token] \in {"tokens", "requires2fa"}
                         /\ answer'[call'[q].token] = "requires2fa" => account'[q] = Nil
                         /\ pc'[q] \in GuardedLookups
        BY <1>1, <2>3, <3>1, GuardedReceived DEF Bears
      <3> QED BY <3>1, <3>2 DEF Stopped
    <2> QED BY <2>2, <2>3
  <1>2. ASSUME NEW r \in Reqs, Step(r) PROVE Stopped(q)'
    <2>1. /\ call' = call /\ pc[r] \notin {"idle", "done"} /\ pc'[r] # "idle"
          /\ \A p \in Reqs \ {r} : /\ pc'[p] = pc[p] /\ account'[p] = account[p]
                                   /\ row'[p] = row[p] /\ answer'[p] = answer[p]
      BY <1>0, <1>2, StepMoves, MovingFrame, StatementOf
    <2>2. CASE q # r
      BY <1>0, <2>1, <2>2, StoppedKept
    <2>3. CASE q = r /\ Bears(r)
      <3>1. answer[r] = Nil /\ Nil # "requires2fa" /\ Nil # "tokens" /\ Nil # "ok"
        BY <2>1 DEF Inv, RequestsInv, HandlersReady, Answers
      <3>2. /\ answer'[call[r].token] = answer[call[r].token]
            /\ answer[call[r].token] \in {"tokens", "requires2fa"}
        BY <1>0, <2>1, <2>3, <3>1 DEF Stopped, Bears
      <3>3. CASE answer[call[r].token] = "tokens"
        BY <2>1, <2>3, <3>2, <3>3 DEF Stopped, Bears
      <3>4. CASE answer[call[r].token] = "requires2fa"
        <4>1. pc[r] \in GuardedLookups /\ account[r] = Nil
          BY <1>0, <2>1, <2>3, <3>4 DEF Stopped
        <4>2. NoProfile(r)
          BY <1>2, <4>1, Statements
             DEF Step, StepAuth, StepOAuth, GuardedLookups, SetupLookup, ConfirmLookup,
                 DisableLookup
        <4>3. /\ pc'[r] = "done" /\ answer'[r] = "error" /\ row'[r] = Nil
              /\ account'[r] = account[r]
          BY <1>0, <4>2 DEF NoProfile, Reject, Respond, RequestsTypeOK
        <4> QED BY <1>0, <2>1, <2>3, <4>3, StoppedKept
      <3> QED BY <3>2, <3>3, <3>4
    <2>4. CASE q = r /\ ~Bears(r)
      BY <2>1, <2>4 DEF Stopped, Bears
    <2> QED BY <2>2, <2>3, <2>4
  <1>3. CASE Clock \/ Cleanup \/ UNCHANGED vars
    BY <1>0, <1>3, StoppedKept DEF Clock, Cleanup, vars, locals
  <1>4. CASE Die
    BY <1>0, <1>4, StoppedKept DEF Die, Crash, RequestsTypeOK
  <1> QED BY <1>1, <1>2, <1>3, <1>4 DEF Next

\* The temporary token of a login that waits for its second factor gets past the
\* middleware, but no endpoint behind it does anything for its bearer.
THEOREM PendingTokens == Spec => []PendingTokenOpensNothing
  <1>1. PendingInv => PendingTokenOpensNothing
    BY DEF PendingInv, Stopped, Bears, Guarded, PendingTokenOpensNothing
  <1> QED BY <1>1, PendingInit, PendingNext, Invariant, PTL DEF Spec

----------------------------------------------------------------------------
(* Links *)

\* No link appears, and none changes its user or purpose.
LinksShrink ==
  \A t \in Reqs : verificationTokens'[t] # Nil =>
    /\ verificationTokens[t] # Nil
    /\ verificationTokens'[t].user = verificationTokens[t].user
    /\ verificationTokens'[t].purpose = verificationTokens[t].purpose

\* The request is past the point where it might store a link, and its account
\* stays what it is.
Settled(t) == pc[t] \in {"mint", "done"}

----------------------------------------------------------------------------
(* What the steps do to links, and to the handlers that mail them. *)

\* What a step does to the links: it mails one, deletes the one it was called
\* with, or leaves them alone.
LEMMA StepLinks ==
  ASSUME NEW r \in Reqs, Step(r)
  PROVE  \/ UNCHANGED verificationTokens
         \/ /\ pc[r] \in {"verify.purge", "verify.delete", "reset.purge", "reset.delete"}
            /\ DeleteVerificationToken(call[r].token)
         \/ /\ pc[r] \in {"register.mail", "forgot.create"}
            /\ \E p \in Purposes : InsertVerificationToken(r, account[r], p)
  <1>1. \A s : Reject(r, s) \/ Fails(r, s) => UNCHANGED verificationTokens
    BY DEF Reject, Fails, tables
  <1>2. CASE RegisterLookup(r) \/ CreateOrganization(r) \/ RegisterUser(r) \/ GenerateTokens(r)
    BY <1>1, <1>2 DEF RegisterLookup, CreateOrganization, RegisterUser, GenerateTokens, tables
  <1>3. CASE SendVerificationEmail(r) \/ ForgotPasswordCreate(r)
    BY <1>1, <1>3 DEF SendVerificationEmail, ForgotPasswordCreate, Purposes
  <1>4. CASE \/ LoginLookup(r) \/ LoginWithTwoFA(r)
             \/ RefreshLookup(r) \/ RefreshPurge(r) \/ RefreshUser(r) \/ RefreshDelete(r)
             \/ Logout(r) \/ ForgotPasswordLookup(r)
    BY <1>1, <1>4 DEF LoginLookup, LoginWithTwoFA, RefreshLookup, RefreshPurge,
       RefreshUser, RefreshDelete, Logout, ForgotPasswordLookup, tables
  <1>5. CASE \/ VerifyEmailLookup(r) \/ VerifyEmailPurge(r) \/ VerifyEmailUser(r)
             \/ VerifyEmailUpdate(r) \/ VerifyEmailDelete(r)
    BY <1>1, <1>5 DEF VerifyEmailLookup, VerifyEmailPurge, VerifyEmailUser,
       VerifyEmailUpdate, VerifyEmailDelete, LinkLookup, LinkPurge, tables
  <1>6. CASE \/ ResetPasswordLookup(r) \/ ResetPasswordPurge(r) \/ ResetPasswordUser(r)
             \/ ResetPasswordUpdate(r) \/ ResetPasswordDelete(r) \/ ResetPasswordRevoke(r)
    BY <1>1, <1>6 DEF ResetPasswordLookup, ResetPasswordPurge, ResetPasswordUser,
       ResetPasswordUpdate, ResetPasswordDelete, ResetPasswordRevoke, LinkLookup, LinkPurge,
       tables
  <1>7. CASE NoProfile(r) \/ SetupLookup(r) \/ ConfirmLookup(r) \/ DisableLookup(r)
             \/ TwoFAUpdate(r)
    BY <1>1, <1>7 DEF NoProfile, SetupLookup, ConfirmLookup, DisableLookup, TwoFAUpdate,
       tables
  <1>8. CASE StepOAuth(r)
    BY <1>1, <1>8 DEF StepOAuth, OAuthProvider, OAuthEmail, OAuthUser, tables
  <1> QED BY <1>2, <1>3, <1>4, <1>5, <1>6, <1>7, <1>8 DEF Step, StepAuth

\* Every step of a handler but the two that mail links stores none.
LEMMA StepShrinksLinks ==
  ASSUME StoreTypeOK, NEW r \in Reqs, Step(r),
         pc[r] \notin {"register.mail", "forgot.create"}
  PROVE  LinksShrink
  <1>1. UNCHANGED verificationTokens => LinksShrink
    BY DEF LinksShrink
  <1>2. ASSUME NEW t, DeleteVerificationToken(t) PROVE LinksShrink
    BY <1>2 DEF LinksShrink, DeleteVerificationToken, StoreTypeOK
  <1> QED BY <1>1, <1>2, StepLinks

\* A step that is not of a handler stores no link.
LEMMA OthersShrinkLinks ==
  ASSUME StoreTypeOK, \/ \E r \in Reqs : Receive(r)
                      \/ Clock \/ Cleanup \/ Die \/ UNCHANGED vars
  PROVE  LinksShrink
  <1>1. CASE \/ \E r \in Reqs : Receive(r)
             \/ Die \/ Cleanup \/ UNCHANGED vars
    <2>1. UNCHANGED verificationTokens
      BY <1>1, Received DEF Die, Crash, Cleanup, CleanupExpiredTokens, vars, tables
    <2> QED BY <2>1 DEF LinksShrink
  <1>2. CASE Clock
    <2>1. PICK t \in Reqs : ExpireVerificationToken(t) \/ UNCHANGED verificationTokens
      BY <1>2 DEF Clock, ExpireRefreshToken
    <2>2. CASE UNCHANGED verificationTokens
      BY <2>2 DEF LinksShrink
    <2>3. CASE ExpireVerificationToken(t)
      <3>1. verificationTokens[t] \in VerificationRow /\ verificationTokens[t] # Nil
        BY <2>3 DEF ExpireVerificationToken, StoreTypeOK
      <3> DEFINE link == [verificationTokens[t] EXCEPT !.expired = TRUE]
      <3>2. /\ link.user = verificationTokens[t].user
            /\ link.purpose = verificationTokens[t].purpose
        BY <3>1 DEF VerificationRow
      <3>3. verificationTokens' = [verificationTokens EXCEPT ![t] = link]
        BY <2>3 DEF ExpireVerificationToken
      <3> QED BY <3>1, <3>2, <3>3 DEF LinksShrink, StoreTypeOK
    <2> QED BY <2>1, <2>2, <2>3
  <1> QED BY <1>1, <1>2

----------------------------------------------------------------------------
(* The links stored, and who mailed them. *)

\* A stored link is for the account of the request that mailed it, and serves
\* the purpose that request mails links for.
StoredLinks ==
  \A t \in Reqs : verificationTokens[t] # Nil =>
    /\ Settled(t)
    /\ account[t] = verificationTokens[t].user
    /\ call[t].op = IF verificationTokens[t].purpose = "email_verify" THEN "register"
                                                                    ELSE "forgot"

\* Stored links, and that each endpoint runs its own statements: only Register
\* and ForgotPassword come to the statements that mail links.
LinkInv == CourseInv /\ StoredLinks

\* What a settled request is, it stays.
LEMMA SettledFinal ==
  ASSUME Inv, [Next]_vars, NEW t \in Reqs, Settled(t)
  PROVE  Settled(t)' /\ account'[t] = account[t] /\ call'[t] = call[t]
  <1>1. CASE pc[t] = "done"
    BY <1>1, AnswersFinal DEF Settled
  <1>2. CASE pc[t] = "mint"
    <2>1. call'[t] = call[t]
      BY <1>2, AnswersFinal
    <2>2. ASSUME NEW r \in Reqs, Receive(r)
          PROVE  pc'[t] = pc[t] /\ account'[t] = account[t]
      <3>1. PICK c, a, first : Accept(r, c, a, first)
        BY <2>2, Received
      <3> QED BY <1>2, <3>1 DEF Accept, Inv, RequestsInv, RequestsTypeOK
    <2>3. ASSUME NEW r \in Reqs, Step(r)
          PROVE  Settled(t)' /\ account'[t] = account[t]
      <3>1. CASE r # t
        BY <1>2, <2>3, <3>1, StepMoves, MovingFrame DEF Inv, RequestsInv, Settled
      <3>2. CASE r = t
        BY <1>2, <2>3, <3>2, StatementOf
           DEF GenerateTokens, Respond, Fails, Reject, Inv, RequestsInv, RequestsTypeOK, Settled
      <3> QED BY <3>1, <3>2
    <2>4. CASE Clock \/ Cleanup \/ UNCHANGED vars
      BY <1>2, <2>4 DEF Clock, Cleanup, vars, locals, Settled
    <2>5. CASE Die
      BY <1>2, <2>5 DEF Die, Crash, Settled
    <2> QED BY <1>2, <2>1, <2>2, <2>3, <2>4, <2>5 DEF Next, Settled
  <1> QED BY <1>1, <1>2 DEF Settled

\* A step that mails no link keeps the stored ones as they are described.
LEMMA ShrinkingKeepsLinks ==
  ASSUME Inv, StoredLinks, [Next]_vars, LinksShrink
  PROVE  StoredLinks'
  BY SettledFinal DEF StoredLinks, LinksShrink

\* Initially there is no link.
LEMMA LinkInit == Init => StoredLinks
  BY DEF Init, StoreInit, StoredLinks

\* Every step keeps what stored links are.
LEMMA StoredLinksNext == Inv /\ LinkInv /\ [Next]_vars => StoredLinks'
  <1> SUFFICES ASSUME Inv, LinkInv, [Next]_vars PROVE StoredLinks'
    OBVIOUS
  <1> USE DEF LinkInv
  <1>1. ASSUME NEW r \in Reqs, Step(r), pc[r] \in {"register.mail", "forgot.create"}
        PROVE  StoredLinks'
    <2> DEFINE link(p) == [user |-> account[r], purpose |-> p, expired |-> FALSE]
    <2>1. UNCHANGED verificationTokens => LinksShrink
      BY DEF LinksShrink
    <2>2. ASSUME NEW p, verificationTokens' = [verificationTokens EXCEPT ![r] = link(p)],
                 Settled(r)', account'[r] = account[r], call'[r] = call[r],
                 call[r].op = IF p = "email_verify" THEN "register" ELSE "forgot"
          PROVE  StoredLinks'
      <3>1. \A t \in Reqs : verificationTokens'[t] = IF t = r THEN link(p)
                                                     ELSE verificationTokens[t]
        BY <2>2 DEF Inv, StoreInv, StoreTypeOK
      <3>2. \A t \in Reqs \ {r} : verificationTokens[t] # Nil =>
              Settled(t)' /\ account'[t] = account[t] /\ call'[t] = call[t]
        BY SettledFinal DEF StoredLinks
      <3> QED BY <2>2, <3>1, <3>2 DEF StoredLinks
    <2>3. CASE pc[r] = "register.mail"
      <3>1. SendVerificationEmail(r) /\ call[r].op = "register"
        BY <1>1, <2>3, StatementOf DEF CourseInv, OnCourse, Handler, RegisterLabels, RefreshLabels,
           VerifyLabels, ForgotLabels, ResetLabels, AllOps
      <3>2. /\ Settled(r)' /\ account'[r] = account[r] /\ call'[r] = call[r]
            /\ \/ verificationTokens' = [verificationTokens EXCEPT ![r] = link("email_verify")]
               \/ UNCHANGED verificationTokens
        BY <3>1 DEF SendVerificationEmail, InsertVerificationToken, Goto, Settled,
                    Inv, RequestsInv, RequestsTypeOK
      <3> QED BY <2>1, <2>2, <3>1, <3>2, ShrinkingKeepsLinks
    <2>4. CASE pc[r] = "forgot.create"
      <3>1. ForgotPasswordCreate(r) /\ call[r].op = "forgot"
        BY <1>1, <2>4, StatementOf DEF CourseInv, OnCourse, Handler, RegisterLabels, RefreshLabels,
           VerifyLabels, ForgotLabels, ResetLabels, AllOps
      <3>2. /\ Settled(r)' /\ account'[r] = account[r] /\ call'[r] = call[r]
            /\ \/ verificationTokens' = [verificationTokens EXCEPT ![r] = link("password_reset")]
               \/ UNCHANGED verificationTokens
        BY <3>1 DEF ForgotPasswordCreate, InsertVerificationToken, Respond, Fails, Reject,
                    tables, Settled, Inv, RequestsInv, RequestsTypeOK
      <3> QED BY <2>1, <2>2, <3>1, <3>2, ShrinkingKeepsLinks
    <2> QED BY <1>1, <2>3, <2>4
  <1>2. ASSUME NEW r \in Reqs, Step(r), pc[r] \notin {"register.mail", "forgot.create"}
        PROVE  StoredLinks'
    BY <1>2, StepShrinksLinks, ShrinkingKeepsLinks DEF Inv, StoreInv
  <1>3. CASE \/ \E r \in Reqs : Receive(r)
             \/ Clock \/ Cleanup \/ Die \/ UNCHANGED vars
    BY <1>3, OthersShrinkLinks, ShrinkingKeepsLinks DEF Inv, StoreInv
  <1> QED BY <1>1, <1>2, <1>3 DEF Next

\* The links of settled requests: once gone, never stored again.
LEMMA SettledGone ==
  ASSUME Inv, [Next]_vars, NEW t \in Reqs, Settled(t), verificationTokens[t] = Nil
  PROVE  verificationTokens'[t] = Nil
  <1>1. LinksShrink => verificationTokens'[t] = Nil
    BY DEF LinksShrink
  <1>2. ASSUME NEW r \in Reqs, Step(r), pc[r] \in {"register.mail", "forgot.create"}
        PROVE  verificationTokens'[t] = Nil
    <2>1. r # t
      BY <1>2 DEF Settled
    <2>2. \/ UNCHANGED verificationTokens
          \/ \E l : verificationTokens' = [verificationTokens EXCEPT ![r] = l]
      BY <1>2, StatementOf DEF SendVerificationEmail, ForgotPasswordCreate,
         InsertVerificationToken, Fails, Reject, tables
    <2> QED BY <2>1, <2>2 DEF Inv, StoreInv, StoreTypeOK
  <1>3. ASSUME NEW r \in Reqs, Step(r), pc[r] \notin {"register.mail", "forgot.create"}
        PROVE  verificationTokens'[t] = Nil
    BY <1>1, <1>3, StepShrinksLinks DEF Inv, StoreInv
  <1>4. CASE \/ \E r \in Reqs : Receive(r)
             \/ Clock \/ Cleanup \/ Die \/ UNCHANGED vars
    BY <1>1, <1>4, OthersShrinkLinks DEF Inv, StoreInv
  <1> QED BY <1>2, <1>3, <1>4 DEF Next

----------------------------------------------------------------------------
(* LinkOpensWhatItWasMadeFor and UsedLinkIsGone *)

\* The handler goes on for the account the link names, or has served it.
Honours(r) ==
  call[r].op \in {"verify", "reset"} /\ (pc[r] \in ForAccount \/ answer[r] = "ok")

\* The handler has deleted the link; that of a reset only if its DELETE worked.
Deleted(r) ==
  \/ Answered(r, "verify", "ok")
  \/ ~Faults /\ call[r].op = "reset" /\ (pc[r] = "reset.revoke" \/ answer[r] = "ok")

\* A handler that takes a link is somewhere in its own code, the request that
\* mailed the link, if any did, is settled; the link is honoured for what it was
\* made for, and gone when it was deleted.
HonourOf(q) ==
  call[q].op \in {"verify", "reset"} =>
    LET t == call[q].token IN
    /\ pc[q] \in (IF call[q].op = "verify" THEN VerifyLabels ELSE ResetLabels) \cup {"done"}
    /\ t \in Reqs /\ Settled(t)
    /\ Honours(q) => /\ account[q] = account[t]
                     /\ call[t].op = IF call[q].op = "verify" THEN "register" ELSE "forgot"
    /\ Deleted(q) => verificationTokens[t] = Nil

\* Every request keeps to it.
HonourInv == \A q \in Reqs : HonourOf(q)

\* How a handler comes to honour a link, and to have deleted it.
LEMMA LinkSteps ==
  ASSUME Inv, NEW r \in Reqs, Step(r), NEW op, op \in {"verify", "reset"},
         pc[r] \in IF op = "verify" THEN VerifyLabels ELSE ResetLabels
  PROVE  LET t == call[r].token
             link == verificationTokens[t] IN
         /\ pc'[r] \in (IF op = "verify" THEN VerifyLabels ELSE ResetLabels) \cup {"done"}
         /\ pc'[r] \in ForAccount \/ answer'[r] = "ok" =>
              \/ pc[r] \in ForAccount /\ account'[r] = account[r]
              \/ /\ link # Nil
                 /\ link.purpose = IF op = "verify" THEN "email_verify" ELSE "password_reset"
                 /\ account'[r] = link.user
         /\ op = "verify" /\ answer'[r] = "ok" => DeleteVerificationToken(t)
         /\ ~Faults /\ pc'[r] = "reset.revoke" => DeleteVerificationToken(t)
         /\ op = "reset" /\ answer'[r] = "ok" => pc[r] = "reset.revoke"
  <1> USE DEF Inv, RequestsInv, RequestsTypeOK, VerifyLabels, ResetLabels
  <1>0. answer[r] = Nil /\ Nil # "ok"
    BY StatementOf DEF HandlersReady, Answers
  <1>1. CASE pc[r] = "verify.lookup"
    <2>1. LinkLookup(r, "verify.lookup", "verify.purge", "verify.user", "email_verify")
      BY <1>1, StatementOf DEF VerifyEmailLookup
    <2> QED BY <1>0, <1>1, <2>1 DEF LinkLookup, Serves, Respond, Goto, GotoFor, ForAccount
  <1>2. CASE pc[r] = "reset.lookup"
    <2>1. LinkLookup(r, "reset.lookup", "reset.purge", "reset.user", "password_reset")
      BY <1>2, StatementOf DEF ResetPasswordLookup
    <2> QED BY <1>0, <1>2, <2>1 DEF LinkLookup, Serves, Respond, Goto, GotoFor, ForAccount
  <1>3. CASE pc[r] \in {"verify.purge", "reset.purge"}
    <2>1. Respond(r, "invalid")
      BY <1>3, StatementOf DEF VerifyEmailPurge, ResetPasswordPurge, LinkPurge
    <2> QED BY <1>0, <1>3, <2>1 DEF Respond, ForAccount
  <1>4. CASE pc[r] = "verify.user"
    <2>1. Respond(r, "invalid") \/ \E w : GotoWith(r, "verify.update", w)
      BY <1>4, StatementOf DEF VerifyEmailUser, Fails, Reject
    <2> QED BY <1>0, <1>4, <2>1 DEF Respond, GotoWith, ForAccount
  <1>5. CASE pc[r] = "verify.update"
    <2>1. Respond(r, "error") \/ GotoWith(r, "verify.delete", Nil)
      BY <1>5, StatementOf DEF VerifyEmailUpdate, Fails, Reject, GotoWritten
    <2> QED BY <1>0, <1>5, <2>1 DEF Respond, GotoWith, ForAccount
  <1>6. CASE pc[r] = "verify.delete"
    <2>1. \/ Respond(r, "error")
          \/ Respond(r, "ok") /\ DeleteVerificationToken(call[r].token)
      BY <1>6, StatementOf DEF VerifyEmailDelete, Fails, Reject
    <2> QED BY <1>0, <1>6, <2>1 DEF Respond, ForAccount
  <1>7. CASE pc[r] = "reset.user"
    <2>1. Respond(r, "invalid") \/ Respond(r, "error") \/ \E w : GotoWith(r, "reset.update", w)
      BY <1>7, StatementOf DEF ResetPasswordUser, Fails, Reject
    <2> QED BY <1>0, <1>7, <2>1 DEF Respond, GotoWith, ForAccount
  <1>8. CASE pc[r] = "reset.update"
    <2>1. Respond(r, "error") \/ GotoWith(r, "reset.delete", Nil)
      BY <1>8, StatementOf DEF ResetPasswordUpdate, Fails, Reject, GotoWritten
    <2> QED BY <1>0, <1>8, <2>1 DEF Respond, GotoWith, ForAccount
  <1>9. CASE pc[r] = "reset.delete"
    <2>1. /\ Goto(r, "reset.revoke")
          /\ ~Faults => DeleteVerificationToken(call[r].token)
      BY <1>9, StatementOf DEF ResetPasswordDelete
    <2> QED BY <1>0, <1>9, <2>1 DEF Goto, ForAccount
  <1>10. CASE pc[r] = "reset.revoke"
    <2>1. \E s : Respond(r, s)
      BY <1>10, StatementOf DEF ResetPasswordRevoke, Fails, Reject
    <2> QED BY <1>0, <1>10, <2>1 DEF Respond, ForAccount
  <1> QED BY <1>1, <1>2, <1>3, <1>4, <1>5, <1>6, <1>7, <1>8, <1>9, <1>10

\* Initially no link is taken.
LEMMA HonourInit == Init => HonourInv
  <1> SUFFICES ASSUME Init PROVE HonourInv
    OBVIOUS
  <1>1. \A r \in Reqs : call[r].op \notin {"verify", "reset"}
    BY DEF Init, RequestsInit, NoCall, AllOps
  <1> QED BY <1>1 DEF HonourInv, HonourOf

\* The request takes no step towards honouring or deleting a link.
Rests(q) ==
  /\ call'[q] = call[q]
  /\ pc'[q] = pc[q] \/ pc'[q] = "done"
  /\ account'[q] = account[q]
  /\ answer'[q] = "ok" => answer[q] = "ok"

\* The request has just been received, with a link of a settled request.
Enters(q) ==
  /\ pc'[q] = IF call'[q].op = "verify" THEN "verify.lookup" ELSE "reset.lookup"
  /\ answer'[q] # "ok"
  /\ call'[q].token \in Reqs /\ pc'[call'[q].token] \in {"mint", "done"}

\* A request that rests, or has just come in, keeps to HonourInv.
LEMMA HonourFrame ==
  ASSUME Inv, [Next]_vars, NEW q \in Reqs, HonourOf(q), 
         call'[q].op \in {"verify", "reset"} => Rests(q) \/ Enters(q)
  PROVE  HonourOf(q)'
  <1>1. CASE Rests(q) /\ call[q].op \in {"verify", "reset"}
    <2>0. PICK t \in Reqs : t = call[q].token
      BY <1>1 DEF HonourOf
    <2>1. /\ Settled(t) /\ Settled(t)'
          /\ account'[t] = account[t] /\ call'[t] = call[t]
          /\ verificationTokens[t] = Nil => verificationTokens'[t] = Nil
      BY <1>1, <2>0, SettledFinal, SettledGone DEF HonourOf
    <2>2. /\ Honours(q)' => Honours(q)
          /\ Deleted(q)' => Deleted(q)
      BY <1>1 DEF Rests, Honours, Deleted, Answered, ForAccount
    <2> QED BY <1>1, <2>0, <2>1, <2>2 DEF HonourOf, Rests
  <1>2. CASE Enters(q) /\ call'[q].op \in {"verify", "reset"}
    <2>1. pc'[q] \in {"verify.lookup", "reset.lookup"} /\ answer'[q] # "ok"
      BY <1>2 DEF Enters
    <2>2. ~Honours(q)' /\ ~Deleted(q)'
      BY <2>1 DEF Honours, Deleted, Answered, ForAccount
    <2>3. pc'[q] \in (IF call'[q].op = "verify" THEN VerifyLabels ELSE ResetLabels) \cup {"done"}
      BY <1>2 DEF Enters, VerifyLabels, ResetLabels
    <2>4. call'[q].token \in Reqs /\ Settled(call[q].token)'
      BY <1>2 DEF Enters, Settled
    <2> QED BY <2>2, <2>3, <2>4 DEF HonourOf
  <1>3. CASE call'[q].op \notin {"verify", "reset"}
    BY <1>3 DEF HonourOf
  <1> QED BY <1>1, <1>2, <1>3 DEF Rests

\* The handler that takes the link keeps to HonourInv.
LEMMA HonourStep ==
  ASSUME Inv, LinkInv, NEW r \in Reqs, HonourOf(r), Step(r), [Next]_vars
  PROVE  HonourOf(r)'
  <1>1. call' = call /\ pc[r] # "done"
    BY StepMoves, StatementOf, MovingFrame DEF Inv, RequestsInv
  <1> SUFFICES ASSUME NEW op, op = call[r].op, op \in {"verify", "reset"}
               PROVE  HonourOf(r)'
    BY <1>1 DEF HonourOf
  <1>2. PICK t \in Reqs : t = call[r].token
    BY DEF HonourOf
  <1> DEFINE link == verificationTokens[t]
  <1>3. pc[r] \in IF op = "verify" THEN VerifyLabels ELSE ResetLabels
    BY <1>1 DEF HonourOf
  <1>4. /\ Settled(t) /\ Settled(t)'
        /\ account'[t] = account[t] /\ call'[t] = call[t]
        /\ verificationTokens[t] = Nil => verificationTokens'[t] = Nil
    BY <1>2, SettledFinal, SettledGone DEF HonourOf
  <1>5. /\ pc'[r] \in (IF op = "verify" THEN VerifyLabels ELSE ResetLabels) \cup {"done"}
        /\ pc'[r] \in ForAccount \/ answer'[r] = "ok" =>
             \/ pc[r] \in ForAccount /\ account'[r] = account[r]
             \/ /\ link # Nil
                /\ link.purpose = IF op = "verify" THEN "email_verify" ELSE "password_reset"
                /\ account'[r] = link.user
        /\ op = "verify" /\ answer'[r] = "ok" => DeleteVerificationToken(t)
        /\ ~Faults /\ pc'[r] = "reset.revoke" => DeleteVerificationToken(t)
        /\ op = "reset" /\ answer'[r] = "ok" => pc[r] = "reset.revoke"
    BY <1>2, <1>3, LinkSteps
  <1>6. Honours(r)' => /\ account'[r] = account[t]
                       /\ call[t].op = IF op = "verify" THEN "register" ELSE "forgot"
    <2>1. CASE pc[r] \in ForAccount /\ account'[r] = account[r]
      BY <1>2, <2>1 DEF HonourOf, Honours
    <2>2. CASE /\ link # Nil
               /\ link.purpose = IF op = "verify" THEN "email_verify" ELSE "password_reset"
               /\ account'[r] = link.user
      BY <1>2, <1>4, <2>2 DEF LinkInv, StoredLinks
    <2> QED BY <1>1, <1>5, <2>1, <2>2 DEF Honours
  <1>7. Deleted(r)' => verificationTokens'[t] = Nil
    <2>1. DeleteVerificationToken(t) => verificationTokens'[t] = Nil
      BY <1>4 DEF DeleteVerificationToken, Inv, StoreInv, StoreTypeOK
    <2>2. ~Faults /\ op = "reset" /\ pc[r] = "reset.revoke" => verificationTokens'[t] = Nil
      BY <1>2, <1>4 DEF HonourOf, Deleted
    <2> QED BY <1>1, <1>5, <2>1, <2>2 DEF Deleted, Answered
  <1> QED BY <1>1, <1>2, <1>4, <1>5, <1>6, <1>7 DEF HonourOf

\* Every step keeps HonourInv.
LEMMA HonourNext == Inv /\ LinkInv /\ HonourInv /\ [Next]_vars => HonourInv'
  <1> SUFFICES ASSUME Inv, LinkInv, HonourInv, [Next]_vars, NEW q \in Reqs
               PROVE  HonourOf(q)'
    BY DEF HonourInv
  <1> USE DEF HonourInv
  <1>1. ASSUME NEW r \in Reqs, Receive(r) PROVE HonourOf(q)'
    <2>1. PICK c, a, first : Accept(r, c, a, first) /\ Fits(c, a, first)
      BY <1>1, Received
    <2>2. CASE q # r
      BY <2>1, <2>2, HonourFrame DEF Accept, Inv, RequestsInv, RequestsTypeOK, Rests
    <2>3. CASE q = r /\ c.op \in {"verify", "reset"}
      <3>1. /\ call'[q] = c /\ pc'[q] = first /\ answer'[q] = Nil /\ Nil # "ok"
        BY <2>1, <2>3 DEF Accept, Inv, RequestsInv, RequestsTypeOK, HandlersReady, Answers
      <3>2. first = IF c.op = "verify" THEN "verify.lookup" ELSE "reset.lookup"
        BY <2>1, <2>3 DEF Fits, Endpoints
      <3>3. c.token \in Reqs /\ Settled(c.token)
        BY <2>1, <2>3 DEF Fits, Link, LinkInv, StoredLinks, Settled
      <3>4. Settled(c.token)'
        BY <3>3, SettledFinal
      <3>5. Enters(q)
        BY <3>1, <3>2, <3>3, <3>4 DEF Enters, Settled
      <3> QED BY <3>5, HonourFrame
    <2>4. CASE q = r /\ c.op \notin {"verify", "reset"}
      BY <2>1, <2>4, HonourFrame DEF Accept, Inv, RequestsInv, RequestsTypeOK
    <2> QED BY <2>2, <2>3, <2>4
  <1>2. ASSUME NEW r \in Reqs, Step(r) PROVE HonourOf(q)'
    <2>1. CASE q # r
      BY <1>2, <2>1, StepMoves, MovingFrame, HonourFrame DEF Inv, RequestsInv, Rests
    <2> QED BY <1>2, <2>1, HonourStep
  <1>3. CASE Clock \/ Cleanup \/ UNCHANGED vars
    BY <1>3, HonourFrame DEF Clock, Cleanup, vars, locals, Rests
  <1>4. CASE Die
    BY <1>4, HonourFrame DEF Die, Crash, Rests
  <1> QED BY <1>1, <1>2, <1>3, <1>4 DEF Next

\* The links in the table are what the requests that mailed them say.
LEMMA LinksDescribed == Spec => []LinkInv
  <1>1. Inv /\ CourseInv /\ StoredLinks /\ [Next]_vars => StoredLinks'
    BY StoredLinksNext DEF LinkInv
  <1>2. CourseInv /\ StoredLinks => LinkInv
    BY DEF LinkInv
  <1> QED BY <1>1, <1>2, LinkInit, Course, Invariant, PTL DEF Spec

\* The handlers that take links keep to HonourOf in every reachable state.
LEMMA Honoured == Spec => []HonourInv
  BY HonourInit, HonourNext, LinksDescribed, Invariant, PTL DEF Spec

\* VerifyEmail and ResetPassword act only for the account their link was mailed
\* to and only on a link mailed for that purpose, however long after it was read
\* the account's row is written, and whatever happens to the link meanwhile.
THEOREM LinkPurpose == Spec => []LinkOpensWhatItWasMadeFor
  <1>1. HonourInv => LinkOpensWhatItWasMadeFor
    BY DEF HonourInv, HonourOf, Honours, LinkOpensWhatItWasMadeFor
  <1> QED BY <1>1, Honoured, PTL

\* A link that has verified an address is gone for good, and so is one that has
\* reset a password unless a statement failed.
THEOREM LinkUsedOnce == Spec => []UsedLinkIsGone
  <1>1. HonourInv => UsedLinkIsGone
    BY DEF HonourInv, HonourOf, Deleted, UsedLinkIsGone, Answered
  <1> QED BY <1>1, Honoured, PTL

----------------------------------------------------------------------------
(* LinkEndsOnlyWhenPresented *)

\* A step of a handler that does away with a link is one of a handler called with
\* that link.
LEMMA StepEndsLink ==
  ASSUME Inv, CourseInv, NEW r \in Reqs, Step(r), NEW t \in Reqs,
         verificationTokens[t] # Nil, verificationTokens'[t] = Nil
  PROVE  pc'[r] # pc[r] /\ call[r].op \in {"verify", "reset"} /\ call[r].token = t
  <1>0. /\ verificationTokens \in [Reqs -> VerificationRow \cup {Nil}]
        /\ RequestsTypeOK
    BY DEF Inv, StoreInv, StoreTypeOK, RequestsInv
  <1>1. CASE /\ pc[r] \in {"register.mail", "forgot.create"}
             /\ \E p \in Purposes : InsertVerificationToken(r, account[r], p)
    <2>1. PICK p \in Purposes : InsertVerificationToken(r, account[r], p)
      BY <1>1
    <2> DEFINE link == [user |-> account[r], purpose |-> p, expired |-> FALSE]
    <2>2. account[r] \in Emails
      BY <1>1, Known DEF ForAccount
    <2>3. link \in VerificationRow
      BY <2>2 DEF VerificationRow
    <2>4. verificationTokens'[t] \in {verificationTokens[t], link}
      BY <1>0, <2>1 DEF InsertVerificationToken
    <2> HIDE DEF link
    <2> QED BY <2>3, <2>4
  <1>2. CASE /\ pc[r] \in {"verify.purge", "verify.delete", "reset.purge", "reset.delete"}
             /\ DeleteVerificationToken(call[r].token)
    <2>1. call[r].token = t
      BY <1>0, <1>2 DEF DeleteVerificationToken
    <2>2. call[r].op \in {"verify", "reset"}
      BY <1>2 DEF CourseInv, OnCourse, Handler, RegisterLabels, RefreshLabels, VerifyLabels,
                  ForgotLabels, ResetLabels, AllOps
    <2>3. \/ \E s : Respond(r, s)
          \/ pc[r] = "reset.delete" /\ Goto(r, "reset.revoke")
      BY <1>2, StatementOf DEF VerifyEmailPurge, VerifyEmailDelete, ResetPasswordPurge,
         ResetPasswordDelete, LinkPurge, Fails, Reject
    <2>4. pc'[r] # pc[r]
      BY <1>0, <1>2, <2>3 DEF Respond, Goto, RequestsTypeOK
    <2> QED BY <2>1, <2>2, <2>4
  <1> QED BY <1>1, <1>2, StepLinks

\* Outside the handlers no link is deleted.
LEMMA OthersEndNoLink ==
  ASSUME StoreTypeOK, NEW t \in Reqs, verificationTokens[t] # Nil,
         \/ \E r \in Reqs : Receive(r)
         \/ Clock \/ Cleanup \/ Die \/ UNCHANGED vars
  PROVE  verificationTokens'[t] # Nil
  <1>1. CASE \/ \E r \in Reqs : Receive(r)
             \/ Die \/ Cleanup \/ UNCHANGED vars
    BY <1>1, Received DEF Die, Crash, Cleanup, CleanupExpiredTokens, vars, tables
  <1>2. CASE Clock
    <2>1. PICK u \in Reqs : ExpireVerificationToken(u) \/ UNCHANGED verificationTokens
      BY <1>2 DEF Clock, ExpireRefreshToken
    <2>2. CASE ExpireVerificationToken(u)
      <3> DEFINE link == [verificationTokens[u] EXCEPT !.expired = TRUE]
      <3>1. link # Nil
        BY <2>2 DEF ExpireVerificationToken, StoreTypeOK, VerificationRow
      <3>2. verificationTokens' = [verificationTokens EXCEPT ![u] = link]
        BY <2>2 DEF ExpireVerificationToken
      <3> QED BY <3>1, <3>2 DEF StoreTypeOK
    <2> QED BY <2>1, <2>2
  <1> QED BY <1>1, <1>2

\* Only a VerifyEmail or a ResetPassword that was called with a link does away
\* with it: an account's other links, and those of other accounts, stay.
THEOREM LinkEnds == Spec => LinkEndsOnlyWhenPresented
  <1> DEFINE Presented ==
        \A t \in Reqs :
          verificationTokens[t] # Nil /\ verificationTokens'[t] = Nil =>
            \E r \in Reqs :
              pc'[r] # pc[r] /\ call[r].op \in {"verify", "reset"} /\ call[r].token = t
  <1>1. Inv /\ CourseInv /\ [Next]_vars => Presented
    BY StepEndsLink, OthersEndNoLink DEF Next, Inv, StoreInv
  <1>2. Inv /\ CourseInv /\ [Next]_vars => [Presented]_vars
    BY <1>1
  <1> QED BY <1>2, Course, Invariant, PTL DEF Spec, LinkEndsOnlyWhenPresented
=============================================================================
