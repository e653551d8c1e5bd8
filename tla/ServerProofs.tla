---------------------------- MODULE ServerProofs ----------------------------
(***************************************************************************)
(* The inductive invariant of Server and its proof, statement by statement *)
(* and then handler by handler; type correctness and the integrity of      *)
(* references follow from it.  The constants are arbitrary: any number of  *)
(* requests, accounts, passwords and identities.                           *)
(***************************************************************************)
EXTENDS Server, Naturals, TLAPS

\* Statements that look an account up by the e-mail of the call, or create it.
ByEmail == {"register.lookup", "register.org", "register.user", "login.lookup", "forgot.lookup",
            "oauth.provider", "oauth.email", "oauth.org", "oauth.user"}

\* Statements that look a session or a link up by the token of the call.
ByToken == {"refresh.lookup", "verify.lookup", "reset.lookup"}

\* Statements that write the handler's copy of a user row back.
Writing == {"verify.update", "reset.update", "setup.update", "confirm.update", "disable.update"}

\* The tables are well formed, and every row refers to a user that is there.
StoreInv ==
  /\ StoreTypeOK
  /\ \A e \in Registered : users[e] # Nil
  /\ \A t \in Reqs : refreshTokens[t] # Nil => users[refreshTokens[t].user] # Nil
  /\ \A t \in Reqs : verificationTokens[t] # Nil => users[verificationTokens[t].user] # Nil

\* The account a handler has identified is in the table.
Identified == \A r \in Reqs : account[r] # Nil => users[account[r]] # Nil

\* A handler has what its next statement needs: the account it runs for, the
\* copy it writes back, the e-mail or the token it looks up.  Nobody is answered
\* before the handler is over.
HandlersReady ==
  \A r \in Reqs :
    /\ pc[r] \in ForAccount \/ answer[r] \in {"tokens", "requires2fa"} => account[r] # Nil
    /\ pc[r] \in Writing => row[r] # Nil
    /\ pc[r] \in ByEmail => call[r].email \in Emails
    /\ pc[r] \in ByToken => call[r].token \in Reqs
    /\ pc[r] # "done" => answer[r] = Nil

\* The part of the invariant that is about the requests.
RequestsInv == RequestsTypeOK /\ Identified /\ HandlersReady

\* The inductive invariant.  ReferencesResolve alone is not inductive: that a
\* user row is there when a session or a link is inserted for it follows from
\* what the handler found several statements ago.
Inv == StoreInv /\ RequestsInv /\ sessionsAtReset \in [Reqs -> SUBSET Reqs]

\* No step deletes a user: the backend has no such statement.
UsersGrow == \A e \in Emails : users[e] # Nil => users'[e] # Nil

USE StoreAssumption, NilAssumption, NoAnswerAssumption

----------------------------------------------------------------------------

\* A step that changes no table keeps the tables' part of the invariant.
LEMMA TablesUnchanged ==
  ASSUME StoreInv, UNCHANGED tables PROVE StoreInv' /\ UsersGrow
  BY DEF StoreInv, StoreTypeOK, tables, UsersGrow

\* INSERT INTO "User" keeps the references, and its row is there afterwards.
LEMMA InsertUserStored ==
  ASSUME StoreInv, NEW e \in Emails, NEW u \in UserRow, InsertUser(e, u),
         UNCHANGED <<organizations, refreshTokens, verificationTokens>>
  PROVE  StoreInv' /\ UsersGrow /\ users'[e] # Nil
  <1>1. users' \in [Emails -> UserRow \cup {Nil}] /\ users'[e] = u /\ UsersGrow
    BY DEF StoreInv, StoreTypeOK, InsertUser, UsersGrow
  <1>2. refreshTokens \in [Reqs -> RefreshRow \cup {Nil}] 
        /\ verificationTokens \in [Reqs -> VerificationRow \cup {Nil}]
    BY DEF StoreInv, StoreTypeOK
  <1> QED BY <1>1, <1>2 DEF StoreInv, StoreTypeOK, UsersGrow, RefreshRow, VerificationRow

\* UPDATE "User" keeps the row's type, and the references to it.
LEMMA UpdateUserStored ==
  ASSUME StoreInv, NEW e \in Emails, users[e] # Nil, NEW u \in UserRow, UpdateUser(e, u),
         UNCHANGED <<organizations, refreshTokens, verificationTokens>>
  PROVE  StoreInv' /\ UsersGrow
  <1>1. users \in [Emails -> UserRow \cup {Nil}] /\ users[e] \in UserRow
    BY DEF StoreInv, StoreTypeOK
  <1>2. users' = [users EXCEPT ![e] = [users[e] EXCEPT !.password = u.password,
           !.emailVerified = u.emailVerified,
           !.totpSecret = u.totpSecret, !.totpEnabled = u.totpEnabled]]
    BY <1>1 DEF UpdateUser, UserRow
  <1>3. [users[e] EXCEPT !.password = u.password,
           !.emailVerified = u.emailVerified,
           !.totpSecret = u.totpSecret, !.totpEnabled = u.totpEnabled] \in UserRow
    BY <1>1 DEF UserRow
  <1>4. users' \in [Emails -> UserRow \cup {Nil}] /\ UsersGrow
    BY <1>1, <1>2, <1>3 DEF UsersGrow
  <1>5. refreshTokens \in [Reqs -> RefreshRow \cup {Nil}] 
        /\ verificationTokens \in [Reqs -> VerificationRow \cup {Nil}]
    BY DEF StoreInv, StoreTypeOK
  <1> QED BY <1>4, <1>5 DEF StoreInv, StoreTypeOK, UsersGrow, RefreshRow, VerificationRow

\* A session may be stored for an account that is there.
LEMMA InsertRefreshTokenStored ==
  ASSUME StoreInv, NEW t \in Reqs, NEW e \in Emails, users[e] # Nil, InsertRefreshToken(t, e),
         UNCHANGED <<users, organizations, verificationTokens>>
  PROVE  StoreInv' /\ UsersGrow
  <1>1. [user |-> e, expired |-> FALSE] \in RefreshRow
    BY DEF RefreshRow
  <1> QED BY <1>1 DEF StoreInv, StoreTypeOK, InsertRefreshToken, UsersGrow

\* A link may be stored for an account that is there.
LEMMA InsertVerificationTokenStored ==
  ASSUME StoreInv, NEW t \in Reqs, NEW e \in Emails, users[e] # Nil, NEW p \in Purposes,
         InsertVerificationToken(t, e, p),
         UNCHANGED <<users, organizations, refreshTokens>>
  PROVE  StoreInv' /\ UsersGrow
  <1>1. [user |-> e, purpose |-> p, expired |-> FALSE] \in VerificationRow
    BY DEF VerificationRow
  <1> QED BY <1>1 DEF StoreInv, StoreTypeOK, InsertVerificationToken, UsersGrow

\* Deleting sessions, whichever, keeps the references.
LEMMA DeleteRefreshTokensStored ==
  ASSUME StoreInv, NEW T, DeleteRefreshTokens(T),
         UNCHANGED <<users, organizations, verificationTokens>>
  PROVE  StoreInv' /\ UsersGrow
  BY DEF StoreInv, StoreTypeOK, DeleteRefreshTokens, UsersGrow

\* Deleting a link keeps the references.
LEMMA DeleteVerificationTokenStored ==
  ASSUME StoreInv, NEW t, DeleteVerificationToken(t),
         UNCHANGED <<users, organizations, refreshTokens>>
  PROVE  StoreInv' /\ UsersGrow
  BY DEF StoreInv, StoreTypeOK, DeleteVerificationToken, UsersGrow

\* What all forms of going on and answering have in common: r moves to statement
\* l with account a, copy w and answer s.
Moves(r, l, a, w, s) ==
  /\ pc' = [pc EXCEPT ![r] = l]
  /\ account' = [account EXCEPT ![r] = a]
  /\ row' = [row EXCEPT ![r] = w]
  /\ answer' = [answer EXCEPT ![r] = s]
  /\ UNCHANGED call

\* Each form of going on or answering is a move.
LEMMA MoveForms ==
  ASSUME RequestsTypeOK, NEW r \in Reqs, NEW l, NEW a, NEW w, NEW s
  PROVE  /\ Goto(r, l) => Moves(r, l, account[r], row[r], answer[r])
         /\ GotoFor(r, l, a) => Moves(r, l, a, row[r], answer[r])
         /\ GotoWith(r, l, w) => Moves(r, l, account[r], w, answer[r])
         /\ Respond(r, s) => Moves(r, "done", account[r], Nil, s)
         /\ RespondFor(r, s, a) => Moves(r, "done", a, row[r], s)
  BY DEF RequestsTypeOK, Goto, GotoFor, GotoWith, Respond, RespondFor, Moves

\* A move keeps the requests' part of the invariant if the handler has what its
\* next statement needs.
LEMMA MoveKeepsRequests ==
  ASSUME RequestsInv, UsersGrow, NEW r \in Reqs,
         NEW l \in Labels, NEW a \in Emails \cup {Nil}, NEW w \in UserRow \cup {Nil},
         NEW s \in Answers \cup {Nil},
         Moves(r, l, a, w, s),
         a # Nil => users'[a] # Nil,
         l \in ForAccount \/ s \in {"tokens", "requires2fa"} => a # Nil,
         l \in Writing => w # Nil,
         l \in ByEmail => call[r].email \in Emails,
         l \in ByToken => call[r].token \in Reqs,
         l # "done" => s = Nil
  PROVE  RequestsInv'
  <1>1. RequestsTypeOK'
    BY DEF RequestsInv, RequestsTypeOK, Moves
  <1>2. Identified'
    BY DEF RequestsInv, RequestsTypeOK, Moves, Identified, UsersGrow
  <1>3. HandlersReady'
    BY DEF RequestsInv, RequestsTypeOK, Moves, HandlersReady
  <1> QED BY <1>1, <1>2, <1>3 DEF RequestsInv

\* Answering keeps it; tokens are only answered on behalf of an account.
LEMMA RespondKeeps ==
  ASSUME RequestsInv, UsersGrow, NEW r \in Reqs, NEW s \in Answers, Respond(r, s),
         s \in {"tokens", "requires2fa"} => account[r] # Nil
  PROVE  RequestsInv'
  <1>1. Moves(r, "done", account[r], Nil, s)
    BY MoveForms DEF RequestsInv
  <1>2. account[r] \in Emails \cup {Nil} /\ (account[r] # Nil => users'[account[r]] # Nil)
    BY DEF RequestsInv, RequestsTypeOK, Identified, UsersGrow
  <1>3. "done" \in Labels \ (ForAccount \cup Writing \cup ByEmail \cup ByToken)
    BY DEF Labels, ForAccount, Writing, ByEmail, ByToken
  <1> QED BY <1>1, <1>2, <1>3, MoveKeepsRequests

\* Going on keeps it.
LEMMA GotoKeeps ==
  ASSUME RequestsInv, UsersGrow, NEW r \in Reqs, NEW l \in Labels, Goto(r, l),
         pc[r] # "done",
         l \in ForAccount => account[r] # Nil,
         l \notin Writing,
         l \in ByEmail => call[r].email \in Emails,
         l \notin ByToken
  PROVE  RequestsInv'
  <1>1. Moves(r, l, account[r], row[r], answer[r])
    BY MoveForms DEF RequestsInv
  <1>2. /\ account[r] \in Emails \cup {Nil} /\ (account[r] # Nil => users'[account[r]] # Nil)
        /\ row[r] \in UserRow \cup {Nil}
        /\ answer[r] = Nil
    BY DEF RequestsInv, RequestsTypeOK, Identified, UsersGrow, HandlersReady
  <1> QED BY <1>1, <1>2, MoveKeepsRequests DEF Answers

\* Going on with an account that was found keeps it.
LEMMA GotoForKeeps ==
  ASSUME RequestsInv, UsersGrow, NEW r \in Reqs, NEW l \in Labels, NEW e \in Emails,
         GotoFor(r, l, e), users'[e] # Nil, pc[r] # "done",
         l \notin Writing \cup ByEmail \cup ByToken
  PROVE  RequestsInv'
  <1>0. e # Nil
    OBVIOUS
  <1>1. Moves(r, l, e, row[r], answer[r])
    BY MoveForms DEF RequestsInv
  <1>2. row[r] \in UserRow \cup {Nil} /\ answer[r] = Nil
    BY DEF RequestsInv, RequestsTypeOK, HandlersReady
  <1> QED BY <1>0, <1>1, <1>2, MoveKeepsRequests DEF Answers

\* Going on with a copy of the account's row keeps it.
LEMMA GotoWithKeeps ==
  ASSUME RequestsInv, UsersGrow, NEW r \in Reqs, NEW l \in Labels, NEW w \in UserRow \cup {Nil},
         GotoWith(r, l, w), account[r] # Nil, pc[r] # "done",
         l \in Writing => w # Nil,
         l \notin ByEmail \cup ByToken
  PROVE  RequestsInv'
  <1>1. Moves(r, l, account[r], w, answer[r])
    BY MoveForms DEF RequestsInv
  <1>2. /\ account[r] \in Emails \cup {Nil} /\ users'[account[r]] # Nil
        /\ answer[r] = Nil
    BY DEF RequestsInv, RequestsTypeOK, Identified, UsersGrow, HandlersReady
  <1> QED BY <1>1, <1>2, MoveKeepsRequests DEF Answers

\* A step that changes no table and answers with an error.
LEMMA RejectKeeps ==
  ASSUME Inv, NEW r \in Reqs, NEW s \in Answers \ {"tokens", "requires2fa"},
         Respond(r, s), UNCHANGED <<tables, sessionsAtReset>>
  PROVE  Inv'
  <1>1. StoreInv' /\ UsersGrow
    BY TablesUnchanged DEF Inv, tables
  <1>2. RequestsInv'
    BY <1>1, RespondKeeps DEF Inv
  <1> QED BY <1>1, <1>2 DEF Inv

\* A statement that fails, or a call that is refused, keeps the invariant.
LEMMA FailsKeeps ==
  ASSUME Inv, NEW r \in Reqs, NEW s \in Answers \ {"tokens", "requires2fa"},
         Fails(r, s) \/ Reject(r, s), UNCHANGED sessionsAtReset
  PROVE  Inv'
  BY RejectKeeps DEF Fails, Reject


\* What the invariant gives the handler of r at its current statement.
LEMMA Known ==
  ASSUME Inv, NEW r \in Reqs
  PROVE  /\ pc[r] \in ForAccount => account[r] # Nil
         /\ account[r] # Nil => /\ account[r] \in Emails
                                /\ users[account[r]] # Nil
                                /\ users[account[r]] \in UserRow
         /\ pc[r] \in Writing => row[r] \in UserRow
         /\ pc[r] \in ByEmail => call[r].email \in Emails
         /\ pc[r] \in ByToken => call[r].token \in Reqs
  <1>1. users \in [Emails -> UserRow \cup {Nil}] /\ account[r] \in Emails \cup {Nil}
        /\ row[r] \in UserRow \cup {Nil}
    BY DEF Inv, StoreInv, StoreTypeOK, RequestsInv, RequestsTypeOK
  <1> QED BY <1>1 DEF Inv, RequestsInv, HandlersReady, Identified

\* A step that changes no table and goes on.
LEMMA GoesOnKeeps ==
  ASSUME Inv, NEW r \in Reqs, NEW l \in Labels, UNCHANGED <<tables, sessionsAtReset>>,
         pc[r] # "done",
         \/ /\ Goto(r, l)
            /\ l \in ForAccount => account[r] # Nil
            /\ l \in ByEmail => call[r].email \in Emails
            /\ l \notin Writing \cup ByToken
         \/ /\ \E e \in Emails : GotoFor(r, l, e) /\ users[e] # Nil
            /\ l \notin Writing \cup ByEmail \cup ByToken
         \/ /\ \E w \in UserRow : GotoWith(r, l, w)
            /\ account[r] # Nil
            /\ l \notin ByEmail \cup ByToken
  PROVE  Inv'
  <1>1. StoreInv' /\ UsersGrow
    BY TablesUnchanged DEF Inv, tables
  <1>2. RequestsInv
    BY DEF Inv
  <1>3. CASE /\ Goto(r, l)
             /\ l \in ForAccount => account[r] # Nil
             /\ l \in ByEmail => call[r].email \in Emails
             /\ l \notin Writing \cup ByToken
    BY <1>1, <1>2, <1>3, GotoKeeps DEF Inv
  <1>4. CASE /\ \E e \in Emails : GotoFor(r, l, e) /\ users[e] # Nil
             /\ l \notin Writing \cup ByEmail \cup ByToken
    <2>1. PICK e \in Emails : GotoFor(r, l, e) /\ users[e] # Nil
      BY <1>4
    <2>2. users'[e] # Nil
      BY <1>1, <2>1 DEF UsersGrow
    <2> QED BY <1>1, <1>2, <1>4, <2>1, <2>2, GotoForKeeps DEF Inv
  <1>5. CASE /\ \E w \in UserRow : GotoWith(r, l, w)
             /\ account[r] # Nil
             /\ l \notin ByEmail \cup ByToken
    <2>1. PICK w \in UserRow : GotoWith(r, l, w)
      BY <1>5
    <2> QED BY <1>1, <1>2, <1>5, <2>1, GotoWithKeeps DEF Inv
  <1> QED BY <1>3, <1>4, <1>5

\* generateTokens keeps the invariant: its account is there.
LEMMA GenerateTokensKeeps ==
  ASSUME Inv, NEW r \in Reqs, GenerateTokens(r) PROVE Inv'
  <1> USE DEF GenerateTokens
  <1>1. account[r] \in Emails /\ users[account[r]] # Nil
    BY DEF Inv, RequestsInv, HandlersReady, Identified, ForAccount, RequestsTypeOK
  <1>2. CASE Fails(r, "error")
    BY <1>2, FailsKeeps DEF Answers
  <1>3. CASE /\ InsertRefreshToken(r, account[r])
             /\ Respond(r, "tokens")
             /\ UNCHANGED <<users, organizations, verificationTokens>>
    <2>1. StoreInv' /\ UsersGrow
      BY <1>1, <1>3, InsertRefreshTokenStored DEF Inv
    <2>2. RequestsInv'
      BY <1>1, <1>3, <2>1, RespondKeeps DEF Inv, Answers
    <2> QED BY <2>1, <2>2 DEF Inv
  <1> QED BY <1>2, <1>3

\* The INSERT of Register keeps the invariant.
LEMMA RegisterUserKeeps ==
  ASSUME Inv, NEW r \in Reqs, RegisterUser(r) PROVE Inv'
  <1> DEFINE e == call[r].email
             u == NewUser(call[r].password, FALSE, Nil, r)
  <1>1. e \in Emails /\ u \in UserRow
    BY DEF RegisterUser, Inv, RequestsInv, HandlersReady, ByEmail, RequestsTypeOK, Call,
           NewUser, UserRow, Ids
  <1>2. CASE Fails(r, "error") \/ Reject(r, "conflict")
    BY <1>2, FailsKeeps DEF Answers, RegisterUser
  <1>3. CASE /\ InsertUser(e, u)
             /\ GotoFor(r, "register.mail", e)
             /\ UNCHANGED <<organizations, refreshTokens, verificationTokens>>
    <2>1. StoreInv' /\ UsersGrow /\ users'[e] # Nil
      BY <1>1, <1>3, InsertUserStored DEF Inv
    <2>2. RequestsInv'
      BY <1>1, <1>3, <2>1, GotoForKeeps
         DEF RegisterUser, Inv, Labels, Writing, ByEmail, ByToken
    <2> QED BY <2>1, <2>2 DEF Inv, RegisterUser
  <1> QED BY <1>2, <1>3 DEF RegisterUser

\* The lookup of Register keeps the invariant.
LEMMA RegisterLookupKeeps ==
  ASSUME Inv, NEW r \in Reqs, RegisterLookup(r) PROVE Inv'
  <1>1. call[r].email \in Emails
    BY Known DEF RegisterLookup, ByEmail
  <1>2. CASE Reject(r, "conflict") \/ Fails(r, "error")
    BY <1>2, FailsKeeps DEF RegisterLookup, Answers
  <1>3. CASE Goto(r, "register.org") /\ UNCHANGED tables
    BY <1>1, <1>3, GoesOnKeeps DEF RegisterLookup, Labels, ForAccount, Writing, ByToken
  <1> QED BY <1>2, <1>3 DEF RegisterLookup

\* createOrganization keeps the invariant.
LEMMA CreateOrganizationKeeps ==
  ASSUME Inv, NEW r \in Reqs, CreateOrganization(r) PROVE Inv'
  <1> DEFINE next == IF pc[r] = "register.org" THEN "register.user" ELSE "oauth.user"
  <1>1. call[r].email \in Emails
    BY Known DEF CreateOrganization, ByEmail
  <1>2. CASE Fails(r, "error")
    BY <1>2, FailsKeeps DEF CreateOrganization, Answers
  <1>3. CASE /\ organizations' = organizations \cup {r}
             /\ Goto(r, next)
             /\ UNCHANGED <<users, refreshTokens, verificationTokens>>
    <2>1. StoreInv' /\ UsersGrow
      BY <1>3 DEF Inv, StoreInv, StoreTypeOK, UsersGrow, Ids
    <2>2. next \in Labels \ (ForAccount \cup Writing \cup ByToken)
      BY DEF Labels, ForAccount, Writing, ByToken
    <2>3. RequestsInv'
      BY <1>1, <1>3, <2>1, <2>2, GotoKeeps DEF CreateOrganization, Inv
    <2> QED BY <2>1, <2>3 DEF Inv, CreateOrganization
  <1> QED BY <1>2, <1>3 DEF CreateOrganization

\* sendVerificationEmail keeps the invariant: its account is there.
LEMMA SendVerificationEmailKeeps ==
  ASSUME Inv, NEW r \in Reqs, SendVerificationEmail(r) PROVE Inv'
  <1>1. account[r] # Nil /\ account[r] \in Emails /\ users[account[r]] # Nil
    BY Known DEF SendVerificationEmail, ForAccount
  <1>2. StoreInv' /\ UsersGrow
    <2>1. CASE InsertVerificationToken(r, account[r], "email_verify")
      BY <1>1, <2>1, InsertVerificationTokenStored DEF SendVerificationEmail, Inv, Purposes
    <2>2. CASE UNCHANGED verificationTokens
      BY <2>2, TablesUnchanged DEF SendVerificationEmail, Inv, tables
    <2> QED BY <2>1, <2>2 DEF SendVerificationEmail
  <1>3. RequestsInv'
    BY <1>1, <1>2, GotoKeeps
       DEF SendVerificationEmail, Inv, Labels, ForAccount, Writing, ByEmail, ByToken
  <1> QED BY <1>2, <1>3 DEF Inv, SendVerificationEmail

\* Login keeps the invariant.
LEMMA LoginLookupKeeps ==
  ASSUME Inv, NEW r \in Reqs, LoginLookup(r) PROVE Inv'
  <1> DEFINE e == call[r].email
  <1>1. e \in Emails
    BY Known DEF LoginLookup, ByEmail
  <1>2. CASE Respond(r, "unauthorized") \/ Respond(r, "error")
    BY <1>2, RejectKeeps DEF LoginLookup, Answers
  <1>3. CASE users[e] # Nil /\ GotoFor(r, "mint", e)
    BY <1>1, <1>3, GoesOnKeeps DEF LoginLookup, Labels, Writing, ByEmail, ByToken
  <1>4. CASE users[e] # Nil /\ RespondFor(r, "requires2fa", e)
    <2>1. StoreInv' /\ UsersGrow
      BY TablesUnchanged DEF LoginLookup, Inv, tables
    <2>2. Moves(r, "done", e, row[r], "requires2fa") /\ row[r] \in UserRow \cup {Nil}
      BY <1>4, MoveForms DEF Inv, RequestsInv, RequestsTypeOK
    <2>3. e # Nil /\ users'[e] # Nil
      BY <1>1, <1>4, <2>1 DEF UsersGrow
    <2>4. "done" \in Labels \ (Writing \cup ByEmail \cup ByToken)
      BY DEF Labels, Writing, ByEmail, ByToken
    <2>5. RequestsInv'
      BY <1>1, <2>1, <2>2, <2>3, <2>4, MoveKeepsRequests DEF Inv, Answers
    <2> QED BY <2>1, <2>5 DEF Inv, LoginLookup
  <1> QED BY <1>2, <1>3, <1>4 DEF LoginLookup

\* LoginWithTwoFA keeps the invariant.
LEMMA LoginWithTwoFAKeeps ==
  ASSUME Inv, NEW r \in Reqs, LoginWithTwoFA(r) PROVE Inv'
  <1>1. account[r] # Nil
    BY Known DEF LoginWithTwoFA, ForAccount
  <1>2. CASE Respond(r, "unauthorized") \/ Respond(r, "error")
    BY <1>2, RejectKeeps DEF LoginWithTwoFA, Answers
  <1>3. CASE Goto(r, "mint")
    BY <1>1, <1>3, GoesOnKeeps DEF LoginWithTwoFA, Labels, Writing, ByEmail, ByToken
  <1> QED BY <1>2, <1>3 DEF LoginWithTwoFA

\* The lookup of Refresh keeps the invariant: the session found names an account.
LEMMA RefreshLookupKeeps ==
  ASSUME Inv, NEW r \in Reqs, RefreshLookup(r) PROVE Inv'
  <1> DEFINE t == call[r].token
             s == refreshTokens[t]
  <1>1. t \in Reqs
    BY Known DEF RefreshLookup, ByToken
  <1>2. CASE Respond(r, "unauthorized") \/ Respond(r, "error")
    BY <1>2, RejectKeeps DEF RefreshLookup, Answers
  <1>3. CASE Goto(r, "refresh.purge")
    BY <1>3, GoesOnKeeps DEF RefreshLookup, Labels, ForAccount, Writing, ByEmail, ByToken
  <1>4. CASE s # Nil /\ GotoFor(r, "refresh.user", s.user)
    <2>1. s.user \in Emails /\ users[s.user] # Nil
      BY <1>1, <1>4 DEF Inv, StoreInv, StoreTypeOK, RefreshRow
    <2> QED BY <1>4, <2>1, GoesOnKeeps DEF RefreshLookup, Labels, Writing, ByEmail, ByToken
  <1> QED BY <1>2, <1>3, <1>4 DEF RefreshLookup

\* A statement that deletes refresh tokens, or fails to, and what follows it.
LEMMA DeletesSessionsKeeps ==
  ASSUME Inv, NEW r \in Reqs, NEW T, DeleteRefreshTokens(T) \/ UNCHANGED refreshTokens,
         UNCHANGED <<users, organizations, verificationTokens, sessionsAtReset>>,
         \/ \E s \in Answers \ {"tokens", "requires2fa"} : Respond(r, s)
         \/ Goto(r, "mint") /\ account[r] # Nil /\ pc[r] # "done"
  PROVE  Inv'
  <1>1. StoreInv' /\ UsersGrow
    BY DeleteRefreshTokensStored, TablesUnchanged DEF Inv, tables
  <1>2. CASE \E s \in Answers \ {"tokens", "requires2fa"} : Respond(r, s)
    BY <1>1, <1>2, RespondKeeps DEF Inv
  <1>3. CASE Goto(r, "mint") /\ account[r] # Nil /\ pc[r] # "done"
    <2>1. RequestsInv'
      BY <1>1, <1>3, GotoKeeps DEF Inv, Labels, Writing, ByEmail, ByToken
    <2> QED BY <1>1, <2>1 DEF Inv
  <1> QED BY <1>2, <1>3

\* The other statements of Refresh, and Logout, keep the invariant.
LEMMA RefreshKeeps ==
  ASSUME Inv, NEW r \in Reqs,
         RefreshPurge(r) \/ RefreshUser(r) \/ RefreshDelete(r) \/ Logout(r)
  PROVE  Inv'
  <1> DEFINE t == call[r].token
  <1>1. CASE RefreshPurge(r)
    BY <1>1, DeletesSessionsKeeps DEF RefreshPurge, Answers
  <1>2. CASE RefreshUser(r)
    <2>1. account[r] # Nil
      BY <1>2, Known DEF RefreshUser, ForAccount
    <2>2. CASE Goto(r, "refresh.delete") /\ UNCHANGED tables
      BY <1>2, <2>1, <2>2, GoesOnKeeps DEF RefreshUser, Labels, Writing, ByEmail, ByToken
    <2> QED BY <1>2, <2>2, FailsKeeps DEF RefreshUser, Answers
  <1>3. CASE RefreshDelete(r)
    <2>1. account[r] # Nil
      BY <1>3, Known DEF RefreshDelete, ForAccount
    <2>2. CASE Fails(r, "error")
      BY <1>3, <2>2, FailsKeeps DEF RefreshDelete, Answers
    <2>3. CASE /\ DeleteRefreshTokens({t})
               /\ Goto(r, "mint") \/ Respond(r, "error")
               /\ UNCHANGED <<users, organizations, verificationTokens>>
      BY <1>3, <2>1, <2>3, DeletesSessionsKeeps DEF RefreshDelete, Answers
    <2> QED BY <1>3, <2>2, <2>3 DEF RefreshDelete
  <1>4. CASE Logout(r)
    <2>1. CASE Fails(r, "error")
      BY <1>4, <2>1, FailsKeeps DEF Logout, Answers
    <2>2. CASE /\ DeleteRefreshTokens({t})
               /\ Respond(r, "ok") \/ Respond(r, "error")
               /\ UNCHANGED <<users, organizations, verificationTokens>>
      BY <1>4, <2>2, DeletesSessionsKeeps DEF Logout, Answers
    <2> QED BY <1>4, <2>1, <2>2 DEF Logout
  <1> QED BY <1>1, <1>2, <1>3, <1>4

\* Looking a link up keeps the invariant: the link found names an account.
LEMMA LinkLookupKeeps ==
  ASSUME Inv, NEW r \in Reqs,
         NEW lookup \in {"verify.lookup", "reset.lookup"},
         NEW purge \in {"verify.purge", "reset.purge"},
         NEW user \in {"verify.user", "reset.user"}, NEW purpose,
         LinkLookup(r, lookup, purge, user, purpose)
  PROVE  Inv'
  <1> DEFINE link == verificationTokens[call[r].token]
  <1>1. call[r].token \in Reqs
    BY Known DEF LinkLookup, ByToken
  <1>2. CASE Respond(r, "invalid")
    BY <1>2, RejectKeeps DEF LinkLookup, Answers
  <1>3. CASE Goto(r, purge)
    BY <1>3, GoesOnKeeps DEF LinkLookup, Labels, ForAccount, Writing, ByEmail, ByToken
  <1>4. CASE link # Nil /\ GotoFor(r, user, link.user)
    <2>1. link.user \in Emails /\ users[link.user] # Nil
      BY <1>1, <1>4 DEF Inv, StoreInv, StoreTypeOK, VerificationRow
    <2> QED BY <1>4, <2>1, GoesOnKeeps DEF LinkLookup, Labels, Writing, ByEmail, ByToken
  <1> QED BY <1>2, <1>3, <1>4 DEF LinkLookup

\* A statement that deletes a link, or fails to, and what follows it.
LEMMA DeletesLinkKeeps ==
  ASSUME Inv, NEW r \in Reqs, NEW t, DeleteVerificationToken(t) \/ UNCHANGED verificationTokens,
         UNCHANGED <<users, organizations, refreshTokens, sessionsAtReset>>,
         \/ \E s \in Answers \ {"tokens", "requires2fa"} : Respond(r, s)
         \/ Goto(r, "reset.revoke") /\ account[r] # Nil /\ pc[r] # "done"
  PROVE  Inv'
  <1>1. StoreInv' /\ UsersGrow
    BY DeleteVerificationTokenStored, TablesUnchanged DEF Inv, tables
  <1>2. CASE \E s \in Answers \ {"tokens", "requires2fa"} : Respond(r, s)
    BY <1>1, <1>2, RespondKeeps DEF Inv
  <1>3. CASE Goto(r, "reset.revoke") /\ account[r] # Nil /\ pc[r] # "done"
    <2>1. RequestsInv'
      BY <1>1, <1>3, GotoKeeps DEF Inv, Labels, Writing, ByEmail, ByToken
    <2> QED BY <1>1, <2>1 DEF Inv
  <1> QED BY <1>2, <1>3

\* A statement that writes the handler's copy back to its account's row.
LEMMA WritesBackKeeps ==
  ASSUME Inv, NEW r \in Reqs, pc[r] \in Writing, UpdateUser(account[r], row[r]),
         UNCHANGED <<organizations, refreshTokens, verificationTokens>>,
         \/ \E s \in Answers \ {"tokens", "requires2fa"} : Respond(r, s)
         \/ \E l \in Labels \ (Writing \cup ByEmail \cup ByToken) : GotoWritten(r, l),
         sessionsAtReset' \in [Reqs -> SUBSET Reqs]
  PROVE  Inv'
  <1>1. /\ account[r] # Nil /\ account[r] \in Emails /\ users[account[r]] # Nil
        /\ row[r] \in UserRow
    BY Known DEF Writing, ForAccount
  <1>2. StoreInv' /\ UsersGrow
    BY <1>1, UpdateUserStored DEF Inv
  <1>3. CASE \E s \in Answers \ {"tokens", "requires2fa"} : Respond(r, s)
    BY <1>2, <1>3, RespondKeeps DEF Inv
  <1>4. CASE \E l \in Labels \ (Writing \cup ByEmail \cup ByToken) : GotoWritten(r, l)
    BY <1>1, <1>2, <1>4, GotoWithKeeps DEF Inv, GotoWritten, Writing
  <1> QED BY <1>3, <1>4

\* VerifyEmail keeps the invariant.
LEMMA VerifyEmailKeeps ==
  ASSUME Inv, NEW r \in Reqs,
         \/ VerifyEmailLookup(r) \/ VerifyEmailPurge(r) \/ VerifyEmailUser(r)
         \/ VerifyEmailUpdate(r) \/ VerifyEmailDelete(r)
  PROVE  Inv'
  <1>1. CASE VerifyEmailLookup(r)
    BY <1>1, LinkLookupKeeps DEF VerifyEmailLookup
  <1>2. CASE VerifyEmailPurge(r)
    BY <1>2, DeletesLinkKeeps DEF VerifyEmailPurge, LinkPurge, Answers
  <1>3. CASE VerifyEmailUser(r)
    <2> DEFINE copy == [users[account[r]] EXCEPT !.emailVerified = TRUE]
    <2>1. account[r] # Nil /\ users[account[r]] \in UserRow
      BY <1>3, Known DEF VerifyEmailUser, ForAccount
    <2>2. copy \in UserRow
      BY <2>1 DEF UserRow
    <2>3. CASE GotoWith(r, "verify.update", copy) /\ UNCHANGED tables
      BY <1>3, <2>1, <2>2, <2>3, GoesOnKeeps DEF VerifyEmailUser, Labels, ByEmail, ByToken
    <2> QED BY <1>3, <2>3, FailsKeeps DEF VerifyEmailUser, Answers
  <1>4. CASE VerifyEmailUpdate(r)
    <2>1. CASE Fails(r, "error")
      BY <1>4, <2>1, FailsKeeps DEF VerifyEmailUpdate, Answers
    <2>2. CASE /\ UpdateUser(account[r], row[r])
               /\ GotoWritten(r, "verify.delete")
               /\ UNCHANGED <<organizations, refreshTokens, verificationTokens>>
      BY <1>4, <2>2, WritesBackKeeps
         DEF VerifyEmailUpdate, Inv, Labels, Writing, ByEmail, ByToken
    <2> QED BY <1>4, <2>1, <2>2 DEF VerifyEmailUpdate
  <1>5. CASE VerifyEmailDelete(r)
    <2>1. CASE Fails(r, "error")
      BY <1>5, <2>1, FailsKeeps DEF VerifyEmailDelete, Answers
    <2>2. CASE /\ DeleteVerificationToken(call[r].token)
               /\ Respond(r, "ok") \/ Respond(r, "error")
               /\ UNCHANGED <<users, organizations, refreshTokens>>
      BY <1>5, <2>2, DeletesLinkKeeps DEF VerifyEmailDelete, Answers
    <2> QED BY <1>5, <2>1, <2>2 DEF VerifyEmailDelete
  <1> QED BY <1>1, <1>2, <1>3, <1>4, <1>5

\* ForgotPassword keeps the invariant.
LEMMA ForgotPasswordKeeps ==
  ASSUME Inv, NEW r \in Reqs, ForgotPasswordLookup(r) \/ ForgotPasswordCreate(r)
  PROVE  Inv'
  <1>1. CASE ForgotPasswordLookup(r)
    <2>1. call[r].email \in Emails
      BY <1>1, Known DEF ForgotPasswordLookup, ByEmail
    <2>2. CASE Respond(r, "ok")
      BY <1>1, <2>2, RejectKeeps DEF ForgotPasswordLookup, Answers
    <2>3. CASE users[call[r].email] # Nil /\ GotoFor(r, "forgot.create", call[r].email)
      BY <1>1, <2>1, <2>3, GoesOnKeeps
         DEF ForgotPasswordLookup, Labels, Writing, ByEmail, ByToken
    <2> QED BY <1>1, <2>2, <2>3 DEF ForgotPasswordLookup
  <1>2. CASE ForgotPasswordCreate(r)
    <2>1. account[r] \in Emails /\ users[account[r]] # Nil
      BY <1>2, Known DEF ForgotPasswordCreate, ForAccount
    <2>2. CASE /\ InsertVerificationToken(r, account[r], "password_reset")
               /\ Respond(r, "ok")
               /\ UNCHANGED <<users, organizations, refreshTokens>>
      <3>1. StoreInv' /\ UsersGrow
        BY <2>1, <2>2, InsertVerificationTokenStored DEF Inv, Purposes
      <3>2. RequestsInv'
        BY <2>2, <3>1, RespondKeeps DEF Inv, Answers
      <3> QED BY <1>2, <3>1, <3>2 DEF Inv, ForgotPasswordCreate
    <2> QED BY <1>2, <2>2, FailsKeeps DEF ForgotPasswordCreate, Answers
  <1> QED BY <1>1, <1>2

\* ResetPassword keeps the invariant.
LEMMA ResetPasswordKeeps ==
  ASSUME Inv, NEW r \in Reqs,
         \/ ResetPasswordLookup(r) \/ ResetPasswordPurge(r) \/ ResetPasswordUser(r)
         \/ ResetPasswordUpdate(r) \/ ResetPasswordDelete(r) \/ ResetPasswordRevoke(r)
  PROVE  Inv'
  <1>1. CASE ResetPasswordLookup(r)
    BY <1>1, LinkLookupKeeps DEF ResetPasswordLookup
  <1>2. CASE ResetPasswordPurge(r)
    BY <1>2, DeletesLinkKeeps DEF ResetPasswordPurge, LinkPurge, Answers
  <1>3. CASE ResetPasswordUser(r)
    <2> DEFINE copy == [users[account[r]] EXCEPT !.password = call[r].password]
    <2>1. account[r] # Nil /\ users[account[r]] \in UserRow
      BY <1>3, Known DEF ResetPasswordUser, ForAccount
    <2>2. copy \in UserRow
      BY <2>1 DEF UserRow, Inv, RequestsInv, RequestsTypeOK, Call
    <2>3. CASE GotoWith(r, "reset.update", copy) /\ UNCHANGED tables
      BY <1>3, <2>1, <2>2, <2>3, GoesOnKeeps DEF ResetPasswordUser, Labels, ByEmail, ByToken
    <2> QED BY <1>3, <2>3, FailsKeeps DEF ResetPasswordUser, Answers
  <1>4. CASE ResetPasswordUpdate(r)
    <2>1. CASE Fails(r, "error") /\ UNCHANGED sessionsAtReset
      BY <1>4, <2>1, FailsKeeps DEF Answers
    <2>2. CASE /\ UpdateUser(account[r], row[r])
               /\ GotoWritten(r, "reset.delete")
               /\ sessionsAtReset' = [sessionsAtReset EXCEPT ![r] = SessionsOf(account[r])]
               /\ UNCHANGED <<organizations, refreshTokens, verificationTokens>>
      <3>1. sessionsAtReset' \in [Reqs -> SUBSET Reqs]
        BY <2>2 DEF Inv, SessionsOf
      <3> QED BY <1>4, <2>2, <3>1, WritesBackKeeps
              DEF ResetPasswordUpdate, Labels, Writing, ByEmail, ByToken
    <2> QED BY <1>4, <2>1, <2>2 DEF ResetPasswordUpdate
  <1>5. CASE ResetPasswordDelete(r)
    <2>1. account[r] # Nil
      BY <1>5, Known DEF ResetPasswordDelete, ForAccount
    <2> QED BY <1>5, <2>1, DeletesLinkKeeps DEF ResetPasswordDelete
  <1>6. CASE ResetPasswordRevoke(r)
    <2>1. CASE Fails(r, "error")
      BY <1>6, <2>1, FailsKeeps DEF ResetPasswordRevoke, Answers
    <2>2. CASE /\ DeleteRefreshTokens(SessionsOf(account[r]))
               /\ Respond(r, "ok") \/ Respond(r, "error")
               /\ UNCHANGED <<users, organizations, verificationTokens>>
      BY <1>6, <2>2, DeletesSessionsKeeps DEF ResetPasswordRevoke, Answers
    <2> QED BY <1>6, <2>1, <2>2 DEF ResetPasswordRevoke
  <1> QED BY <1>1, <1>2, <1>3, <1>4, <1>5, <1>6

\* SetupTwoFA, ConfirmTwoFA and DisableTwoFA keep the invariant: the copies they
\* take and write back are well formed.
LEMMA TwoFAKeeps ==
  ASSUME Inv, NEW r \in Reqs,
         NoProfile(r) \/ SetupLookup(r) \/ ConfirmLookup(r) \/ DisableLookup(r) \/ TwoFAUpdate(r)
  PROVE  Inv'
  <1> DEFINE u == users[account[r]]
  <1>1. CASE NoProfile(r)
    BY <1>1, FailsKeeps DEF NoProfile, Answers
  <1>2. ASSUME account[r] # Nil, pc[r] # "done", UNCHANGED <<tables, sessionsAtReset>>,
               NEW l \in {"setup.update", "confirm.update", "disable.update"},
               \E secret \in Ids \cup {Nil}, enabled \in BOOLEAN :
                 \/ GotoWith(r, l, [u EXCEPT !.totpSecret = secret])
                 \/ GotoWith(r, l, [u EXCEPT !.totpEnabled = enabled])
                 \/ GotoWith(r, l, [u EXCEPT !.totpEnabled = enabled, !.totpSecret = secret])
        PROVE  Inv'
    <2>1. u \in UserRow
      BY <1>2, Known
    <2>2. \A secret \in Ids \cup {Nil}, enabled \in BOOLEAN :
            /\ [u EXCEPT !.totpSecret = secret] \in UserRow
            /\ [u EXCEPT !.totpEnabled = enabled] \in UserRow
            /\ [u EXCEPT !.totpEnabled = enabled, !.totpSecret = secret] \in UserRow
      BY <2>1 DEF UserRow
    <2>3. \E w \in UserRow : GotoWith(r, l, w)
      BY <1>2, <2>2
    <2> QED BY <1>2, <2>3, GoesOnKeeps DEF Labels, ByEmail, ByToken
  <1>3. CASE SetupLookup(r)
    BY <1>2, <1>3 DEF SetupLookup, Ids
  <1>4. CASE ConfirmLookup(r)
    <2>1. CASE Respond(r, "unauthorized")
      BY <1>4, <2>1, RejectKeeps DEF ConfirmLookup, Answers
    <2> QED BY <1>2, <1>4, <2>1 DEF ConfirmLookup
  <1>5. CASE DisableLookup(r)
    <2>1. CASE Respond(r, "unauthorized")
      BY <1>5, <2>1, RejectKeeps DEF DisableLookup, Answers
    <2> QED BY <1>2, <1>5, <2>1 DEF DisableLookup
  <1>6. CASE TwoFAUpdate(r)
    <2>1. CASE Fails(r, "error")
      BY <1>6, <2>1, FailsKeeps DEF TwoFAUpdate, Answers
    <2>2. CASE /\ UpdateUser(account[r], row[r])
               /\ Respond(r, "ok")
               /\ UNCHANGED <<organizations, refreshTokens, verificationTokens>>
      BY <1>6, <2>2, WritesBackKeeps DEF TwoFAUpdate, Inv, Answers, Writing
    <2> QED BY <1>6, <2>1, <2>2 DEF TwoFAUpdate
  <1> QED BY <1>1, <1>3, <1>4, <1>5, <1>6

\* findOrCreateUser keeps the invariant.
LEMMA OAuthKeeps ==
  ASSUME Inv, NEW r \in Reqs, StepOAuth(r) PROVE Inv'
  <1> DEFINE e == call[r].email
  <1>1. CASE OAuthProvider(r)
    <2>1. call[r].email \in Emails
      BY <1>1, Known DEF OAuthProvider, ByEmail
    <2>2. CASE \E f \in AccountsOf(call[r].identity) : GotoFor(r, "mint", f)
      BY <1>1, <2>2, GoesOnKeeps
         DEF OAuthProvider, AccountsOf, Labels, Writing, ByEmail, ByToken
    <2>3. CASE Goto(r, "oauth.email")
      BY <1>1, <2>1, <2>3, GoesOnKeeps DEF OAuthProvider, Labels, ForAccount, Writing, ByToken
    <2> QED BY <1>1, <2>2, <2>3 DEF OAuthProvider
  <1>2. CASE OAuthEmail(r)
    <2>1. call[r].email \in Emails
      BY <1>2, Known DEF OAuthEmail, ByEmail
    <2>2. CASE Respond(r, "conflict")
      BY <1>2, <2>2, RejectKeeps DEF OAuthEmail, Answers
    <2>3. CASE Goto(r, "oauth.org")
      BY <1>2, <2>1, <2>3, GoesOnKeeps DEF OAuthEmail, Labels, ForAccount, Writing, ByToken
    <2> QED BY <1>2, <2>2, <2>3 DEF OAuthEmail
  <1>3. CASE OAuthUser(r)
    <2> DEFINE u == NewUser(Nil, TRUE, call[r].identity, r)
    <2>1. e \in Emails /\ u \in UserRow
      BY <1>3, Known
         DEF OAuthUser, ByEmail, Inv, RequestsInv, RequestsTypeOK, Call, NewUser, UserRow, Ids
    <2>2. CASE Reject(r, "error") \/ Fails(r, "error")
      BY <1>3, <2>2, FailsKeeps DEF OAuthUser, Answers
    <2>3. CASE /\ InsertUser(e, u)
               /\ GotoFor(r, "mint", e)
               /\ UNCHANGED <<organizations, refreshTokens, verificationTokens>>
      <3>1. StoreInv' /\ UsersGrow /\ users'[e] # Nil
        BY <2>1, <2>3, InsertUserStored DEF Inv
      <3>2. RequestsInv'
        BY <1>3, <2>1, <2>3, <3>1, GotoForKeeps
           DEF OAuthUser, Inv, Labels, Writing, ByEmail, ByToken
      <3> QED BY <1>3, <3>1, <3>2 DEF Inv, OAuthUser
    <2> QED BY <1>3, <2>2, <2>3 DEF OAuthUser
  <1> QED BY <1>1, <1>2, <1>3 DEF StepOAuth

\* Every step of a handler keeps the invariant.
LEMMA StepKeeps ==
  ASSUME Inv, NEW r \in Reqs, Step(r) PROVE Inv'
  BY GenerateTokensKeeps, RegisterUserKeeps, RegisterLookupKeeps, CreateOrganizationKeeps,
     SendVerificationEmailKeeps, LoginLookupKeeps, LoginWithTwoFAKeeps, RefreshLookupKeeps,
     RefreshKeeps, VerifyEmailKeeps, ForgotPasswordKeeps, ResetPasswordKeeps, TwoFAKeeps,
     OAuthKeeps
  DEF Step, StepAuth

\* A request that reaches its handler with the given input and account.
LEMMA AcceptKeeps ==
  ASSUME Inv, NEW r \in Reqs, NEW c \in Call, NEW a \in Emails \cup {Nil},
         NEW first \in Labels, Accept(r, c, a, first), UNCHANGED <<tables, sessionsAtReset>>,
         a # Nil => users[a] # Nil,
         first \in ForAccount => a # Nil,
         first \notin Writing,
         first \in ByEmail => c.email \in Emails,
         first \in ByToken => c.token \in Reqs
  PROVE  Inv'
  <1>1. StoreInv' /\ UsersGrow
    BY TablesUnchanged DEF Inv, tables
  <1>2. RequestsTypeOK'
    BY DEF Inv, RequestsInv, RequestsTypeOK, Accept
  <1>3. Identified'
    BY DEF Inv, RequestsInv, RequestsTypeOK, Identified, Accept, tables
  <1>4. HandlersReady'
    <2> SUFFICES ASSUME NEW q \in Reqs
                 PROVE  /\ pc'[q] \in ForAccount \/ answer'[q] \in {"tokens", "requires2fa"}
                             => account'[q] # Nil
                        /\ pc'[q] \in Writing => row'[q] # Nil
                        /\ pc'[q] \in ByEmail => call'[q].email \in Emails
                        /\ pc'[q] \in ByToken => call'[q].token \in Reqs
                        /\ pc'[q] # "done" => answer'[q] = Nil
      BY DEF HandlersReady
    <2>1. CASE q # r
      BY <2>1 DEF Inv, RequestsInv, RequestsTypeOK, HandlersReady, Accept
    <2>2. CASE q = r
      <3>1. answer[r] = Nil /\ Nil \notin {"tokens", "requires2fa"}
        BY DEF Answers, Inv, RequestsInv, RequestsTypeOK, HandlersReady, Accept
      <3> QED BY <2>2, <3>1 DEF Inv, RequestsInv, RequestsTypeOK, Accept
    <2> QED BY <2>1, <2>2
  <1> QED BY <1>1, <1>2, <1>3, <1>4 DEF Inv, RequestsInv

\* The inputs of calls are well formed, and tokens name existing accounts.
LEMMA Inputs ==
  ASSUME Inv
  PROVE  /\ NoCall \in Call
         /\ \A t \in Reqs : answer[t] \in {"tokens", "requires2fa"} =>
              account[t] \in Emails /\ account[t] # Nil /\ users[account[t]] # Nil
         /\ \A t \in Bearers : /\ t \in Ids
                               /\ ValidateAccessToken(t) \in Emails \cup {Nil}
                               /\ ValidateAccessToken(t) # Nil =>
                                    users[ValidateAccessToken(t)] # Nil
         /\ Codes \subseteq Ids \cup {Nil}
  <1>1. NoCall \in Call
    BY DEF NoCall, Call
  <1>2. \A t \in Reqs : answer[t] \in {"tokens", "requires2fa"} =>
              account[t] \in Emails /\ account[t] # Nil /\ users[account[t]] # Nil
    BY DEF Inv, RequestsInv, RequestsTypeOK, HandlersReady, Identified
  <1>3. \A e \in Registered : e \in Emails /\ users[e] # Nil
    BY DEF Inv, StoreInv
  <1>4. Codes \subseteq Ids \cup {Nil}
    BY DEF Codes, Ids
  <1>5. \A t \in Bearers : /\ t \in Ids
                           /\ ValidateAccessToken(t) \in Emails \cup {Nil}
                           /\ ValidateAccessToken(t) # Nil => users[ValidateAccessToken(t)] # Nil
    BY <1>2, <1>3 DEF Bearers, ValidateAccessToken, Ids
  <1> QED BY <1>1, <1>2, <1>4, <1>5

\* Receiving a call that carries an e-mail keeps the invariant.
LEMMA AcceptRegisterLoginForgotKeeps ==
  ASSUME Inv, NEW r \in Reqs, AcceptRegister(r) \/ AcceptLogin(r) \/ AcceptForgotPassword(r),
         UNCHANGED <<tables, sessionsAtReset>>
  PROVE  Inv'
  <1>1. ASSUME NEW op \in AllOps, NEW e \in Emails, NEW p \in Passwords
        PROVE  /\ [NoCall EXCEPT !.op = op, !.email = e, !.password = p] \in Call
               /\ [NoCall EXCEPT !.op = op, !.email = e, !.password = p].email = e
    BY DEF NoCall, Call
  <1>2. ASSUME NEW op \in AllOps, NEW e \in Emails
        PROVE  /\ [NoCall EXCEPT !.op = op, !.email = e] \in Call
               /\ [NoCall EXCEPT !.op = op, !.email = e].email = e
    BY DEF NoCall, Call
  <1>3. \E c \in Call, first \in {"register.lookup", "login.lookup", "forgot.lookup"} :
          c.email \in Emails /\ Accept(r, c, Nil, first)
    <2>1. CASE AcceptRegister(r)
      <3>1. PICK e \in Emails, p \in Passwords :
              Accept(r, [NoCall EXCEPT !.op = "register", !.email = e, !.password = p],
                     Nil, "register.lookup")
        BY <2>1 DEF AcceptRegister
      <3>2. "register" \in AllOps
        BY DEF AllOps
      <3>3. [NoCall EXCEPT !.op = "register", !.email = e, !.password = p] \in Call
            /\ [NoCall EXCEPT !.op = "register", !.email = e, !.password = p].email \in Emails
        BY <1>1, <3>2
      <3> QED BY <3>1, <3>3
    <2>2. CASE AcceptLogin(r)
      <3>1. PICK e \in Emails, p \in Passwords :
              Accept(r, [NoCall EXCEPT !.op = "login", !.email = e, !.password = p],
                     Nil, "login.lookup")
        BY <2>2 DEF AcceptLogin
      <3>2. "login" \in AllOps
        BY DEF AllOps
      <3>3. [NoCall EXCEPT !.op = "login", !.email = e, !.password = p] \in Call
            /\ [NoCall EXCEPT !.op = "login", !.email = e, !.password = p].email \in Emails
        BY <1>1, <3>2
      <3> QED BY <3>1, <3>3
    <2>3. CASE AcceptForgotPassword(r)
      <3>1. PICK e \in Emails :
              Accept(r, [NoCall EXCEPT !.op = "forgot", !.email = e], Nil, "forgot.lookup")
        BY <2>3 DEF AcceptForgotPassword
      <3> QED BY <1>2, <3>1 DEF AllOps
    <2> QED BY <2>1, <2>2, <2>3
  <1>4. ASSUME NEW first \in {"register.lookup", "login.lookup", "forgot.lookup"}
        PROVE  first \in Labels \ (ForAccount \cup Writing \cup ByToken)
    BY DEF Labels, ForAccount, Writing, ByToken
  <1> QED BY <1>3, <1>4, AcceptKeeps

\* Receiving a call that carries a refresh token or a link keeps the invariant.
LEMMA AcceptTokenKeeps ==
  ASSUME Inv, NEW r \in Reqs,
         AcceptRefresh(r) \/ AcceptLogout(r) \/ AcceptVerifyEmail(r) \/ AcceptResetPassword(r),
         UNCHANGED <<tables, sessionsAtReset>>
  PROVE  Inv'
  <1> DEFINE Firsts == {"refresh.lookup", "logout.delete", "verify.lookup", "reset.lookup"}
  <1>1. ASSUME NEW op \in AllOps, NEW t \in Reqs, NEW p \in Passwords
        PROVE  /\ [NoCall EXCEPT !.op = op, !.token = t, !.password = p] \in Call
               /\ [NoCall EXCEPT !.op = op, !.token = t, !.password = p].token = t
    BY DEF NoCall, Call, Ids
  <1>2. ASSUME NEW op \in AllOps, NEW t \in Reqs
        PROVE  /\ [NoCall EXCEPT !.op = op, !.token = t] \in Call
               /\ [NoCall EXCEPT !.op = op, !.token = t].token = t
    BY DEF NoCall, Call, Ids
  <1>3. \E c \in Call, first \in Firsts : c.token \in Reqs /\ Accept(r, c, Nil, first)
    <2>1. CASE AcceptRefresh(r)
      <3>1. PICK t \in Reqs :
              Accept(r, [NoCall EXCEPT !.op = "refresh", !.token = t], Nil, "refresh.lookup")
        BY <2>1 DEF AcceptRefresh
      <3> QED BY <1>2, <3>1 DEF AllOps
    <2>2. CASE AcceptLogout(r)
      <3>1. PICK t \in Reqs :
              Accept(r, [NoCall EXCEPT !.op = "logout", !.token = t], Nil, "logout.delete")
        BY <2>2 DEF AcceptLogout
      <3> QED BY <1>2, <3>1 DEF AllOps
    <2>3. CASE AcceptVerifyEmail(r)
      <3>1. PICK t \in Reqs :
              Accept(r, [NoCall EXCEPT !.op = "verify", !.token = t], Nil, "verify.lookup")
        BY <2>3 DEF AcceptVerifyEmail
      <3> QED BY <1>2, <3>1 DEF AllOps
    <2>4. CASE AcceptResetPassword(r)
      <3>1. PICK t \in Reqs, p \in Passwords :
              Accept(r, [NoCall EXCEPT !.op = "reset", !.token = t, !.password = p],
                     Nil, "reset.lookup")
        BY <2>4 DEF AcceptResetPassword
      <3>2. "reset" \in AllOps
        BY DEF AllOps
      <3>3. [NoCall EXCEPT !.op = "reset", !.token = t, !.password = p] \in Call
            /\ [NoCall EXCEPT !.op = "reset", !.token = t, !.password = p].token \in Reqs
        BY <1>1, <3>2
      <3> QED BY <3>1, <3>3
    <2> QED BY <2>1, <2>2, <2>3, <2>4
  <1>4. ASSUME NEW first \in Firsts
        PROVE  first \in Labels \ (ForAccount \cup Writing \cup ByEmail)
    BY DEF Labels, ForAccount, Writing, ByEmail
  <1> QED BY <1>3, <1>4, AcceptKeeps

\* Receiving a call that carries a bearer or a temporary token keeps the
\* invariant: the token speaks for an account that is there, or for nobody.
LEMMA AcceptTwoFAKeeps ==
  ASSUME Inv, NEW r \in Reqs,
         AcceptLogin2FA(r) \/ AcceptSetup(r) \/ AcceptConfirm(r) \/ AcceptDisable(r),
         UNCHANGED <<tables, sessionsAtReset>>
  PROVE  Inv'
  <1> DEFINE Firsts == {"login2fa.lookup", "setup.lookup", "confirm.lookup", "disable.lookup"}
  <1>1. ASSUME NEW op \in AllOps, NEW t \in Ids, NEW c \in Codes
        PROVE  /\ [NoCall EXCEPT !.op = op, !.token = t] \in Call
               /\ [NoCall EXCEPT !.op = op, !.token = t, !.code = c] \in Call
    BY Inputs DEF NoCall, Call
  <1>2. \E c \in Call, a \in Emails \cup {Nil}, first \in Firsts :
          /\ Accept(r, c, a, first)
          /\ a # Nil => users[a] # Nil
          /\ first = "login2fa.lookup" => a # Nil
    <2>1. CASE AcceptLogin2FA(r)
      BY <1>1, <2>1, Inputs DEF AcceptLogin2FA, AllOps, Ids
    <2>2. CASE AcceptSetup(r)
      <3>1. PICK t \in Bearers :
              Accept(r, [NoCall EXCEPT !.op = "setup", !.token = t],
                     ValidateAccessToken(t), "setup.lookup")
        BY <2>2 DEF AcceptSetup
      <3>2. [NoCall EXCEPT !.op = "setup", !.token = t] \in Call
        BY <1>1, Inputs DEF AllOps, Codes
      <3> QED BY <3>1, <3>2, Inputs
    <2>3. CASE AcceptConfirm(r)
      BY <1>1, <2>3, Inputs DEF AcceptConfirm, AllOps
    <2>4. CASE AcceptDisable(r)
      BY <1>1, <2>4, Inputs DEF AcceptDisable, AllOps
    <2> QED BY <2>1, <2>2, <2>3, <2>4
  <1>3. ASSUME NEW first \in Firsts
        PROVE  /\ first \in Labels \ (Writing \cup ByEmail \cup ByToken)
               /\ first \in ForAccount => first = "login2fa.lookup"
    BY DEF Labels, ForAccount, Writing, ByEmail, ByToken
  <1> QED BY <1>2, <1>3, AcceptKeeps

\* Receiving a provider's profile keeps the invariant.
LEMMA AcceptOAuthKeeps ==
  ASSUME Inv, NEW r \in Reqs, AcceptOAuth(r) PROVE Inv'
  <1>1. PICK p \in Profiles :
          Accept(r, [NoCall EXCEPT !.op = "oauth", !.identity = p[1], !.email = p[2]],
                 Nil, "oauth.provider")
    BY DEF AcceptOAuth
  <1> DEFINE c == [NoCall EXCEPT !.op = "oauth", !.identity = p[1], !.email = p[2]]
  <1>2. p[1] \in Identities /\ p[2] \in Emails
    BY ProfilesAssumption
  <1>3. c \in Call /\ c.email = p[2]
    BY <1>2 DEF NoCall, Call, AllOps
  <1>4. "oauth.provider" \in Labels \ (ForAccount \cup Writing \cup ByToken)
    BY DEF Labels, ForAccount, Writing, ByToken
  <1> QED BY <1>1, <1>2, <1>3, <1>4, AcceptKeeps DEF AcceptOAuth

\* The expiry of a session or a link keeps the invariant.
LEMMA ClockKeeps ==
  ASSUME Inv, Clock PROVE Inv'
  <1>1. PICK t \in Reqs : ExpireRefreshToken(t) \/ ExpireVerificationToken(t)
    BY DEF Clock
  <1>2. CASE ExpireRefreshToken(t)
    <2>1. refreshTokens[t] \in RefreshRow /\ refreshTokens[t] # Nil
      BY <1>2 DEF ExpireRefreshToken, Inv, StoreInv, StoreTypeOK
    <2>2. [refreshTokens[t] EXCEPT !.expired = TRUE] \in RefreshRow
          /\ [refreshTokens[t] EXCEPT !.expired = TRUE].user = refreshTokens[t].user
      BY <2>1 DEF RefreshRow
    <2>3. refreshTokens' = [refreshTokens EXCEPT ![t] = [refreshTokens[t] EXCEPT !.expired = TRUE]]
      BY <1>2 DEF ExpireRefreshToken
    <2>4. StoreInv'
      BY <1>2, <2>1, <2>2, <2>3 DEF ExpireRefreshToken, Inv, StoreInv, StoreTypeOK
    <2>5. RequestsInv'
      BY <1>2 DEF ExpireRefreshToken, Clock, locals, Inv, RequestsInv, RequestsTypeOK,
                  Identified, HandlersReady
    <2> QED BY <2>4, <2>5 DEF Clock, Inv
  <1>3. CASE ExpireVerificationToken(t)
    <2>1. verificationTokens[t] \in VerificationRow /\ verificationTokens[t] # Nil
      BY <1>3 DEF ExpireVerificationToken, Inv, StoreInv, StoreTypeOK
    <2>2. [verificationTokens[t] EXCEPT !.expired = TRUE] \in VerificationRow
          /\ [verificationTokens[t] EXCEPT !.expired = TRUE].user = verificationTokens[t].user
      BY <2>1 DEF VerificationRow
    <2>3. verificationTokens'
            = [verificationTokens EXCEPT ![t] = [verificationTokens[t] EXCEPT !.expired = TRUE]]
      BY <1>3 DEF ExpireVerificationToken
    <2>4. StoreInv'
      BY <1>3, <2>1, <2>2, <2>3 DEF ExpireVerificationToken, Inv, StoreInv, StoreTypeOK
    <2>5. RequestsInv'
      BY <1>3 DEF ExpireVerificationToken, Clock, locals, Inv, RequestsInv, RequestsTypeOK,
                  Identified, HandlersReady
    <2> QED BY <2>4, <2>5 DEF Clock, Inv
  <1> QED BY <1>1, <1>2, <1>3

\* The clean-up job keeps the invariant.
LEMMA CleanupKeeps ==
  ASSUME Inv, Cleanup PROVE Inv'
  <1>1. StoreInv' /\ UsersGrow
    BY DeleteRefreshTokensStored DEF Cleanup, CleanupExpiredTokens, Inv
  <1>2. RequestsInv'
    BY DEF Cleanup, CleanupExpiredTokens, locals, Inv, RequestsInv, RequestsTypeOK,
           Identified, HandlersReady
  <1> QED BY <1>1, <1>2 DEF Inv, Cleanup

\* The death of the process keeps the invariant.
LEMMA DieKeeps ==
  ASSUME Inv, Die PROVE Inv'
  <1>1. StoreInv' /\ UsersGrow
    BY TablesUnchanged DEF Die, Crash, Inv, tables
  <1>2. RequestsTypeOK'
    BY DEF Die, Crash, Inv, RequestsInv, RequestsTypeOK, Labels, Answers
  <1>3. Identified'
    BY DEF Die, Crash, tables, Inv, RequestsInv, Identified
  <1>4. HandlersReady'
    BY DEF Die, Crash, InFlight, Inv, RequestsInv, RequestsTypeOK, HandlersReady,
           ForAccount, Writing, ByEmail, ByToken
  <1> QED BY <1>1, <1>2, <1>3, <1>4 DEF Inv, RequestsInv, Die

\* The invariant holds initially.
LEMMA InitInv == Init => Inv
  <1> SUFFICES ASSUME Init PROVE Inv
    OBVIOUS
  <1> USE DEF Init
  <1>1. \A e \in Registered : EarlierAccount(e) \subseteq UserRow
    BY DEF EarlierAccount, UserRow, Ids
  <1>2. users \in [Emails -> UserRow \cup {Nil}] /\ \A e \in Registered : users[e] # Nil
    <2>1. users \in [Emails -> UNION {EarlierAccount(e) : e \in Registered} \cup {Nil}]
      BY DEF StoreInit
    <2>2. \A e \in Emails : users[e] \in IF e \in Registered THEN EarlierAccount(e) ELSE {Nil}
      BY DEF StoreInit
    <2> QED BY <1>1, <2>1, <2>2
  <1>3. StoreInv
    BY <1>2 DEF StoreInit, StoreInv, StoreTypeOK, Ids
  <1>4. NoCall \in Call
    BY DEF NoCall, Call
  <1>5. RequestsInv
    BY <1>4 DEF RequestsInit, RequestsInv, RequestsTypeOK, Identified, HandlersReady,
                Labels, ForAccount, Writing, ByEmail, ByToken, Answers
  <1> QED BY <1>3, <1>5 DEF Inv

\* Every step keeps the invariant.
LEMMA NextInv == Inv /\ [Next]_vars => Inv'
  <1> SUFFICES ASSUME Inv, [Next]_vars PROVE Inv'
    OBVIOUS
  <1>1. ASSUME NEW r \in Reqs, Receive(r) PROVE Inv'
    BY <1>1, AcceptRegisterLoginForgotKeeps, AcceptTokenKeeps, AcceptTwoFAKeeps, AcceptOAuthKeeps
       DEF Receive, AcceptAuth
  <1>2. ASSUME NEW r \in Reqs, Step(r) PROVE Inv'
    BY <1>2, StepKeeps
  <1>3. CASE UNCHANGED vars
    BY <1>3 DEF vars, tables, locals, Inv, StoreInv, StoreTypeOK, RequestsInv, RequestsTypeOK,
                Identified, HandlersReady
  <1> QED BY <1>1, <1>2, <1>3, ClockKeeps, CleanupKeeps, DieKeeps DEF Next

\* Inv is an invariant of the backend, whatever the requests, the accounts, the
\* passwords and the identities, and whichever statements fail.
THEOREM Invariant == Spec => []Inv
  BY InitInv, NextInv, PTL DEF Spec

\* Tables and requests keep their types.
THEOREM TypeCorrect == Spec => []TypeOK
  <1>1. Inv => TypeOK
    BY DEF Inv, StoreInv, RequestsInv, TypeOK
  <1> QED BY <1>1, Invariant, PTL

\* No session, link or running handler ever refers to a user that is not in the
\* table, although no statement of the handlers runs in a transaction with
\* another and the lookup a statement relies on may be several statements old.
THEOREM References == Spec => []ReferencesResolve
  <1>1. Inv => ReferencesResolve
    BY Known DEF Inv, StoreInv, Live, ReferencesResolve
  <1> QED BY <1>1, Invariant, PTL

----------------------------------------------------------------------------
(* What a step may do to the locals of the requests and to the stored        *)
(* sessions.  The invariants that relate several requests rest on these      *)
(* lemmas instead of opening every action again.                             *)

\* The step of r changes the locals of r only, not its input, and never goes
\* back to waiting for a call.
Moving(r) == \E l, a, w, s : l # "idle" /\ Moves(r, l, a, w, s)

\* Where the handler of ResetPassword can be before it has answered.
ResetLabels ==
  {"reset.lookup", "reset.purge", "reset.user", "reset.update", "reset.delete", "reset.revoke"}

\* No session appears, and none changes hands.
SessionsShrink ==
  \A t \in Reqs : refreshTokens'[t] # Nil =>
    refreshTokens[t] # Nil /\ refreshTokens'[t].user = refreshTokens[t].user

----------------------------------------------------------------------------
(* The statement at which each action is enabled. *)

\* Where each action of the handlers is enabled: every handler has at most one
\* action per statement, the 2FA ones one more for a missing profile.
LEMMA Statements ==
  ASSUME NEW r \in Reqs
  PROVE  /\ RegisterLookup(r) => pc[r] = "register.lookup"
         /\ CreateOrganization(r) => pc[r] \in {"register.org", "oauth.org"}
         /\ RegisterUser(r) => pc[r] = "register.user"
         /\ SendVerificationEmail(r) => pc[r] = "register.mail"
         /\ GenerateTokens(r) => pc[r] = "mint"
         /\ LoginLookup(r) => pc[r] = "login.lookup"
         /\ LoginWithTwoFA(r) => pc[r] = "login2fa.lookup"
         /\ RefreshLookup(r) => pc[r] = "refresh.lookup"
         /\ RefreshPurge(r) => pc[r] = "refresh.purge"
         /\ RefreshUser(r) => pc[r] = "refresh.user"
         /\ RefreshDelete(r) => pc[r] = "refresh.delete"
         /\ Logout(r) => pc[r] = "logout.delete"
         /\ VerifyEmailLookup(r) => pc[r] = "verify.lookup"
         /\ VerifyEmailPurge(r) => pc[r] = "verify.purge"
         /\ VerifyEmailUser(r) => pc[r] = "verify.user"
         /\ VerifyEmailUpdate(r) => pc[r] = "verify.update"
         /\ VerifyEmailDelete(r) => pc[r] = "verify.delete"
         /\ ForgotPasswordLookup(r) => pc[r] = "forgot.lookup"
         /\ ForgotPasswordCreate(r) => pc[r] = "forgot.create"
         /\ ResetPasswordLookup(r) => pc[r] = "reset.lookup"
         /\ ResetPasswordPurge(r) => pc[r] = "reset.purge"
         /\ ResetPasswordUser(r) => pc[r] = "reset.user"
         /\ ResetPasswordUpdate(r) => pc[r] = "reset.update"
         /\ ResetPasswordDelete(r) => pc[r] = "reset.delete"
         /\ ResetPasswordRevoke(r) => pc[r] = "reset.revoke"
         /\ NoProfile(r) => pc[r] \in {"setup.lookup", "confirm.lookup", "disable.lookup"}
         /\ SetupLookup(r) => pc[r] = "setup.lookup"
         /\ ConfirmLookup(r) => pc[r] = "confirm.lookup"
         /\ DisableLookup(r) => pc[r] = "disable.lookup"
         /\ TwoFAUpdate(r) => pc[r] \in {"setup.update", "confirm.update", "disable.update"}
         /\ OAuthProvider(r) => pc[r] = "oauth.provider"
         /\ OAuthEmail(r) => pc[r] = "oauth.email"
         /\ OAuthUser(r) => pc[r] = "oauth.user"
  BY DEF RegisterLookup, CreateOrganization, RegisterUser, SendVerificationEmail,
         GenerateTokens, LoginLookup, LoginWithTwoFA, RefreshLookup, RefreshPurge,
         RefreshUser, RefreshDelete, Logout, VerifyEmailLookup, VerifyEmailPurge,
         VerifyEmailUser, VerifyEmailUpdate, VerifyEmailDelete, ForgotPasswordLookup,
         ForgotPasswordCreate, ResetPasswordLookup, ResetPasswordPurge, ResetPasswordUser,
         ResetPasswordUpdate, ResetPasswordDelete, ResetPasswordRevoke, NoProfile,
         SetupLookup, ConfirmLookup, DisableLookup, TwoFAUpdate, OAuthProvider, OAuthEmail,
         OAuthUser, LinkLookup, LinkPurge

\* A handler at a statement that only one action serves takes that action.
LEMMA StatementOf ==
  ASSUME NEW r \in Reqs, Step(r)
  PROVE  /\ pc[r] \notin {"idle", "done"}
         /\ pc[r] = "mint" => GenerateTokens(r)
         /\ pc[r] = "refresh.lookup" => RefreshLookup(r)
         /\ pc[r] = "refresh.purge" => RefreshPurge(r)
         /\ pc[r] = "refresh.user" => RefreshUser(r)
         /\ pc[r] = "refresh.delete" => RefreshDelete(r)
         /\ pc[r] = "register.mail" => SendVerificationEmail(r)
         /\ pc[r] = "forgot.create" => ForgotPasswordCreate(r)
         /\ pc[r] = "verify.lookup" => VerifyEmailLookup(r)
         /\ pc[r] = "verify.purge" => VerifyEmailPurge(r)
         /\ pc[r] = "verify.user" => VerifyEmailUser(r)
         /\ pc[r] = "verify.update" => VerifyEmailUpdate(r)
         /\ pc[r] = "verify.delete" => VerifyEmailDelete(r)
         /\ pc[r] = "reset.lookup" => ResetPasswordLookup(r)
         /\ pc[r] = "reset.purge" => ResetPasswordPurge(r)
         /\ pc[r] = "reset.user" => ResetPasswordUser(r)
         /\ pc[r] = "reset.update" => ResetPasswordUpdate(r)
         /\ pc[r] = "reset.delete" => ResetPasswordDelete(r)
         /\ pc[r] = "reset.revoke" => ResetPasswordRevoke(r)
  BY Statements DEF Step, StepAuth, StepOAuth

\* Each form of going on or answering changes the locals of its request only.
LEMMA MovingForms ==
  ASSUME RequestsTypeOK, NEW r \in Reqs
  PROVE  /\ \A l : l # "idle" /\ Goto(r, l) => Moving(r)
         /\ \A l, a : l # "idle" /\ GotoFor(r, l, a) => Moving(r)
         /\ \A l, w : l # "idle" /\ GotoWith(r, l, w) => Moving(r)
         /\ \A l : l # "idle" /\ GotoWritten(r, l) => Moving(r)
         /\ \A s : Respond(r, s) => Moving(r)
         /\ \A s : Reject(r, s) => Moving(r)
         /\ \A s : Fails(r, s) => Moving(r)
         /\ \A s, a : RespondFor(r, s, a) => Moving(r)
  BY MoveForms DEF Moving, Reject, Fails, GotoWritten

\* Every step of a handler changes its own locals only.
LEMMA StepMoves ==
  ASSUME RequestsTypeOK, NEW r \in Reqs, Step(r)
  PROVE  Moving(r)
  <1>1. CASE RegisterLookup(r) \/ CreateOrganization(r) \/ RegisterUser(r)
             \/ SendVerificationEmail(r) \/ GenerateTokens(r)
    BY <1>1, MovingForms DEF RegisterLookup, CreateOrganization, RegisterUser,
       SendVerificationEmail, GenerateTokens
  <1>2. CASE \/ LoginLookup(r) \/ LoginWithTwoFA(r)
             \/ RefreshLookup(r) \/ RefreshPurge(r) \/ RefreshUser(r) \/ RefreshDelete(r)
             \/ Logout(r)
    BY <1>2, MovingForms DEF LoginLookup, LoginWithTwoFA, RefreshLookup, RefreshPurge,
       RefreshUser, RefreshDelete, Logout
  <1>3. CASE \/ VerifyEmailLookup(r) \/ VerifyEmailPurge(r) \/ VerifyEmailUser(r)
             \/ VerifyEmailUpdate(r) \/ VerifyEmailDelete(r)
             \/ ForgotPasswordLookup(r) \/ ForgotPasswordCreate(r)
    BY <1>3, MovingForms DEF VerifyEmailLookup, VerifyEmailPurge, VerifyEmailUser,
       VerifyEmailUpdate, VerifyEmailDelete, ForgotPasswordLookup, ForgotPasswordCreate,
       LinkLookup, LinkPurge
  <1>4. CASE \/ ResetPasswordLookup(r) \/ ResetPasswordPurge(r) \/ ResetPasswordUser(r)
             \/ ResetPasswordUpdate(r) \/ ResetPasswordDelete(r) \/ ResetPasswordRevoke(r)
    BY <1>4, MovingForms DEF ResetPasswordLookup, ResetPasswordPurge, ResetPasswordUser,
       ResetPasswordUpdate, ResetPasswordDelete, ResetPasswordRevoke, LinkLookup, LinkPurge
  <1>5. CASE NoProfile(r) \/ SetupLookup(r) \/ ConfirmLookup(r) \/ DisableLookup(r)
             \/ TwoFAUpdate(r)
    BY <1>5, MovingForms DEF NoProfile, SetupLookup, ConfirmLookup, DisableLookup, TwoFAUpdate
  <1>6. CASE StepOAuth(r)
    BY <1>6, MovingForms DEF StepOAuth, OAuthProvider, OAuthEmail, OAuthUser
  <1> QED BY <1>1, <1>2, <1>3, <1>4, <1>5, <1>6 DEF Step, StepAuth

\* What a step does to the sessions: it mints one, deletes the one it was called
\* with or all of its account, or leaves them alone.
LEMMA StepSessions ==
  ASSUME NEW r \in Reqs, Step(r)
  PROVE  \/ UNCHANGED refreshTokens
         \/ /\ pc[r] \in {"refresh.purge", "refresh.delete", "logout.delete"}
            /\ DeleteRefreshTokens({call[r].token})
         \/ pc[r] = "reset.revoke" /\ DeleteRefreshTokens(SessionsOf(account[r]))
         \/ pc[r] = "mint" /\ GenerateTokens(r)
  <1>1. \A s : Reject(r, s) \/ Fails(r, s) => UNCHANGED refreshTokens
    BY DEF Reject, Fails, tables
  <1>2. CASE RegisterLookup(r) \/ CreateOrganization(r) \/ RegisterUser(r)
             \/ SendVerificationEmail(r)
    BY <1>1, <1>2 DEF RegisterLookup, CreateOrganization, RegisterUser, SendVerificationEmail,
       tables
  <1>3. CASE \/ LoginLookup(r) \/ LoginWithTwoFA(r)
             \/ RefreshLookup(r) \/ RefreshPurge(r) \/ RefreshUser(r) \/ RefreshDelete(r)
             \/ Logout(r)
    BY <1>1, <1>3 DEF LoginLookup, LoginWithTwoFA, RefreshLookup, RefreshPurge, RefreshUser,
       RefreshDelete, Logout, tables
  <1>4. CASE \/ VerifyEmailLookup(r) \/ VerifyEmailPurge(r) \/ VerifyEmailUser(r)
             \/ VerifyEmailUpdate(r) \/ VerifyEmailDelete(r)
             \/ ForgotPasswordLookup(r) \/ ForgotPasswordCreate(r)
    BY <1>1, <1>4 DEF VerifyEmailLookup, VerifyEmailPurge, VerifyEmailUser,
       VerifyEmailUpdate, VerifyEmailDelete, ForgotPasswordLookup, ForgotPasswordCreate,
       LinkLookup, LinkPurge, tables
  <1>5. CASE \/ ResetPasswordLookup(r) \/ ResetPasswordPurge(r) \/ ResetPasswordUser(r)
             \/ ResetPasswordUpdate(r) \/ ResetPasswordDelete(r) \/ ResetPasswordRevoke(r)
    BY <1>1, <1>5 DEF ResetPasswordLookup, ResetPasswordPurge, ResetPasswordUser,
       ResetPasswordUpdate, ResetPasswordDelete, ResetPasswordRevoke, LinkLookup, LinkPurge,
       tables
  <1>6. CASE NoProfile(r) \/ SetupLookup(r) \/ ConfirmLookup(r) \/ DisableLookup(r)
             \/ TwoFAUpdate(r)
    BY <1>1, <1>6 DEF NoProfile, SetupLookup, ConfirmLookup, DisableLookup, TwoFAUpdate, tables
  <1>7. CASE StepOAuth(r)
    BY <1>1, <1>7 DEF StepOAuth, OAuthProvider, OAuthEmail, OAuthUser, tables
  <1> QED BY <1>2, <1>3, <1>4, <1>5, <1>6, <1>7, Statements DEF Step, StepAuth

\* Every step of a handler but the one that mints tokens stores no session.
LEMMA StepShrinks ==
  ASSUME StoreInv, NEW r \in Reqs, Step(r), pc[r] # "mint"
  PROVE  SessionsShrink
  <1>1. UNCHANGED refreshTokens => SessionsShrink
    BY DEF SessionsShrink
  <1>2. ASSUME NEW T, DeleteRefreshTokens(T) PROVE SessionsShrink
    BY <1>2 DEF SessionsShrink, DeleteRefreshTokens
  <1> QED BY <1>1, <1>2, StepSessions

\* A step of r leaves the locals of every other request alone.
LEMMA MovingFrame ==
  ASSUME RequestsTypeOK, NEW r \in Reqs, Moving(r)
  PROVE  /\ UNCHANGED call
         /\ pc'[r] # "idle"
         /\ \A q \in Reqs \ {r} : /\ pc'[q] = pc[q]
                                  /\ account'[q] = account[q]
                                  /\ row'[q] = row[q]
                                  /\ answer'[q] = answer[q]
  BY DEF RequestsTypeOK, Moving, Moves

\* Each endpoint, and the statement its handler starts with.
Endpoints ==
  {<<"register", "register.lookup">>,
   <<"login", "login.lookup">>,
   <<"refresh", "refresh.lookup">>,
   <<"logout", "logout.delete">>,
   <<"verify", "verify.lookup">>,
   <<"forgot", "forgot.lookup">>,
   <<"reset", "reset.lookup">>,
   <<"login2fa", "login2fa.lookup">>,
   <<"setup", "setup.lookup">>,
   <<"confirm", "confirm.lookup">>,
   <<"disable", "disable.lookup">>,
   <<"oauth", "oauth.provider">>}

\* The statements a handler executes before it has identified an account.
NobodyYet ==
  {"idle", "register.lookup", "register.org", "register.user", "login.lookup",
   "refresh.lookup", "verify.lookup", "forgot.lookup", "reset.lookup",
   "oauth.provider", "oauth.email", "oauth.org", "oauth.user"}

\* The input is one of the endpoint whose handler starts with the statement, and
\* comes with an account only if the handler does not look for one.
Fits(c, a, first) ==
  /\ <<c.op, first>> \in Endpoints
  /\ first \in NobodyYet => a = Nil
  /\ c.op \in {"refresh", "logout"} => c.token \in Reqs /\ HandedOut(c.token)
  /\ c.op \in {"verify", "reset"} => c.token \in Reqs /\ Link(c.token)

\* A call that is received fits its handler, and changes nothing else.
LEMMA Received ==
  ASSUME NEW r \in Reqs, Receive(r)
  PROVE  /\ UNCHANGED <<tables, sessionsAtReset>>
         /\ \E c, a, first : Accept(r, c, a, first) /\ Fits(c, a, first)
  <1>1. UNCHANGED <<tables, sessionsAtReset>>
    BY DEF Receive, AcceptAuth, AcceptOAuth
  <1>2. CASE AcceptRegister(r)
    <2> DEFINE input(e, p) == [NoCall EXCEPT !.op = "register", !.email = e, !.password = p]
    <2>1. PICK e \in Emails, p \in Passwords :
            Accept(r, input(e, p), Nil, "register.lookup")
      BY <1>2 DEF AcceptRegister
    <2>2. input(e, p).op = "register"
      BY DEF NoCall
    <2>3. Fits(input(e, p), Nil, "register.lookup")
      <3> HIDE DEF input
      <3> QED BY <2>1, <2>2 DEF Fits, Endpoints, NobodyYet
    <2> QED BY <1>1, <2>1, <2>3
  <1>3. CASE AcceptLogin(r)
    <2> DEFINE input(e, p) == [NoCall EXCEPT !.op = "login", !.email = e, !.password = p]
    <2>1. PICK e \in Emails, p \in Passwords :
            Accept(r, input(e, p), Nil, "login.lookup")
      BY <1>3 DEF AcceptLogin
    <2>2. input(e, p).op = "login"
      BY DEF NoCall
    <2>3. Fits(input(e, p), Nil, "login.lookup")
      <3> HIDE DEF input
      <3> QED BY <2>1, <2>2 DEF Fits, Endpoints, NobodyYet
    <2> QED BY <1>1, <2>1, <2>3
  <1>4. CASE AcceptRefresh(r)
    <2> DEFINE input(t) == [NoCall EXCEPT !.op = "refresh", !.token = t]
    <2>1. PICK t \in Reqs :
            HandedOut(t) /\ Accept(r, input(t), Nil, "refresh.lookup")
      BY <1>4 DEF AcceptRefresh
    <2>2. input(t).op = "refresh" /\ input(t).token = t
      BY DEF NoCall
    <2>3. Fits(input(t), Nil, "refresh.lookup")
      <3> HIDE DEF input
      <3> QED BY <2>1, <2>2 DEF Fits, Endpoints, NobodyYet
    <2> QED BY <1>1, <2>1, <2>3
  <1>5. CASE AcceptLogout(r)
    <2> DEFINE input(t) == [NoCall EXCEPT !.op = "logout", !.token = t]
    <2>1. PICK t \in Reqs :
            HandedOut(t) /\ Accept(r, input(t), Nil, "logout.delete")
      BY <1>5 DEF AcceptLogout
    <2>2. input(t).op = "logout" /\ input(t).token = t
      BY DEF NoCall
    <2>3. Fits(input(t), Nil, "logout.delete")
      <3> HIDE DEF input
      <3> QED BY <2>1, <2>2 DEF Fits, Endpoints, NobodyYet
    <2> QED BY <1>1, <2>1, <2>3
  <1>6. CASE AcceptVerifyEmail(r)
    <2> DEFINE input(t) == [NoCall EXCEPT !.op = "verify", !.token = t]
    <2>1. PICK t \in Reqs :
            Link(t) /\ Accept(r, input(t), Nil, "verify.lookup")
      BY <1>6 DEF AcceptVerifyEmail
    <2>2. input(t).op = "verify" /\ input(t).token = t
      BY DEF NoCall
    <2>3. Fits(input(t), Nil, "verify.lookup")
      <3> HIDE DEF input
      <3> QED BY <2>1, <2>2 DEF Fits, Endpoints, NobodyYet
    <2> QED BY <1>1, <2>1, <2>3
  <1>7. CASE AcceptForgotPassword(r)
    <2> DEFINE input(e) == [NoCall EXCEPT !.op = "forgot", !.email = e]
    <2>1. PICK e \in Emails :
            Accept(r, input(e), Nil, "forgot.lookup")
      BY <1>7 DEF AcceptForgotPassword
    <2>2. input(e).op = "forgot"
      BY DEF NoCall
    <2>3. Fits(input(e), Nil, "forgot.lookup")
      <3> HIDE DEF input
      <3> QED BY <2>1, <2>2 DEF Fits, Endpoints, NobodyYet
    <2> QED BY <1>1, <2>1, <2>3
  <1>8. CASE AcceptResetPassword(r)
    <2> DEFINE input(t, p) == [NoCall EXCEPT !.op = "reset", !.token = t, !.password = p]
    <2>1. PICK t \in Reqs, p \in Passwords :
            Link(t) /\ Accept(r, input(t, p), Nil, "reset.lookup")
      BY <1>8 DEF AcceptResetPassword
    <2>2. input(t, p).op = "reset" /\ input(t, p).token = t
      BY DEF NoCall
    <2>3. Fits(input(t, p), Nil, "reset.lookup")
      <3> HIDE DEF input
      <3> QED BY <2>1, <2>2 DEF Fits, Endpoints, NobodyYet
    <2> QED BY <1>1, <2>1, <2>3
  <1>9. CASE AcceptLogin2FA(r)
    <2> DEFINE input(t, c) == [NoCall EXCEPT !.op = "login2fa", !.token = t, !.code = c]
    <2>1. PICK t \in Reqs, c \in Codes :
            Accept(r, input(t, c), account[t], "login2fa.lookup")
      BY <1>9 DEF AcceptLogin2FA
    <2>2. input(t, c).op = "login2fa"
      BY DEF NoCall
    <2>3. Fits(input(t, c), account[t], "login2fa.lookup")
      <3> HIDE DEF input
      <3> QED BY <2>1, <2>2 DEF Fits, Endpoints, NobodyYet
    <2> QED BY <1>1, <2>1, <2>3
  <1>10. CASE AcceptSetup(r)
    <2> DEFINE input(t) == [NoCall EXCEPT !.op = "setup", !.token = t]
    <2>1. PICK t \in Bearers :
            Accept(r, input(t), ValidateAccessToken(t), "setup.lookup")
      BY <1>10 DEF AcceptSetup
    <2>2. input(t).op = "setup"
      BY DEF NoCall
    <2>3. Fits(input(t), ValidateAccessToken(t), "setup.lookup")
      <3> HIDE DEF input
      <3> QED BY <2>1, <2>2 DEF Fits, Endpoints, NobodyYet
    <2> QED BY <1>1, <2>1, <2>3
  <1>11. CASE AcceptConfirm(r)
    <2> DEFINE input(t, c) == [NoCall EXCEPT !.op = "confirm", !.token = t, !.code = c]
    <2>1. PICK t \in Bearers, c \in Codes :
            Accept(r, input(t, c), ValidateAccessToken(t), "confirm.lookup")
      BY <1>11 DEF AcceptConfirm
    <2>2. input(t, c).op = "confirm"
      BY DEF NoCall
    <2>3. Fits(input(t, c), ValidateAccessToken(t), "confirm.lookup")
      <3> HIDE DEF input
      <3> QED BY <2>1, <2>2 DEF Fits, Endpoints, NobodyYet
    <2> QED BY <1>1, <2>1, <2>3
  <1>12. CASE AcceptDisable(r)
    <2> DEFINE input(t, c) == [NoCall EXCEPT !.op = "disable", !.token = t, !.code = c]
    <2>1. PICK t \in Bearers, c \in Codes :
            Accept(r, input(t, c), ValidateAccessToken(t), "disable.lookup")
      BY <1>12 DEF AcceptDisable
    <2>2. input(t, c).op = "disable"
      BY DEF NoCall
    <2>3. Fits(input(t, c), ValidateAccessToken(t), "disable.lookup")
      <3> HIDE DEF input
      <3> QED BY <2>1, <2>2 DEF Fits, Endpoints, NobodyYet
    <2> QED BY <1>1, <2>1, <2>3
  <1>13. CASE AcceptOAuth(r)
    <2> DEFINE input(p) == [NoCall EXCEPT !.op = "oauth", !.identity = p[1], !.email = p[2]]
    <2>1. PICK p \in Profiles :
            Accept(r, input(p), Nil, "oauth.provider")
      BY <1>13 DEF AcceptOAuth
    <2>2. input(p).op = "oauth"
      BY DEF NoCall
    <2>3. Fits(input(p), Nil, "oauth.provider")
      <3> HIDE DEF input
      <3> QED BY <2>1, <2>2 DEF Fits, Endpoints, NobodyYet
    <2> QED BY <1>1, <2>1, <2>3
  <1> QED BY <1>2, <1>3, <1>4, <1>5, <1>6, <1>7, <1>8, <1>9, <1>10, <1>11, <1>12, <1>13
          DEF Receive, AcceptAuth

\* An input once accepted stays; an answer once given is final.
LEMMA AnswersFinal ==
  ASSUME Inv, [Next]_vars, NEW q \in Reqs
  PROVE  /\ pc[q] # "idle" => call'[q] = call[q] /\ pc'[q] # "idle"
         /\ pc[q] = "done" => /\ pc'[q] = "done"
                              /\ account'[q] = account[q]
                              /\ answer'[q] = answer[q]
         /\ answer[q] # Nil => pc[q] = "done"
  <1> DEFINE Stays == /\ pc[q] # "idle" => call'[q] = call[q] /\ pc'[q] # "idle"
                      /\ pc[q] = "done" => /\ pc'[q] = "done"
                                           /\ account'[q] = account[q]
                                           /\ answer'[q] = answer[q]
  <1>0. RequestsTypeOK /\ (answer[q] # Nil => pc[q] = "done")
    BY DEF Inv, RequestsInv, HandlersReady
  <1> SUFFICES Stays
    BY <1>0
  <1>1. ASSUME NEW r \in Reqs, Receive(r)
        PROVE  Stays
    <2>1. PICK c, a, first : Accept(r, c, a, first)
      BY <1>1, Received
    <2> QED BY <1>0, <2>1 DEF Accept, RequestsTypeOK
  <1>2. ASSUME NEW r \in Reqs, Step(r)
        PROVE  Stays
    <2>1. Moving(r) /\ pc[r] # "done"
      BY <1>0, <1>2, StepMoves, StatementOf
    <2>2. CASE q # r
      BY <1>0, <2>1, <2>2, MovingFrame
    <2>3. CASE q = r
      BY <1>0, <2>1, <2>3, MovingFrame
    <2> QED BY <2>2, <2>3
  <1>3. CASE Clock \/ Cleanup \/ UNCHANGED vars
    BY <1>3 DEF Clock, Cleanup, vars, locals, tables
  <1>4. CASE Die
    <2>1. /\ pc' = [p \in Reqs |-> IF InFlight(p) THEN "done" ELSE pc[p]]
          /\ answer' = [p \in Reqs |-> IF InFlight(p) THEN "cut" ELSE answer[p]]
          /\ UNCHANGED <<call, account>>
      BY <1>4 DEF Die, Crash
    <2> QED BY <2>1 DEF InFlight
  <1> HIDE DEF Stays
  <1> QED BY <1>1, <1>2, <1>3, <1>4 DEF Next

\* What a step outside Step(r) does to the sessions: nothing, or only shrinking.
LEMMA OthersShrink ==
  ASSUME StoreInv, \/ \E r \in Reqs : Receive(r)
                   \/ Clock \/ Cleanup \/ Die \/ UNCHANGED vars
  PROVE  SessionsShrink
  <1>1. CASE \/ \E r \in Reqs : Receive(r)
             \/ Die \/ UNCHANGED vars
    <2>1. UNCHANGED refreshTokens
      BY <1>1, Received DEF Die, Crash, vars, tables
    <2> QED BY <2>1 DEF SessionsShrink
  <1>2. CASE Cleanup
    BY <1>2 DEF Cleanup, CleanupExpiredTokens, DeleteRefreshTokens, SessionsShrink
  <1>3. CASE Clock
    <2>1. PICK t \in Reqs : ExpireRefreshToken(t) \/ UNCHANGED refreshTokens
      BY <1>3 DEF Clock, ExpireVerificationToken
    <2>2. CASE UNCHANGED refreshTokens
      BY <2>2 DEF SessionsShrink
    <2>3. CASE ExpireRefreshToken(t)
      <3>1. refreshTokens[t] \in RefreshRow /\ refreshTokens[t] # Nil
        BY <2>3 DEF ExpireRefreshToken, StoreInv, StoreTypeOK
      <3>2. [refreshTokens[t] EXCEPT !.expired = TRUE].user = refreshTokens[t].user
        BY <3>1 DEF RefreshRow
      <3>3. refreshTokens'
              = [refreshTokens EXCEPT ![t] = [refreshTokens[t] EXCEPT !.expired = TRUE]]
        BY <2>3 DEF ExpireRefreshToken
      <3> QED BY <3>1, <3>2, <3>3 DEF SessionsShrink, StoreInv, StoreTypeOK
    <2> QED BY <2>1, <2>2, <2>3
  <1> QED BY <1>1, <1>2, <1>3

\* Minting stores the request's own session and hands it out, or fails.
LEMMA Minting ==
  ASSUME Inv, NEW r \in Reqs, GenerateTokens(r)
  PROVE  /\ pc[r] = "mint" /\ pc'[r] = "done"
         /\ \/ refreshTokens' = [refreshTokens EXCEPT ![r] = [user |-> account[r],
                                                              expired |-> FALSE]]
               /\ answer'[r] = "tokens"
            \/ UNCHANGED refreshTokens /\ answer'[r] = "error"
  BY DEF GenerateTokens, InsertRefreshToken, Respond, Fails, Reject, tables,
         Inv, RequestsInv, RequestsTypeOK

----------------------------------------------------------------------------
(* The course of a handler: each endpoint has statements of its own, and a   *)
(* handler identifies its account once.                                      *)

\* Where Register can be before it has mailed its link.
RegisterLabels == {"register.lookup", "register.org", "register.user", "register.mail"}

\* Where ForgotPassword can be before it has mailed its link.
ForgotLabels == {"forgot.lookup", "forgot.create"}

\* Where Refresh can be before it mints new tokens.
RefreshLabels == {"refresh.lookup", "refresh.purge", "refresh.user", "refresh.delete"}

\* Where VerifyEmail can be before it has answered.
VerifyLabels ==
  {"verify.lookup", "verify.purge", "verify.user", "verify.update", "verify.delete"}

\* The statements of an endpoint's handler.
Handler(op) ==
  CASE op = "register" -> RegisterLabels \cup {"mint"}
    [] op = "login"    -> {"login.lookup", "mint"}
    [] op = "login2fa" -> {"login2fa.lookup", "mint"}
    [] op = "refresh"  -> RefreshLabels \cup {"mint"}
    [] op = "logout"   -> {"logout.delete"}
    [] op = "verify"   -> VerifyLabels
    [] op = "forgot"   -> ForgotLabels
    [] op = "reset"    -> ResetLabels
    [] op = "setup"    -> {"setup.lookup", "setup.update"}
    [] op = "confirm"  -> {"confirm.lookup", "confirm.update"}
    [] op = "disable"  -> {"disable.lookup", "disable.update"}
    [] op = "oauth"    -> {"oauth.provider", "oauth.email", "oauth.org", "oauth.user", "mint"}

\* A request that has come in is at a statement of the endpoint it called, or
\* over; before its handler has identified an account it has none.
OnCourse(q) ==
  /\ pc[q] # "idle" => /\ call[q].op \in AllOps
                       /\ pc[q] \in Handler(call[q].op) \cup {"done"}
  /\ pc[q] \in NobodyYet => account[q] = Nil

\* Every request keeps to it.
CourseInv == \A q \in Reqs : OnCourse(q)

\* Every statement leads to one of the same handler or to the answer, and changes
\* the account only where it is identified.
LEMMA StepCourse ==
  ASSUME RequestsTypeOK, NEW r \in Reqs, Step(r)
  PROVE  /\ \A op \in AllOps : pc[r] \in Handler(op) => pc'[r] \in Handler(op) \cup {"done"}
         /\ pc'[r] \in NobodyYet => pc[r] \in NobodyYet
         /\ account'[r] # account[r] => pc[r] \in NobodyYet /\ pc'[r] \notin NobodyYet
  <1>1. /\ \A l : Goto(r, l) => pc'[r] = l /\ account'[r] = account[r]
        /\ \A l, a : GotoFor(r, l, a) => pc'[r] = l
        /\ \A l, w : GotoWith(r, l, w) => pc'[r] = l /\ account'[r] = account[r]
        /\ \A l : GotoWritten(r, l) => pc'[r] = l /\ account'[r] = account[r]
        /\ \A s : Respond(r, s) \/ Reject(r, s) \/ Fails(r, s) =>
                  pc'[r] = "done" /\ account'[r] = account[r]
        /\ \A s, a : RespondFor(r, s, a) => pc'[r] = "done"
    BY DEF RequestsTypeOK, Goto, GotoFor, GotoWith, GotoWritten, Respond, Reject, Fails,
           RespondFor
  <1> USE DEF AllOps, Handler, RegisterLabels, RefreshLabels, VerifyLabels, ForgotLabels,
              ResetLabels, NobodyYet
  <1>2. CASE RegisterLookup(r) \/ RegisterUser(r) \/ SendVerificationEmail(r)
    BY <1>1, <1>2 DEF RegisterLookup, RegisterUser, SendVerificationEmail
  <1>3. CASE CreateOrganization(r) \/ GenerateTokens(r)
    BY <1>1, <1>3 DEF CreateOrganization, GenerateTokens
  <1>4. CASE LoginLookup(r) \/ LoginWithTwoFA(r) \/ Logout(r)
    BY <1>1, <1>4 DEF LoginLookup, LoginWithTwoFA, Logout
  <1>5. CASE RefreshLookup(r) \/ RefreshPurge(r) \/ RefreshUser(r) \/ RefreshDelete(r)
    BY <1>1, <1>5 DEF RefreshLookup, RefreshPurge, RefreshUser, RefreshDelete
  <1>6. CASE \/ VerifyEmailLookup(r) \/ VerifyEmailPurge(r) \/ VerifyEmailUser(r)
             \/ VerifyEmailUpdate(r) \/ VerifyEmailDelete(r)
    BY <1>1, <1>6 DEF VerifyEmailLookup, VerifyEmailPurge, VerifyEmailUser, VerifyEmailUpdate,
       VerifyEmailDelete, LinkLookup, LinkPurge
  <1>7. CASE ForgotPasswordLookup(r) \/ ForgotPasswordCreate(r)
    BY <1>1, <1>7 DEF ForgotPasswordLookup, ForgotPasswordCreate
  <1>8. CASE \/ ResetPasswordLookup(r) \/ ResetPasswordPurge(r) \/ ResetPasswordUser(r)
             \/ ResetPasswordUpdate(r) \/ ResetPasswordDelete(r) \/ ResetPasswordRevoke(r)
    BY <1>1, <1>8 DEF ResetPasswordLookup, ResetPasswordPurge, ResetPasswordUser,
       ResetPasswordUpdate, ResetPasswordDelete, ResetPasswordRevoke, LinkLookup, LinkPurge
  <1>9. CASE NoProfile(r) \/ SetupLookup(r) \/ ConfirmLookup(r) \/ DisableLookup(r)
    BY <1>1, <1>9 DEF NoProfile, SetupLookup, ConfirmLookup, DisableLookup
  <1>10. CASE TwoFAUpdate(r)
    BY <1>1, <1>10 DEF TwoFAUpdate
  <1>11. CASE OAuthProvider(r) \/ OAuthEmail(r) \/ OAuthUser(r)
    BY <1>1, <1>11 DEF OAuthProvider, OAuthEmail, OAuthUser
  <1> QED BY <1>2, <1>3, <1>4, <1>5, <1>6, <1>7, <1>8, <1>9, <1>10, <1>11
          DEF Step, StepAuth, StepOAuth

\* How many statements a handler at this one may still execute.
StatementsLeft(l) ==
  CASE l = "done" -> 0
    [] l \in {"mint", "logout.delete", "refresh.purge", "forgot.create", "verify.purge",
              "verify.delete", "reset.purge", "reset.revoke", "setup.update",
              "confirm.update", "disable.update"} -> 1
    [] l \in {"register.mail", "oauth.user", "login.lookup", "login2fa.lookup",
              "refresh.delete", "forgot.lookup", "verify.update", "reset.delete",
              "setup.lookup", "confirm.lookup", "disable.lookup"} -> 2
    [] l \in {"register.user", "oauth.org", "refresh.user", "verify.user",
              "reset.update"} -> 3
    [] l \in {"register.org", "oauth.email", "refresh.lookup", "verify.lookup",
              "reset.user"} -> 4
    [] l \in {"register.lookup", "oauth.provider", "reset.lookup"} -> 5
    [] l = "idle" -> 6

\* Every statement brings its handler nearer to the answer.
LEMMA StepNearer ==
  ASSUME RequestsTypeOK, NEW r \in Reqs, Step(r)
  PROVE  StatementsLeft(pc'[r]) < StatementsLeft(pc[r])
  <1>1. /\ \A l : Goto(r, l) => pc'[r] = l
        /\ \A l, a : GotoFor(r, l, a) => pc'[r] = l
        /\ \A l, w : GotoWith(r, l, w) => pc'[r] = l
        /\ \A l : GotoWritten(r, l) => pc'[r] = l
        /\ \A s : Respond(r, s) \/ Reject(r, s) \/ Fails(r, s) => pc'[r] = "done"
        /\ \A s, a : RespondFor(r, s, a) => pc'[r] = "done"
    BY DEF RequestsTypeOK, Goto, GotoFor, GotoWith, GotoWritten, Respond, Reject, Fails,
           RespondFor
  <1>2. CASE RegisterLookup(r) \/ RegisterUser(r) \/ SendVerificationEmail(r)
    <2>1. \/ pc[r] = "register.lookup" /\ pc'[r] \in {"register.org", "done"}
          \/ pc[r] = "register.user" /\ pc'[r] \in {"register.mail", "done"}
          \/ pc[r] = "register.mail" /\ pc'[r] = "mint"
      BY <1>1, <1>2 DEF RegisterLookup, RegisterUser, SendVerificationEmail
    <2> QED BY <2>1 DEF StatementsLeft
  <1>3. CASE CreateOrganization(r) \/ GenerateTokens(r)
    BY <1>1, <1>3 DEF StatementsLeft, CreateOrganization, GenerateTokens
  <1>4. CASE LoginLookup(r) \/ LoginWithTwoFA(r) \/ Logout(r)
    BY <1>1, <1>4 DEF StatementsLeft, LoginLookup, LoginWithTwoFA, Logout
  <1>5. CASE RefreshLookup(r) \/ RefreshPurge(r) \/ RefreshUser(r) \/ RefreshDelete(r)
    BY <1>1, <1>5 DEF StatementsLeft, RefreshLookup, RefreshPurge, RefreshUser, RefreshDelete
  <1>6. CASE \/ VerifyEmailLookup(r) \/ VerifyEmailPurge(r) \/ VerifyEmailUser(r)
             \/ VerifyEmailUpdate(r) \/ VerifyEmailDelete(r)
    BY <1>1, <1>6 DEF StatementsLeft, VerifyEmailLookup, VerifyEmailPurge, VerifyEmailUser,
       VerifyEmailUpdate, VerifyEmailDelete, LinkLookup, LinkPurge
  <1>7. CASE ForgotPasswordLookup(r) \/ ForgotPasswordCreate(r)
    BY <1>1, <1>7 DEF StatementsLeft, ForgotPasswordLookup, ForgotPasswordCreate
  <1>8. CASE \/ ResetPasswordLookup(r) \/ ResetPasswordPurge(r) \/ ResetPasswordUser(r)
             \/ ResetPasswordUpdate(r) \/ ResetPasswordDelete(r) \/ ResetPasswordRevoke(r)
    BY <1>1, <1>8 DEF StatementsLeft, ResetPasswordLookup, ResetPasswordPurge,
       ResetPasswordUser, ResetPasswordUpdate, ResetPasswordDelete, ResetPasswordRevoke,
       LinkLookup, LinkPurge
  <1>9. CASE NoProfile(r) \/ SetupLookup(r) \/ ConfirmLookup(r) \/ DisableLookup(r)
    BY <1>1, <1>9 DEF StatementsLeft, NoProfile, SetupLookup, ConfirmLookup, DisableLookup
  <1>10. CASE TwoFAUpdate(r)
    BY <1>1, <1>10 DEF StatementsLeft, TwoFAUpdate
  <1>11. CASE OAuthProvider(r) \/ OAuthEmail(r) \/ OAuthUser(r)
    <2>1. \/ pc[r] = "oauth.provider" /\ pc'[r] \in {"mint", "oauth.email"}
          \/ pc[r] = "oauth.email" /\ pc'[r] \in {"oauth.org", "done"}
          \/ pc[r] = "oauth.user" /\ pc'[r] \in {"mint", "done"}
      BY <1>1, <1>11 DEF OAuthProvider, OAuthEmail, OAuthUser
    <2> QED BY <2>1 DEF StatementsLeft
  <1> QED BY <1>2, <1>3, <1>4, <1>5, <1>6, <1>7, <1>8, <1>9, <1>10, <1>11
          DEF Step, StepAuth, StepOAuth

\* Where the handlers give each kind of good answer.
LEMMA StepAnswers ==
  ASSUME RequestsTypeOK, NEW r \in Reqs, Step(r), answer[r] = Nil
  PROVE  /\ answer'[r] = "tokens" => pc[r] = "mint"
         /\ answer'[r] = "requires2fa" => pc[r] = "login.lookup"
         /\ answer'[r] = "ok" => pc[r] \in {"logout.delete", "forgot.lookup", "forgot.create",
                                            "verify.delete", "reset.revoke", "setup.update",
                                            "confirm.update", "disable.update"}
  <1>0. Nil \notin {"tokens", "requires2fa", "ok"}
    BY DEF Answers
  <1>1. /\ \A l : Goto(r, l) => answer'[r] = answer[r]
        /\ \A l, a : GotoFor(r, l, a) => answer'[r] = answer[r]
        /\ \A l, w : GotoWith(r, l, w) => answer'[r] = answer[r]
        /\ \A l : GotoWritten(r, l) => answer'[r] = answer[r]
        /\ \A s : Respond(r, s) \/ Reject(r, s) \/ Fails(r, s) => answer'[r] = s
        /\ \A s, a : RespondFor(r, s, a) => answer'[r] = s
    BY DEF RequestsTypeOK, Goto, GotoFor, GotoWith, GotoWritten, Respond, Reject, Fails,
           RespondFor
  <1>2. CASE \/ RegisterLookup(r) \/ RegisterUser(r) \/ SendVerificationEmail(r)
             \/ CreateOrganization(r) \/ GenerateTokens(r)
    BY <1>0, <1>1, <1>2 DEF RegisterLookup, RegisterUser, SendVerificationEmail,
       CreateOrganization, GenerateTokens
  <1>3. CASE LoginLookup(r) \/ LoginWithTwoFA(r) \/ Logout(r)
    BY <1>0, <1>1, <1>3 DEF LoginLookup, LoginWithTwoFA, Logout
  <1>4. CASE RefreshLookup(r) \/ RefreshPurge(r) \/ RefreshUser(r) \/ RefreshDelete(r)
    BY <1>0, <1>1, <1>4 DEF RefreshLookup, RefreshPurge, RefreshUser, RefreshDelete
  <1>5. CASE \/ VerifyEmailLookup(r) \/ VerifyEmailPurge(r) \/ VerifyEmailUser(r)
             \/ VerifyEmailUpdate(r) \/ VerifyEmailDelete(r)
    BY <1>0, <1>1, <1>5 DEF VerifyEmailLookup, VerifyEmailPurge, VerifyEmailUser,
       VerifyEmailUpdate, VerifyEmailDelete, LinkLookup, LinkPurge
  <1>6. CASE ForgotPasswordLookup(r) \/ ForgotPasswordCreate(r)
    BY <1>0, <1>1, <1>6 DEF ForgotPasswordLookup, ForgotPasswordCreate
  <1>7. CASE \/ ResetPasswordLookup(r) \/ ResetPasswordPurge(r) \/ ResetPasswordUser(r)
             \/ ResetPasswordUpdate(r) \/ ResetPasswordDelete(r) \/ ResetPasswordRevoke(r)
    BY <1>0, <1>1, <1>7 DEF ResetPasswordLookup, ResetPasswordPurge, ResetPasswordUser,
       ResetPasswordUpdate, ResetPasswordDelete, ResetPasswordRevoke, LinkLookup, LinkPurge
  <1>8. CASE NoProfile(r) \/ SetupLookup(r) \/ ConfirmLookup(r) \/ DisableLookup(r)
             \/ TwoFAUpdate(r)
    BY <1>0, <1>1, <1>8 DEF NoProfile, SetupLookup, ConfirmLookup, DisableLookup, TwoFAUpdate
  <1>9. CASE OAuthProvider(r) \/ OAuthEmail(r) \/ OAuthUser(r)
    BY <1>0, <1>1, <1>9 DEF OAuthProvider, OAuthEmail, OAuthUser
  <1> QED BY <1>2, <1>3, <1>4, <1>5, <1>6, <1>7, <1>8, <1>9 DEF Step, StepAuth, StepOAuth

\* Every step keeps requests on course.
LEMMA CourseNext == Inv /\ CourseInv /\ [Next]_vars => CourseInv'
  <1> SUFFICES ASSUME Inv, CourseInv, [Next]_vars, NEW q \in Reqs PROVE OnCourse(q)'
    BY DEF CourseInv
  <1>0. OnCourse(q) /\ RequestsTypeOK
    BY DEF CourseInv, Inv, RequestsInv
  <1>1. ASSUME NEW r \in Reqs, Receive(r) PROVE OnCourse(q)'
    <2>1. PICK c, a, first : Accept(r, c, a, first) /\ Fits(c, a, first)
      BY <1>1, Received
    <2>2. CASE q # r
      BY <1>0, <2>1, <2>2 DEF Accept, RequestsTypeOK, OnCourse
    <2>3. CASE q = r
      <3>1. call'[q] = c /\ pc'[q] = first /\ account'[q] = a
        BY <1>0, <2>1, <2>3 DEF Accept, RequestsTypeOK
      <3>2. /\ c.op \in AllOps
            /\ first \in Handler(c.op)
        BY <2>1 DEF Fits, Endpoints, AllOps, Handler, RegisterLabels, RefreshLabels,
                    VerifyLabels, ForgotLabels, ResetLabels
      <3> QED BY <2>1, <3>1, <3>2 DEF OnCourse, Fits
    <2> QED BY <2>2, <2>3
  <1>2. ASSUME NEW r \in Reqs, Step(r) PROVE OnCourse(q)'
    <2>1. /\ call' = call /\ pc[r] \notin {"idle", "done"}
          /\ \A p \in Reqs \ {r} : pc'[p] = pc[p] /\ account'[p] = account[p]
      BY <1>0, <1>2, StepMoves, MovingFrame, StatementOf
    <2>2. CASE q # r
      BY <1>0, <2>1, <2>2 DEF OnCourse
    <2>3. CASE q = r
      <3>1. call[r].op \in AllOps /\ pc[r] \in Handler(call[r].op)
        BY <1>0, <2>1, <2>3 DEF OnCourse
      <3>2. pc'[r] \in Handler(call[r].op) \cup {"done"}
        BY <1>0, <1>2, <3>1, StepCourse
      <3>3. pc'[r] \in NobodyYet => account'[r] = Nil
        BY <1>0, <1>2, <2>3, StepCourse DEF OnCourse
      <3> QED BY <2>1, <2>3, <3>1, <3>2, <3>3 DEF OnCourse
    <2> QED BY <2>2, <2>3
  <1>3. CASE Clock \/ Cleanup \/ UNCHANGED vars
    BY <1>0, <1>3 DEF Clock, Cleanup, vars, locals, OnCourse
  <1>4. CASE Die
    BY <1>0, <1>4 DEF Die, Crash, InFlight, OnCourse, NobodyYet
  <1> QED BY <1>1, <1>2, <1>3, <1>4 DEF Next

\* In every reachable state each request is on course.
LEMMA Course == Spec => []CourseInv
  <1>1. Init => CourseInv
    BY DEF Init, RequestsInit, CourseInv, OnCourse
  <1> QED BY <1>1, CourseNext, Invariant, PTL DEF Spec

\* Once a request has an account it keeps it.
LEMMA AccountKept ==
  ASSUME Inv, CourseInv, [Next]_vars, NEW q \in Reqs, account[q] # Nil
  PROVE  account'[q] = account[q]
  <1>0. RequestsTypeOK /\ pc[q] \notin NobodyYet
    BY DEF CourseInv, OnCourse, Inv, RequestsInv
  <1>1. ASSUME NEW r \in Reqs, Receive(r) PROVE account'[q] = account[q]
    <2>1. PICK c, a, first : Accept(r, c, a, first)
      BY <1>1, Received
    <2> QED BY <1>0, <2>1 DEF Accept, RequestsTypeOK, NobodyYet
  <1>2. ASSUME NEW r \in Reqs, Step(r) PROVE account'[q] = account[q]
    BY <1>0, <1>2, StepMoves, MovingFrame, StepCourse
  <1>3. CASE Clock \/ Cleanup \/ Die \/ UNCHANGED vars
    BY <1>3 DEF Clock, Cleanup, Die, Crash, vars, locals
  <1> QED BY <1>1, <1>2, <1>3 DEF Next

----------------------------------------------------------------------------
(* Progress: what of EveryRequestAnswered needs no fairness. *)

\* No step takes a handler back, or keeps it from the answer by another round.
HandlersAdvance ==
  [][\A r \in Reqs : InFlight(r) =>
       pc'[r] = pc[r] \/ StatementsLeft(pc'[r]) < StatementsLeft(pc[r])]_vars

\* Every handler is straight-line: what a step does not leave where it is comes
\* nearer to its answer, and five statements is the most that any request takes.
\* With that EveryRequestAnswered is a matter of the scheduler alone.
THEOREM Advance == Spec => HandlersAdvance
  <1>1. Inv /\ [Next]_vars =>
          \A r \in Reqs : InFlight(r) =>
            pc'[r] = pc[r] \/ StatementsLeft(pc'[r]) < StatementsLeft(pc[r])
    <2> SUFFICES ASSUME Inv, [Next]_vars, NEW r \in Reqs, InFlight(r)
                 PROVE  pc'[r] = pc[r] \/ StatementsLeft(pc'[r]) < StatementsLeft(pc[r])
      OBVIOUS
    <2>0. RequestsTypeOK
      BY DEF Inv, RequestsInv
    <2>1. ASSUME NEW p \in Reqs, Receive(p) PROVE pc'[r] = pc[r]
      <3>1. PICK c, a, first : Accept(p, c, a, first)
        BY <2>1, Received
      <3> QED BY <2>0, <3>1 DEF Accept, RequestsTypeOK, InFlight
    <2>2. ASSUME NEW p \in Reqs \ {r}, Step(p) PROVE pc'[r] = pc[r]
      BY <2>0, <2>2, StepMoves, MovingFrame
    <2>3. CASE Step(r)
      BY <2>0, <2>3, StepNearer
    <2>4. CASE Clock \/ Cleanup \/ UNCHANGED vars
      BY <2>4 DEF Clock, Cleanup, vars, locals
    <2>5. CASE Die
      <3>1. pc'[r] = "done"
        BY <2>5 DEF Die, Crash, InFlight
      <3>2. 0 < StatementsLeft(pc[r])
        BY <2>0 DEF RequestsTypeOK, Labels, InFlight, StatementsLeft
      <3> QED BY <3>1, <3>2 DEF StatementsLeft
    <2> QED BY <2>1, <2>2, <2>3, <2>4, <2>5 DEF Next
  <1> QED BY <1>1, Invariant, PTL DEF Spec, HandlersAdvance

\* The bound: a handler starts at most five statements from its answer.
LEMMA AtMostFive ==
  ASSUME NEW c, NEW first, <<c, first>> \in Endpoints
  PROVE  StatementsLeft(first) \in 1..5
  BY DEF Endpoints, StatementsLeft
=============================================================================
