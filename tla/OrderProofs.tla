---------------------------- MODULE OrderProofs ----------------------------
(***************************************************************************)
(* Requests that come after others were answered, for any number of        *)
(* requests and accounts: a link used with success is refused to those who *)
(* come later, a reset decides which password they log in with, turning    *)
(* 2FA on or off whether they are asked for a code, and the sessions       *)
(* handed out before a reset are over.                                     *)
(***************************************************************************)
EXTENDS Order, SessionProofs

USE StoreAssumption, NilAssumption, NoAnswerAssumption

\* Only a request that was over counts as earlier, and only for one that came in.
BeforeInv ==
  /\ before \in [Reqs -> SUBSET Reqs]
  /\ \A q, r \in Reqs : q \in before[r] => pc[q] = "done" /\ pc[r] # "idle"

----------------------------------------------------------------------------
(* What the history is, and what a step does to a request that came in. *)

\* The history adds nothing to the behaviours of the backend.
LEMMA OrderServer == OrderSpec => Spec
  <1>1. OrderInit => Init
    BY DEF OrderInit
  <1>2. [OrderNext]_orderVars => [Next]_vars
    BY DEF OrderNext, orderVars
  <1> QED BY <1>1, <1>2, PTL DEF OrderSpec, Spec

\* What is known of the server in every state holds with the history too.
LEMMA Carried == OrderSpec => [](Inv /\ CourseInv /\ HonourInv)
  BY OrderServer, Invariant, Course, Honoured, PTL

\* The requests before one that has come in are fixed from then on.
LEMMA BeforeFixed ==
  ASSUME BeforeInv, [OrderNext]_orderVars, NEW r \in Reqs
  PROVE  before'[r] = IF Arrived(r) THEN {q \in Reqs : pc[q] = "done"} ELSE before[r]
  BY DEF BeforeInv, OrderNext, orderVars, vars, locals, Arrived

\* A request that was over before another is over with the same answer: nothing
\* about it changes any more.
LEMMA EarlierFinal ==
  ASSUME Inv, BeforeInv, [OrderNext]_orderVars, NEW q \in Reqs, NEW r \in Reqs, q \in before'[r]
  PROVE  /\ pc[q] = "done" /\ pc'[q] = "done"
         /\ call'[q] = call[q] /\ account'[q] = account[q] /\ answer'[q] = answer[q]
         /\ before'[q] = before[q]
         /\ pc'[r] # "idle"
         /\ pc[r] # "idle" => q \in before[r]
  <1>1. [Next]_vars
    BY DEF OrderNext, orderVars
  <1>2. pc[q] = "done" /\ pc'[r] # "idle" /\ (pc[r] # "idle" => q \in before[r])
    <2>1. CASE Arrived(r)
      BY <2>1, BeforeFixed DEF Arrived
    <2>2. CASE ~Arrived(r)
      <3>1. q \in before[r]
        BY <2>2, BeforeFixed
      <3>2. pc[q] = "done" /\ pc[r] # "idle"
        BY <3>1 DEF BeforeInv
      <3> QED BY <1>1, <3>1, <3>2, AnswersFinal
    <2> QED BY <2>1, <2>2
  <1> QED BY <1>1, <1>2, BeforeFixed, AnswersFinal DEF Arrived

\* Every step keeps BeforeInv.
LEMMA BeforeNext == Inv /\ BeforeInv /\ [OrderNext]_orderVars => BeforeInv'
  <1> SUFFICES ASSUME Inv, BeforeInv, [OrderNext]_orderVars PROVE BeforeInv'
    OBVIOUS
  <1>1. before' \in [Reqs -> SUBSET Reqs]
    BY DEF BeforeInv, OrderNext, orderVars
  <1> QED BY <1>1, EarlierFinal DEF BeforeInv

\* A request that comes in starts its handler, unanswered.
LEMMA ComesIn ==
  ASSUME Inv, [Next]_vars, NEW r \in Reqs, pc[r] = "idle", pc'[r] # "idle"
  PROVE  <<call'[r].op, pc'[r]>> \in Endpoints /\ answer'[r] = Nil
  <1>0. RequestsTypeOK /\ answer[r] = Nil
    BY DEF Inv, RequestsInv, HandlersReady
  <1>1. CASE Receive(r)
    <2>1. PICK c, a, first : Accept(r, c, a, first) /\ Fits(c, a, first)
      BY <1>1, Received
    <2> QED BY <1>0, <2>1 DEF Accept, Fits, RequestsTypeOK
  <1>2. ASSUME NEW p \in Reqs \ {r}, Receive(p) PROVE FALSE
    <2>1. PICK c, a, first : Accept(p, c, a, first)
      BY <1>2, Received
    <2> QED BY <1>0, <2>1 DEF Accept, RequestsTypeOK
  <1>3. ASSUME NEW p \in Reqs, Step(p) PROVE FALSE
    BY <1>0, <1>3, StatementOf, StepMoves, MovingFrame
  <1>4. CASE Clock \/ Cleanup \/ Die \/ UNCHANGED vars
    BY <1>4 DEF Clock, Cleanup, Die, Crash, InFlight, vars, locals
  <1> QED BY <1>1, <1>2, <1>3, <1>4 DEF Next

\* A request that has come in and takes no step of its own stays where it is, or
\* is cut off with the process.
LEMMA Elsewhere ==
  ASSUME Inv, [Next]_vars, NEW r \in Reqs, pc[r] # "idle", ~Step(r)
  PROVE  /\ account'[r] = account[r]
         /\ \/ pc'[r] = pc[r] /\ row'[r] = row[r] /\ answer'[r] = answer[r]
            \/ Faults /\ pc[r] = "done" /\ pc'[r] = "done" /\ answer'[r] = answer[r]
            \/ Faults /\ pc'[r] = "done" /\ answer'[r] = "cut"
  <1>0. RequestsTypeOK
    BY DEF Inv, RequestsInv
  <1>1. ASSUME NEW p \in Reqs, Receive(p)
        PROVE  /\ account'[r] = account[r]
               /\ pc'[r] = pc[r] /\ row'[r] = row[r] /\ answer'[r] = answer[r]
    <2>1. PICK c, a, first : Accept(p, c, a, first)
      BY <1>1, Received
    <2> QED BY <1>0, <2>1 DEF Accept, RequestsTypeOK
  <1>2. ASSUME NEW p \in Reqs, Step(p)
        PROVE  /\ account'[r] = account[r]
               /\ pc'[r] = pc[r] /\ row'[r] = row[r] /\ answer'[r] = answer[r]
    BY <1>0, <1>2, StepMoves, MovingFrame
  <1>3. CASE Clock \/ Cleanup \/ UNCHANGED vars
    BY <1>3 DEF Clock, Cleanup, vars, locals
  <1>4. CASE Die
    BY <1>4 DEF Die, Crash, InFlight
  <1> QED BY <1>1, <1>2, <1>3, <1>4 DEF Next

----------------------------------------------------------------------------
(* UsedLinkRefusedLater *)

\* The request presents a link that q had used with success before it came.
PresentsUsed(q, r) ==
  /\ ~Faults
  /\ Answered(q, "verify", "ok") \/ Answered(q, "reset", "ok")
  /\ call[r].op \in {"verify", "reset"} /\ call[r].token = call[q].token
  /\ q \in before[r]

\* Such a request gets no further than its lookup.
LateInv ==
  \A q, r \in Reqs : PresentsUsed(q, r) =>
    pc[r] \in {"verify.lookup", "reset.lookup"} \/ (pc[r] = "done" /\ answer[r] # "ok")

\* A lookup that finds no link refuses it.
LEMMA NoLinkRefused ==
  ASSUME RequestsTypeOK, NEW r \in Reqs, Step(r), pc[r] \in {"verify.lookup", "reset.lookup"},
         verificationTokens[call[r].token] = Nil
  PROVE  pc'[r] = "done" /\ answer'[r] = "invalid"
  <1>1. Respond(r, "invalid")
    BY StatementOf DEF VerifyEmailLookup, ResetPasswordLookup, LinkLookup
  <1> QED BY <1>1 DEF Respond, RequestsTypeOK

\* Every step keeps LateInv.
LEMMA LateNext ==
  Inv /\ HonourInv /\ BeforeInv /\ LateInv /\ [OrderNext]_orderVars => LateInv'
  <1> SUFFICES ASSUME Inv, HonourInv, BeforeInv, LateInv, [OrderNext]_orderVars,
                      NEW q \in Reqs, NEW r \in Reqs, PresentsUsed(q, r)'
               PROVE  \/ pc'[r] \in {"verify.lookup", "reset.lookup"}
                      \/ pc'[r] = "done" /\ answer'[r] # "ok"
    BY DEF LateInv
  <1>0. [Next]_vars
    BY DEF OrderNext, orderVars
  <1>1. /\ call'[q] = call[q] /\ answer'[q] = answer[q] /\ pc'[r] # "idle"
        /\ pc[r] # "idle" => q \in before[r]
    BY EarlierFinal DEF PresentsUsed
  <1>2. CASE pc[r] = "idle"
    <2>1. <<call'[r].op, pc'[r]>> \in Endpoints
      BY <1>0, <1>1, <1>2, ComesIn
    <2> QED BY <2>1 DEF PresentsUsed, Endpoints
  <1>3. CASE pc[r] # "idle"
    <2>1. call'[r] = call[r]
      BY <1>0, <1>3, AnswersFinal
    <2>2. PresentsUsed(q, r)
      BY <1>1, <1>3, <2>1 DEF PresentsUsed, Answered
    <2>3. \/ pc[r] \in {"verify.lookup", "reset.lookup"}
          \/ pc[r] = "done" /\ answer[r] # "ok"
      BY <2>2 DEF LateInv
    <2>4. verificationTokens[call[r].token] = Nil
      BY <2>2 DEF PresentsUsed, HonourInv, HonourOf, Deleted, Answered
    <2>5. CASE Step(r)
      BY <2>3, <2>4, <2>5, NoLinkRefused, StatementOf DEF Inv, RequestsInv
    <2>6. CASE ~Step(r)
      BY <1>0, <1>3, <2>2, <2>3, <2>6, Elsewhere DEF PresentsUsed
    <2> QED BY <2>5, <2>6
  <1> QED BY <1>2, <1>3

\* The history and the links used are in order in every reachable state.
LEMMA Late == OrderSpec => [](BeforeInv /\ LateInv)
  <1>1. OrderInit => BeforeInv /\ LateInv
    BY DEF OrderInit, BeforeInv, LateInv, PresentsUsed
  <1> QED BY <1>1, BeforeNext, LateNext, Carried, PTL DEF OrderSpec

\* If no statement fails, a link that has verified an address or reset a password
\* is honoured for no request that comes in after that was answered, however many
\* requests present it and whatever overlaps them.
THEOREM UsedLinkRefused == OrderSpec => []UsedLinkRefusedLater
  <1>1. Inv /\ LateInv => UsedLinkRefusedLater
    <2> SUFFICES ASSUME Inv, LateInv, NEW q \in Reqs, NEW r \in Reqs, PresentsUsed(q, r)
                 PROVE  answer[r] # "ok"
      BY DEF UsedLinkRefusedLater, PresentsUsed
    <2>1. answer[r] = "ok" => pc[r] = "done"
      BY DEF Inv, RequestsInv, HandlersReady, Answers
    <2> QED BY <2>1 DEF LateInv
  <1> QED BY <1>1, Late, Carried, PTL
----------------------------------------------------------------------------
(* ResetTakesEffect, TwoFATakesEffect and their like for VerifyEmail: what a  *)
(* handler has written to the row of its account stays there.                 *)

\* w writes anew what q has written.
Undoes(w, q) == (call[q].op = "reset" /\ call[w].op = "reset") \/ Reverses(w, q)

\* No other handler that writes the row of the account overlapped q, and none that
\* came later undoes it.
Undisturbed(q) ==
  \A w \in Reqs \ {q} : WritesRow(w, account[q]) =>
    /\ ~Overlaps(w, q)
    /\ Undoes(w, q) => w \in before[q]

\* The UPDATEs of the handlers that are followed, one each.
Marking == {"verify.update", "reset.update", "confirm.update", "disable.update"}

\* The handler has written its account's row.
Written(q) ==
  \/ call[q].op \in {"confirm", "disable"} /\ answer[q] = "ok"
  \/ call[q].op = "verify" /\ (pc[q] = "verify.delete" \/ answer[q] = "ok")
  \/ call[q].op = "reset" /\ (pc[q] \in {"reset.delete", "reset.revoke"} \/ answer[q] = "ok")

\* The row, or a copy of it, has what q writes.
Carries(q, u) ==
  /\ call[q].op = "reset" => u.password = call[q].password
  /\ call[q].op = "verify" => u.emailVerified
  /\ call[q].op = "confirm" => u.totpEnabled
  /\ call[q].op = "disable" => ~u.totpEnabled

\* q writes what it is to write.  As long as it is undisturbed that is in the row
\* from then on, and in all copies taken by handlers that come later.
EffectOf(q) ==
  /\ pc[q] \in Marking => Carries(q, row[q])
  /\ Written(q) =>
       /\ account[q] # Nil
       /\ Undisturbed(q) =>
            /\ Carries(q, users[account[q]])
            /\ \A w \in Reqs :
                 q \in before[w] /\ pc[w] \in Writing /\ account[w] = account[q]
                   => Carries(q, row[w])

\* Every such handler keeps to it.
EffectInv == \A q \in Reqs : EffectOf(q)

\* The handlers that come to an UPDATE are those WritesRow names.
LEMMA WriterOps ==
  ASSUME CourseInv, NEW w \in Reqs, pc[w] \in Writing
  PROVE  /\ call[w].op \in {"verify", "reset", "setup", "confirm", "disable"}
         /\ pc[w] = "verify.update" <=> call[w].op = "verify"
         /\ pc[w] = "reset.update" <=> call[w].op = "reset"
         /\ pc[w] = "confirm.update" <=> call[w].op = "confirm"
         /\ pc[w] = "disable.update" <=> call[w].op = "disable"
  BY DEF CourseInv, OnCourse, Writing, Handler, RegisterLabels, RefreshLabels, VerifyLabels,
         ForgotLabels, ResetLabels, AllOps

\* The same of the state after a step.
LEMMA WriterOpsNext ==
  ASSUME CourseInv', NEW w \in Reqs, pc'[w] \in Writing
  PROVE  /\ call'[w].op \in {"verify", "reset", "setup", "confirm", "disable"}
         /\ pc'[w] = "verify.update" <=> call'[w].op = "verify"
         /\ pc'[w] = "reset.update" <=> call'[w].op = "reset"
         /\ pc'[w] = "confirm.update" <=> call'[w].op = "confirm"
         /\ pc'[w] = "disable.update" <=> call'[w].op = "disable"
  BY DEF CourseInv, OnCourse, Writing, Handler, RegisterLabels, RefreshLabels, VerifyLabels,
         ForgotLabels, ResetLabels, AllOps

\* The row of an account that is there is written by the statements that write a
\* copy back, and by no other.
LEMMA StepWrites ==
  ASSUME NEW r \in Reqs, Step(r), pc[r] \notin Writing, NEW e \in Emails, users[e] # Nil,
         users \in [Emails -> UserRow \cup {Nil}]
  PROVE  users'[e] = users[e]
  <1>1. \A s : Reject(r, s) \/ Fails(r, s) => UNCHANGED users
    BY DEF Reject, Fails, tables
  <1>2. CASE \/ RegisterLookup(r) \/ CreateOrganization(r) \/ SendVerificationEmail(r)
             \/ GenerateTokens(r) \/ LoginLookup(r) \/ LoginWithTwoFA(r)
             \/ RefreshLookup(r) \/ RefreshPurge(r) \/ RefreshUser(r) \/ RefreshDelete(r)
             \/ Logout(r) \/ OAuthProvider(r) \/ OAuthEmail(r)
    BY <1>1, <1>2
       DEF RegisterLookup, CreateOrganization, SendVerificationEmail, GenerateTokens,
           LoginLookup, LoginWithTwoFA, RefreshLookup, RefreshPurge, RefreshUser,
           RefreshDelete, Logout, OAuthProvider, OAuthEmail, tables
  <1>3. CASE \/ VerifyEmailLookup(r) \/ VerifyEmailPurge(r) \/ VerifyEmailUser(r)
             \/ VerifyEmailDelete(r) \/ ForgotPasswordLookup(r) \/ ForgotPasswordCreate(r)
             \/ ResetPasswordLookup(r) \/ ResetPasswordPurge(r) \/ ResetPasswordUser(r)
             \/ ResetPasswordDelete(r) \/ ResetPasswordRevoke(r)
    BY <1>1, <1>3
       DEF VerifyEmailLookup, VerifyEmailPurge, VerifyEmailUser, VerifyEmailDelete,
           ForgotPasswordLookup, ForgotPasswordCreate, ResetPasswordLookup,
           ResetPasswordPurge, ResetPasswordUser, ResetPasswordDelete, ResetPasswordRevoke,
           LinkLookup, LinkPurge, tables
  <1>4. CASE NoProfile(r) \/ SetupLookup(r) \/ ConfirmLookup(r) \/ DisableLookup(r)
    BY <1>1, <1>4 DEF NoProfile, SetupLookup, ConfirmLookup, DisableLookup, tables
  <1>5. CASE RegisterUser(r)
    BY <1>1, <1>5 DEF RegisterUser, InsertUser
  <1>6. CASE OAuthUser(r)
    BY <1>1, <1>6 DEF OAuthUser, InsertUser
  <1>7. CASE VerifyEmailUpdate(r) \/ ResetPasswordUpdate(r) \/ TwoFAUpdate(r)
    BY <1>7 DEF VerifyEmailUpdate, ResetPasswordUpdate, TwoFAUpdate, Writing
  <1> QED BY <1>2, <1>3, <1>4, <1>5, <1>6, <1>7 DEF Step, StepAuth, StepOAuth

\* An UPDATE writes the columns of the copy, or fails, which is answered.
LEMMA UpdateSteps ==
  ASSUME Inv, NEW w \in Reqs, Step(w), pc[w] \in Writing
  PROVE  /\ pc'[w] \notin Writing
         /\ \/ /\ users'[account[w]].password = row[w].password
               /\ users'[account[w]].emailVerified = row[w].emailVerified
               /\ users'[account[w]].totpEnabled = row[w].totpEnabled
            \/ UNCHANGED users /\ pc'[w] = "done" /\ answer'[w] = "error"
  <1>0. RequestsTypeOK /\ users \in [Emails -> UserRow \cup {Nil}]
    BY DEF Inv, RequestsInv, StoreInv, StoreTypeOK
  <1>1. VerifyEmailUpdate(w) \/ ResetPasswordUpdate(w) \/ TwoFAUpdate(w)
    BY Statements DEF Writing, Step, StepAuth, StepOAuth
  <1>2. account[w] \in Emails /\ users[account[w]] \in UserRow
    BY Known DEF Writing, ForAccount
  <1>3. UpdateUser(account[w], row[w]) =>
          /\ users'[account[w]].password = row[w].password
          /\ users'[account[w]].emailVerified = row[w].emailVerified
          /\ users'[account[w]].totpEnabled = row[w].totpEnabled
    BY <1>0, <1>2 DEF UpdateUser, UserRow
  <1>4. \/ UpdateUser(account[w], row[w])
        \/ UNCHANGED users /\ pc'[w] = "done" /\ answer'[w] = "error"
    BY <1>0, <1>1 DEF VerifyEmailUpdate, ResetPasswordUpdate, TwoFAUpdate, Fails, Reject,
       Respond, RequestsTypeOK, tables
  <1>5. pc'[w] \notin Writing
    BY <1>0, <1>1 DEF VerifyEmailUpdate, ResetPasswordUpdate, TwoFAUpdate, GotoWritten, GotoWith,
       Fails, Reject, Respond, RequestsTypeOK, Writing
  <1> QED BY <1>3, <1>4, <1>5

\* Where each form of going on or answering leads.
LEMMA Leads ==
  ASSUME RequestsTypeOK, NEW w \in Reqs
  PROVE  /\ \A l : Goto(w, l) => pc'[w] = l
         /\ \A l, a : GotoFor(w, l, a) => pc'[w] = l
         /\ \A l, c : GotoWith(w, l, c) => /\ pc'[w] = l /\ row'[w] = c
                                           /\ account'[w] = account[w]
         /\ \A l : GotoWritten(w, l) => pc'[w] = l
         /\ \A s : Respond(w, s) \/ Reject(w, s) \/ Fails(w, s) => pc'[w] = "done"
         /\ \A s, a : RespondFor(w, s, a) => pc'[w] = "done"
  BY DEF RequestsTypeOK, Goto, GotoFor, GotoWith, GotoWritten, Respond, Reject, Fails,
         RespondFor

\* A handler comes to its UPDATE with a copy of its account's row: the password is
\* changed by ResetPassword only, no handler takes a verification back, and only
\* ConfirmTwoFA and DisableTwoFA touch the flag of 2FA.
LEMMA CopySteps ==
  ASSUME Inv, NEW w \in Reqs, Step(w), pc'[w] \in Writing
  PROVE  /\ pc[w] \notin Writing
         /\ account'[w] = account[w]
         /\ row'[w].password = IF pc'[w] = "reset.update" THEN call[w].password
                                                         ELSE users[account[w]].password
         /\ users[account[w]].emailVerified \/ pc'[w] = "verify.update"
              => row'[w].emailVerified
         /\ pc'[w] = "confirm.update" => row'[w].totpEnabled
         /\ pc'[w] = "disable.update" => ~row'[w].totpEnabled
         /\ users[account[w]].totpEnabled /\ pc'[w] # "disable.update" => row'[w].totpEnabled
         /\ ~users[account[w]].totpEnabled /\ pc'[w] # "confirm.update" => ~row'[w].totpEnabled
  <1>0. RequestsTypeOK /\ pc[w] \notin Writing
    BY UpdateSteps DEF Inv, RequestsInv
  <1>1. /\ \A l : Goto(w, l) => pc'[w] = l
        /\ \A l, a : GotoFor(w, l, a) => pc'[w] = l
        /\ \A l, c : GotoWith(w, l, c) => /\ pc'[w] = l /\ row'[w] = c
                                          /\ account'[w] = account[w]
        /\ \A l : GotoWritten(w, l) => pc'[w] = l
        /\ \A s : Respond(w, s) \/ Reject(w, s) \/ Fails(w, s) => pc'[w] = "done"
        /\ \A s, a : RespondFor(w, s, a) => pc'[w] = "done"
    BY <1>0, Leads
  <1>2. account[w] # Nil => users[account[w]] \in UserRow
    BY Known
  <1>3. pc[w] \in {"verify.user", "reset.user"} => account[w] # Nil
    BY Known DEF ForAccount
  <1>4. CASE VerifyEmailUser(w) \/ ResetPasswordUser(w)
    <2>1. \/ /\ pc'[w] = "verify.update"
             /\ row'[w] = [users[account[w]] EXCEPT !.emailVerified = TRUE]
          \/ /\ pc'[w] = "reset.update"
             /\ row'[w] = [users[account[w]] EXCEPT !.password = call[w].password]
      BY <1>0, <1>1, <1>4 DEF VerifyEmailUser, ResetPasswordUser, Writing
    <2>2. users[account[w]] \in UserRow /\ account'[w] = account[w]
      BY <1>0, <1>1, <1>2, <1>3, <1>4 DEF VerifyEmailUser, ResetPasswordUser, Writing
    <2> QED BY <1>0, <2>1, <2>2 DEF UserRow
  <1>5. CASE SetupLookup(w)
    BY <1>0, <1>1, <1>2, <1>5 DEF SetupLookup, UserRow
  <1>6. CASE ConfirmLookup(w)
    <2>1. /\ pc'[w] = "confirm.update" /\ account'[w] = account[w]
          /\ row'[w] = [users[account[w]] EXCEPT !.totpEnabled = TRUE]
          /\ account[w] # Nil
      BY <1>1, <1>6 DEF ConfirmLookup, Writing
    <2> QED BY <1>0, <1>2, <2>1 DEF UserRow
  <1>7. CASE DisableLookup(w)
    <2>1. /\ pc'[w] = "disable.update" /\ account'[w] = account[w]
          /\ row'[w] = [users[account[w]] EXCEPT !.totpEnabled = FALSE, !.totpSecret = Nil]
          /\ account[w] # Nil
      BY <1>1, <1>7 DEF DisableLookup, Writing
    <2> QED BY <1>0, <1>2, <2>1 DEF UserRow
  <1>8. CASE \/ RegisterLookup(w) \/ CreateOrganization(w) \/ RegisterUser(w)
             \/ SendVerificationEmail(w) \/ GenerateTokens(w)
             \/ LoginLookup(w) \/ LoginWithTwoFA(w)
             \/ RefreshLookup(w) \/ RefreshPurge(w) \/ RefreshUser(w) \/ RefreshDelete(w)
             \/ Logout(w)
    BY <1>0, <1>1, <1>8
       DEF RegisterLookup, CreateOrganization, RegisterUser, SendVerificationEmail,
           GenerateTokens, LoginLookup, LoginWithTwoFA, RefreshLookup, RefreshPurge,
           RefreshUser, RefreshDelete, Logout, Writing
  <1>9. CASE \/ VerifyEmailLookup(w) \/ VerifyEmailPurge(w) \/ VerifyEmailDelete(w)
             \/ ForgotPasswordLookup(w) \/ ForgotPasswordCreate(w)
             \/ ResetPasswordLookup(w) \/ ResetPasswordPurge(w)
             \/ ResetPasswordDelete(w) \/ ResetPasswordRevoke(w)
             \/ NoProfile(w) \/ StepOAuth(w)
    BY <1>0, <1>1, <1>9
       DEF VerifyEmailLookup, VerifyEmailPurge, VerifyEmailDelete, ForgotPasswordLookup,
           ForgotPasswordCreate, ResetPasswordLookup, ResetPasswordPurge,
           ResetPasswordDelete, ResetPasswordRevoke, LinkLookup, LinkPurge, NoProfile,
           StepOAuth, OAuthProvider, OAuthEmail, OAuthUser, Writing
  <1>10. CASE VerifyEmailUpdate(w) \/ ResetPasswordUpdate(w) \/ TwoFAUpdate(w)
    BY <1>0, <1>10 DEF VerifyEmailUpdate, ResetPasswordUpdate, TwoFAUpdate, Writing
  <1> QED BY <1>4, <1>5, <1>6, <1>7, <1>8, <1>9, <1>10 DEF Step, StepAuth

\* An undisturbed request stays so: who overlapped it, and who came before it, is
\* settled before it is over.
LEMMA DisturbedStays ==
  ASSUME Inv, CourseInv, BeforeInv, [OrderNext]_orderVars, NEW q \in Reqs,
         pc[q] # "idle", account[q] # Nil, Undisturbed(q)'
  PROVE  Undisturbed(q)
  <1>0. [Next]_vars
    BY DEF OrderNext, orderVars
  <1>1. /\ account'[q] = account[q] /\ call'[q] = call[q] /\ before'[q] = before[q]
    BY <1>0, AccountKept, AnswersFinal, BeforeFixed DEF Arrived
  <1> SUFFICES ASSUME NEW w \in Reqs \ {q}, WritesRow(w, account[q])
               PROVE  /\ ~Overlaps(w, q)
                      /\ Undoes(w, q) => w \in before[q]
    BY DEF Undisturbed
  <1>2. account[w] = account[q]
    BY DEF WritesRow
  <1>3. pc[w] # "idle" /\ account'[w] = account[w]
    BY <1>0, <1>2, AccountKept DEF CourseInv, OnCourse, NobodyYet
  <1>4. call'[w] = call[w] /\ before'[w] = before[w]
    BY <1>0, <1>3, AnswersFinal, BeforeFixed DEF Arrived
  <1>5. WritesRow(w, account[q])'
    BY <1>1, <1>2, <1>3, <1>4 DEF WritesRow
  <1>6. Overlaps(w, q)' <=> Overlaps(w, q)
    BY <1>1, <1>4 DEF Overlaps
  <1>7. Undoes(w, q)' <=> Undoes(w, q)
    BY <1>1, <1>4 DEF Undoes, Reverses
  <1> QED BY <1>1, <1>4, <1>5, <1>6, <1>7 DEF Undisturbed

\* A handler that may write the row of the account while q is undisturbed came
\* after q, and does not undo it.
LEMMA WriterLater ==
  ASSUME BeforeInv, NEW q \in Reqs, Undisturbed(q), NEW w \in Reqs \ {q}, pc[w] # "done",
         WritesRow(w, account[q])
  PROVE  q \in before[w] /\ ~Undoes(w, q)
  BY DEF Undisturbed, Overlaps, BeforeInv

\* While q is undisturbed whatever is written to the row has what q wrote.
LEMMA RowCarries ==
  ASSUME Inv, CourseInv, BeforeInv, [Next]_vars, NEW q \in Reqs, EffectOf(q),
         Written(q), Undisturbed(q), ~(Step(q) /\ pc[q] \in Writing)
  PROVE  Carries(q, users'[account[q]])
  <1> DEFINE e == account[q]
  <1>1. e \in Emails /\ users[e] # Nil /\ users \in [Emails -> UserRow \cup {Nil}]
    BY Known DEF EffectOf, Inv, StoreInv, StoreTypeOK
  <1>2. Carries(q, users[e])
    BY DEF EffectOf
  <1>3. ASSUME NEW w \in Reqs, Step(w), users'[e] # users[e] PROVE Carries(q, users'[e])
    <2>1. pc[w] \in Writing
      BY <1>1, <1>3, StepWrites
    <2>2. w # q /\ pc[w] # "done"
      BY <1>3, <2>1 DEF Writing
    <2>3. account'[w] = e /\ account[w] # Nil
      BY <1>1, <1>3, <2>1, StepOwn, Known DEF OwnRow, Writing, ForAccount
    <2>4. account[w] = e
      BY <2>3, AccountKept
    <2>5. q \in before[w]
      BY <2>1, <2>2, <2>4, WriterOps, WriterLater DEF WritesRow
    <2>6. Carries(q, row[w])
      BY <2>1, <2>4, <2>5 DEF EffectOf
    <2>7. /\ users'[e].password = row[w].password
          /\ users'[e].emailVerified = row[w].emailVerified
          /\ users'[e].totpEnabled = row[w].totpEnabled
      BY <1>3, <2>1, <2>4, UpdateSteps
    <2> QED BY <2>6, <2>7 DEF Carries
  <1>4. CASE \E w \in Reqs : Step(w)
    BY <1>2, <1>3, <1>4
  <1>5. CASE \/ \E w \in Reqs : Receive(w)
             \/ Clock \/ Cleanup \/ Die \/ UNCHANGED vars
    BY <1>2, <1>5, OthersWriteNone
  <1> QED BY <1>4, <1>5 DEF Next

\* While q is undisturbed the copies taken after it have what q wrote.
LEMMA CopiesCarry ==
  ASSUME Inv, CourseInv, BeforeInv, [OrderNext]_orderVars, NEW q \in Reqs, EffectOf(q),
         Written(q), Undisturbed(q),
         NEW w \in Reqs, q \in before'[w], pc'[w] \in Writing, account'[w] = account[q]
  PROVE  Carries(q, row'[w])
  <1>0. [Next]_vars
    BY DEF OrderNext, orderVars
  <1>1. pc[q] = "done" /\ pc'[q] = "done" /\ (pc[w] # "idle" => q \in before[w])
    BY EarlierFinal
  <1>2. pc[w] # "idle"
    <2>1. pc[w] = "idle" => <<call'[w].op, pc'[w]>> \in Endpoints
      BY <1>0, ComesIn DEF Writing
    <2> QED BY <2>1 DEF Endpoints, Writing
  <1>3. CASE ~Step(w)
    <2>1. pc'[w] = pc[w] /\ row'[w] = row[w] /\ account'[w] = account[w]
      BY <1>0, <1>2, <1>3, Elsewhere DEF Writing
    <2> QED BY <1>1, <1>2, <2>1 DEF EffectOf
  <1>4. CASE Step(w)
    <2>1. /\ account'[w] = account[w]
          /\ row'[w].password = IF pc'[w] = "reset.update" THEN call[w].password
                                                          ELSE users[account[w]].password
          /\ users[account[w]].emailVerified => row'[w].emailVerified
          /\ users[account[w]].totpEnabled /\ pc'[w] # "disable.update" => row'[w].totpEnabled
          /\ ~users[account[w]].totpEnabled /\ pc'[w] # "confirm.update"
               => ~row'[w].totpEnabled
      BY <1>4, CopySteps
    <2>2. Carries(q, users[account[w]])
      BY <2>1 DEF EffectOf
    <2>3. /\ call[q].op = "reset" => pc'[w] # "reset.update"
          /\ call[q].op = "confirm" => pc'[w] # "disable.update"
          /\ call[q].op = "disable" => pc'[w] # "confirm.update"
      <3>1. call'[w] = call[w] /\ CourseInv'
        BY <1>0, <1>2, AnswersFinal, CourseNext
      <3>2. /\ call[w].op \in {"verify", "reset", "setup", "confirm", "disable"}
            /\ pc'[w] = "reset.update" => call[w].op = "reset"
            /\ pc'[w] = "confirm.update" => call[w].op = "confirm"
            /\ pc'[w] = "disable.update" => call[w].op = "disable"
        <4>1. /\ call'[w].op \in {"verify", "reset", "setup", "confirm", "disable"}
              /\ pc'[w] = "reset.update" <=> call'[w].op = "reset"
              /\ pc'[w] = "confirm.update" <=> call'[w].op = "confirm"
              /\ pc'[w] = "disable.update" <=> call'[w].op = "disable"
          BY <3>1, WriterOpsNext
        <4> QED BY <3>1, <4>1
      <3>3. w # q /\ pc[w] # "done" /\ WritesRow(w, account[q])
        BY <1>1, <1>4, <2>1, <3>2, StatementOf DEF WritesRow
      <3>4. ~Undoes(w, q)
        BY <3>3, WriterLater
      <3> QED BY <3>2, <3>4 DEF Undoes, Reverses
    <2> QED BY <2>1, <2>2, <2>3 DEF Carries
  <1> QED BY <1>3, <1>4

\* The handlers that are followed come to have written by their UPDATE.
LEMMA WrittenSteps ==
  ASSUME Inv, CourseInv, NEW q \in Reqs, Step(q), Written(q)',
         call[q].op \in {"verify", "reset", "confirm", "disable"}
  PROVE  Written(q) \/ pc[q] \in Marking
  <1>0. /\ RequestsTypeOK /\ answer[q] = Nil /\ call'[q] = call[q]
        /\ pc[q] \in Handler(call[q].op)
    BY StatementOf, StepMoves, MovingFrame
       DEF Inv, RequestsInv, HandlersReady, CourseInv, OnCourse
  <1>1. /\ \A l : Goto(q, l) => pc'[q] = l
        /\ \A l, a : GotoFor(q, l, a) => pc'[q] = l
        /\ \A l, c : GotoWith(q, l, c) => pc'[q] = l
        /\ \A s : Respond(q, s) \/ Fails(q, s) => pc'[q] = "done"
    BY <1>0, Leads
  <1>2. CASE answer'[q] = "ok"
    BY <1>0, <1>2, StepAnswers
       DEF Handler, AllOps, VerifyLabels, ResetLabels, Written, Marking
  <1>3. CASE /\ call[q].op \in {"verify", "reset"}
             /\ pc'[q] \in {"verify.delete", "reset.delete", "reset.revoke"}
    <2>1. CASE pc[q] \in {"verify.lookup", "reset.lookup"}
      BY <1>1, <1>3, <2>1, StatementOf
         DEF VerifyEmailLookup, ResetPasswordLookup, LinkLookup
    <2>2. CASE pc[q] \in {"verify.purge", "reset.purge"}
      BY <1>1, <1>3, <2>2, StatementOf
         DEF VerifyEmailPurge, ResetPasswordPurge, LinkPurge
    <2>3. CASE pc[q] \in {"verify.user", "reset.user"}
      BY <1>1, <1>3, <2>3, StatementOf DEF VerifyEmailUser, ResetPasswordUser
    <2>4. CASE pc[q] = "verify.delete"
      BY <1>1, <1>3, <2>4, StatementOf DEF VerifyEmailDelete
    <2>5. CASE pc[q] \in {"reset.delete", "reset.revoke"}
      <3>1. call[q].op = "reset"
        BY <1>0, <2>5 DEF Handler, VerifyLabels, AllOps
      <3> QED BY <2>5, <3>1 DEF Written
    <2> QED BY <1>0, <1>3, <2>1, <2>2, <2>3, <2>4, <2>5
            DEF Handler, AllOps, VerifyLabels, ResetLabels, Marking
  <1> QED BY <1>0, <1>2, <1>3 DEF Written

\* Every step keeps EffectInv.
LEMMA EffectNext ==
  /\ Inv /\ CourseInv /\ BeforeInv /\ EffectInv
  /\ [OrderNext]_orderVars
  => EffectInv'
  <1> SUFFICES ASSUME Inv, CourseInv, BeforeInv, EffectInv, [OrderNext]_orderVars,
                      NEW q \in Reqs
               PROVE  EffectOf(q)'
    BY DEF EffectInv
  <1>0. [Next]_vars /\ RequestsTypeOK /\ EffectOf(q) /\ CourseInv' /\ Inv' /\ Nil # "ok"
    BY NextInv, CourseNext DEF OrderNext, orderVars, Inv, RequestsInv, EffectInv, Answers
  <1>1. CASE pc'[q] = "idle"
    <2>1. answer'[q] = Nil
      BY <1>0, <1>1 DEF Inv, RequestsInv, HandlersReady
    <2> QED BY <1>0, <1>1, <2>1 DEF EffectOf, Written, Marking
  <1>2. CASE pc[q] = "idle" /\ pc'[q] # "idle"
    <2>1. <<call'[q].op, pc'[q]>> \in Endpoints /\ answer'[q] = Nil
      BY <1>0, <1>2, ComesIn
    <2>2. /\ pc'[q] \notin Marking \cup {"verify.delete", "reset.delete", "reset.revoke"}
          /\ answer'[q] # "ok"
      BY <1>0, <2>1 DEF Endpoints, Marking
    <2> QED BY <2>2 DEF EffectOf, Written
  <1>3. CASE pc[q] # "idle"
    <2>1. call'[q] = call[q] /\ before'[q] = before[q]
      BY <1>0, <1>3, AnswersFinal, BeforeFixed DEF Arrived
    <2>2. ASSUME Written(q), ~(Step(q) /\ pc[q] \in Writing)
          PROVE  /\ account'[q] # Nil
                 /\ Undisturbed(q)' =>
                      /\ Carries(q, users[account[q]])'
                      /\ \A w \in Reqs :
                           q \in before'[w] /\ pc'[w] \in Writing /\ account'[w] = account'[q]
                             => Carries(q, row[w])'
      <3>1. account[q] # Nil /\ account'[q] = account[q]
        BY <1>0, <2>2, AccountKept DEF EffectOf
      <3>2. Undisturbed(q)' => Undisturbed(q)
        BY <1>3, <3>1, DisturbedStays
      <3>3. Undisturbed(q) => Carries(q, users'[account[q]])
        BY <1>0, <2>2, RowCarries
      <3>4. ASSUME Undisturbed(q), NEW w \in Reqs,
                   q \in before'[w], pc'[w] \in Writing, account'[w] = account[q]
            PROVE  Carries(q, row'[w])
        BY <1>0, <2>2, <3>4, CopiesCarry
      <3> QED BY <2>1, <3>1, <3>2, <3>3, <3>4 DEF Carries
    <2>3. CASE ~Step(q)
      <3>1. /\ Written(q)' => Written(q)
            /\ pc'[q] \in Marking => pc'[q] = pc[q] /\ row'[q] = row[q]
        BY <1>0, <1>3, <2>1, <2>3, Elsewhere DEF Written, Marking
      <3> QED BY <1>0, <2>1, <2>2, <2>3, <3>1 DEF EffectOf, Carries
    <2>4. CASE Step(q)
      <3>1. pc'[q] \in Marking => Carries(q, row[q])'
        <4>1. SUFFICES ASSUME pc'[q] \in Marking
                       PROVE  Carries(q, row[q])'
          OBVIOUS
        <4>2. pc'[q] \in Writing
          BY <4>1 DEF Writing, Marking
        <4>3. /\ pc'[q] = "verify.update" <=> call'[q].op = "verify"
              /\ pc'[q] = "reset.update" <=> call'[q].op = "reset"
              /\ pc'[q] = "confirm.update" <=> call'[q].op = "confirm"
              /\ pc'[q] = "disable.update" <=> call'[q].op = "disable"
          BY <1>0, <4>2, WriterOpsNext
        <4> QED BY <2>1, <2>4, <4>2, <4>3, CopySteps DEF Carries
      <3>2. ASSUME pc[q] \in Marking, Written(q)'
            PROVE  /\ account'[q] # Nil
                   /\ Carries(q, users[account[q]])'
                   /\ \A w \in Reqs : q \notin before'[w]
        <4>1. pc[q] \in Writing /\ pc[q] \in ForAccount
          BY <3>2 DEF Writing, ForAccount, Marking
        <4>2. account[q] # Nil /\ account'[q] = account[q]
          BY <1>0, <4>1, Known, AccountKept
        <4>3. ~(pc'[q] = "done" /\ answer'[q] = "error")
          BY <3>2 DEF Written
        <4>4. /\ users'[account[q]].password = row[q].password
              /\ users'[account[q]].emailVerified = row[q].emailVerified
              /\ users'[account[q]].totpEnabled = row[q].totpEnabled
          BY <2>4, <4>1, <4>3, UpdateSteps
        <4>5. Carries(q, row[q])
          BY <1>0, <3>2 DEF EffectOf
        <4>6. \A w \in Reqs : q \notin before'[w]
          BY <3>2, EarlierFinal DEF Marking
        <4> QED BY <2>1, <4>2, <4>4, <4>5, <4>6 DEF Carries
      <3>3. CASE pc[q] \in Marking
        BY <3>1, <3>2, <3>3 DEF EffectOf
      <3>4. CASE pc[q] \notin Marking
        <4>1. Written(q)' => Written(q) /\ pc[q] \notin Writing
          <5>1. Written(q)' => call[q].op \in {"verify", "reset", "confirm", "disable"}
            BY <2>1 DEF Written
          <5>2. Written(q)' => Written(q)
            BY <2>4, <3>4, <5>1, WrittenSteps
          <5>3. pc[q] \in Writing => call[q].op \notin {"verify", "reset", "confirm", "disable"}
            BY <3>4, WriterOps DEF Marking
          <5> QED BY <5>1, <5>2, <5>3
        <4> QED BY <2>2, <3>1, <4>1 DEF EffectOf
      <3> QED BY <3>3, <3>4
    <2> QED BY <2>3, <2>4
  <1> QED BY <1>1, <1>2, <1>3

\* The login is one for the account of a handler that was over when it came in.
LogsInAfter(q, r) ==
  /\ \/ Answered(q, "reset", "ok")
     \/ Answered(q, "confirm", "ok") \/ Answered(q, "disable", "ok")
  /\ call[r].op = "login" /\ call[r].email = account[q]
  /\ q \in before[r]

\* It has passed its test of the password, and of the flag of 2FA.
PastPassword(r) == pc[r] = "mint" \/ answer[r] \in {"tokens", "requires2fa"}
PastFlag(r) == pc[r] = "mint" \/ answer[r] = "tokens"

\* It gets past them with what q has written only.
GoesBy(q, r) ==
  /\ call[q].op = "reset" /\ PastPassword(r) => call[r].password = call[q].password
  /\ call[q].op = "confirm" => ~PastFlag(r)
  /\ call[q].op = "disable" => answer[r] # "requires2fa"

\* This is so of every login after a handler that nobody disturbed.
LoginInv == \A q, r \in Reqs : LogsInAfter(q, r) /\ Undisturbed(q) => GoesBy(q, r)

\* Login compares the password it was called with against the account's, and looks
\* at the account's flag.
LEMMA LoginSteps ==
  ASSUME Inv, CourseInv, NEW r \in Reqs, Step(r), call[r].op = "login"
  PROVE  /\ PastPassword(r)' =>
              pc[r] = "mint" \/ users[call[r].email].password = call[r].password
         /\ PastFlag(r)' => pc[r] = "mint" \/ ~users[call[r].email].totpEnabled
         /\ answer'[r] = "requires2fa" => users[call[r].email].totpEnabled
  <1>0. RequestsTypeOK /\ answer[r] = Nil /\ Nil \notin {"tokens", "requires2fa"}
    BY StatementOf DEF Inv, RequestsInv, HandlersReady, Answers
  <1>1. pc[r] \in {"login.lookup", "mint"}
    BY StatementOf DEF CourseInv, OnCourse, Handler, AllOps
  <1>2. CASE pc[r] = "login.lookup"
    <2>1. LoginLookup(r)
      BY <1>2, Statements DEF Step, StepAuth, StepOAuth
    <2>2. PastPassword(r)' => users[call[r].email].password = call[r].password
      BY <1>0, <2>1 DEF LoginLookup, Respond, RequestsTypeOK, PastPassword
    <2>3. PastFlag(r)' => ~users[call[r].email].totpEnabled
      BY <1>0, <2>1 DEF LoginLookup, Respond, RespondFor, RequestsTypeOK, PastFlag
    <2>4. answer'[r] = "requires2fa" => users[call[r].email].totpEnabled
      BY <1>0, <2>1 DEF LoginLookup, Respond, GotoFor, RequestsTypeOK
    <2> QED BY <2>2, <2>3, <2>4
  <1>3. CASE pc[r] = "mint"
    BY <1>0, <1>3, StepAnswers
  <1> QED BY <1>1, <1>2, <1>3

\* Every step keeps LoginInv.
LEMMA LoginNext ==
  /\ Inv /\ CourseInv /\ BeforeInv /\ EffectInv /\ LoginInv
  /\ [OrderNext]_orderVars
  => LoginInv'
  <1> SUFFICES ASSUME Inv, CourseInv, BeforeInv, EffectInv, LoginInv, [OrderNext]_orderVars,
                      NEW q \in Reqs, NEW r \in Reqs, LogsInAfter(q, r)', Undisturbed(q)'
               PROVE  GoesBy(q, r)'
    BY DEF LoginInv
  <1>0. [Next]_vars /\ Nil \notin {"tokens", "requires2fa"}
    BY DEF OrderNext, orderVars, Answers
  <1>1. /\ pc[q] = "done"
        /\ call'[q] = call[q] /\ answer'[q] = answer[q] /\ account'[q] = account[q]
        /\ before'[q] = before[q] /\ pc'[r] # "idle"
        /\ pc[r] # "idle" => q \in before[r]
    BY EarlierFinal DEF LogsInAfter
  <1>2. CASE pc[r] = "idle"
    <2>1. <<call'[r].op, pc'[r]>> \in Endpoints /\ answer'[r] = Nil
      BY <1>0, <1>1, <1>2, ComesIn
    <2>2. pc'[r] # "mint" /\ answer'[r] \notin {"tokens", "requires2fa"}
      BY <1>0, <2>1 DEF Endpoints
    <2> QED BY <2>2 DEF GoesBy, PastPassword, PastFlag
  <1>3. CASE pc[r] # "idle"
    <2>1. call'[r] = call[r]
      BY <1>0, <1>3, AnswersFinal
    <2>2. LogsInAfter(q, r)
      BY <1>1, <1>3, <2>1 DEF LogsInAfter, Answered
    <2>3. Written(q) /\ account[q] # Nil
      BY <2>2 DEF LogsInAfter, Answered, Written, EffectInv, EffectOf
    <2>4. Undisturbed(q)
      BY <1>1, <2>3, DisturbedStays
    <2>5. Carries(q, users[account[q]])
      BY <2>3, <2>4 DEF EffectInv, EffectOf
    <2>6. GoesBy(q, r)
      BY <2>2, <2>4 DEF LoginInv
    <2>7. CASE Step(r)
      <3>1. /\ PastPassword(r)' =>
                 pc[r] = "mint" \/ users[account[q]].password = call[r].password
            /\ PastFlag(r)' => pc[r] = "mint" \/ ~users[account[q]].totpEnabled
            /\ answer'[r] = "requires2fa" => users[account[q]].totpEnabled
        BY <2>2, <2>7, LoginSteps DEF LogsInAfter
      <3> QED BY <1>1, <2>1, <2>5, <2>6, <3>1 DEF GoesBy, PastPassword, PastFlag, Carries
    <2>8. CASE ~Step(r)
      <3>1. /\ pc'[r] = "mint" => pc[r] = "mint"
            /\ answer'[r] \in {"tokens", "requires2fa"} => answer'[r] = answer[r]
        BY <1>0, <1>3, <2>8, Elsewhere
      <3> QED BY <1>1, <2>1, <2>6, <3>1 DEF GoesBy, PastPassword, PastFlag
    <2> QED BY <2>7, <2>8
  <1> QED BY <1>2, <1>3

\* What was written, and the logins after it, are in order in every reachable state.
LEMMA Effects == OrderSpec => [](EffectInv /\ LoginInv)
  <1>1. OrderInit => EffectInv /\ LoginInv
    <2>1. OrderInit => \A q \in Reqs :
            call[q].op \notin {"reset", "verify", "confirm", "disable"} /\ pc[q] = "idle"
      BY DEF OrderInit, Init, RequestsInit, NoCall, AllOps
    <2> QED BY <2>1
            DEF EffectInv, EffectOf, Written, Marking, LoginInv, LogsInAfter, Answered
  <1> QED BY <1>1, EffectNext, LoginNext, Late, Carried, PTL DEF OrderSpec

\* A reset that was answered with success decides which password opens its account
\* to the logins that come in after it, until another reset comes, unless a handler
\* that writes whole rows back overlapped it.
THEOREM ResetDecides == OrderSpec => []ResetTakesEffect
  <1>1. LoginInv => ResetTakesEffect
    <2> SUFFICES ASSUME LoginInv, NEW q \in Reqs, NEW r \in Reqs, LogsInAfter(q, r),
                        Answered(q, "reset", "ok"), answer[r] \in {"tokens", "requires2fa"},
                        call[r].password # call[q].password
                 PROVE  \E w \in Reqs \ {q} :
                          /\ WritesRow(w, account[q])
                          /\ Overlaps(w, q) \/ (call[w].op = "reset" /\ w \notin before[q])
      BY DEF LogsInAfter, ResetTakesEffect
    <2>1. call[q].op = "reset" /\ ~GoesBy(q, r)
      BY DEF GoesBy, PastPassword, Answered
    <2>2. ~Undisturbed(q)
      BY <2>1 DEF LoginInv
    <2> QED BY <2>1, <2>2 DEF Undisturbed, Undoes, Reverses
  <1> QED BY <1>1, Effects, PTL

\* Turning 2FA on or off with success decides whether the logins that come in after
\* it are asked for a code, until 2FA is turned the other way, unless a handler that
\* writes whole rows back overlapped it.
THEOREM TwoFADecides == OrderSpec => []TwoFATakesEffect
  <1>1. LoginInv => TwoFATakesEffect
    <2> SUFFICES ASSUME LoginInv, NEW q \in Reqs, NEW r \in Reqs, LogsInAfter(q, r),
                        \/ Answered(q, "confirm", "ok") /\ answer[r] = "tokens"
                        \/ Answered(q, "disable", "ok") /\ answer[r] = "requires2fa"
                 PROVE  \E w \in Reqs \ {q} :
                          /\ WritesRow(w, account[q])
                          /\ Overlaps(w, q) \/ (Reverses(w, q) /\ w \notin before[q])
      BY DEF LogsInAfter, TwoFATakesEffect
    <2>1. call[q].op \in {"confirm", "disable"} /\ ~GoesBy(q, r)
      BY DEF GoesBy, PastFlag, Answered
    <2>2. ~Undisturbed(q)
      BY <2>1 DEF LoginInv
    <2> QED BY <2>1, <2>2 DEF Undisturbed, Undoes, Reverses
  <1> QED BY <1>1, Effects, PTL

\* What is true of the sentence that VerifiedStays quotes: an account whose address
\* was verified with success stays verified unless a handler that writes whole rows
\* back overlapped the verification.
VerifiedUnlessOverlapped ==
  \A q \in Reqs :
    Answered(q, "verify", "ok") =>
      \/ users[account[q]].emailVerified
      \/ \E w \in Reqs \ {q} : WritesRow(w, account[q]) /\ Overlaps(w, q)

\* It is, for any number of requests, whatever fails: handlers that came later have
\* read the row after the UPDATE, and none of them takes a verification back.
THEOREM VerificationLasts == OrderSpec => []VerifiedUnlessOverlapped
  <1>1. EffectInv => VerifiedUnlessOverlapped
    <2> SUFFICES ASSUME EffectInv, NEW q \in Reqs, Answered(q, "verify", "ok"),
                        ~\E w \in Reqs \ {q} : WritesRow(w, account[q]) /\ Overlaps(w, q)
                 PROVE  users[account[q]].emailVerified
      BY DEF VerifiedUnlessOverlapped
    <2>1. Undisturbed(q) /\ Written(q) /\ call[q].op = "verify"
      BY DEF Undisturbed, Undoes, Reverses, Written, Answered
    <2> QED BY <2>1 DEF EffectInv, EffectOf, Carries
  <1> QED BY <1>1, Effects, PTL

----------------------------------------------------------------------------
(* EndedSessionRefused, for the sessions before a reset *)

\* A stored session is its request's account's.
StoredForAccount == \A t \in Reqs : Live(t) => refreshTokens[t].user = account[t]

\* What is stored of the sessions handed out before a reset is among those the
\* reset has found.
FoundInv ==
  \A r \in Reqs : call[r].op = "reset" /\ Written(r) =>
    \A t \in before[r] :
      Live(t) /\ refreshTokens[t].user = account[r] => t \in sessionsAtReset[r]

\* The refresh came in after a reset of the account that the session it presents,
\* handed out before that reset, is for.
PresentsRevoked(t, r, q) ==
  /\ Answered(r, "reset", "ok") /\ t \in before[r] /\ account[t] = account[r]
  /\ call[q].op = "refresh" /\ call[q].token = t /\ r \in before[q]

\* Such a refresh gets no further than its lookup.
RevokedInv ==
  \A t, r, q \in Reqs : PresentsRevoked(t, r, q) =>
    pc[q] = "refresh.lookup" \/ (pc[q] = "done" /\ answer[q] # "tokens")

\* The sessions before a reset in the state of a step are those before the step,
\* unless it mints them.
LEMMA StoredBefore ==
  ASSUME Inv, StoredIsHandedOut, [Next]_vars, NEW t \in Reqs, pc[t] = "done", Live(t)'
  PROVE  Live(t) /\ refreshTokens'[t].user = refreshTokens[t].user
  <1>1. HandedOut(t)
    BY StoredNext, AnswersFinal DEF StoredIsHandedOut, HandedOut
  <1> QED BY <1>1, HandedOutShrinks DEF Live

\* Every step keeps StoredForAccount.
LEMMA StoredForNext ==
  Inv /\ StoredIsHandedOut /\ StoredForAccount /\ [Next]_vars => StoredForAccount'
  <1> SUFFICES ASSUME Inv, StoredIsHandedOut, StoredForAccount, [Next]_vars,
                      NEW t \in Reqs, Live(t)'
               PROVE  refreshTokens'[t].user = account'[t]
    BY DEF StoredForAccount
  <1>1. CASE pc[t] = "done"
    BY <1>1, StoredBefore, AnswersFinal DEF StoredForAccount
  <1>2. CASE pc[t] # "done"
    <2>1. answer'[t] = "tokens" /\ answer[t] # "tokens"
      <3>1. answer'[t] = "tokens"
        BY StoredNext DEF StoredIsHandedOut, HandedOut
      <3>2. answer[t] = Nil /\ Nil # "tokens"
        BY <1>2, AnswersFinal DEF Answers
      <3> QED BY <3>1, <3>2
    <2> QED BY <2>1, TokensStored
  <1> QED BY <1>1, <1>2

\* Only a reset at its UPDATE records sessions, and only its own.
LEMMA Recorded ==
  ASSUME Inv, [Next]_vars, NEW r \in Reqs, ~(Step(r) /\ pc[r] = "reset.update")
  PROVE  sessionsAtReset'[r] = sessionsAtReset[r]
  <1>1. ASSUME NEW p \in Reqs, Step(p), pc[p] = "reset.update", p # r
        PROVE  sessionsAtReset'[r] = sessionsAtReset[r]
    BY <1>1, StatementOf DEF ResetPasswordUpdate, Inv
  <1>2. ASSUME NEW p \in Reqs, Step(p), pc[p] # "reset.update"
        PROVE  sessionsAtReset'[r] = sessionsAtReset[r]
    BY <1>2, StepHistory
  <1>3. CASE \/ \E p \in Reqs : Receive(p)
             \/ Clock \/ Cleanup \/ Die \/ UNCHANGED vars
    BY <1>3, Received DEF Clock, Cleanup, Die, Crash, vars
  <1> QED BY <1>1, <1>2, <1>3 DEF Next

\* Every step keeps FoundInv.
LEMMA FoundNext ==
  /\ Inv /\ CourseInv /\ StoredIsHandedOut /\ BeforeInv /\ EffectInv /\ FoundInv
  /\ [OrderNext]_orderVars
  => FoundInv'
  <1> SUFFICES ASSUME Inv, CourseInv, StoredIsHandedOut, BeforeInv, EffectInv, FoundInv,
                      [OrderNext]_orderVars,
                      NEW r \in Reqs, call'[r].op = "reset", Written(r)',
                      NEW t \in before'[r], Live(t)', refreshTokens'[t].user = account'[r]
               PROVE  t \in sessionsAtReset'[r]
    BY DEF FoundInv
  <1>0. [Next]_vars /\ RequestsTypeOK /\ t \in Reqs /\ BeforeInv' /\ Nil # "ok"
    BY BeforeNext DEF OrderNext, orderVars, BeforeInv, Inv, RequestsInv, Answers
  <1>1. pc[r] # "idle"
    <2>1. pc[r] = "idle" => <<call'[r].op, pc'[r]>> \in Endpoints /\ answer'[r] = Nil
      BY <1>0, ComesIn DEF BeforeInv
    <2> QED BY <1>0, <2>1 DEF Written, Endpoints
  <1>2. call'[r] = call[r] /\ t \in before[r] /\ pc[t] = "done"
    BY <1>0, <1>1, AnswersFinal, EarlierFinal
  <1>3. Live(t) /\ refreshTokens[t].user = account'[r]
    BY <1>0, <1>2, StoredBefore
  <1>4. CASE Written(r)
    <2>1. account'[r] = account[r] /\ pc[r] # "reset.update"
      BY <1>0, <1>4, AccountKept, AnswersFinal DEF EffectInv, EffectOf, Written
    <2> QED BY <1>0, <1>2, <1>3, <1>4, <2>1, Recorded DEF FoundInv
  <1>5. CASE ~Written(r)
    <2>1. Step(r)
      BY <1>0, <1>1, <1>2, <1>5, Elsewhere DEF Written
    <2>2. pc[r] \in Marking /\ pc[r] \in ResetLabels \cup {"done"}
      <3>1. call[r].op = "reset" /\ pc[r] \in Handler("reset")
        BY <1>1, <1>2, <2>1, StatementOf DEF CourseInv, OnCourse
      <3>2. pc[r] \in Marking
        BY <1>5, <2>1, <3>1, WrittenSteps
      <3> QED BY <3>1, <3>2 DEF Handler, AllOps
    <2>3. pc[r] = "reset.update" /\ pc'[r] \in {"reset.delete", "reset.revoke"}
      BY <1>2, <2>1, <2>2, ResetSteps DEF ResetLabels, Written, Marking
    <2>4. sessionsAtReset'[r] = SessionsOf(account[r]) /\ account'[r] = account[r]
      BY <2>1, <2>3, ResetSteps DEF ResetLabels, Inv
    <2> QED BY <1>0, <1>3, <2>4 DEF SessionsOf, Live
  <1> QED BY <1>4, <1>5

\* What was handed out before a successful reset of its account is not stored.
LEMMA OldIsGone ==
  ASSUME StoredForAccount, FoundInv, ResetInv,
         NEW r \in Reqs, NEW t \in Reqs,
         Answered(r, "reset", "ok"), t \in before[r], account[t] = account[r]
  PROVE  ~Live(t)
  <1> SUFFICES ASSUME Live(t) PROVE FALSE
    OBVIOUS
  <1>1. t \in sessionsAtReset[r]
    BY DEF StoredForAccount, FoundInv, Written, Answered
  <1> QED BY <1>1 DEF ResetInv, ResetRevokesExisting

\* A lookup that finds no session refuses it.
LEMMA NoSessionRefused ==
  ASSUME RequestsTypeOK, NEW q \in Reqs, Step(q), pc[q] = "refresh.lookup",
         ~Live(call[q].token)
  PROVE  pc'[q] = "done" /\ answer'[q] # "tokens"
  <1>1. Respond(q, "unauthorized") \/ Respond(q, "error")
    BY StatementOf DEF RefreshLookup, Live
  <1> QED BY <1>1 DEF Respond, RequestsTypeOK

\* Every step keeps RevokedInv.
LEMMA RevokedNext ==
  /\ Inv /\ StoredForAccount /\ FoundInv /\ ResetInv /\ BeforeInv /\ RevokedInv
  /\ [OrderNext]_orderVars
  => RevokedInv'
  <1> SUFFICES ASSUME Inv, StoredForAccount, FoundInv, ResetInv, BeforeInv, RevokedInv,
                      [OrderNext]_orderVars,
                      NEW t \in Reqs, NEW r \in Reqs, NEW q \in Reqs,
                      PresentsRevoked(t, r, q)'
               PROVE  \/ pc'[q] = "refresh.lookup"
                      \/ pc'[q] = "done" /\ answer'[q] # "tokens"
    BY DEF RevokedInv
  <1>0. [Next]_vars /\ RequestsTypeOK
    BY DEF OrderNext, orderVars, Inv, RequestsInv
  <1>1. /\ call'[r] = call[r] /\ answer'[r] = answer[r] /\ account'[r] = account[r]
        /\ before'[r] = before[r] /\ pc'[q] # "idle"
        /\ pc[q] # "idle" => r \in before[q]
    BY EarlierFinal DEF PresentsRevoked
  <1>2. account'[t] = account[t]
    BY EarlierFinal DEF PresentsRevoked
  <1>3. CASE pc[q] = "idle"
    <2>1. <<call'[q].op, pc'[q]>> \in Endpoints
      BY <1>0, <1>1, <1>3, ComesIn
    <2> QED BY <2>1 DEF PresentsRevoked, Endpoints
  <1>4. CASE pc[q] # "idle"
    <2>1. call'[q] = call[q]
      BY <1>0, <1>4, AnswersFinal
    <2>2. PresentsRevoked(t, r, q)
      BY <1>1, <1>2, <1>4, <2>1 DEF PresentsRevoked, Answered
    <2>3. pc[q] = "refresh.lookup" \/ (pc[q] = "done" /\ answer[q] # "tokens")
      BY <2>2 DEF RevokedInv
    <2>4. ~Live(call[q].token)
      BY <2>2, OldIsGone DEF PresentsRevoked
    <2>5. CASE Step(q)
      BY <1>0, <2>3, <2>4, <2>5, NoSessionRefused, StatementOf
    <2>6. CASE ~Step(q)
      BY <1>0, <1>4, <2>3, <2>6, Elsewhere
    <2> QED BY <2>5, <2>6
  <1> QED BY <1>3, <1>4

\* The sessions before each reset are in order in every reachable state.
LEMMA Revoked ==
  OrderSpec => [](StoredIsHandedOut /\ ResetInv /\ StoredForAccount /\ FoundInv /\ RevokedInv)
  <1>1. OrderInit => Init /\ StoredForAccount /\ FoundInv /\ RevokedInv
    BY DEF OrderInit, Init, StoreInit, StoredForAccount, Live, FoundInv, RevokedInv,
           PresentsRevoked
  <1>2. OrderSpec => [](StoredIsHandedOut /\ ResetInv)
    BY OrderServer, StoredInit, StoredNext, ResetInit, ResetNext, Invariant, PTL DEF Spec
  <1>3. [OrderNext]_orderVars => [Next]_vars
    BY DEF OrderNext, orderVars
  <1> QED BY <1>1, <1>2, <1>3, StoredForNext, FoundNext, RevokedNext, Effects, Late, Carried,
             PTL DEF OrderSpec

----------------------------------------------------------------------------
(* EndedSessionRefused, for the sessions rotated or logged out *)

\* The request is past the DELETE of the session it presents, with success.
Spent(q) == Rotated(q) \/ Answered(q, "logout", "ok")

\* Refreshes and logouts present sessions that were handed out, and what they have
\* spent is stored no more.
SpentOf(q) ==
  call[q].op \in {"refresh", "logout"} =>
    /\ call[q].token \in Reqs /\ HandedOut(call[q].token)
    /\ Spent(q) => ~Live(call[q].token)

\* Every refresh and logout keeps to it.
SpentInv == \A q \in Reqs : SpentOf(q)

\* The refresh came in after q had been answered that it spent the same session.
PresentsSpent(q, r) ==
  /\ Answered(q, "refresh", "tokens") \/ Answered(q, "logout", "ok")
  /\ call[r].op = "refresh" /\ call[r].token = call[q].token /\ q \in before[r]

\* Such a refresh gets no further than its lookup.
SpentLateInv ==
  \A q, r \in Reqs : PresentsSpent(q, r) =>
    pc[r] = "refresh.lookup" \/ (pc[r] = "done" /\ answer[r] # "tokens")

\* A request spends its session in the step that deletes it, and only then.
LEMMA SpendingSteps ==
  ASSUME Inv, CourseInv, NEW q \in Reqs, Step(q), call[q].op \in {"refresh", "logout"},
         ~Spent(q), Spent(q)'
  PROVE  DeleteRefreshTokens({call[q].token})
  <1>0. RequestsTypeOK /\ call' = call /\ answer[q] = Nil /\ Nil # "ok"
    BY StatementOf, StepMoves, MovingFrame DEF Inv, RequestsInv, HandlersReady, Answers
  <1>1. pc[q] \in Handler(call[q].op)
    BY StatementOf DEF CourseInv, OnCourse
  <1>2. CASE call[q].op = "refresh"
    <2>1. pc[q] \in RefreshLabels /\ pc[q] # "mint"
      BY <1>1, <1>2 DEF Handler, AllOps, RefreshLabels, Spent, Rotated
    <2>2. pc'[q] = "mint" \/ answer'[q] = "tokens"
      BY <1>0, <1>2 DEF Spent, Rotated, Answered
    <2> QED BY <2>1, <2>2, RefreshSteps
  <1>3. CASE call[q].op = "logout"
    <2>1. pc[q] = "logout.delete"
      BY <1>1, <1>3 DEF Handler
    <2>2. Logout(q)
      BY <2>1, Statements DEF Step, StepAuth, StepOAuth
    <2>3. answer'[q] = "ok"
      BY <1>0, <1>3 DEF Spent, Rotated, Answered
    <2>4. ~Fails(q, "error")
      BY <1>0, <2>3 DEF Fails, Reject, Respond, RequestsTypeOK
    <2> QED BY <2>2, <2>4 DEF Logout
  <1> QED BY <1>2, <1>3

\* Every step keeps SpentInv.
LEMMA SpentNext == Inv /\ CourseInv /\ SpentInv /\ [Next]_vars => SpentInv'
  <1> SUFFICES ASSUME Inv, CourseInv, SpentInv, [Next]_vars, NEW q \in Reqs,
                      call'[q].op \in {"refresh", "logout"}
               PROVE  /\ call'[q].token \in Reqs /\ answer'[call'[q].token] = "tokens"
                      /\ Spent(q)' => refreshTokens'[call'[q].token] = Nil
    BY DEF SpentInv, SpentOf, HandedOut, Live
  <1>0. RequestsTypeOK
    BY DEF Inv, RequestsInv
  <1>1. ASSUME NEW t \in Reqs, HandedOut(t)
        PROVE  answer'[t] = "tokens" /\ (~Live(t) => refreshTokens'[t] = Nil)
    BY <1>1, AnswersFinal, HandedOutShrinks DEF HandedOut, Live, Answers
  <1>2. CASE Receive(q)
    <2>1. PICK c, a, first : Accept(q, c, a, first) /\ Fits(c, a, first)
      BY <1>2, Received
    <2>2. call'[q] = c /\ pc'[q] = first /\ answer'[q] = answer[q] /\ pc[q] = "idle"
      BY <1>0, <2>1 DEF Accept, RequestsTypeOK
    <2>3. answer[q] = Nil /\ Nil \notin {"ok", "tokens"} /\ first # "mint"
      BY <2>1, <2>2 DEF Inv, RequestsInv, HandlersReady, Answers, Fits, Endpoints
    <2>4. c.token \in Reqs /\ HandedOut(c.token)
      BY <2>1, <2>2 DEF Fits
    <2>5. ~Spent(q)'
      BY <2>2, <2>3 DEF Spent, Rotated, Answered
    <2> QED BY <1>1, <2>2, <2>4, <2>5
  <1>3. ASSUME call'[q] = call[q], Spent(q)' => Spent(q) \/ DeleteRefreshTokens({call[q].token})
        PROVE  /\ call'[q].token \in Reqs /\ answer'[call'[q].token] = "tokens"
               /\ Spent(q)' => refreshTokens'[call'[q].token] = Nil
    <2>1. /\ call[q].token \in Reqs /\ HandedOut(call[q].token)
          /\ Spent(q) => ~Live(call[q].token)
      BY <1>3 DEF SpentInv, SpentOf
    <2>2. DeleteRefreshTokens({call[q].token}) => refreshTokens'[call[q].token] = Nil
      BY <2>1 DEF DeleteRefreshTokens
    <2> QED BY <1>1, <1>3, <2>1, <2>2
  <1>4. CASE Step(q)
    <2>1. call' = call
      BY <1>0, <1>4, StepMoves, MovingFrame
    <2> QED BY <1>3, <1>4, <2>1, SpendingSteps
  <1>5. ASSUME NEW p \in Reqs \ {q}, Receive(p)
        PROVE  call'[q] = call[q] /\ (Spent(q)' => Spent(q))
    <2>1. PICK c, a, first : Accept(p, c, a, first)
      BY <1>5, Received
    <2> QED BY <1>0, <2>1 DEF Accept, RequestsTypeOK, Spent, Rotated, Answered
  <1>6. ASSUME NEW p \in Reqs \ {q}, Step(p)
        PROVE  call'[q] = call[q] /\ (Spent(q)' => Spent(q))
    BY <1>0, <1>6, StepMoves, MovingFrame DEF Spent, Rotated, Answered
  <1>7. CASE Clock \/ Cleanup \/ UNCHANGED vars
    <2>1. call'[q] = call[q] /\ (Spent(q)' => Spent(q))
      BY <1>7 DEF Clock, Cleanup, vars, locals, Spent, Rotated, Answered
    <2> QED BY <1>3, <2>1
  <1>8. CASE Die
    <2>1. call'[q] = call[q] /\ (Spent(q)' => Spent(q))
      BY <1>8 DEF Die, Crash, InFlight, Spent, Rotated, Answered
    <2> QED BY <1>3, <2>1
  <1> QED BY <1>2, <1>3, <1>4, <1>5, <1>6, <1>7, <1>8 DEF Next

\* Every step keeps SpentLateInv.
LEMMA SpentLateNext ==
  Inv /\ SpentInv /\ BeforeInv /\ SpentLateInv /\ [OrderNext]_orderVars => SpentLateInv'
  <1> SUFFICES ASSUME Inv, SpentInv, BeforeInv, SpentLateInv, [OrderNext]_orderVars,
                      NEW q \in Reqs, NEW r \in Reqs, PresentsSpent(q, r)'
               PROVE  \/ pc'[r] = "refresh.lookup"
                      \/ pc'[r] = "done" /\ answer'[r] # "tokens"
    BY DEF SpentLateInv
  <1>0. [Next]_vars /\ RequestsTypeOK
    BY DEF OrderNext, orderVars, Inv, RequestsInv
  <1>1. /\ call'[q] = call[q] /\ answer'[q] = answer[q] /\ pc'[r] # "idle"
        /\ pc[r] # "idle" => q \in before[r]
    BY EarlierFinal DEF PresentsSpent
  <1>2. CASE pc[r] = "idle"
    <2>1. <<call'[r].op, pc'[r]>> \in Endpoints
      BY <1>0, <1>1, <1>2, ComesIn
    <2> QED BY <2>1 DEF PresentsSpent, Endpoints
  <1>3. CASE pc[r] # "idle"
    <2>1. call'[r] = call[r]
      BY <1>0, <1>3, AnswersFinal
    <2>2. PresentsSpent(q, r)
      BY <1>1, <1>3, <2>1 DEF PresentsSpent, Answered
    <2>3. pc[r] = "refresh.lookup" \/ (pc[r] = "done" /\ answer[r] # "tokens")
      BY <2>2 DEF SpentLateInv
    <2>4. ~Live(call[r].token)
      BY <2>2 DEF PresentsSpent, SpentInv, SpentOf, Spent, Rotated, Answered
    <2>5. CASE Step(r)
      BY <1>0, <2>3, <2>4, <2>5, NoSessionRefused, StatementOf
    <2>6. CASE ~Step(r)
      BY <1>0, <1>3, <2>3, <2>6, Elsewhere
    <2> QED BY <2>5, <2>6
  <1> QED BY <1>2, <1>3

\* What is spent is spent in every reachable state.
LEMMA SpentForGood == OrderSpec => [](SpentInv /\ SpentLateInv)
  <1>1. OrderInit => SpentInv /\ SpentLateInv
    <2>1. Init => \A q \in Reqs : call[q].op \notin {"refresh", "logout"}
      BY DEF Init, RequestsInit, NoCall, AllOps
    <2> QED BY <2>1 DEF OrderInit, SpentInv, SpentOf, SpentLateInv, PresentsSpent
  <1>2. [OrderNext]_orderVars => [Next]_vars
    BY DEF OrderNext, orderVars
  <1> QED BY <1>1, <1>2, SpentNext, SpentLateNext, Late, Carried, PTL DEF OrderSpec

\* A session that a client was told is over, by a rotation, a logout or a reset of the
\* account, is gone, and a refresh that comes in later gets no tokens for it.  Nothing
\* is assumed of the engine or of the statements.
THEOREM SessionsOver == OrderSpec => []EndedSessionRefused
  <1>1. Inv /\ StoredForAccount /\ FoundInv /\ ResetInv /\ RevokedInv /\ SpentInv /\ SpentLateInv
          => EndedSessionRefused
    <2> SUFFICES ASSUME Inv, StoredForAccount, FoundInv, ResetInv, RevokedInv, SpentInv,
                        SpentLateInv, NEW q \in Reqs, NEW t \in Reqs, EndsSession(q, t)
                 PROVE  /\ ~Live(t)
                        /\ \A r \in Reqs :
                             call[r].op = "refresh" /\ call[r].token = t /\ q \in before[r]
                               => answer[r] # "tokens"
      BY DEF EndedSessionRefused
    <2>1. \A r \in Reqs : pc[r] # "done" => answer[r] # "tokens"
      BY DEF Inv, RequestsInv, HandlersReady, Answers
    <2>2. CASE Answered(q, "refresh", "tokens") \/ Answered(q, "logout", "ok")
      <3>1. CASE call[q].token = t
        <4>1. ~Live(t)
          BY <2>2, <3>1 DEF SpentInv, SpentOf, Spent, Rotated, Answered
        <4>2. ASSUME NEW r \in Reqs, PresentsSpent(q, r) PROVE answer[r] # "tokens"
          BY <2>1, <4>2 DEF SpentLateInv
        <4> QED BY <2>2, <3>1, <4>1, <4>2 DEF PresentsSpent
      <3>2. CASE call[q].token # t
        BY <2>2, <3>2 DEF EndsSession, Answered
      <3> QED BY <3>1, <3>2
    <2>3. CASE Answered(q, "reset", "ok") /\ t \in before[q] /\ account[t] = account[q]
      <3>1. ~Live(t)
        BY <2>3, OldIsGone
      <3>2. ASSUME NEW r \in Reqs, PresentsRevoked(t, q, r) PROVE answer[r] # "tokens"
        BY <2>1, <3>2 DEF RevokedInv
      <3> QED BY <2>3, <3>1, <3>2 DEF PresentsRevoked
    <2> QED BY <2>2, <2>3 DEF EndsSession
  <1> QED BY <1>1, Revoked, SpentForGood, Carried, PTL
=============================================================================
