--------------------------- MODULE SessionProofs ----------------------------
(***************************************************************************)
(* Sessions, for any number of requests, accounts and passwords: a stored  *)
(* session is one that was handed out and ends for a reason, rotation is   *)
(* single use, a reset revokes what it found, a sign-in holds one session, *)
(* and the handlers implement Sessions.                                    *)
(***************************************************************************)
EXTENDS AccountProofs, SignIns

USE StoreAssumption, NilAssumption, NoAnswerAssumption

\* A stored session was handed out by the request that minted it.
StoredIsHandedOut == \A t \in Reqs : Live(t) => HandedOut(t)

\* Initially no session is stored.
LEMMA StoredInit == Init => StoredIsHandedOut
  BY DEF Init, StoreInit, StoredIsHandedOut, Live

\* Every step keeps StoredIsHandedOut: a session is stored in the step that
\* hands it out, and answers are final.
LEMMA StoredNext == Inv /\ StoredIsHandedOut /\ [Next]_vars => StoredIsHandedOut'
  <1> SUFFICES ASSUME Inv, StoredIsHandedOut, [Next]_vars, NEW t \in Reqs, Live(t)'
               PROVE  answer'[t] = "tokens"
    BY DEF StoredIsHandedOut, HandedOut
  <1>1. CASE SessionsShrink
    <2>1. answer[t] = "tokens" /\ answer[t] # Nil
      BY <1>1 DEF SessionsShrink, Live, StoredIsHandedOut, HandedOut, Answers
    <2> QED BY <2>1, AnswersFinal
  <1>2. ASSUME NEW r \in Reqs, Step(r), pc[r] = "mint"
        PROVE  answer'[t] = "tokens"
    <2>1. GenerateTokens(r)
      BY <1>2, StatementOf
    <2>2. CASE t = r
      <3>1. refreshTokens[t] = Nil
        BY <1>2, <2>2 DEF StoredIsHandedOut, Live, HandedOut, Inv, RequestsInv, HandlersReady,
                          Answers
      <3> QED BY <2>1, <2>2, <3>1, Minting DEF Live
    <2>3. CASE t # r
      <3>1. refreshTokens'[t] = refreshTokens[t]
        BY <2>1, <2>3, Minting DEF Inv, StoreInv, StoreTypeOK
      <3>2. answer[t] = "tokens" /\ answer[t] # Nil
        BY <3>1 DEF Live, StoredIsHandedOut, HandedOut, Answers
      <3> QED BY <3>2, AnswersFinal
    <2> QED BY <2>2, <2>3
  <1>3. ASSUME NEW r \in Reqs, Step(r), pc[r] # "mint"
        PROVE  answer'[t] = "tokens"
    BY <1>1, <1>3, StepShrinks DEF Inv
  <1> QED BY <1>1, <1>2, <1>3, OthersShrink DEF Next, Inv

\* Every session in the table belongs to a request that was answered with
\* tokens: a handler that fails stores none.
THEOREM Stored == Spec => []StoredIsHandedOut
  BY StoredInit, StoredNext, Invariant, PTL DEF Spec

----------------------------------------------------------------------------
(* RotationSingleUse *)

\* A refresh is somewhere in its handler and presents a token handed out.
Refreshing ==
  \A q \in Reqs : call[q].op = "refresh" =>
    /\ pc[q] \in RefreshLabels \cup {"mint", "done"}
    /\ call[q].token \in Reqs
    /\ HandedOut(call[q].token)

\* The refresh is past its DELETE.
Rotated(q) == call[q].op = "refresh" /\ (pc[q] = "mint" \/ answer[q] = "tokens")

\* The token of a rotation that is past its DELETE is not stored.
RotatedIsGone == \A q \in Reqs : Rotated(q) => ~Live(call[q].token)

\* The strengthening of RotationSingleUse: of two requests presenting one token,
\* the second to reach the DELETE finds no row, because the first deleted it and
\* a token that is gone is never stored again.
RotationInv ==
  /\ Refreshing
  /\ DeleteMissingFails => RotationSingleUse /\ RotatedIsGone

\* Where the handler of a refresh can be after a step.
LEMMA RefreshSteps ==
  ASSUME Inv, NEW r \in Reqs, Step(r), pc[r] \in RefreshLabels \cup {"mint"}
  PROVE  /\ pc'[r] \in RefreshLabels \cup {"mint", "done"}
         /\ pc'[r] = "mint" \/ answer'[r] = "tokens" =>
              \/ pc[r] = "mint"
              \/ /\ pc[r] = "refresh.delete" 
                 /\ DeleteRefreshTokens({call[r].token})
                 /\ DeleteSucceeds(Live(call[r].token))
  <1> USE DEF Inv, RequestsInv, RequestsTypeOK, RefreshLabels
  <1>0. answer[r] = Nil /\ Nil # "tokens"
    BY StatementOf DEF HandlersReady, Answers
  <1>1. CASE pc[r] = "mint"
    BY <1>1, StatementOf, Minting
  <1>2. CASE pc[r] = "refresh.lookup"
    BY <1>0, <1>2, StatementOf DEF RefreshLookup, Respond, Goto, GotoFor
  <1>3. CASE pc[r] = "refresh.purge"
    BY <1>0, <1>3, StatementOf DEF RefreshPurge, Respond
  <1>4. CASE pc[r] = "refresh.user"
    BY <1>0, <1>4, StatementOf DEF RefreshUser, Fails, Reject, Respond, Goto
  <1>5. CASE pc[r] = "refresh.delete"
    <2>1. RefreshDelete(r)
      BY <1>5, StatementOf
    <2> QED BY <1>0, <1>5, <2>1 DEF RefreshDelete, Fails, Reject, Respond, Goto, Live
  <1> QED BY <1>1, <1>2, <1>3, <1>4, <1>5

\* A step that completes no rotation and revives no token keeps the invariant.
LEMMA RotationFrame ==
  ASSUME RotationInv, Refreshing',
         \A q \in Reqs : Rotated(q)' => Rotated(q) /\ call'[q] = call[q],
         \A q \in Reqs : Rotated(q) /\ refreshTokens'[call[q].token] # Nil
                          => Live(call[q].token)
  PROVE  RotationInv'
  BY DEF RotationInv, RotationSingleUse, RotatedIsGone, Rotated, Live

\* Initially nobody refreshes.
LEMMA RotationInit == Init => RotationInv
  <1> SUFFICES ASSUME Init PROVE RotationInv
    OBVIOUS
  <1>1. \A q \in Reqs : call[q].op # "refresh"
    BY DEF Init, RequestsInit, NoCall, AllOps
  <1> QED BY <1>1 DEF RotationInv, Refreshing, RotationSingleUse, RotatedIsGone, Rotated

\* Whatever its op, a request keeps a refresh where it belongs.
LEMMA RefreshingNext ==
  ASSUME Inv, RotationInv, [Next]_vars
  PROVE  Refreshing'
  <1> USE DEF RotationInv
  <1>0. ASSUME NEW t, t \in Reqs, HandedOut(t) PROVE HandedOut(t)'
    BY <1>0, AnswersFinal DEF HandedOut, Answers
  <1>1. ASSUME NEW r \in Reqs, Receive(r) PROVE Refreshing'
    <2>1. PICK c, a, first :
            /\ Accept(r, c, a, first)
            /\ c.op = "refresh" => /\ first = "refresh.lookup"
                                   /\ c.token \in Reqs
                                   /\ HandedOut(c.token)
      BY <1>1, Received DEF Fits, Endpoints
    <2>2. \A q \in Reqs : IF q = r THEN call'[q] = c /\ pc'[q] = first
                                   ELSE call'[q] = call[q] /\ pc'[q] = pc[q]
      BY <2>1 DEF Accept, Inv, RequestsInv, RequestsTypeOK
    <2> QED BY <1>0, <2>1, <2>2 DEF Refreshing, RefreshLabels
  <1>2. ASSUME NEW r \in Reqs, Step(r) PROVE Refreshing'
    <2>1. /\ pc[r] # "done" /\ call' = call
          /\ \A q \in Reqs \ {r} : pc'[q] = pc[q]
      BY <1>2, StatementOf, StepMoves, MovingFrame DEF Inv, RequestsInv
    <2>2. call[r].op = "refresh" => pc'[r] \in RefreshLabels \cup {"mint", "done"}
      BY <1>2, <2>1, RefreshSteps DEF Refreshing
    <2> QED BY <1>0, <2>1, <2>2 DEF Refreshing
  <1>3. CASE Clock \/ Cleanup \/ UNCHANGED vars
    BY <1>3 DEF Clock, Cleanup, vars, locals, Refreshing, HandedOut
  <1>4. CASE Die
    BY <1>0, <1>4 DEF Die, Crash, Refreshing
  <1> QED BY <1>1, <1>2, <1>3, <1>4 DEF Next

\* Every step of a handler keeps RotationInv.
LEMMA RotationStep ==
  ASSUME Inv, StoredIsHandedOut, RotationInv, NEW r \in Reqs, Step(r), Refreshing'
  PROVE  RotationInv'
  <1>1. /\ pc[r] # "done" /\ call' = call
        /\ \A q \in Reqs \ {r} : pc'[q] = pc[q] /\ answer'[q] = answer[q]
    BY StatementOf, StepMoves, MovingFrame DEF Inv, RequestsInv
  <1>2. CASE pc[r] = "mint"
    <2>1. GenerateTokens(r)
      BY <1>2, StatementOf
    <2>2. \A q \in Reqs : Rotated(q) => call[q].token \in Reqs \ {r}
      BY <1>2 DEF Rotated, RotationInv, Refreshing, HandedOut, Inv, RequestsInv, HandlersReady,
                  Answers
    <2>3. \A t \in Reqs \ {r} : refreshTokens'[t] = refreshTokens[t]
      BY <2>1, Minting DEF Inv, StoreInv, StoreTypeOK
    <2>4. \A q \in Reqs : Rotated(q)' => Rotated(q)
      BY <1>1, <1>2 DEF Rotated
    <2> QED BY <1>1, <2>2, <2>3, <2>4, RotationFrame DEF Live
  <1>3. CASE pc[r] # "mint"
    <2>1. SessionsShrink
      BY <1>3, StepShrinks DEF Inv
    <2>2. \A q \in Reqs : Rotated(q) => call[q].token \in Reqs
      BY DEF Rotated, RotationInv, Refreshing
    <2>3. CASE ~Rotated(r)'
      <3>1. \A q \in Reqs : Rotated(q)' => Rotated(q)
        BY <1>1, <2>3 DEF Rotated
      <3> QED BY <1>1, <2>1, <2>2, <3>1, RotationFrame DEF SessionsShrink, Live
    <2>4. CASE Rotated(r)'
      <3>1. call[r].op = "refresh" /\ pc[r] \in RefreshLabels
        BY <1>1, <1>3, <2>4 DEF Rotated, RotationInv, Refreshing
      <3>2. /\ DeleteRefreshTokens({call[r].token})
            /\ DeleteSucceeds(Live(call[r].token))
        BY <1>3, <2>4, <3>1, RefreshSteps DEF Rotated
      <3>3. ~Live(call[r].token)'
        BY <1>1, <3>1, <3>2 DEF DeleteRefreshTokens, Live, RotationInv, Refreshing
      <3>4. ASSUME DeleteMissingFails PROVE RotationSingleUse' /\ RotatedIsGone'
        <4>1. \A q \in Reqs \ {r} : Rotated(q)' => Rotated(q) /\ call[q].token # call[r].token
          BY <1>1, <3>2, <3>4 DEF DeleteSucceeds, RotationInv, RotatedIsGone, Rotated
        <4>2. RotatedIsGone'
          BY <1>1, <2>1, <2>2, <3>3, <3>4, <4>1
             DEF RotationInv, RotatedIsGone, SessionsShrink, Live
        <4>3. RotationSingleUse'
          BY <1>1, <3>4, <4>1 DEF RotationInv, RotationSingleUse, Rotated
        <4> QED BY <4>2, <4>3
      <3>5. DeleteMissingFails' = DeleteMissingFails
        OBVIOUS
      <3> QED BY <3>4 DEF RotationInv
    <2> QED BY <2>3, <2>4
  <1> QED BY <1>2, <1>3

\* Every step keeps RotationInv.
LEMMA RotationNext ==
  Inv /\ StoredIsHandedOut /\ RotationInv /\ [Next]_vars => RotationInv'
  <1> SUFFICES ASSUME Inv, StoredIsHandedOut, RotationInv, [Next]_vars
               PROVE  RotationInv'
    OBVIOUS
  <1>1. Refreshing'
    BY RefreshingNext
  <1>2. ASSUME NEW r \in Reqs, Step(r) PROVE RotationInv'
    BY <1>1, <1>2, RotationStep
  <1>3. ASSUME SessionsShrink,
               \A q \in Reqs : Rotated(q)' => Rotated(q) /\ call'[q] = call[q]
        PROVE  RotationInv'
    <2>1. \A q \in Reqs : Rotated(q) => call[q].token \in Reqs
      BY DEF Rotated, RotationInv, Refreshing
    <2> QED BY <1>1, <1>3, <2>1, RotationFrame DEF SessionsShrink, Live
  <1>4. ASSUME NEW r \in Reqs, Receive(r) PROVE RotationInv'
    <2>1. PICK c, a, first : Accept(r, c, a, first) /\ first # "mint"
      BY <1>4, Received DEF Fits, Endpoints
    <2>2. \A q \in Reqs : IF q = r THEN pc'[q] # "mint" /\ answer'[q] = Nil
                                   ELSE call'[q] = call[q] /\ pc'[q] = pc[q]
                                        /\ answer'[q] = answer[q]
      BY <2>1 DEF Accept, Inv, RequestsInv, RequestsTypeOK, HandlersReady
    <2>3. \A q \in Reqs : Rotated(q)' => Rotated(q) /\ call'[q] = call[q]
      BY <2>2 DEF Rotated, Answers
    <2> QED BY <1>3, <1>4, <2>3, OthersShrink DEF Inv
  <1>5. CASE Clock \/ Cleanup \/ UNCHANGED vars
    <2>1. \A q \in Reqs : Rotated(q)' => Rotated(q) /\ call'[q] = call[q]
      BY <1>5 DEF Clock, Cleanup, vars, locals, Rotated
    <2> QED BY <1>3, <1>5, <2>1, OthersShrink DEF Inv
  <1>6. CASE Die
    <2>1. \A q \in Reqs : Rotated(q)' => Rotated(q) /\ call'[q] = call[q]
      BY <1>6 DEF Die, Crash, InFlight, Rotated
    <2> QED BY <1>3, <1>6, <2>1, OthersShrink DEF Inv
  <1> QED BY <1>2, <1>4, <1>5, <1>6 DEF Next

\* If the engine reports a DELETE that hits nothing, a refresh token is good for
\* at most one new pair of tokens, however many requests present it at once.
THEOREM Rotation == Spec => []RotationSingleUse
  <1>1. RotationInv => RotationSingleUse
    BY DEF RotationInv, RotationSingleUse
  <1> QED BY <1>1, RotationInit, RotationNext, Invariant, Stored, PTL DEF Spec

----------------------------------------------------------------------------
(* ResetRevokesExisting *)

\* A reset is somewhere in its handler.
Resetting ==
  \A r \in Reqs : call[r].op = "reset" => pc[r] \in ResetLabels \cup {"done"}

\* The sessions of a reset were handed out before it.
OldSessions == \A r \in Reqs : \A t \in sessionsAtReset[r] : HandedOut(t)

\* What a reset has still to revoke belongs to its account.
RevokePending ==
  \A r \in Reqs : call[r].op = "reset" /\ pc[r] \in {"reset.delete", "reset.revoke"} =>
    \A t \in sessionsAtReset[r] : Live(t) => refreshTokens[t].user = account[r]

\* The strengthening of ResetRevokesExisting.
ResetInv == Resetting /\ OldSessions /\ RevokePending /\ ResetRevokesExisting

\* A session that was handed out never comes back, nor changes hands.
LEMMA HandedOutShrinks ==
  ASSUME Inv, [Next]_vars, NEW t \in Reqs, HandedOut(t), refreshTokens'[t] # Nil
  PROVE  Live(t) /\ refreshTokens'[t].user = refreshTokens[t].user
  <1>1. CASE SessionsShrink
    BY <1>1 DEF SessionsShrink, Live
  <1>2. ASSUME NEW r \in Reqs, Step(r), pc[r] = "mint"
        PROVE  Live(t) /\ refreshTokens'[t].user = refreshTokens[t].user
    <2>1. t # r
      BY <1>2 DEF HandedOut, Inv, RequestsInv, HandlersReady, Answers
    <2>2. refreshTokens'[t] = refreshTokens[t]
      BY <1>2, <2>1, StatementOf, Minting DEF Inv, StoreInv, StoreTypeOK
    <2> QED BY <2>2 DEF Live
  <1>3. ASSUME NEW r \in Reqs, Step(r), pc[r] # "mint"
        PROVE  Live(t) /\ refreshTokens'[t].user = refreshTokens[t].user
    BY <1>1, <1>3, StepShrinks DEF Inv
  <1> QED BY <1>1, <1>2, <1>3, OthersShrink DEF Next, Inv

\* Only the password UPDATE of a reset records sessions.
LEMMA StepHistory ==
  ASSUME NEW r \in Reqs, Step(r), pc[r] # "reset.update"
  PROVE  UNCHANGED sessionsAtReset
  <1>1. CASE RegisterLookup(r) \/ CreateOrganization(r) \/ RegisterUser(r)
             \/ SendVerificationEmail(r) \/ GenerateTokens(r)
    BY <1>1 DEF RegisterLookup, CreateOrganization, RegisterUser, SendVerificationEmail,
       GenerateTokens
  <1>2. CASE \/ LoginLookup(r) \/ LoginWithTwoFA(r)
             \/ RefreshLookup(r) \/ RefreshPurge(r) \/ RefreshUser(r) \/ RefreshDelete(r)
             \/ Logout(r)
    BY <1>2 DEF LoginLookup, LoginWithTwoFA, RefreshLookup, RefreshPurge, RefreshUser,
       RefreshDelete, Logout
  <1>3. CASE \/ VerifyEmailLookup(r) \/ VerifyEmailPurge(r) \/ VerifyEmailUser(r)
             \/ VerifyEmailUpdate(r) \/ VerifyEmailDelete(r)
             \/ ForgotPasswordLookup(r) \/ ForgotPasswordCreate(r)
    BY <1>3 DEF VerifyEmailLookup, VerifyEmailPurge, VerifyEmailUser, VerifyEmailUpdate,
       VerifyEmailDelete, ForgotPasswordLookup, ForgotPasswordCreate, LinkLookup, LinkPurge
  <1>4. CASE \/ ResetPasswordLookup(r) \/ ResetPasswordPurge(r) \/ ResetPasswordUser(r)
             \/ ResetPasswordDelete(r) \/ ResetPasswordRevoke(r)
    BY <1>4 DEF ResetPasswordLookup, ResetPasswordPurge, ResetPasswordUser,
       ResetPasswordDelete, ResetPasswordRevoke, LinkLookup, LinkPurge
  <1>5. CASE NoProfile(r) \/ SetupLookup(r) \/ ConfirmLookup(r) \/ DisableLookup(r)
             \/ TwoFAUpdate(r)
    BY <1>5 DEF NoProfile, SetupLookup, ConfirmLookup, DisableLookup, TwoFAUpdate
  <1>6. CASE StepOAuth(r)
    BY <1>6 DEF StepOAuth, OAuthProvider, OAuthEmail, OAuthUser
  <1> QED BY <1>1, <1>2, <1>3, <1>4, <1>5, <1>6, Statements DEF Step, StepAuth

\* What a step of a reset does: it records the sessions, keeps what is left to
\* revoke, or revokes it.
LEMMA ResetSteps ==
  ASSUME Inv, NEW r \in Reqs, Step(r), pc[r] \in ResetLabels
  PROVE  /\ pc'[r] \in ResetLabels \cup {"done"}
         /\ pc'[r] \in {"reset.delete", "reset.revoke"} =>
              /\ account'[r] = account[r]
              /\ UNCHANGED refreshTokens
              /\ \/ /\ pc[r] = "reset.update"
                    /\ sessionsAtReset' = [sessionsAtReset EXCEPT ![r] = SessionsOf(account[r])]
                 \/ pc[r] = "reset.delete"
         /\ answer'[r] = "ok" =>
              pc[r] = "reset.revoke" /\ DeleteRefreshTokens(SessionsOf(account[r]))
  <1> USE DEF Inv, RequestsInv, RequestsTypeOK, ResetLabels
  <1>0. answer[r] = Nil /\ Nil # "ok"
    BY StatementOf DEF HandlersReady, Answers
  <1>1. CASE pc[r] = "reset.lookup"
    <2>1. Respond(r, "invalid") \/ Goto(r, "reset.purge")
          \/ \E e : GotoFor(r, "reset.user", e)
      BY <1>1, StatementOf DEF ResetPasswordLookup, LinkLookup
    <2> QED BY <1>0, <1>1, <2>1 DEF Respond, Goto, GotoFor
  <1>2. CASE pc[r] = "reset.purge"
    BY <1>0, <1>2, StatementOf DEF ResetPasswordPurge, LinkPurge, Respond
  <1>3. CASE pc[r] = "reset.user"
    <2>1. Respond(r, "invalid") \/ Respond(r, "error") \/ \E w : GotoWith(r, "reset.update", w)
      BY <1>3, StatementOf DEF ResetPasswordUser, Fails, Reject
    <2> QED BY <1>0, <1>3, <2>1 DEF Respond, GotoWith
  <1>4. CASE pc[r] = "reset.update"
    BY <1>0, <1>4, StatementOf
       DEF ResetPasswordUpdate, Fails, Reject, Respond, GotoWritten, GotoWith
  <1>5. CASE pc[r] = "reset.delete"
    BY <1>0, <1>5, StatementOf DEF ResetPasswordDelete, Goto
  <1>6. CASE pc[r] = "reset.revoke"
    BY <1>0, <1>6, StatementOf DEF ResetPasswordRevoke, Fails, Reject, Respond
  <1> QED BY <1>1, <1>2, <1>3, <1>4, <1>5, <1>6

\* Initially nobody resets a password.
LEMMA ResetInit == Init => ResetInv
  <1> SUFFICES ASSUME Init PROVE ResetInv
    OBVIOUS
  <1>1. \A r \in Reqs : call[r].op # "reset" /\ sessionsAtReset[r] = {}
    BY DEF Init, RequestsInit, NoCall, AllOps
  <1> QED BY <1>1 DEF ResetInv, Resetting, OldSessions, RevokePending, ResetRevokesExisting,
                      Answered

\* A step that records nothing, moves no reset on and answers none keeps the
\* invariant.
LEMMA ResetFrame ==
  ASSUME Inv, ResetInv, [Next]_vars, UNCHANGED sessionsAtReset,
         \A q \in Reqs : call'[q].op = "reset" =>
           \/ /\ call'[q] = call[q]
              /\ pc'[q] = pc[q] \/ pc'[q] = "done"
              /\ account'[q] = account[q]
              /\ answer'[q] = "ok" => answer[q] = "ok"
           \/ pc'[q] = "reset.lookup" /\ answer'[q] # "ok"
  PROVE  ResetInv'
  <1>1. \A r \in Reqs : \A t \in sessionsAtReset[r] :
          /\ HandedOut(t) /\ HandedOut(t)'
          /\ Live(t)' => Live(t) /\ refreshTokens'[t].user = refreshTokens[t].user
    BY AnswersFinal, HandedOutShrinks DEF Inv, ResetInv, OldSessions, HandedOut, Live, Answers
  <1> QED BY <1>1 DEF ResetInv, Resetting, OldSessions, RevokePending, ResetRevokesExisting,
                      Answered, ResetLabels

\* Every step of a handler keeps ResetInv.
LEMMA ResetStep ==
  ASSUME Inv, StoredIsHandedOut, ResetInv, NEW r \in Reqs, Step(r), [Next]_vars
  PROVE  ResetInv'
  <1>1. /\ pc[r] # "done" /\ call' = call
        /\ \A q \in Reqs \ {r} : /\ pc'[q] = pc[q]
                                 /\ account'[q] = account[q]
                                 /\ answer'[q] = answer[q]
    BY StatementOf, StepMoves, MovingFrame DEF Inv, RequestsInv
  <1>2. CASE call[r].op # "reset" /\ pc[r] # "reset.update"
    BY <1>1, <1>2, StepHistory, ResetFrame
  <1>3. CASE pc[r] \in ResetLabels
    <2>1. \A q \in Reqs : q # r => sessionsAtReset'[q] = sessionsAtReset[q]
      <3>1. CASE pc[r] = "reset.update"
        BY <3>1, StatementOf DEF ResetPasswordUpdate, Inv
      <3> QED BY <3>1, StepHistory
    <2>2. \A q \in Reqs : \A t \in sessionsAtReset'[q] : t \in Reqs /\ HandedOut(t)
      <3>1. CASE pc[r] = "reset.update"
        BY <3>1, StatementOf DEF ResetPasswordUpdate, Inv, ResetInv, OldSessions, SessionsOf,
           StoredIsHandedOut, Live
      <3> QED BY <3>1, StepHistory DEF Inv, ResetInv, OldSessions
    <2>3. \A q \in Reqs : \A t \in sessionsAtReset'[q] :
            /\ HandedOut(t)'
            /\ Live(t)' => Live(t) /\ refreshTokens'[t].user = refreshTokens[t].user
      BY <2>2, AnswersFinal, HandedOutShrinks DEF HandedOut, Live, Answers
    <2>4. Resetting'
      BY <1>1, <1>3, ResetSteps DEF ResetInv, Resetting
    <2>5. RevokePending'
      <3> SUFFICES ASSUME NEW q \in Reqs, call[q].op = "reset",
                          pc'[q] \in {"reset.delete", "reset.revoke"},
                          NEW t \in sessionsAtReset'[q], Live(t)'
                   PROVE  refreshTokens'[t].user = account'[q]
        BY <1>1 DEF RevokePending
      <3>1. CASE q # r
        BY <1>1, <2>1, <2>3, <3>1 DEF ResetInv, RevokePending
      <3>2. CASE q = r /\ pc[r] = "reset.update"
        <4>1. sessionsAtReset'[r] = SessionsOf(account[r]) /\ account'[r] = account[r]
          BY <1>3, <3>2, ResetSteps DEF Inv
        <4> QED BY <2>3, <3>2, <4>1 DEF SessionsOf
      <3>3. CASE q = r /\ pc[r] = "reset.delete"
        BY <1>3, <2>3, <3>3, ResetSteps, StepHistory DEF ResetInv, RevokePending
      <3> QED BY <1>3, <3>1, <3>2, <3>3, ResetSteps
    <2>6. ResetRevokesExisting'
      <3> SUFFICES ASSUME NEW q \in Reqs, call[q].op = "reset", answer'[q] = "ok",
                          NEW t \in sessionsAtReset'[q]
                   PROVE  ~Live(t)'
        BY <1>1 DEF ResetRevokesExisting, Answered
      <3>1. CASE q # r
        BY <1>1, <2>1, <2>3, <3>1 DEF ResetInv, ResetRevokesExisting, Answered
      <3>2. CASE q = r
        <4>1. /\ pc[r] = "reset.revoke"
              /\ DeleteRefreshTokens(SessionsOf(account[r]))
              /\ sessionsAtReset' = sessionsAtReset
          BY <1>3, <3>2, ResetSteps, StepHistory
        <4>2. Live(t) => t \in SessionsOf(account[r])
          BY <2>2, <3>2, <4>1 DEF ResetInv, RevokePending, SessionsOf, Live
        <4> QED BY <2>2, <2>3, <4>1, <4>2 DEF DeleteRefreshTokens, Live
      <3> QED BY <3>1, <3>2
    <2>7. OldSessions'
      BY <2>3 DEF OldSessions
    <2> QED BY <2>4, <2>5, <2>6, <2>7 DEF ResetInv
  <1> QED BY <1>1, <1>2, <1>3 DEF ResetInv, Resetting, ResetLabels

\* Every step keeps ResetInv.
LEMMA ResetNext ==
  Inv /\ StoredIsHandedOut /\ ResetInv /\ [Next]_vars => ResetInv'
  <1> SUFFICES ASSUME Inv, StoredIsHandedOut, ResetInv, [Next]_vars PROVE ResetInv'
    OBVIOUS
  <1>1. ASSUME NEW r \in Reqs, Receive(r) PROVE ResetInv'
    <2>1. PICK c, a, first :
            Accept(r, c, a, first) /\ (c.op = "reset" => first = "reset.lookup")
      BY <1>1, Received DEF Fits, Endpoints
    <2>2. \A q \in Reqs :
            IF q = r THEN call'[q] = c /\ pc'[q] = first /\ answer'[q] = Nil
            ELSE /\ call'[q] = call[q] /\ pc'[q] = pc[q]
                 /\ account'[q] = account[q] /\ answer'[q] = answer[q]
      BY <2>1 DEF Accept, Inv, RequestsInv, RequestsTypeOK, HandlersReady
    <2> QED BY <1>1, <2>1, <2>2, Received, ResetFrame DEF Answers
  <1>2. ASSUME NEW r \in Reqs, Step(r) PROVE ResetInv'
    BY <1>2, ResetStep
  <1>3. CASE Clock \/ Cleanup \/ UNCHANGED vars
    BY <1>3, ResetFrame DEF Clock, Cleanup, vars, locals
  <1>4. CASE Die
    BY <1>4, ResetFrame DEF Die, Crash
  <1> QED BY <1>1, <1>2, <1>3, <1>4 DEF Next

\* After a reset that is answered with success no session is left of those that
\* existed when the password changed, whatever other requests do meanwhile.
THEOREM Revocation == Spec => []ResetRevokesExisting
  <1>1. ResetInv => ResetRevokesExisting
    BY DEF ResetInv
  <1> QED BY <1>1, ResetInit, ResetNext, Invariant, Stored, PTL DEF Spec

----------------------------------------------------------------------------
(* SessionEndsForAReason *)

\* Of what a step of a handler does to sessions: what it takes to end one.
LEMMA StepEndsSession ==
  ASSUME Inv, CourseInv, NEW r \in Reqs, Step(r), NEW t \in Reqs, Live(t),
         refreshTokens'[t] = Nil
  PROVE  /\ pc'[r] # pc[r]
         /\ \/ call[r].op \in {"refresh", "logout"} /\ call[r].token = t
            \/ call[r].op = "reset" /\ account[r] = refreshTokens[t].user
  <1>0. RequestsTypeOK /\ refreshTokens \in [Reqs -> RefreshRow \cup {Nil}]
    BY DEF Inv, RequestsInv, StoreInv, StoreTypeOK
  <1>1. CASE /\ pc[r] \in {"refresh.purge", "refresh.delete", "logout.delete"}
             /\ DeleteRefreshTokens({call[r].token})
    <2>1. call[r].token = t
      BY <1>1 DEF DeleteRefreshTokens, Live
    <2>2. call[r].op \in {"refresh", "logout"}
      BY <1>1 DEF CourseInv, OnCourse, Handler, RegisterLabels, RefreshLabels, VerifyLabels,
                  ForgotLabels, ResetLabels, AllOps
    <2>3. \/ \E s : Respond(r, s)
          \/ pc[r] = "refresh.delete" /\ Goto(r, "mint")
      BY <1>1, Statements DEF Step, StepAuth, StepOAuth, RefreshPurge, RefreshDelete, Logout,
         Fails, Reject
    <2>4. pc'[r] # pc[r]
      BY <1>0, <1>1, <2>3 DEF Respond, Goto, RequestsTypeOK
    <2> QED BY <2>1, <2>2, <2>4
  <1>2. CASE pc[r] = "reset.revoke" /\ DeleteRefreshTokens(SessionsOf(account[r]))
    <2>1. account[r] = refreshTokens[t].user
      BY <1>2 DEF DeleteRefreshTokens, SessionsOf, Live
    <2>2. call[r].op = "reset"
      BY <1>2 DEF CourseInv, OnCourse, Handler, RegisterLabels, RefreshLabels, VerifyLabels,
                  ForgotLabels, ResetLabels, AllOps
    <2>3. \E s : Respond(r, s)
      BY <1>2, StatementOf DEF ResetPasswordRevoke, Fails, Reject
    <2>4. pc'[r] # pc[r]
      BY <1>0, <1>2, <2>3 DEF Respond, RequestsTypeOK
    <2> QED BY <2>1, <2>2, <2>4
  <1>3. CASE pc[r] = "mint" /\ GenerateTokens(r)
    <2>1. account[r] \in Emails
      BY <1>3, Known DEF ForAccount
    <2>2. [user |-> account[r], expired |-> FALSE] \in RefreshRow
      BY <2>1 DEF RefreshRow
    <2> QED BY <1>0, <1>3, <2>2, Minting DEF Live
  <1> QED BY <1>1, <1>2, <1>3, StepSessions DEF Live

\* Outside the handlers only the clean-up deletes sessions, and what has expired.
LEMMA OthersEndSession ==
  ASSUME Inv, NEW t \in Reqs, Live(t), refreshTokens'[t] = Nil,
         \/ \E r \in Reqs : Receive(r)
         \/ Clock \/ Cleanup \/ Die \/ UNCHANGED vars
  PROVE  refreshTokens[t].expired
  <1>1. CASE \/ \E r \in Reqs : Receive(r)
             \/ Die \/ UNCHANGED vars
    BY <1>1, Received DEF Die, Crash, vars, tables, Live
  <1>2. CASE Cleanup
    BY <1>2 DEF Cleanup, CleanupExpiredTokens, DeleteRefreshTokens, ExpiredSessions, Live
  <1>3. CASE Clock
    <2>1. PICK u \in Reqs : ExpireRefreshToken(u) \/ UNCHANGED refreshTokens
      BY <1>3 DEF Clock, ExpireVerificationToken
    <2>2. CASE ExpireRefreshToken(u)
      <3> DEFINE session == [refreshTokens[u] EXCEPT !.expired = TRUE]
      <3>1. session \in RefreshRow
        <4>1. refreshTokens[u] \in RefreshRow
          BY <2>2 DEF ExpireRefreshToken, Inv, StoreInv, StoreTypeOK
        <4> QED BY <4>1 DEF RefreshRow
      <3>2. refreshTokens' = [refreshTokens EXCEPT ![u] = session]
        BY <2>2 DEF ExpireRefreshToken
      <3> HIDE DEF session
      <3> QED BY <3>1, <3>2 DEF Inv, StoreInv, StoreTypeOK, Live
    <2> QED BY <2>1, <2>2 DEF Live
  <1> QED BY <1>1, <1>2, <1>3

\* Tokens are answered only in the step that stores their session, for the account
\* of the request.
LEMMA TokensStored ==
  ASSUME Inv, [Next]_vars, NEW t \in Reqs, answer'[t] = "tokens", answer[t] # "tokens"
  PROVE  /\ refreshTokens'[t] # Nil
         /\ refreshTokens'[t].user = account'[t]
  <1>0. RequestsTypeOK /\ refreshTokens \in [Reqs -> RefreshRow \cup {Nil}]
    BY DEF Inv, RequestsInv, StoreInv, StoreTypeOK
  <1>1. ASSUME NEW r \in Reqs, Step(r)
        PROVE  refreshTokens'[t] # Nil /\ refreshTokens'[t].user = account'[t]
    <2>1. r = t /\ answer[r] = Nil
      BY <1>0, <1>1, StepMoves, MovingFrame, StatementOf DEF Inv, RequestsInv, HandlersReady
    <2>2. pc[r] = "mint" /\ GenerateTokens(r)
      BY <1>0, <1>1, <2>1, StepAnswers, StatementOf
    <2>3. refreshTokens' = [refreshTokens EXCEPT ![r] = [user |-> account[r],
                                                         expired |-> FALSE]]
      BY <2>1, <2>2, Minting
    <2>4. account[r] \in Emails
      BY <2>2, Known DEF ForAccount
    <2>5. [user |-> account[r], expired |-> FALSE] \in RefreshRow
      BY <2>4 DEF RefreshRow
    <2>6. account'[r] = account[r]
      BY <2>2 DEF GenerateTokens, Respond, Fails, Reject
    <2> QED BY <1>0, <2>1, <2>3, <2>5, <2>6
  <1>2. ASSUME NEW r \in Reqs, Receive(r) PROVE FALSE
    <2>1. PICK c, a, first : Accept(r, c, a, first)
      BY <1>2, Received
    <2> QED BY <2>1 DEF Accept
  <1>3. CASE Clock \/ Cleanup \/ UNCHANGED vars
    BY <1>3 DEF Clock, Cleanup, vars, locals
  <1>4. CASE Die
    BY <1>0, <1>4 DEF Die, Crash, InFlight
  <1> QED BY <1>1, <1>2, <1>3, <1>4 DEF Next

\* A session is stored before its token is handed out, and leaves the table only
\* because it expired, was rotated or logged out, or its account's password was
\* reset: SessionEndsForAReason.
THEOREM SessionEnds == Spec => SessionEndsForAReason
  <1> DEFINE Reasons ==
        \A t \in Reqs :
          /\ answer'[t] = "tokens" /\ answer[t] # "tokens" => refreshTokens'[t] # Nil
          /\ Live(t) /\ refreshTokens'[t] = Nil =>
               \/ refreshTokens[t].expired
               \/ \E r \in Reqs :
                    /\ pc'[r] # pc[r]
                    /\ \/ call[r].op \in {"refresh", "logout"} /\ call[r].token = t
                       \/ call[r].op = "reset" /\ account[r] = refreshTokens[t].user
  <1>1. Inv /\ CourseInv /\ [Next]_vars => Reasons
    BY TokensStored, StepEndsSession, OthersEndSession DEF Next
  <1>2. Inv /\ CourseInv /\ [Next]_vars => [Reasons]_vars
    BY <1>1
  <1> QED BY <1>2, Course, Invariant, PTL DEF Spec, SessionEndsForAReason

----------------------------------------------------------------------------
(* Sign-ins: OneSessionPerSignIn *)

\* A sign-in is named by its first request, which belongs to itself; whoever
\* belongs to one has come to the INSERT of its session, and a session that is
\* held belongs to one.
SignInsDescribed ==
  /\ signIn \in [Reqs -> Reqs \cup {Nil}]
  /\ \A t \in Reqs : signIn[t] # Nil => /\ signIn[signIn[t]] = signIn[t]
                                        /\ pc[t] \in {"mint", "done"}
  /\ DeleteMissingFails => \A t \in Reqs : Held(t) => signIn[t] # Nil

\* The inductive strengthening of OneSessionPerSignIn: a request that starts a
\* sign-in finds nobody in it, and one that carries a sign-in on has deleted the
\* only session that was left of it.
SignInInv == SignInsDescribed /\ OneSessionPerSignIn

\* What is proved of Server holds of Server with the history.
ServerInv == Inv /\ CourseInv /\ StoredIsHandedOut /\ RotationInv

\* The step brings nobody to the INSERT of a session and stores none that was not
\* about to be.
Quiet ==
  /\ \A t \in Reqs : ~Minted(t)
  /\ \A t \in Reqs : Held(t)' => Held(t)

\* The request comes to the INSERT of a session, alone, and of the sessions those
\* in T go.
Arrives(r, T) ==
  /\ Minted(r) /\ pc[r] # "done"
  /\ \A q \in Reqs \ {r} : pc'[q] = pc[q]
  /\ DeleteRefreshTokens(T)

\* The request starts a sign-in.
Starts(r) == call[r].op # "refresh" /\ Arrives(r, {})

\* The request carries on the sign-in of the session it rotates.
CarriesOn(r) ==
  /\ call[r].op = "refresh"
  /\ call[r].token \in Reqs
  /\ pc[call[r].token] = "done"
  /\ DeleteMissingFails => Live(call[r].token)
  /\ Arrives(r, {call[r].token})

----------------------------------------------------------------------------
(* How handlers come to the INSERT of a session. *)

\* Outside Refresh no handler deletes a session on its way to the INSERT of one.
LEMMA StepsToMint ==
  ASSUME RequestsTypeOK, NEW r \in Reqs, Step(r), pc[r] \notin RefreshLabels \cup {"mint"}
  PROVE  pc'[r] = "mint" => UNCHANGED refreshTokens
  <1> USE DEF RefreshLabels
  <1>1. /\ \A l : Goto(r, l) => pc'[r] = l
        /\ \A l, a : GotoFor(r, l, a) => pc'[r] = l
        /\ \A l, w : GotoWith(r, l, w) => pc'[r] = l
        /\ \A l : GotoWritten(r, l) => pc'[r] = l
        /\ \A s : Respond(r, s) \/ Reject(r, s) \/ Fails(r, s) => pc'[r] = "done"
        /\ \A s, a : RespondFor(r, s, a) => pc'[r] = "done"
    BY DEF RequestsTypeOK, Goto, GotoFor, GotoWith, GotoWritten, Respond, Reject, Fails,
           RespondFor
  <1>2. CASE RegisterLookup(r) \/ CreateOrganization(r) \/ RegisterUser(r)
             \/ SendVerificationEmail(r)
    BY <1>1, <1>2 DEF RegisterLookup, CreateOrganization, RegisterUser,
       SendVerificationEmail, tables
  <1>3. CASE LoginLookup(r) \/ LoginWithTwoFA(r) \/ Logout(r)
    BY <1>1, <1>3 DEF LoginLookup, LoginWithTwoFA, Logout, tables
  <1>4. CASE \/ VerifyEmailLookup(r) \/ VerifyEmailPurge(r) \/ VerifyEmailUser(r)
             \/ VerifyEmailUpdate(r) \/ VerifyEmailDelete(r)
             \/ ForgotPasswordLookup(r) \/ ForgotPasswordCreate(r)
    BY <1>1, <1>4 DEF VerifyEmailLookup, VerifyEmailPurge, VerifyEmailUser,
       VerifyEmailUpdate, VerifyEmailDelete, ForgotPasswordLookup, ForgotPasswordCreate,
       LinkLookup, LinkPurge
  <1>5. CASE \/ ResetPasswordLookup(r) \/ ResetPasswordPurge(r) \/ ResetPasswordUser(r)
             \/ ResetPasswordUpdate(r) \/ ResetPasswordDelete(r) \/ ResetPasswordRevoke(r)
    BY <1>1, <1>5 DEF ResetPasswordLookup, ResetPasswordPurge, ResetPasswordUser,
       ResetPasswordUpdate, ResetPasswordDelete, ResetPasswordRevoke, LinkLookup, LinkPurge
  <1>6. CASE NoProfile(r) \/ SetupLookup(r) \/ ConfirmLookup(r) \/ DisableLookup(r)
             \/ TwoFAUpdate(r)
    BY <1>1, <1>6 DEF NoProfile, SetupLookup, ConfirmLookup, DisableLookup, TwoFAUpdate
  <1>7. CASE StepOAuth(r)
    BY <1>1, <1>7 DEF StepOAuth, OAuthProvider, OAuthEmail, OAuthUser, tables
  <1> QED BY <1>2, <1>3, <1>4, <1>5, <1>6, <1>7, Statements DEF Step, StepAuth

\* The handler that steps starts a sign-in, carries one on, or does neither.
LEMMA StepKinds ==
  ASSUME ServerInv, NEW r \in Reqs, Step(r)
  PROVE  Quiet \/ Starts(r) \/ CarriesOn(r)
  <1> USE DEF ServerInv
  <1>1. /\ pc[r] # "done"
        /\ \A q \in Reqs \ {r} : pc'[q] = pc[q]
        /\ refreshTokens \in [Reqs -> RefreshRow \cup {Nil}]
    BY StatementOf, StepMoves, MovingFrame DEF Inv, RequestsInv, StoreInv, StoreTypeOK
  <1>2. CASE pc[r] = "mint"
    <2>1. /\ pc'[r] = "done"
          /\ \A t \in Reqs \ {r} : refreshTokens'[t] = refreshTokens[t]
      BY <1>1, <1>2, StatementOf, Minting
    <2> QED BY <1>1, <1>2, <2>1 DEF Quiet, Minted, Held, Live
  <1>3. CASE pc[r] # "mint" /\ pc'[r] # "mint"
    <2>1. SessionsShrink
      BY <1>3, StepShrinks DEF Inv
    <2> QED BY <1>1, <1>3, <2>1 DEF Quiet, Minted, Held, Live, SessionsShrink
  <1>4. CASE pc[r] # "mint" /\ pc'[r] = "mint" /\ pc[r] \in RefreshLabels
    <2>1. call[r].op = "refresh" /\ call[r].token \in Reqs /\ HandedOut(call[r].token)
      BY <1>1, <1>4 DEF CourseInv, OnCourse, Handler, RegisterLabels, RefreshLabels, VerifyLabels,
         ForgotLabels, ResetLabels, AllOps, RotationInv, Refreshing
    <2>2. DeleteRefreshTokens({call[r].token}) /\ DeleteSucceeds(Live(call[r].token))
      BY <1>4, RefreshSteps
    <2>3. pc[call[r].token] = "done"
      BY <2>1 DEF HandedOut, Inv, RequestsInv, HandlersReady, Answers
    <2> QED BY <1>1, <1>4, <2>1, <2>2, <2>3 DEF CarriesOn, Arrives, Minted, DeleteSucceeds
  <1>5. CASE pc[r] # "mint" /\ pc'[r] = "mint" /\ pc[r] \notin RefreshLabels
    <2>1. UNCHANGED refreshTokens
      BY <1>5, StepsToMint DEF Inv, RequestsInv
    <2>2. call[r].op # "refresh"
      BY <1>1, <1>5 DEF RotationInv, Refreshing
    <2>3. DeleteRefreshTokens({})
      BY <1>1, <2>1 DEF DeleteRefreshTokens
    <2> QED BY <1>1, <1>5, <2>2, <2>3 DEF Starts, Arrives, Minted
  <1> QED BY <1>2, <1>3, <1>4, <1>5

\* So does every step of the server.
LEMMA NextKinds ==
  ASSUME ServerInv, [Next]_vars
  PROVE  Quiet \/ \E r \in Reqs : Starts(r) \/ CarriesOn(r)
  <1> USE DEF ServerInv
  <1>1. ASSUME NEW r \in Reqs, Receive(r) PROVE Quiet
    <2>1. PICK c, a, first : Accept(r, c, a, first) /\ first # "mint"
      BY <1>1, Received DEF Fits, Endpoints
    <2>2. UNCHANGED refreshTokens
      BY <1>1, Received DEF tables
    <2>3. \A q \in Reqs : pc'[q] = "mint" => pc[q] = "mint"
      BY <2>1 DEF Accept, Inv, RequestsInv, RequestsTypeOK
    <2> QED BY <2>2, <2>3 DEF Quiet, Minted, Held, Live
  <1>2. CASE Clock \/ Cleanup \/ Die \/ UNCHANGED vars
    <2>1. SessionsShrink
      BY <1>2, OthersShrink DEF Inv
    <2>2. \A q \in Reqs : pc'[q] = "mint" => pc[q] = "mint"
      BY <1>2 DEF Clock, Cleanup, Die, Crash, vars, locals
    <2> QED BY <2>1, <2>2 DEF Quiet, Minted, Held, Live, SessionsShrink
  <1> QED BY <1>1, <1>2, StepKinds DEF Next

----------------------------------------------------------------------------
(* OneSessionPerSignIn *)

\* What the history records in each kind of step.
LEMMA HistoryOf ==
  ASSUME SignInInv, SignInNext \/ UNCHANGED signInVars
  PROVE  /\ Quiet => UNCHANGED signIn
         /\ \A r \in Reqs : Starts(r) => /\ signIn[r] = Nil
                                          /\ signIn' = [signIn EXCEPT ![r] = r]
         /\ \A r \in Reqs :
              CarriesOn(r) => /\ signIn[r] = Nil
                              /\ signIn' = [signIn EXCEPT ![r] = signIn[call[r].token]]
  <1> USE DEF SignInInv, SignInsDescribed
  <1>1. CASE UNCHANGED signInVars
    BY <1>1 DEF signInVars, vars, locals, Starts, CarriesOn, Arrives, Minted
  <1>2. CASE SignInNext
    <2>1. signIn' = [q \in Reqs |-> IF Minted(q) THEN SignInOf(q) ELSE signIn[q]]
      BY <1>2 DEF SignInNext
    <2>2. Quiet => UNCHANGED signIn
      BY <2>1 DEF Quiet
    <2>3. ASSUME NEW r \in Reqs, NEW T, Arrives(r, T)
          PROVE  /\ signIn[r] = Nil
                 /\ signIn' = [signIn EXCEPT ![r] = SignInOf(r)]
      <3>1. \A q \in Reqs : Minted(q) <=> q = r
        BY <2>3 DEF Arrives, Minted
      <3> QED BY <2>1, <2>3, <3>1 DEF Arrives, Minted
    <2> QED BY <2>2, <2>3 DEF Starts, CarriesOn, SignInOf
  <1> QED BY <1>1, <1>2

\* After an arrival the sessions held are those held before without T, and the
\* one that is about to be stored.
LEMMA HeldAfter ==
  ASSUME NEW r \in Reqs, NEW T, Arrives(r, T), NEW t \in Reqs, t \in T => pc[t] = "done"
  PROVE  Held(t)' <=> t = r \/ (Held(t) /\ t \notin T)
  BY DEF Arrives, Minted, Held, Live, DeleteRefreshTokens

\* A quiet step keeps the invariant: the history is as it was.
LEMMA QuietKeeps ==
  ASSUME Inv, [Next]_vars, SignInInv, Quiet, UNCHANGED signIn
  PROVE  SignInInv'
  <1>1. \A t \in Reqs : pc[t] \in {"mint", "done"} => pc'[t] \in {"mint", "done"}
    BY SettledFinal DEF Settled
  <1>2. SignInsDescribed'
    BY <1>1 DEF SignInInv, SignInsDescribed, Quiet
  <1>3. OneSessionPerSignIn'
    BY DEF SignInInv, OneSessionPerSignIn, Quiet
  <1> QED BY <1>2, <1>3 DEF SignInInv

\* A sign-in that starts finds nobody in it.
LEMMA SignInFree ==
  ASSUME SignInInv, NEW r \in Reqs, signIn[r] = Nil
  PROVE  \A t \in Reqs : signIn[t] # r
  BY DEF SignInInv, SignInsDescribed

\* The request that starts a sign-in holds its only session.
LEMMA StartsKeeps ==
  ASSUME Inv, [Next]_vars, SignInInv, NEW r \in Reqs, Starts(r),
         signIn[r] = Nil, signIn' = [signIn EXCEPT ![r] = r]
  PROVE  SignInInv'
  <1>1. \A t \in Reqs : pc[t] \in {"mint", "done"} => pc'[t] \in {"mint", "done"}
    BY SettledFinal DEF Settled
  <1>2. \A t \in Reqs : Held(t)' <=> t = r \/ Held(t)
    BY HeldAfter DEF Starts
  <1>3. pc'[r] = "mint"
    BY DEF Starts, Arrives, Minted
  <1>4. SignInsDescribed'
    BY <1>1, <1>2, <1>3, SignInFree DEF SignInInv, SignInsDescribed
  <1>5. OneSessionPerSignIn'
    BY <1>2, SignInFree DEF SignInInv, SignInsDescribed, OneSessionPerSignIn
  <1> QED BY <1>4, <1>5 DEF SignInInv

\* The request that carries a sign-in on has deleted the session it held.
LEMMA CarriesOnKeeps ==
  ASSUME Inv, [Next]_vars, SignInInv, NEW r \in Reqs, CarriesOn(r),
         signIn[r] = Nil, signIn' = [signIn EXCEPT ![r] = signIn[call[r].token]]
  PROVE  SignInInv'
  <1> DEFINE u == call[r].token
  <1>1. \A t \in Reqs : pc[t] \in {"mint", "done"} => pc'[t] \in {"mint", "done"}
    BY SettledFinal DEF Settled
  <1>2. \A t \in Reqs : Held(t)' <=> t = r \/ (Held(t) /\ t # u)
    BY HeldAfter DEF CarriesOn
  <1>3. pc'[r] = "mint"
    BY DEF CarriesOn, Arrives, Minted
  <1>4. u \in Reqs /\ (DeleteMissingFails => Held(u))
    BY DEF CarriesOn, Held
  <1> HIDE DEF u
  <1>5. SignInsDescribed'
    BY <1>1, <1>2, <1>3, <1>4, SignInFree DEF SignInInv, SignInsDescribed, u
  <1>6. OneSessionPerSignIn'
    BY <1>2, <1>4 DEF SignInInv, SignInsDescribed, OneSessionPerSignIn, u
  <1> QED BY <1>5, <1>6 DEF SignInInv

\* Initially nobody has signed in.
LEMMA SignInInvInit == SignInInit => SignInInv
  <1> SUFFICES ASSUME SignInInit PROVE SignInInv
    OBVIOUS
  <1>1. /\ \A t \in Reqs : pc[t] = "idle" /\ ~Held(t)
        /\ signIn = [t \in Reqs |-> Nil]
    BY DEF SignInInit, Init, RequestsInit, StoreInit, Held, Live
  <1> QED BY <1>1 DEF SignInInv, SignInsDescribed, OneSessionPerSignIn

\* Every step keeps SignInInv.
LEMMA SignInInvNext ==
  ServerInv /\ SignInInv /\ [SignInNext]_signInVars => SignInInv'
  <1> SUFFICES ASSUME ServerInv, SignInInv, [SignInNext]_signInVars PROVE SignInInv'
    OBVIOUS
  <1>1. Inv /\ [Next]_vars
    BY DEF ServerInv, SignInNext, signInVars
  <1>2. Quiet \/ \E r \in Reqs : Starts(r) \/ CarriesOn(r)
    BY <1>1, NextKinds
  <1> QED BY <1>1, <1>2, HistoryOf, QuietKeeps, StartsKeeps, CarriesOnKeeps

\* Without its history, Server with the history is Server.
LEMMA HistoryHidden == SignInSpec => []ServerInv
  <1>1. SignInInit => Init
    BY DEF SignInInit
  <1>2. [SignInNext]_signInVars => [Next]_vars
    BY DEF SignInNext, signInVars
  <1>3. SignInSpec => Spec
    BY <1>1, <1>2, PTL DEF SignInSpec, Spec
  <1>4. Spec => [](Inv /\ CourseInv /\ StoredIsHandedOut /\ RotationInv)
    BY RotationInit, RotationNext, Stored, Course, Invariant, PTL DEF Spec
  <1> QED BY <1>3, <1>4, PTL DEF ServerInv

\* However logins, rotations, logouts, resets and the death of the process
\* interleave, a sign-in holds at most one session.
THEOREM OneSession == SignInSpec => []OneSessionPerSignIn
  <1>1. SignInInv => OneSessionPerSignIn
    BY DEF SignInInv
  <1> QED BY <1>1, SignInInvInit, SignInInvNext, HistoryHidden, PTL DEF SignInSpec

----------------------------------------------------------------------------
(* The refinement of Sessions *)

\* A sign-in nobody holds a session of has no token; the one who holds its only
\* session is its token.
TokensTold ==
  \A s \in Reqs :
    /\ (\A t \in Reqs : Held(t) => signIn[t] # s) => TokenOf(s) = Nil
    /\ \A t \in Reqs : Held(t) /\ signIn[t] = s => TokenOf(s) = t

\* Where sign-ins hold at most one session, the tokens are told.
LEMMA TokensAreTold ==
  DeleteMissingFails /\ OneSessionPerSignIn => TokensTold
  <1> SUFFICES ASSUME DeleteMissingFails, OneSessionPerSignIn, NEW s \in Reqs
               PROVE  /\ (\A t \in Reqs : Held(t) => signIn[t] # s) => TokenOf(s) = Nil
                      /\ \A t \in Reqs : Held(t) /\ signIn[t] = s => TokenOf(s) = t
    BY DEF TokensTold
  <1>1. (\A t \in Reqs : Held(t) => signIn[t] # s) => HeldBy(s) = {}
    BY DEF HeldBy
  <1>2. \A t \in Reqs : Held(t) /\ signIn[t] = s => HeldBy(s) = {t}
    BY DEF HeldBy, OneSessionPerSignIn
  <1> QED BY <1>1, <1>2 DEF TokenOf

\* A quiet step ends the sign-ins whose session is gone.
LEMMA QuietEnds ==
  ASSUME TokensTold, TokensTold', Quiet, UNCHANGED signIn
  PROVE  Promise!Next
  <1> DEFINE S == {s \in Reqs : \A t \in Reqs : Held(t)' => signIn'[t] # s}
  <1>1. ASSUME NEW s \in Reqs
        PROVE  TokenOf(s)' = IF s \in S THEN Nil ELSE [q \in Reqs |-> TokenOf(q)][s]
    BY DEF TokensTold, Quiet
  <1>2. Promise!End(S)
    BY <1>1 DEF Promise!End
  <1> QED BY <1>2 DEF Promise!Next

\* A request that starts a sign-in begins it.
LEMMA StartsBegins ==
  ASSUME TokensTold, TokensTold', SignInInv, NEW r \in Reqs, Starts(r),
         signIn[r] = Nil, signIn' = [signIn EXCEPT ![r] = r]
  PROVE  Promise!Begin(r, r)
  <1>1. \A t \in Reqs : Held(t)' <=> t = r \/ Held(t)
    BY HeldAfter DEF Starts
  <1>2. \A t \in Reqs : signIn'[t] = IF t = r THEN r ELSE signIn[t]
    BY DEF SignInInv, SignInsDescribed
  <1>3. TokenOf(r)' = r
    BY <1>1, <1>2 DEF TokensTold
  <1>4. \A s \in Reqs \ {r} : TokenOf(s)' = TokenOf(s)
    BY <1>1, <1>2, SignInFree DEF TokensTold, SignInInv, SignInsDescribed
  <1>5. [s \in Reqs |-> TokenOf(s)]' = [[s \in Reqs |-> TokenOf(s)] EXCEPT ![r] = r]
    BY <1>3, <1>4
  <1> QED BY <1>5, SignInFree DEF Promise!Begin, Promise!Issue

\* A request that carries a sign-in on rotates its token.
LEMMA CarriesOnRotates ==
  ASSUME TokensTold, TokensTold', SignInInv, DeleteMissingFails, NEW r \in Reqs, CarriesOn(r),
         signIn[r] = Nil, signIn' = [signIn EXCEPT ![r] = signIn[call[r].token]]
  PROVE  \E s \in Reqs : Promise!Rotate(s, r)
  <1> DEFINE u == call[r].token
  <1>1. \A t \in Reqs : Held(t)' <=> t = r \/ (Held(t) /\ t # u)
    BY HeldAfter DEF CarriesOn
  <1>2. u \in Reqs /\ Held(u)
    BY DEF CarriesOn, Held
  <1>3. PICK s0 \in Reqs : signIn[u] = s0
    BY <1>2 DEF SignInInv, SignInsDescribed
  <1>4. signIn' = [signIn EXCEPT ![r] = s0]
    BY <1>3
  <1> HIDE DEF u
  <1>5. \A t \in Reqs : signIn'[t] = IF t = r THEN s0 ELSE signIn[t]
    BY <1>4 DEF SignInInv, SignInsDescribed
  <1>6. TokenOf(s0)' = r
    BY <1>1, <1>5 DEF TokensTold
  <1>7. TokenOf(s0) = u /\ u # Nil
    BY <1>2, <1>3 DEF TokensTold
  <1>8. \A s \in Reqs \ {s0} : TokenOf(s)' = TokenOf(s)
    BY <1>1, <1>2, <1>3, <1>5 DEF TokensTold
  <1>9. [s \in Reqs |-> TokenOf(s)]' = [[s \in Reqs |-> TokenOf(s)] EXCEPT ![s0] = r]
    BY <1>6, <1>8
  <1>10. Promise!Rotate(s0, r)
    BY <1>4, <1>7, <1>9 DEF Promise!Rotate, Promise!Issue
  <1> QED BY <1>10

\* Where the engine reports a DELETE that hits nothing, the handlers implement
\* Sessions, for any number of requests: ImplementsSessions.
THEOREM SessionsImplemented ==
  ASSUME DeleteMissingFails
  PROVE  SignInSpec => ImplementsSessions
  <1>1. SignInInit => Promise!Init
    <2> SUFFICES ASSUME SignInInit PROVE Promise!Init
      OBVIOUS
    <2>1. \A t \in Reqs : ~Held(t)
      BY DEF SignInInit, Init, RequestsInit, StoreInit, Held, Live
    <2>2. \A s \in Reqs : TokenOf(s) = Nil
      BY <2>1 DEF TokenOf, HeldBy
    <2> QED BY <2>2 DEF SignInInit, Promise!Init
  <1>2. ServerInv /\ SignInInv /\ TokensTold /\ TokensTold' /\ [SignInNext]_signInVars
          => [Promise!Next]_(Promise!vars)
    <2> SUFFICES ASSUME ServerInv, SignInInv, TokensTold, TokensTold', [SignInNext]_signInVars
                 PROVE  Promise!Next
      OBVIOUS
    <2>1. Quiet \/ \E r \in Reqs : Starts(r) \/ CarriesOn(r)
      BY NextKinds DEF SignInNext, signInVars
    <2> QED BY <2>1, HistoryOf, QuietEnds, StartsBegins, CarriesOnRotates DEF Promise!Next
  <1>3. SignInInv => TokensTold
    BY TokensAreTold DEF SignInInv
  <1> QED BY <1>1, <1>2, <1>3, SignInInvInit, SignInInvNext, HistoryHidden, PTL
          DEF SignInSpec, ImplementsSessions, Promise!Spec
=============================================================================
