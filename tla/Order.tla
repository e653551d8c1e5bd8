------------------------------- MODULE Order -------------------------------
(***************************************************************************)
(* Server with a history: which requests were over when each one reached   *)
(* its handler.  A client that waits for an answer before it calls again   *)
(* makes two requests ordered in this sense; requests that are not ordered *)
(* overlapped.  No action of the server reads the history.                 *)
(***************************************************************************)
EXTENDS Server

VARIABLES before   \* by the request that arrived: the requests over by then

orderVars == <<vars, before>>

Arrived(r) == pc[r] = "idle" /\ pc'[r] # "idle"

OrderInit == Init /\ before = [r \in Reqs |-> {}]

OrderNext ==
  /\ Next
  /\ before' = [r \in Reqs |->
                  IF Arrived(r) THEN {q \in Reqs : pc[q] = "done"} ELSE before[r]]

OrderSpec == OrderInit /\ [][OrderNext]_orderVars

----------------------------------------------------------------------------
\* Two requests that present one link may both be honoured, as both may pass the
\* lookup before either deletes it (auth_service.go:246).  But a link that has
\* been used with success is honoured for nobody who comes later, if no
\* statement failed.
UsedLinkRefusedLater ==
  ~Faults =>
    \A q, r \in Reqs :
      /\ Answered(q, "verify", "ok") \/ Answered(q, "reset", "ok")
      /\ call[r].op \in {"verify", "reset"} /\ call[r].token = call[q].token
      /\ q \in before[r]
      => answer[r] # "ok"

\* A handler that writes the row of e, or may come to.
WritesRow(w, e) ==
  call[w].op \in {"verify", "reset", "setup", "confirm", "disable"} /\ account[w] = e

\* Neither was over when the other came in.
Overlaps(w, q) == w \notin before[q] /\ q \notin before[w]

\* After a reset that was answered with success an account opens to its new
\* password alone, for logins that come later.  The exceptions are a handler that
\* overlapped the reset and writes the account's row too, as it may have read the
\* row before the reset and write the old password back; and another reset.
ResetTakesEffect ==
  \A q, r \in Reqs :
    /\ Answered(q, "reset", "ok")
    /\ call[r].op = "login" /\ call[r].email = account[q]
    /\ q \in before[r]
    /\ answer[r] \in {"tokens", "requires2fa"}
    => \/ call[r].password = call[q].password
       \/ \E w \in Reqs \ {q} :
            /\ WritesRow(w, account[q])
            /\ Overlaps(w, q) \/ (call[w].op = "reset" /\ w \notin before[q])

\* Each of the two turns 2FA the other way.
Reverses(w, q) ==
  \/ call[q].op = "confirm" /\ call[w].op = "disable"
  \/ call[q].op = "disable" /\ call[w].op = "confirm"

\* After 2FA was turned on with success no login that comes later gets tokens for the
\* password alone, and after it was turned off none is asked for a code.  The
\* exceptions are a handler that overlapped and writes the account's row too, as it
\* may write the former flag back; and one that turned 2FA the other way since.
TwoFATakesEffect ==
  \A q, r \in Reqs :
    /\ call[r].op = "login" /\ call[r].email = account[q]
    /\ q \in before[r]
    /\ \/ Answered(q, "confirm", "ok") /\ answer[r] = "tokens"
       \/ Answered(q, "disable", "ok") /\ answer[r] = "requires2fa"
    => \E w \in Reqs \ {q} :
         /\ WritesRow(w, account[q])
         /\ Overlaps(w, q) \/ (Reverses(w, q) /\ w \notin before[q])

\* The request was answered that the session is over: its token was rotated, it was
\* logged out, or a reset of its account came in after it had been handed out.
EndsSession(q, t) ==
  \/ call[q].token = t /\ (Answered(q, "refresh", "tokens") \/ Answered(q, "logout", "ok"))
  \/ Answered(q, "reset", "ok") /\ t \in before[q] /\ account[t] = account[q]

\* What is true of the sentence that ExistingSessionsEnd quotes (auth_service.go:266),
\* and of rotation (auth_service.go:163): a session that a client was told is over
\* is not stored, and no refresh that comes in later gets tokens for it, whatever
\* failed or overlapped, and however the engine reports a DELETE that hits nothing.
\* Only refreshes that overlap can both be served, and a session outlives a reset
\* only by a rotation that overlapped it.
EndedSessionRefused ==
  \A q, t \in Reqs : EndsSession(q, t) =>
    /\ ~Live(t)
    /\ \A r \in Reqs :
         call[r].op = "refresh" /\ call[r].token = t /\ q \in before[r]
           => answer[r] # "tokens"
=============================================================================
