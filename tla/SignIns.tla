------------------------------- MODULE SignIns -------------------------------
(***************************************************************************)
(* Server with a history: the login, registration or OAuth request that    *)
(* each session goes back to through its chain of rotations.  No action of *)
(* the server reads it.                                                    *)
(***************************************************************************)
EXTENDS Server

VARIABLES signIn   \* by the request that minted the session

signInVars == <<vars, signIn>>

\* A session belongs to a sign-in from the moment nothing but the INSERT of its
\* token is left to do.
Minted(r) == pc'[r] = "mint" /\ pc[r] # "mint"

SignInOf(r) == IF call[r].op = "refresh" THEN signIn[call[r].token] ELSE r

SignInInit == Init /\ signIn = [r \in Reqs |-> Nil]

SignInNext ==
  /\ Next
  /\ signIn' = [r \in Reqs |-> IF Minted(r) THEN SignInOf(r) ELSE signIn[r]]

SignInSpec == SignInInit /\ [][SignInNext]_signInVars

----------------------------------------------------------------------------
\* The session is stored, or about to be.
Held(t) == Live(t) \/ pc[t] = "mint"

\* When the engine reports a DELETE that hits nothing (auth_service.go:166), a
\* sign-in holds at most one session at any time, counting the one a rotation
\* is about to store.
OneSessionPerSignIn ==
  DeleteMissingFails =>
    \A s, t \in Reqs : Held(s) /\ Held(t) /\ signIn[s] = signIn[t] => s = t

HeldBy(s) == {t \in Reqs : Held(t) /\ signIn[t] = s}

TokenOf(s) == IF HeldBy(s) = {} THEN Nil ELSE CHOOSE t \in HeldBy(s) : TRUE

Promise == INSTANCE Sessions WITH
             SignIns <- Reqs,
             Tokens <- Reqs,
             held <- [s \in Reqs |-> TokenOf(s)]

\* Under the same condition the handlers, however they interleave, fail and
\* die, implement Sessions: Refresh's DELETE is the rotation, and no flow gives
\* an ended sign-in a session again.
ImplementsSessions == Promise!Spec
=============================================================================
