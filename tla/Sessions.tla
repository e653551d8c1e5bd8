------------------------------ MODULE Sessions ------------------------------
(***************************************************************************)
(* What a client may rely on about refresh tokens, apart from tables and   *)
(* handlers: a sign-in holds one token at a time, passes from one to the   *)
(* next by rotation, and when it has ended nothing brings it back.         *)
(***************************************************************************)
CONSTANTS
  SignIns,  \* logins, registrations and OAuth sign-ins
  Tokens,   \* refresh tokens
  Nil       \* no sign-in, no token

VARIABLES
  signIn,   \* the sign-in each token was issued to
  held      \* the token each sign-in holds

vars == <<signIn, held>>

TypeOK ==
  /\ signIn \in [Tokens -> SignIns \cup {Nil}]
  /\ held \in [SignIns -> Tokens \cup {Nil}]

Init ==
  /\ signIn = [t \in Tokens |-> Nil]
  /\ held = [s \in SignIns |-> Nil]

Issue(s, t) ==
  /\ signIn[t] = Nil
  /\ signIn' = [signIn EXCEPT ![t] = s]
  /\ held' = [held EXCEPT ![s] = t]

\* Happens once to a sign-in.
Begin(s, t) ==
  /\ \A u \in Tokens : signIn[u] # s
  /\ Issue(s, t)

Rotate(s, t) ==
  /\ held[s] # Nil
  /\ Issue(s, t)

\* Logout, expiry, a reset, a rotation that fails half-way.
End(S) ==
  /\ held' = [s \in SignIns |-> IF s \in S THEN Nil ELSE held[s]]
  /\ UNCHANGED signIn

Next ==
  \/ \E s \in SignIns, t \in Tokens : Begin(s, t) \/ Rotate(s, t)
  \/ \E S \in SUBSET SignIns : End(S)

Spec == Init /\ [][Next]_vars
=============================================================================
