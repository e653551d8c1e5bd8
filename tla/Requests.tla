------------------------------ MODULE Requests ------------------------------
(***************************************************************************)
(* What a request goroutine keeps while its handler runs: the statement it *)
(* will execute next, the input it was called with, the account it has     *)
(* identified, the user row it has read into a Go struct, and the answer.  *)
(***************************************************************************)
EXTENDS Store

CONSTANTS Ops   \* the endpoints clients call

AllOps == {"register", "login", "login2fa", "refresh", "logout", "verify",
           "forgot", "reset", "setup", "confirm", "disable", "oauth"}

ASSUME OpsAssumption == Ops \subseteq AllOps

\* The statements of the handlers, each named by its endpoint.
Labels ==
  {"idle", "done", "mint",
   "register.lookup", "register.org", "register.user", "register.mail",
   "oauth.provider", "oauth.email", "oauth.org", "oauth.user",
   "login.lookup", "login2fa.lookup",
   "refresh.lookup", "refresh.purge", "refresh.user", "refresh.delete",
   "logout.delete", "forgot.lookup", "forgot.create",
   "verify.lookup", "verify.purge", "verify.user", "verify.update", "verify.delete",
   "reset.lookup", "reset.purge", "reset.user", "reset.update", "reset.delete",
   "reset.revoke", "setup.lookup", "setup.update", "confirm.lookup",
   "confirm.update", "disable.lookup", "disable.update"}

(***************************************************************************)
(* Answers: "tokens" is an AuthResponse with an access and a refresh       *)
(* token, "requires2fa" one with a temporary token, "ok" any other 2xx;    *)
(* "unauthorized" is 401, "conflict" 409, "invalid" 400, "error" 500.      *)
(* "cut" is no answer: the process died while serving the request.         *)
(***************************************************************************)
Answers == {"tokens", "requires2fa", "ok", "unauthorized", "conflict",
            "invalid", "error", "cut"}

ASSUME NoAnswerAssumption == Nil \notin Answers \cup AllOps

Call ==
  [op       : AllOps \cup {Nil},
   email    : Emails \cup {Nil},
   password : Passwords \cup {Nil},
   token    : Ids \cup {Nil},
   code     : Ids \cup {Nil},        \* the secret a TOTP code was computed from
   identity : Identities \cup {Nil}]

NoCall == [op |-> Nil, email |-> Nil, password |-> Nil, token |-> Nil,
           code |-> Nil, identity |-> Nil]

VARIABLES
  pc,       \* the statement each request executes next
  call,     \* its validated input
  account,  \* the e-mail of the account it identified
  row,      \* its copy of the user row, while it will write it back
  answer    \* what the client was told

locals == <<pc, call, account, row, answer>>

RequestsTypeOK ==
  /\ pc \in [Reqs -> Labels]
  /\ call \in [Reqs -> Call]
  /\ account \in [Reqs -> Emails \cup {Nil}]
  /\ row \in [Reqs -> UserRow \cup {Nil}]
  /\ answer \in [Reqs -> Answers \cup {Nil}]

RequestsInit ==
  /\ pc = [r \in Reqs |-> "idle"]
  /\ call = [r \in Reqs |-> NoCall]
  /\ account = [r \in Reqs |-> Nil]
  /\ row = [r \in Reqs |-> Nil]
  /\ answer = [r \in Reqs |-> Nil]

InFlight(r) == pc[r] \notin {"idle", "done"}

----------------------------------------------------------------------------
\* A request passes routing, middleware and input validation.  "a" is the
\* account the authentication middleware put in the context, if any.
Accept(r, c, a, first) ==
  /\ pc[r] = "idle"
  /\ c.op \in Ops
  /\ call' = [call EXCEPT ![r] = c]
  /\ account' = [account EXCEPT ![r] = a]
  /\ pc' = [pc EXCEPT ![r] = first]
  /\ UNCHANGED <<row, answer>>

Goto(r, label) ==
  /\ pc' = [pc EXCEPT ![r] = label]
  /\ UNCHANGED <<call, account, row, answer>>

\* Goes on having identified the account.
GotoFor(r, label, e) ==
  /\ pc' = [pc EXCEPT ![r] = label]
  /\ account' = [account EXCEPT ![r] = e]
  /\ UNCHANGED <<call, row, answer>>

\* Goes on with a copy of the account's row, as the handler will change it.
GotoWith(r, label, copy) ==
  /\ pc' = [pc EXCEPT ![r] = label]
  /\ row' = [row EXCEPT ![r] = copy]
  /\ UNCHANGED <<call, account, answer>>

\* Goes on after the copy has been written back.
GotoWritten(r, label) == GotoWith(r, label, Nil)

Respond(r, a) ==
  /\ pc' = [pc EXCEPT ![r] = "done"]
  /\ answer' = [answer EXCEPT ![r] = a]
  /\ row' = [row EXCEPT ![r] = Nil]
  /\ UNCHANGED <<call, account>>

RespondFor(r, a, e) ==
  /\ pc' = [pc EXCEPT ![r] = "done"]
  /\ answer' = [answer EXCEPT ![r] = a]
  /\ account' = [account EXCEPT ![r] = e]
  /\ UNCHANGED <<call, row>>

\* Answers without having changed a table in this step.
Reject(r, a) == Respond(r, a) /\ UNCHANGED tables

\* The process dies (crash, or Shutdown's timeout and os.Exit(1) in main.go)
\* and takes every handler with it; the database keeps what was committed.
Crash ==
  /\ Faults
  /\ \E r \in Reqs : InFlight(r)
  /\ pc' = [r \in Reqs |-> IF InFlight(r) THEN "done" ELSE pc[r]]
  /\ answer' = [r \in Reqs |-> IF InFlight(r) THEN "cut" ELSE answer[r]]
  /\ row' = [r \in Reqs |-> Nil]
  /\ UNCHANGED <<call, account>>
  /\ UNCHANGED tables
=============================================================================
