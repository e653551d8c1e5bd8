----------------------------- MODULE FixedWindow -----------------------------
(***************************************************************************)
(* What the rate limiter promises each client, apart from how it keeps its *)
(* books: a window opens with a request, lasts "Window" ticks whatever     *)
(* else the client does, and admits "Quota" requests.                      *)
(***************************************************************************)
EXTENDS Integers

CONSTANTS
  Clients,  \* client addresses
  Window,   \* the length of a window, in ticks of the clock
  Quota,    \* how many requests a window admits, the opening one included
  Closed    \* no window is open

Verdicts == {"none", "admitted", "refused"}

VARIABLES
  window,   \* each client's window: Closed, or how much is used and left
  verdict   \* what each client was told last

vars == <<window, verdict>>

TypeOK ==
  /\ window \in [Clients -> {Closed} \cup [used : 1..Quota, left : 0..Window]]
  /\ verdict \in [Clients -> Verdicts]

Init ==
  /\ window = [c \in Clients |-> Closed]
  /\ verdict = [c \in Clients |-> "none"]

Open(c) ==
  /\ window[c] = Closed
  /\ window' = [window EXCEPT ![c] = [used |-> 1, left |-> Window]]
  /\ verdict' = [verdict EXCEPT ![c] = "admitted"]

Use(c) ==
  /\ window[c] # Closed
  /\ window[c].used < Quota
  /\ window' = [window EXCEPT ![c].used = @ + 1]
  /\ verdict' = [verdict EXCEPT ![c] = "admitted"]

Refuse(c) ==
  /\ window[c] # Closed
  /\ window[c].used = Quota
  /\ verdict' = [verdict EXCEPT ![c] = "refused"]
  /\ UNCHANGED window

Tick ==
  /\ window' = [c \in Clients |->
                  IF window[c] = Closed \/ window[c].left = 0 THEN Closed
                  ELSE [window[c] EXCEPT !.left = @ - 1]]
  /\ UNCHANGED verdict

Next == Tick \/ \E c \in Clients : Open(c) \/ Use(c) \/ Refuse(c)

Spec == Init /\ [][Next]_vars
=============================================================================
