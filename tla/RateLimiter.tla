----------------------------- MODULE RateLimiter -----------------------------
(***************************************************************************)
(* internal/middleware/ratelimit.go: the map of visitors under its mutex,  *)
(* the requests that go through "allow", the clean-up goroutine and the    *)
(* clock.  Both critical sections read the clock while they hold the mutex *)
(* and keep it to their end, so each is one action.                        *)
(*                                                                         *)
(* Instants appear as what is left until them, counted in ticks: "left" of *)
(* a visitor is resetAt - now, and now.After(resetAt) is left < 0, where   *)
(* it stays at -1.                                                         *)
(***************************************************************************)
EXTENDS Integers

CONSTANTS
  Clients,      \* client addresses
  Limit,        \* requests per window
  Window,       \* length of a window, in ticks of the clock
  MaxRequests,  \* bound on the requests counted in one window
  Nil           \* no entry in the map

Visitor == [requests : 1..MaxRequests, left : -1..Window]

ASSUME LimiterAssumption ==
  /\ Limit \in Nat
  /\ Window \in Nat \ {0}
  /\ MaxRequests \in Nat
  /\ MaxRequests > Limit + 1
  /\ Nil \notin Visitor
  /\ Nil \notin [used : Nat, left : Nat]

\* A window's first request is admitted before the limit is looked at, so a
\* limit of zero lets one request through.
Quota == IF Limit = 0 THEN 1 ELSE Limit

Verdicts == {"none", "admitted", "refused"}

VARIABLES
  visitors,   \* rl.visitors
  sleeping,   \* what is left of the clean-up goroutine's time.Sleep
  verdict,    \* what the last call of "allow" for each client returned
  recent      \* history: how many requests were admitted since the clock last
              \* ticked, within the last tick, ... and the last Window ticks

vars == <<visitors, sleeping, verdict, recent>>

TypeOK ==
  /\ visitors \in [Clients -> Visitor \cup {Nil}]
  /\ sleeping \in 0..Window
  /\ verdict \in [Clients -> Verdicts]
  /\ recent \in [Clients -> [0..Window -> Nat]]

Init ==
  /\ visitors = [c \in Clients |-> Nil]
  /\ sleeping = Window
  /\ verdict = [c \in Clients |-> "none"]
  /\ recent = [c \in Clients |-> [a \in 0..Window |-> 0]]

\* Mutant: !now.Before(resetAt), one tick early.
PastTooEarly(v) == v.left <= 0

\* now.After(v.resetAt)
Past(v) == v.left < 0

\* No window is open for the client, whether or not its entry is still there.
Lapsed(c) == visitors[c] # Nil => Past(visitors[c])

\* v.requests <= rl.limit, after v.requests++
Within(c) == visitors[c].requests + 1 <= Limit

\* A history of a request that comes now, and of one tick more.
OneMore(history) == [a \in 0..Window |-> history[a] + 1]

Older(history) == [a \in 0..Window |-> IF a = 0 THEN 0 ELSE history[a - 1]]

Tell(c, admitted) ==
  /\ verdict' = [verdict EXCEPT ![c] = IF admitted THEN "admitted" ELSE "refused"]
  /\ recent' = IF admitted THEN [recent EXCEPT ![c] = OneMore(@)] ELSE recent

\* Mutant: the request that opens a window is not counted.
OpenUncounted(c) ==
  /\ Lapsed(c)
  /\ visitors' = [visitors EXCEPT ![c] = [requests |-> 0, left |-> Window]]
  /\ Tell(c, TRUE)
  /\ UNCHANGED sleeping

\* allow, when the client has no entry or a past one.
OpenWindow(c) ==
  /\ Lapsed(c)
  /\ visitors' = [visitors EXCEPT ![c] = [requests |-> 1, left |-> Window]]
  /\ Tell(c, TRUE)
  /\ UNCHANGED sleeping

\* Mutant: every request counted starts the window afresh.
CountRenewing(c) ==
  /\ ~Lapsed(c)
  /\ visitors[c].requests < MaxRequests
  /\ visitors' = [visitors EXCEPT ![c] = [requests |-> @.requests + 1, left |-> Window]]
  /\ Tell(c, Within(c))
  /\ UNCHANGED sleeping

\* allow otherwise.
Count(c) ==
  /\ ~Lapsed(c)
  /\ visitors[c].requests < MaxRequests
  /\ visitors' = [visitors EXCEPT ![c].requests = @ + 1]
  /\ Tell(c, Within(c))
  /\ UNCHANGED sleeping

Allow(c) == OpenWindow(c) \/ Count(c)

\* Mutant: !now.After(resetAt), the wrong way round.
ToForgetOpen == {c \in Clients : visitors[c] # Nil /\ ~Past(visitors[c])}

ToForget == {c \in Clients : visitors[c] # Nil /\ Past(visitors[c])}

Cleanup ==
  /\ sleeping = 0
  /\ visitors' = [c \in Clients |-> IF c \in ToForget THEN Nil ELSE visitors[c]]
  /\ sleeping' = Window
  /\ UNCHANGED <<verdict, recent>>

\* The clock; a goroutine whose sleep is over may be kept waiting.
Tick ==
  /\ visitors' = [c \in Clients |->
                    IF Lapsed(c) THEN visitors[c]
                    ELSE [visitors[c] EXCEPT !.left = @ - 1]]
  /\ sleeping' = IF sleeping = 0 THEN 0 ELSE sleeping - 1
  /\ recent' = [c \in Clients |-> Older(recent[c])]
  /\ UNCHANGED verdict

Next ==
  \/ \E c \in Clients : Allow(c)
  \/ Cleanup
  \/ Tick

Spec == Init /\ [][Next]_vars

----------------------------------------------------------------------------
\* The requests admitted within the last Window ticks, both ends included.
Admitted(c) == recent[c][Window]

\* A request is refused only to a client that has been admitted as often as
\* the limit allows within the last window: refused requests do not prolong
\* the refusal, and a new window starts in time.
RefusedForAReason ==
  [][\A c \in Clients :
       Allow(c) /\ verdict'[c] = "refused" => Admitted(c) >= Limit]_vars

\* The map does not grow without bound: an entry whose window has passed is
\* deleted, unless the client comes back.
PastVisitorsForgotten ==
  \A c \in Clients :
    (visitors[c] # Nil /\ Past(visitors[c])) ~> (visitors[c] = Nil \/ ~Past(visitors[c]))

\* The books kept for an open window, as FixedWindow states them.
WindowOf(c) ==
  IF Lapsed(c) THEN Nil
  ELSE [used |-> IF visitors[c].requests > Quota THEN Quota ELSE visitors[c].requests,
        left |-> visitors[c].left]

Promise == INSTANCE FixedWindow WITH
             Closed <- Nil,
             window <- [c \in Clients |-> WindowOf(c)]

\* The limiter keeps the promise of FixedWindow: neither the clean-up nor the
\* requests counted beyond the limit are visible to a client.
KeepsThePromise == Promise!Spec
=============================================================================
