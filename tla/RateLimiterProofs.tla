-------------------------- MODULE RateLimiterProofs --------------------------
(***************************************************************************)
(* For any limit, window and set of clients: the limiter's books are well  *)
(* typed, it implements FixedWindow, refuses only those who have had their *)
(* share, and what that means for the handlers behind routes.go's "rl".    *)
(***************************************************************************)
EXTENDS Routes, TLAPS

\* A history stays one, whether a request is added or the clock ticks.
LEMMA Histories ==
  ASSUME NEW h \in [0..Window -> Nat]
  PROVE  OneMore(h) \in [0..Window -> Nat] /\ Older(h) \in [0..Window -> Nat]
<1>1. \A a \in 0..Window : a = 0 \/ a - 1 \in 0..Window
  BY LimiterAssumption
<1>2. QED BY <1>1 DEF OneMore, Older

\* What a call of "allow" notes down is well typed.
LEMMA TellType ==
  ASSUME TypeOK, NEW c \in Clients, NEW admitted \in BOOLEAN, Tell(c, admitted)
  PROVE  /\ verdict' \in [Clients -> Verdicts]
         /\ recent' \in [Clients -> [0..Window -> Nat]]
<1>1. verdict' \in [Clients -> Verdicts]
  BY DEF TypeOK, Tell, Verdicts
<1>2. recent' \in [Clients -> [0..Window -> Nat]]
  BY Histories DEF TypeOK, Tell
<1>3. QED BY <1>1, <1>2

\* An entry is a visitor, whose window is open or past.
LEMMA Entry ==
  ASSUME TypeOK, NEW c \in Clients, visitors[c] # Nil
  PROVE  /\ visitors[c] \in Visitor
         /\ visitors[c].requests \in 1..MaxRequests
         /\ visitors[c].left \in -1..Window
<1>1. visitors[c] \in Visitor
  BY DEF TypeOK
<1>2. QED BY <1>1 DEF Visitor

\* The first request of a window leaves well typed books.
LEMMA OpenWindowType ==
  ASSUME TypeOK, NEW c \in Clients, OpenWindow(c)
  PROVE  TypeOK'
<1>1. [requests |-> 1, left |-> Window] \in Visitor
  BY LimiterAssumption DEF Visitor
<1>2. visitors' \in [Clients -> Visitor \cup {Nil}]
  BY <1>1 DEF TypeOK, OpenWindow
<1>3. verdict' \in [Clients -> Verdicts] /\ recent' \in [Clients -> [0..Window -> Nat]]
  BY TellType DEF OpenWindow
<1>4. QED BY <1>2, <1>3 DEF TypeOK, OpenWindow

\* So does every further one.
LEMMA CountType ==
  ASSUME TypeOK, NEW c \in Clients, Count(c)
  PROVE  TypeOK'
<1>1. visitors[c] # Nil
  BY DEF Count, Lapsed
<1>2. [visitors[c] EXCEPT !.requests = @ + 1] \in Visitor
  BY <1>1, Entry, LimiterAssumption DEF Visitor, Count
<1>3. visitors' \in [Clients -> Visitor \cup {Nil}]
  BY <1>2 DEF TypeOK, Count
<1>4. Within(c) \in BOOLEAN
  BY DEF Within
<1>5. verdict' \in [Clients -> Verdicts] /\ recent' \in [Clients -> [0..Window -> Nat]]
  BY <1>4, TellType DEF Count
<1>6. QED BY <1>3, <1>5 DEF TypeOK, Count

\* The clock leaves well typed books.
LEMMA TickType ==
  ASSUME TypeOK, Tick
  PROVE  TypeOK'
<1>1. visitors' \in [Clients -> Visitor \cup {Nil}]
  <2>1. SUFFICES ASSUME NEW c \in Clients
                 PROVE  visitors'[c] \in Visitor \cup {Nil}
    BY DEF Tick
  <2>2. CASE Lapsed(c)
    BY <2>2 DEF Tick, TypeOK
  <2>3. CASE ~Lapsed(c)
    <3>1. visitors[c] # Nil /\ ~(visitors[c].left < 0)
      BY <2>3 DEF Lapsed, Past
    <3>2. [visitors[c] EXCEPT !.left = @ - 1] \in Visitor
      BY <3>1, Entry, LimiterAssumption DEF Visitor
    <3>3. QED BY <2>3, <3>2 DEF Tick
  <2>4. QED BY <2>2, <2>3
<1>2. sleeping' \in 0..Window
  BY LimiterAssumption DEF Tick, TypeOK
<1>3. recent' \in [Clients -> [0..Window -> Nat]]
  BY Histories DEF Tick, TypeOK
<1>4. QED BY <1>1, <1>2, <1>3 DEF TypeOK, Tick

\* TypeOK of ratelimit.go's books holds throughout, for any number of clients
\* and any limit and window.
THEOREM LimiterTypes == Spec => []TypeOK
<1>1. Init => TypeOK
  BY LimiterAssumption DEF Init, TypeOK, Verdicts
<1>2. TypeOK /\ [Next]_vars => TypeOK'
  <2>1. SUFFICES ASSUME TypeOK, [Next]_vars PROVE TypeOK'
    OBVIOUS
  <2>2. ASSUME NEW c \in Clients, Allow(c) PROVE TypeOK'
    BY <2>1, <2>2, OpenWindowType, CountType DEF Allow
  <2>3. CASE Cleanup
    BY <2>1, <2>3, LimiterAssumption DEF Cleanup, TypeOK
  <2>4. CASE Tick
    BY <2>1, <2>4, TickType
  <2>5. CASE UNCHANGED vars
    BY <2>1, <2>5 DEF vars, TypeOK
  <2>6. QED BY <2>1, <2>2, <2>3, <2>4, <2>5 DEF Next
<1>3. QED BY <1>1, <1>2, PTL DEF Spec

----------------------------------------------------------------------------
\* A closed window is closed in both specifications, an open one has used
\* between one request and the quota.
LEMMA Books ==
  ASSUME TypeOK, NEW c \in Clients
  PROVE  /\ Lapsed(c) <=> WindowOf(c) = Nil
         /\ ~Lapsed(c) =>
              /\ visitors[c] # Nil
              /\ visitors[c].requests \in 1..MaxRequests
              /\ visitors[c].left \in 0..Window
              /\ WindowOf(c).left = visitors[c].left
              /\ WindowOf(c).used = IF visitors[c].requests > Quota
                                    THEN Quota ELSE visitors[c].requests
<1>1. ASSUME ~Lapsed(c)
      PROVE  /\ visitors[c] # Nil
             /\ visitors[c].requests \in 1..MaxRequests
             /\ visitors[c].left \in 0..Window
  BY <1>1, Entry, LimiterAssumption DEF Lapsed, Past
<1>2. ASSUME ~Lapsed(c) PROVE WindowOf(c) # Nil
  <2>1. Quota \in Nat
    BY LimiterAssumption DEF Quota
  <2>2. WindowOf(c) \in [used : Nat, left : Nat]
    BY <1>1, <1>2, <2>1 DEF WindowOf
  <2>3. QED BY <2>2, LimiterAssumption
<1>3. Lapsed(c) => WindowOf(c) = Nil
  BY DEF WindowOf
<1>4. QED BY <1>1, <1>2, <1>3 DEF WindowOf

\* A step in a window of one client's maps that client's books and no other's.
LEMMA OthersWindows ==
  ASSUME NEW c \in Clients, NEW d \in Clients, visitors'[d] = visitors[d]
  PROVE  WindowOf(d)' = WindowOf(d)
<1>1. QED BY DEF WindowOf, Lapsed, Past

\* The request that finds no open window opens one of FixedWindow.
LEMMA OpenWindowOpens ==
  ASSUME TypeOK, NEW c \in Clients, OpenWindow(c)
  PROVE  Promise!Open(c)
<1>1. WindowOf(c) = Nil
  BY Books DEF OpenWindow
<1>2. visitors'[c] = [requests |-> 1, left |-> Window]
  BY DEF OpenWindow, TypeOK
<1>3. WindowOf(c)' = [used |-> 1, left |-> Window]
  <2>1. visitors'[c].left = Window /\ visitors'[c].requests = 1
    BY <1>2
  <2>2. visitors'[c] # Nil
    <3>1. [requests |-> 1, left |-> Window] \in Visitor
      BY LimiterAssumption DEF Visitor
    <3>2. QED BY <1>2, <3>1, LimiterAssumption
  <2>3. ~Lapsed(c)'
    BY <2>1, <2>2, LimiterAssumption DEF Lapsed, Past
  <2>4. ~(1 > Quota)
    BY LimiterAssumption DEF Quota
  <2>5. QED BY <2>1, <2>3, <2>4 DEF WindowOf
<1>4. \A d \in Clients : d # c => WindowOf(d)' = WindowOf(d)
  <2>1. \A d \in Clients : d # c => visitors'[d] = visitors[d]
    BY DEF OpenWindow, TypeOK
  <2>2. QED BY <2>1, OthersWindows
<1>5. verdict' = [verdict EXCEPT ![c] = "admitted"]
  BY DEF OpenWindow, Tell
<1>6. QED BY <1>1, <1>3, <1>4, <1>5 DEF Promise!Open

\* A further one uses the window, or is refused when the quota is used up.
LEMMA CountUsesOrRefuses ==
  ASSUME TypeOK, NEW c \in Clients, Count(c)
  PROVE  Promise!Use(c) \/ Promise!Refuse(c)
<1>1. /\ ~Lapsed(c)
      /\ WindowOf(c) # Nil
      /\ visitors[c] \in Visitor
      /\ visitors[c].requests \in 1..MaxRequests
      /\ visitors[c].left \in 0..Window
  BY Books, Entry DEF Count
<1>2. visitors'[c] = [visitors[c] EXCEPT !.requests = @ + 1]
  BY DEF Count, TypeOK
<1>3. /\ visitors'[c].requests = visitors[c].requests + 1
      /\ visitors'[c].left = visitors[c].left
      /\ visitors'[c] # Nil
  BY <1>1, <1>2, CountType, LimiterAssumption DEF Visitor, TypeOK, Count
<1>4. ~Lapsed(c)'
  BY <1>1, <1>3 DEF Lapsed, Past
<1>5. /\ WindowOf(c) =
           [used |-> IF visitors[c].requests > Quota THEN Quota ELSE visitors[c].requests,
            left |-> visitors[c].left]
      /\ WindowOf(c)' =
           [used |-> IF visitors[c].requests + 1 > Quota THEN Quota
                     ELSE visitors[c].requests + 1,
            left |-> visitors[c].left]
  BY <1>1, <1>3, <1>4 DEF WindowOf, Quota
<1>6. \A d \in Clients : d # c => WindowOf(d)' = WindowOf(d)
  <2>1. \A d \in Clients : d # c => visitors'[d] = visitors[d]
    BY DEF Count, TypeOK
  <2>2. QED BY <2>1, OthersWindows
<1>7. CASE Within(c)
  <2>1. visitors[c].requests + 1 <= Quota
    BY <1>1, <1>7, LimiterAssumption DEF Within, Quota
  <2>2. /\ WindowOf(c).used < Quota
        /\ WindowOf(c)' = [WindowOf(c) EXCEPT !.used = @ + 1]
    BY <1>1, <1>5, <2>1, LimiterAssumption DEF Quota
  <2>3. verdict' = [verdict EXCEPT ![c] = "admitted"]
    BY <1>7 DEF Count, Tell
  <2>4. QED BY <1>1, <1>6, <2>2, <2>3 DEF Promise!Use
<1>8. CASE ~Within(c)
  <2>1. visitors[c].requests + 1 > Quota /\ visitors[c].requests >= Quota
    BY <1>1, <1>8, LimiterAssumption DEF Within, Quota
  <2>2. WindowOf(c).used = Quota /\ WindowOf(c)' = WindowOf(c)
    BY <1>1, <1>5, <2>1, LimiterAssumption DEF Quota
  <2>3. verdict' = [verdict EXCEPT ![c] = "refused"]
    BY <1>8 DEF Count, Tell
  <2>4. QED BY <1>1, <1>6, <2>2, <2>3 DEF Promise!Refuse
<1>9. QED BY <1>7, <1>8

\* The clean-up deletes entries of closed windows only: nobody can tell.
LEMMA CleanupInvisible ==
  ASSUME TypeOK, Cleanup
  PROVE  /\ \A c \in Clients : WindowOf(c)' = WindowOf(c)
         /\ UNCHANGED verdict
<1>1. SUFFICES ASSUME NEW c \in Clients PROVE WindowOf(c)' = WindowOf(c)
  BY DEF Cleanup
<1>2. CASE c \in ToForget
  <2>1. visitors'[c] = Nil
    BY <1>2 DEF Cleanup
  <2>2. Lapsed(c) /\ Lapsed(c)'
    BY <1>2, <2>1 DEF ToForget, Lapsed
  <2>3. QED BY <2>2 DEF WindowOf
<1>3. CASE c \notin ToForget
  <2>1. visitors'[c] = visitors[c]
    BY <1>3 DEF Cleanup
  <2>2. QED BY <2>1, OthersWindows
<1>4. QED BY <1>2, <1>3

\* The clock closes the same windows in both.
LEMMA TickTicks ==
  ASSUME TypeOK, Tick
  PROVE  Promise!Tick
<1>1. SUFFICES ASSUME NEW c \in Clients
               PROVE  WindowOf(c)' = IF WindowOf(c) = Nil \/ WindowOf(c).left = 0 THEN Nil
                                     ELSE [WindowOf(c) EXCEPT !.left = @ - 1]
  BY DEF Tick, Promise!Tick
<1>2. CASE Lapsed(c)
  <2>1. visitors'[c] = visitors[c]
    BY <1>2 DEF Tick
  <2>2. WindowOf(c) = Nil
    BY <1>2, Books
  <2>3. QED BY <2>1, <2>2, OthersWindows
<1>3. CASE ~Lapsed(c)
  <2>1. /\ visitors[c] \in Visitor
        /\ WindowOf(c) # Nil
        /\ visitors[c].left \in 0..Window
        /\ WindowOf(c).left = visitors[c].left
    BY <1>3, Books, Entry
  <2>2. visitors'[c] = [visitors[c] EXCEPT !.left = @ - 1]
    BY <1>3 DEF Tick
  <2>3. /\ visitors'[c].left = visitors[c].left - 1
        /\ visitors'[c].requests = visitors[c].requests
    BY <2>1, <2>2 DEF Visitor
  <2>4. visitors'[c] # Nil
    <3>1. [visitors[c] EXCEPT !.left = @ - 1] \in Visitor
      BY <2>1, LimiterAssumption DEF Visitor
    <3>2. QED BY <2>2, <3>1, LimiterAssumption
  <2>5. Lapsed(c)' <=> visitors[c].left = 0
    BY <2>1, <2>3, <2>4 DEF Lapsed, Past
  <2>6. visitors[c].left = 0 => WindowOf(c)' = Nil
    BY <2>5 DEF WindowOf
  <2>7. visitors[c].left # 0 => WindowOf(c)' = [WindowOf(c) EXCEPT !.left = @ - 1]
    BY <1>3, <2>1, <2>3, <2>5 DEF WindowOf, Quota
  <2>8. QED BY <2>1, <2>6, <2>7
<1>4. QED BY <1>2, <1>3

\* The limiter of ratelimit.go implements FixedWindow, for any limit, window
\* and set of clients: KeepsThePromise.
THEOREM Implements == Spec => KeepsThePromise
<1>1. Init => Promise!Init
  BY DEF Init, Promise!Init, WindowOf, Lapsed
<1>2. TypeOK /\ [Next]_vars => [Promise!Next]_(Promise!vars)
  <2>1. SUFFICES ASSUME TypeOK, [Next]_vars PROVE [Promise!Next]_(Promise!vars)
    OBVIOUS
  <2>2. ASSUME NEW c \in Clients, Allow(c) PROVE Promise!Next
    BY <2>1, <2>2, OpenWindowOpens, CountUsesOrRefuses DEF Allow, Promise!Next
  <2>3. CASE Cleanup
    BY <2>1, <2>3, CleanupInvisible DEF Promise!vars
  <2>4. CASE Tick
    BY <2>1, <2>4, TickTicks DEF Promise!Next
  <2>5. CASE UNCHANGED vars
    BY <2>5 DEF vars, Promise!vars, WindowOf, Lapsed, Past
  <2>6. QED BY <2>1, <2>2, <2>3, <2>4, <2>5 DEF Next
<1>3. QED BY <1>1, <1>2, LimiterTypes, PTL DEF Spec, KeepsThePromise, Promise!Spec
----------------------------------------------------------------------------
(* What the limiter has admitted *)

\* How much of the open window is used.
Used(c) == IF visitors[c].requests > Quota THEN Quota ELSE visitors[c].requests

\* For how many ticks the open window has been open.
Age(c) == Window - visitors[c].left

\* Within a window's length there are requests of two windows at most: those of
\* the open one, all admitted since it was opened, and of the one before it those
\* that came after its first.  When no window is open there are only the latter.
HistoryOf(c) ==
  /\ Lapsed(c) => \A a \in 0..Window : recent[c][a] <= Quota - 1
  /\ ~Lapsed(c) =>
       \A a \in 0..Window : /\ recent[c][a] <= Used(c) + Quota - 1
                            /\ a < Age(c) => recent[c][a] <= Used(c) - 1
                            /\ a >= Age(c) => recent[c][a] >= Used(c)

\* The history of every client is one of those.
HistoryInv == \A c \in Clients : HistoryOf(c)

\* The numbers HistoryOf compares.
LEMMA Numbers ==
  ASSUME TypeOK, NEW c \in Clients
  PROVE  /\ Quota \in Nat \ {0}
         /\ \A a \in 0..Window : recent[c][a] \in Nat
         /\ ~Lapsed(c) => /\ visitors[c] \in Visitor
                          /\ visitors[c].requests \in 1..MaxRequests
                          /\ visitors[c].left \in 0..Window
                          /\ Used(c) \in 1..Quota /\ Age(c) \in 0..Window
<1>1. Quota \in Nat \ {0}
  BY LimiterAssumption DEF Quota
<1>2. \A a \in 0..Window : recent[c][a] \in Nat
  BY DEF TypeOK
<1>3. ASSUME ~Lapsed(c)
      PROVE  /\ visitors[c] \in Visitor
             /\ visitors[c].requests \in 1..MaxRequests
             /\ visitors[c].left \in 0..Window
  BY <1>3, Books, Entry
<1>4. ~Lapsed(c) => Used(c) \in 1..Quota /\ Age(c) \in 0..Window
  BY <1>1, <1>3, LimiterAssumption DEF Used, Age
<1>5. QED BY <1>1, <1>2, <1>3, <1>4

\* A client whose entry and history stay as they were keeps HistoryOf.
LEMMA SameHistory ==
  ASSUME NEW c \in Clients, HistoryOf(c), visitors'[c] = visitors[c], recent'[c] = recent[c]
  PROVE  HistoryOf(c)'
<1>1. QED BY DEF HistoryOf, Lapsed, Past, Used, Age

\* So does one that opens a window: what it was admitted before came after the
\* first request of the window before.
LEMMA OpenWindowHistory ==
  ASSUME TypeOK, NEW c \in Clients, HistoryOf(c), OpenWindow(c)
  PROVE  HistoryOf(c)'
<1>1. Lapsed(c) /\ \A a \in 0..Window : recent[c][a] <= Quota - 1
  BY DEF OpenWindow, HistoryOf
<1>2. /\ visitors'[c].left = Window /\ visitors'[c].requests = 1
      /\ \A a \in 0..Window : recent'[c][a] = recent[c][a] + 1
  BY DEF OpenWindow, Tell, OneMore, TypeOK
<1>3. Quota \in Nat \ {0} /\ \A a \in 0..Window : recent[c][a] \in Nat
  BY Numbers
<1>4. Used(c)' = 1 /\ Age(c)' = 0
  BY <1>2, <1>3, LimiterAssumption DEF Used, Age
<1>5. ~Lapsed(c)'
  <2>1. [requests |-> 1, left |-> Window] \in Visitor
    BY LimiterAssumption DEF Visitor
  <2>2. visitors'[c] # Nil
    BY <2>1, LimiterAssumption DEF OpenWindow, TypeOK
  <2>3. QED BY <1>2, <2>2, LimiterAssumption DEF Lapsed, Past
<1>6. QED BY <1>1, <1>2, <1>3, <1>4, <1>5, LimiterAssumption DEF HistoryOf

\* So does one that uses its window, or finds it used up.
LEMMA CountHistory ==
  ASSUME TypeOK, NEW c \in Clients, HistoryOf(c), Count(c)
  PROVE  HistoryOf(c)'
<1>1. /\ ~Lapsed(c)
      /\ \A a \in 0..Window : /\ recent[c][a] <= Used(c) + Quota - 1
                              /\ a < Age(c) => recent[c][a] <= Used(c) - 1
                              /\ a >= Age(c) => recent[c][a] >= Used(c)
  BY DEF Count, HistoryOf
<1>2. /\ Quota \in Nat \ {0} /\ \A a \in 0..Window : recent[c][a] \in Nat
      /\ visitors[c] \in Visitor /\ visitors[c].requests \in 1..MaxRequests
      /\ visitors[c].left \in 0..Window /\ Used(c) \in 1..Quota /\ Age(c) \in 0..Window
  BY <1>1, Numbers
<1>3. /\ visitors'[c].left = visitors[c].left
      /\ visitors'[c].requests = visitors[c].requests + 1
  BY <1>2 DEF Count, TypeOK, Visitor
<1>4. Age(c)' = Age(c)
  BY <1>3 DEF Age
<1>5. visitors'[c] # Nil
  <2>1. [visitors[c] EXCEPT !.requests = @ + 1] \in Visitor
    BY <1>2, LimiterAssumption DEF Count, Visitor
  <2>2. QED BY <2>1, LimiterAssumption DEF Count, TypeOK
<1>6. ~Lapsed(c)'
  BY <1>2, <1>3, <1>5 DEF Lapsed, Past
<1>7. CASE Within(c)
  <2>1. Used(c)' = Used(c) + 1
    BY <1>2, <1>3, <1>7, LimiterAssumption DEF Used, Within, Quota
  <2>2. \A a \in 0..Window : recent'[c][a] = recent[c][a] + 1
    BY <1>7 DEF Count, Tell, OneMore, TypeOK
  <2>3. QED BY <1>1, <1>2, <1>4, <1>6, <2>1, <2>2, LimiterAssumption DEF HistoryOf
<1>8. CASE ~Within(c)
  <2>1. Used(c)' = Used(c)
    BY <1>2, <1>3, <1>8, LimiterAssumption DEF Used, Within, Quota
  <2>2. recent'[c] = recent[c]
    BY <1>8 DEF Count, Tell
  <2>3. QED BY <1>1, <1>4, <1>6, <2>1, <2>2 DEF HistoryOf
<1>9. QED BY <1>7, <1>8

\* So does every client when the clock ticks: the first request of a window that
\* closes is by then more than a window's length ago.
LEMMA TickHistory ==
  ASSUME TypeOK, NEW c \in Clients, HistoryOf(c), Tick
  PROVE  HistoryOf(c)'
<1>1. Quota \in Nat \ {0} /\ \A a \in 0..Window : recent[c][a] \in Nat
  BY Numbers
<1>2. \A a \in 0..Window : recent'[c][a] = IF a = 0 THEN 0 ELSE recent[c][a - 1]
  BY DEF Tick, Older
<1>3. \A a \in 0..Window : a # 0 => a - 1 \in 0..Window
  BY LimiterAssumption
<1>4. CASE Lapsed(c)
  <2>1. Lapsed(c)'
    BY <1>4 DEF Tick, Lapsed, Past
  <2>2. \A a \in 0..Window : recent[c][a] <= Quota - 1
    BY <1>4 DEF HistoryOf
  <2>3. \A a \in 0..Window : recent'[c][a] <= Quota - 1
    BY <1>1, <1>2, <1>3, <2>2
  <2>4. QED BY <2>1, <2>3 DEF HistoryOf
<1>5. CASE ~Lapsed(c)
  <2>1. \A a \in 0..Window : /\ recent[c][a] <= Used(c) + Quota - 1
                             /\ a < Age(c) => recent[c][a] <= Used(c) - 1
                             /\ a >= Age(c) => recent[c][a] >= Used(c)
    BY <1>5 DEF HistoryOf
  <2>2. /\ visitors[c] \in Visitor /\ visitors[c].requests \in 1..MaxRequests
        /\ visitors[c].left \in 0..Window /\ Used(c) \in 1..Quota /\ Age(c) \in 0..Window
    BY <1>5, Numbers
  <2>3. /\ visitors'[c].left = visitors[c].left - 1
        /\ visitors'[c].requests = visitors[c].requests
    BY <1>5, <2>2 DEF Tick, Visitor
  <2>4. Used(c)' = Used(c) /\ Age(c)' = Age(c) + 1
    BY <2>2, <2>3, LimiterAssumption DEF Used, Age
  <2>5. CASE Lapsed(c)'
    <3>1. Age(c) = Window
      <4>1. visitors'[c] # Nil
        <5>1. [visitors[c] EXCEPT !.left = @ - 1] \in Visitor
          BY <1>5, <2>2, LimiterAssumption DEF Visitor
        <5>2. QED BY <1>5, <5>1, LimiterAssumption DEF Tick
      <4>2. QED BY <2>2, <2>3, <2>5, <4>1, LimiterAssumption DEF Lapsed, Past, Age
    <3>2. \A a \in 0..Window : a # 0 => recent[c][a - 1] <= Used(c) - 1
      BY <1>3, <2>1, <3>1, LimiterAssumption
    <3>3. \A a \in 0..Window : recent'[c][a] <= Quota - 1
      BY <1>1, <1>2, <1>3, <2>2, <3>2
    <3>4. QED BY <2>5, <3>3 DEF HistoryOf
  <2>6. CASE ~Lapsed(c)'
    <3> SUFFICES ASSUME NEW a \in 0..Window
                 PROVE  /\ recent'[c][a] <= Used(c)' + Quota - 1
                        /\ a < Age(c)' => recent'[c][a] <= Used(c)' - 1
                        /\ a >= Age(c)' => recent'[c][a] >= Used(c)'
      BY <2>6 DEF HistoryOf
    <3>1. CASE a = 0
      BY <1>1, <1>2, <2>2, <2>4, <3>1
    <3>2. CASE a # 0
      <4>1. a - 1 \in 0..Window /\ recent'[c][a] = recent[c][a - 1] /\ recent[c][a - 1] \in Nat
        BY <1>1, <1>2, <1>3, <3>2
      <4>2. QED BY <1>1, <2>1, <2>2, <2>4, <4>1
    <3>3. QED BY <3>1, <3>2
  <2>7. QED BY <2>5, <2>6
<1>6. QED BY <1>4, <1>5

\* The clean-up deletes past entries: no window is open before or after.
LEMMA CleanupHistory ==
  ASSUME TypeOK, NEW c \in Clients, HistoryOf(c), Cleanup
  PROVE  HistoryOf(c)'
<1>1. CASE c \in ToForget
  <2>1. Lapsed(c) /\ Lapsed(c)' /\ recent' = recent
    BY <1>1 DEF Cleanup, ToForget, Lapsed
  <2>2. QED BY <2>1 DEF HistoryOf
<1>2. CASE c \notin ToForget
  BY <1>2, SameHistory DEF Cleanup
<1>3. QED BY <1>1, <1>2

\* What was admitted is what the books say, throughout.
LEMMA History == Spec => []HistoryInv
<1>1. Init => HistoryInv
  <2>1. SUFFICES ASSUME Init, NEW c \in Clients PROVE HistoryOf(c)
    BY DEF HistoryInv
  <2>2. Lapsed(c)
    BY <2>1 DEF Init, Lapsed
  <2>3. \A a \in 0..Window : recent[c][a] = 0
    BY <2>1 DEF Init
  <2>4. 0 <= Quota - 1
    BY LimiterAssumption DEF Quota
  <2>5. QED BY <2>2, <2>3, <2>4 DEF HistoryOf
<1>2. TypeOK /\ HistoryInv /\ [Next]_vars => HistoryInv'
  <2>1. SUFFICES ASSUME TypeOK, HistoryInv, [Next]_vars, NEW d \in Clients
                 PROVE  HistoryOf(d)'
    BY DEF HistoryInv
  <2>2. HistoryOf(d)
    BY <2>1 DEF HistoryInv
  <2>3. ASSUME NEW c \in Clients, Allow(c) PROVE HistoryOf(d)'
    <3>1. CASE c = d
      BY <2>1, <2>2, <2>3, <3>1, OpenWindowHistory, CountHistory DEF Allow
    <3>2. CASE c # d
      <4>1. visitors'[d] = visitors[d] /\ recent'[d] = recent[d]
        BY <2>1, <2>3, <3>2 DEF Allow, OpenWindow, Count, Tell, TypeOK
      <4>2. QED BY <2>2, <4>1, SameHistory
    <3>3. QED BY <3>1, <3>2
  <2>4. CASE Cleanup
    BY <2>1, <2>2, <2>4, CleanupHistory
  <2>5. CASE Tick
    BY <2>1, <2>2, <2>5, TickHistory
  <2>6. CASE UNCHANGED vars
    BY <2>2, <2>6, SameHistory DEF vars
  <2>7. QED BY <2>1, <2>3, <2>4, <2>5, <2>6 DEF Next
<1>3. QED BY <1>1, <1>2, LimiterTypes, PTL DEF Spec

\* ratelimit.go refuses only a client that has been admitted as often as the
\* limit allows within the last window: RefusedForAReason.
THEOREM Refusals == Spec => RefusedForAReason
<1> DEFINE Justified == \A c \in Clients :
                          Allow(c) /\ verdict'[c] = "refused" => Admitted(c) >= Limit
<1>1. TypeOK /\ HistoryInv => Justified
  <2>1. SUFFICES ASSUME TypeOK, HistoryInv, NEW c \in Clients, Allow(c),
                        verdict'[c] = "refused"
                 PROVE  Admitted(c) >= Limit
    OBVIOUS
  <2>2. Count(c) /\ ~Lapsed(c) /\ ~Within(c)
    BY <2>1 DEF Allow, OpenWindow, Count, Tell, TypeOK
  <2>3. /\ Quota \in Nat \ {0} /\ recent[c][Window] \in Nat
        /\ visitors[c].requests \in 1..MaxRequests
        /\ Used(c) \in 1..Quota /\ Age(c) \in 0..Window
    BY <2>1, <2>2, Numbers, LimiterAssumption
  <2>4. recent[c][Window] >= Used(c)
    BY <2>1, <2>2, <2>3, LimiterAssumption DEF HistoryInv, HistoryOf
  <2>5. Used(c) >= Limit
    BY <2>2, <2>3, LimiterAssumption DEF Used, Within, Quota
  <2>6. QED BY <2>3, <2>4, <2>5, LimiterAssumption DEF Admitted
<1>2. TypeOK /\ HistoryInv => [Justified]_vars
  BY <1>1
<1>3. QED BY <1>2, LimiterTypes, History, PTL DEF RefusedForAReason

----------------------------------------------------------------------------
(* What that means for the routes *)

\* Whatever the router does, the limiter behind it takes a step of its own, or
\* none.
LEMMA RoutesLimiter == RoutesSpec => Spec
<1>1. RoutesInit => Init
  BY DEF RoutesInit
<1>2. [RoutesNext]_routesVars => [Next]_vars
  BY DEF RoutesNext, routesVars, Request, Rated, Unrated, Preflight, TimePasses, Next
<1>3. QED BY <1>1, <1>2, PTL DEF RoutesSpec, Spec

\* Every endpoint open to everyone, OAuth apart, names rl: what reaches a handler
\* is what the limiter admits.
HandledIsAdmitted == handled = recent

\* It holds throughout.
LEMMA Handled == RoutesSpec => []HandledIsAdmitted
<1>1. RoutesInit => HandledIsAdmitted
  BY DEF RoutesInit, Init, HandledIsAdmitted
<1>2. TypeOK /\ HandledIsAdmitted /\ [RoutesNext]_routesVars => HandledIsAdmitted'
  <2>1. SUFFICES ASSUME TypeOK, HandledIsAdmitted, [RoutesNext]_routesVars
                 PROVE  HandledIsAdmitted'
    OBVIOUS
  <2>2. ASSUME NEW c \in Clients, NEW e \in Endpoints, NEW t, Rated(c, e, t)
        PROVE  HandledIsAdmitted'
    <3>1. PICK admitted \in BOOLEAN : Tell(c, admitted)
      <4>1. Tell(c, TRUE) \/ Tell(c, Within(c))
        BY <2>2 DEF Rated, Allow, OpenWindow, Count
      <4>2. Within(c) \in BOOLEAN
        BY DEF Within
      <4>3. QED BY <4>1, <4>2
    <3>2. admitted <=> verdict'[c] = "admitted"
      BY <2>1, <3>1 DEF Tell, TypeOK
    <3>3. QED BY <2>1, <2>2, <3>1, <3>2 DEF HandledIsAdmitted, Rated, Tell
  <2>3. ASSUME NEW c \in Clients, NEW e \in Endpoints, NEW t, Unrated(c, e, t)
        PROVE  HandledIsAdmitted'
    BY <2>1, <2>3 DEF HandledIsAdmitted, Unrated, Limited, vars
  <2>4. CASE TimePasses
    BY <2>1, <2>4 DEF HandledIsAdmitted, TimePasses, Tick
  <2>5. CASE Cleanup /\ UNCHANGED <<last, handled>>
    BY <2>1, <2>5 DEF HandledIsAdmitted, Cleanup
  <2>6. CASE \E e \in Endpoints : Preflight(e)
    BY <2>1, <2>6 DEF HandledIsAdmitted, Preflight, vars
  <2>7. CASE UNCHANGED routesVars
    BY <2>1, <2>7 DEF HandledIsAdmitted, routesVars, vars
  <2>8. QED BY <2>1, <2>2, <2>3, <2>4, <2>5, <2>6, <2>7 DEF RoutesNext, Request
<1>3. QED BY <1>1, <1>2, RoutesLimiter, LimiterTypes, PTL DEF RoutesSpec

\* The handlers open to everyone run for a client at most twice the quota less
\* one within a window's length, over all endpoints together: routes.go has one
\* limiter for all of them.
THEOREM HandlersBounded == RoutesSpec => []OpenHandlersBounded
<1>1. TypeOK /\ HistoryInv /\ HandledIsAdmitted => OpenHandlersBounded
  <2>1. SUFFICES ASSUME TypeOK, HistoryInv, HandledIsAdmitted, NEW c \in Clients
                 PROVE  recent[c][Window] <= 2 * Quota - 1
    BY DEF OpenHandlersBounded, HandledIsAdmitted
  <2>2. Window \in 0..Window
    BY LimiterAssumption
  <2>3. QED BY <2>1, <2>2, Numbers DEF HistoryInv, HistoryOf
<1>2. QED BY <1>1, RoutesLimiter, LimiterTypes, History, Handled, PTL

\* The latest answer is one the router gives to that endpoint.
LastTypes ==
  last \in [endpoint : Endpoints \cup {Nil}, token : Tokens, status : Statuses]

\* A temporary token has none of the claims that TokenClaims names, so the handlers
\* look up the zero id, which no row has, and the role is the empty one.
LEMMA PendingClaims ==
  /\ FindUser("pending") = {"no rows", "failed"}
  /\ FindOrganization("pending") = {"no rows", "failed"}
  /\ ~RequireRole("pending")
<1>1. /\ Claim("pending", "user_id", ZeroId) = ZeroId
      /\ Claim("pending", "organization_id", ZeroId) = ZeroId
      /\ Claim("pending", "role", "") = ""
  BY DEF Claim, Claims, TwoFAPendingClaims
<1>2. ZeroId \notin UserIds \cup OrganizationIds
  BY DEF ZeroId, UserIds, OrganizationIds
<1>3. QED BY <1>1, <1>2 DEF FindUser, FindOrganization, FindByID, RequireRole

\* So no handler behind AuthMiddleware answers it with success.
LEMMA PendingAnswers ==
  ASSUME NEW e \in Bearer \cup Staff
  PROVE  "ok" \notin Answered(e, "pending")
<1>1. "ok" \notin Me("pending") \cup GetMyOrganization("pending")
  BY PendingClaims DEF Me, GetMyOrganization, Show
<1>2. "ok" \notin SetupConfirmDisable(e, "pending")
  BY PendingClaims DEF SetupConfirmDisable
<1>3. e \in Bearer => "ok" \notin Handler(e, "pending")
  BY <1>1, <1>2 DEF Handler, Bearer, TwoFA, Staff
<1>4. e \in Staff => Answered(e, "pending") = {"forbidden"}
  BY PendingClaims DEF Answered, Authenticated
<1>5. QED BY <1>3, <1>4 DEF Answered

\* What a handler, or the middleware before it, answers is a status.
LEMMA AnswersAreStatuses ==
  ASSUME NEW e \in Endpoints, NEW t \in Tokens
  PROVE  Handler(e, t) \subseteq Statuses /\ Answered(e, t) \subseteq Statuses
<1>1. \A outcome \in FindUser(t) \cup FindOrganization(t) : Show(outcome) \in Statuses
  BY DEF FindUser, FindOrganization, FindByID, Show, Statuses
<1>2. Me(t) \subseteq Statuses /\ GetMyOrganization(t) \subseteq Statuses
  BY <1>1 DEF Me, GetMyOrganization
<1>3. SetupConfirmDisable(e, t) \subseteq Statuses
  BY DEF SetupConfirmDisable, Statuses
<1>4. Handler(e, t) \subseteq Statuses
  BY <1>2, <1>3 DEF Handler, Statuses
<1>5. QED BY <1>4 DEF Answered, Statuses

\* The answer a request gets is well typed, and a temporary token is served nothing.
LEMMA Replies ==
  ASSUME LastTypes, PendingServedNothing, [RoutesNext]_routesVars
  PROVE  LastTypes' /\ PendingServedNothing'
<1>1. ASSUME NEW e \in Endpoints, NEW t \in Tokens, NEW status \in Statuses, Reply(e, t, status),
             t = "pending" /\ e \in Bearer \cup Staff => status # "ok"
      PROVE  LastTypes' /\ PendingServedNothing'
  BY <1>1 DEF Reply, LastTypes, PendingServedNothing
<1>2. \A e \in Endpoints : Shown(e) \subseteq Tokens
  BY DEF Shown, Tokens
<1>3. ASSUME NEW c \in Clients, NEW e \in Endpoints, NEW t \in Shown(e), Rated(c, e, t)
      PROVE  LastTypes' /\ PendingServedNothing'
  <2>1. e \notin Bearer \cup Staff
    BY <1>3 DEF Rated, Limited, Open, Bearer, Staff
  <2>2. "too many" \in Statuses
    BY DEF Statuses
  <2>3. PICK status \in Statuses : Reply(e, t, status)
    BY <1>2, <1>3, <2>2, AnswersAreStatuses DEF Rated
  <2>4. QED BY <1>1, <1>2, <2>1, <2>3
<1>4. ASSUME NEW c \in Clients, NEW e \in Endpoints, NEW t \in Shown(e), Unrated(c, e, t)
      PROVE  LastTypes' /\ PendingServedNothing'
  <2>1. PICK status \in Answered(e, t) : Reply(e, t, status)
    BY <1>4 DEF Unrated
  <2>2. status \in Statuses
    BY <1>2, AnswersAreStatuses
  <2>3. t = "pending" /\ e \in Bearer \cup Staff => status # "ok"
    BY PendingAnswers
  <2>4. QED BY <1>1, <1>2, <2>1, <2>2, <2>3
<1>5. ASSUME NEW e \in Endpoints, Preflight(e) PROVE LastTypes' /\ PendingServedNothing'
  BY <1>1, <1>5 DEF Preflight, Tokens, Statuses
<1>6. CASE UNCHANGED last
  BY <1>6 DEF LastTypes, PendingServedNothing
<1>7. QED BY <1>3, <1>4, <1>5, <1>6
          DEF RoutesNext, Request, TimePasses, routesVars

\* Nothing has been answered yet.
LEMMA NoReply == RoutesInit => LastTypes /\ PendingServedNothing
<1>1. QED BY DEF RoutesInit, LastTypes, PendingServedNothing, Tokens, Statuses

\* The router's variables keep their types.
THEOREM RoutesTypes == RoutesSpec => []RoutesTypeOK
<1>1. TypeOK /\ LastTypes /\ HandledIsAdmitted => RoutesTypeOK
  BY DEF RoutesTypeOK, TypeOK, LastTypes, HandledIsAdmitted
<1>2. RoutesSpec => [](LastTypes /\ PendingServedNothing)
  BY NoReply, Replies, PTL DEF RoutesSpec
<1>3. QED BY <1>1, <1>2, RoutesLimiter, LimiterTypes, Handled, PTL

\* The temporary token of a login that waits for its code is served nothing behind
\* AuthMiddleware, which lets it through: what it is signed with names neither a
\* user_id nor an organization_id nor a role.
THEOREM PendingTokens == RoutesSpec => []PendingServedNothing
<1>1. QED BY NoReply, Replies, PTL DEF RoutesSpec
=============================================================================
