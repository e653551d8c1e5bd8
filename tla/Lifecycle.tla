------------------------------ MODULE Lifecycle ------------------------------
(***************************************************************************)
(* The life of the process in cmd/server/main.go: main, the goroutine that *)
(* serves, the clean-up job's goroutine, the signals that end them, and    *)
(* the connections that are being served meanwhile.  What net/http does    *)
(* on Shutdown is modelled from how main uses it.  A handler may take for  *)
(* ever: the calls to the OAuth providers have no time-out of their own.   *)
(***************************************************************************)
EXTENDS Naturals

CONSTANTS
  Conns,       \* connections; one may carry several requests, one at a time
  MaxSignals   \* bound: how many SIGINT or SIGTERM are sent

ASSUME LifecycleAssumption == MaxSignals \in Nat

\* How the process ended: "killed" by a signal nobody waits for, "panicked",
\* or with an exit status.
Exits == {"running", "killed", "panicked", "status 0", "status 1"}

VARIABLES
  main,      \* the statement main executes next
  serve,     \* the goroutine in ListenAndServe
  cleaner,   \* the goroutine in CleanupExpiredTokens
  quit,      \* signals in the channel "quit"
  signals,   \* signals sent so far
  stopping,  \* the server's flag inShutdown
  ctx,       \* the clean-up job's context: "open" or "cancelled"
  deadline,  \* shutdownCtx: "unset", "set" or "passed"
  db,        \* the database handle: "closed" or "open"
  conn,      \* what each connection is doing
  exit       \* how the process ended

vars == <<main, serve, cleaner, quit, signals, stopping, ctx, deadline, db, conn, exit>>

TypeOK ==
  /\ main \in {"load", "connect", "notify", "start", "wait", "cancel", "shutdown", "drain",
               "deferred", "close", "return"}
  /\ serve \in {"unborn", "listen", "accept", "failed", "closed"}
  /\ cleaner \in {"unborn", "select", "delete", "ended"}
  /\ quit \in 0..1 /\ signals \in 0..MaxSignals
  /\ stopping \in BOOLEAN
  /\ ctx \in {"open", "cancelled"}
  /\ deadline \in {"unset", "set", "passed"}
  /\ db \in {"closed", "open"}
  /\ conn \in [Conns -> {"none", "active", "idle", "closed", "cut"}]
  /\ exit \in Exits

Init ==
  /\ main = "load" /\ serve = "unborn" /\ cleaner = "unborn"
  /\ quit = 0 /\ signals = 0 /\ stopping = FALSE
  /\ ctx = "open" /\ deadline = "unset" /\ db = "closed"
  /\ conn = [c \in Conns |-> "none"]
  /\ exit = "running"

\* The process ends: its goroutines are cut off where they are.
Exit(how) ==
  /\ exit' = how
  /\ conn' = [c \in Conns |-> CASE conn[c] = "active" -> "cut"
                                [] conn[c] = "idle"   -> "closed"
                                [] OTHER              -> conn[c]]
  /\ UNCHANGED <<main, serve, cleaner, quit, stopping, ctx, deadline, db>>

----------------------------------------------------------------------------
(* main *)

\* config.Load exits if JWT_SECRET or DATABASE_URL is not set.
Load ==
  /\ main = "load"
  /\ \/ /\ main' = "connect"
        /\ UNCHANGED <<serve, cleaner, quit, stopping, ctx, deadline, db, conn, exit>>
     \/ Exit("status 1")
  /\ UNCHANGED signals

\* database.Connect panics if the database does not answer.
Connect ==
  /\ main = "connect"
  /\ \/ /\ main' = "notify" /\ db' = "open"
        /\ UNCHANGED <<serve, cleaner, quit, stopping, ctx, deadline, conn, exit>>
     \/ Exit("panicked")
  /\ UNCHANGED signals

Notify ==
  /\ main = "notify"
  /\ main' = "start"
  /\ UNCHANGED <<serve, cleaner, quit, signals, stopping, ctx, deadline, db, conn, exit>>

StartGoroutines ==
  /\ main = "start"
  /\ main' = "wait" /\ serve' = "listen" /\ cleaner' = "select"
  /\ UNCHANGED <<quit, signals, stopping, ctx, deadline, db, conn, exit>>

ReceiveSignal ==
  /\ main = "wait" /\ quit > 0
  /\ main' = "cancel" /\ quit' = quit - 1
  /\ UNCHANGED <<serve, cleaner, signals, stopping, ctx, deadline, db, conn, exit>>

CancelCleanup ==
  /\ main = "cancel"
  /\ main' = "shutdown" /\ ctx' = "cancelled"
  /\ UNCHANGED <<serve, cleaner, quit, signals, stopping, deadline, db, conn, exit>>

\* Shutdown closes the listener first.
BeginShutdown ==
  /\ main = "shutdown"
  /\ main' = "drain" /\ stopping' = TRUE /\ deadline' = "set"
  /\ UNCHANGED <<serve, cleaner, quit, signals, ctx, db, conn, exit>>

\* Mutant: idle or not, connections are not waited for.
DrainAtOnce ==
  /\ main = "drain"
  /\ conn' = [c \in Conns |-> IF conn[c] = "idle" THEN "closed" ELSE conn[c]]
  /\ main' = "deferred"
  /\ UNCHANGED <<serve, cleaner, quit, signals, stopping, ctx, deadline, db, exit>>

\* It closes idle connections, and returns once no other is left.
Drain ==
  /\ main = "drain"
  /\ conn' = [c \in Conns |-> IF conn[c] = "idle" THEN "closed" ELSE conn[c]]
  /\ main' = IF \E c \in Conns : conn[c] = "active" THEN main ELSE "deferred"
  /\ UNCHANGED <<serve, cleaner, quit, signals, stopping, ctx, deadline, db, exit>>

\* Mutant: the error of Shutdown is logged and no more.
ForceExitLogged ==
  /\ main = "drain" /\ deadline = "passed"
  /\ main' = "deferred"
  /\ UNCHANGED <<serve, cleaner, quit, signals, stopping, ctx, deadline, db, conn, exit>>

\* Shutdown returns the error of its context, and main exits with status 1.
ForceExit ==
  /\ main = "drain" /\ deadline = "passed"
  /\ Exit("status 1")
  /\ UNCHANGED signals

\* main returns: the calls it has deferred run, the last one deferred first.  Those
\* of shutdownCancel and cancel come before that of db.Client.Close.
DeferredCancels ==
  /\ main = "deferred"
  /\ main' = "close" /\ ctx' = "cancelled"
  /\ deadline' = IF deadline = "set" THEN "unset" ELSE deadline
  /\ UNCHANGED <<serve, cleaner, quit, signals, stopping, db, conn, exit>>

CloseDatabase ==
  /\ main = "close"
  /\ main' = "return" /\ db' = "closed"
  /\ UNCHANGED <<serve, cleaner, quit, signals, stopping, ctx, deadline, conn, exit>>

Return ==
  /\ main = "return"
  /\ Exit("status 0")
  /\ UNCHANGED signals

Main ==
  \/ Load \/ Connect \/ Notify \/ StartGoroutines \/ ReceiveSignal \/ CancelCleanup
  \/ BeginShutdown \/ Drain \/ ForceExit \/ DeferredCancels \/ CloseDatabase \/ Return

----------------------------------------------------------------------------
(* The goroutines main starts *)

\* ListenAndServe returns: ErrServerClosed if the server is stopping, whether
\* or not it had got to listen, or what went wrong.
Listen ==
  /\ serve = "listen"
  /\ serve' \in IF stopping THEN {"closed"} ELSE {"accept", "failed"}
  /\ UNCHANGED <<main, cleaner, quit, signals, stopping, ctx, deadline, db, conn, exit>>

AcceptFails ==
  /\ serve = "accept"
  /\ serve' = IF stopping THEN "closed" ELSE "failed"
  /\ UNCHANGED <<main, cleaner, quit, signals, stopping, ctx, deadline, db, conn, exit>>

\* Mutant: the error is not compared with ErrServerClosed.
FatalOrClosed(state) == state \in {"failed", "closed"}

\* err != nil && err != http.ErrServerClosed
Fatal(state) == state = "failed"

ServeError ==
  /\ Fatal(serve)
  /\ Exit("status 1")
  /\ UNCHANGED signals

\* Mutant: the job is started with context.Background().
NeverCancelled == FALSE

\* The context the job was started with is the one main cancels.
JobCancelled == ctx = "cancelled"

\* The hour is over; a context that is cancelled makes ExecContext fail at once.
StartDelete ==
  /\ cleaner = "select" /\ ~JobCancelled
  /\ cleaner' = "delete"
  /\ UNCHANGED <<main, serve, quit, signals, stopping, ctx, deadline, db, conn, exit>>

\* The DELETE succeeds or fails, or is given up because the context is cancelled.
EndDelete ==
  /\ cleaner = "delete"
  /\ cleaner' = "select"
  /\ UNCHANGED <<main, serve, quit, signals, stopping, ctx, deadline, db, conn, exit>>

EndCleanup ==
  /\ cleaner = "select" /\ JobCancelled
  /\ cleaner' = "ended"
  /\ UNCHANGED <<main, serve, quit, signals, stopping, ctx, deadline, db, conn, exit>>

----------------------------------------------------------------------------
(* Around the process *)

\* Mutant: the channel has no buffer, so a signal is dropped unless main is
\* waiting for it.
DeliverUnbuffered == quit' = IF main = "wait" THEN 1 ELSE quit

\* Mutant: the channel has room for more signals.
DeliverAll == quit' = quit + 1

\* signal.Notify does not block: a signal that finds the channel full is dropped.
Deliver == quit' = 1

Signal ==
  /\ signals < MaxSignals
  /\ signals' = signals + 1
  /\ IF main \in {"load", "connect", "notify"} THEN Exit("killed")
     ELSE /\ Deliver
          /\ UNCHANGED <<main, serve, cleaner, stopping, ctx, deadline, db, conn, exit>>

\* Five seconds.
PassDeadline ==
  /\ deadline = "set"
  /\ deadline' = "passed"
  /\ UNCHANGED <<main, serve, cleaner, quit, signals, stopping, ctx, db, conn, exit>>

\* A request arrives on a new connection or on one kept alive.
StartRequest(c) ==
  /\ \/ conn[c] = "none" /\ serve = "accept" /\ ~stopping
     \/ conn[c] = "idle"
  /\ conn' = [conn EXCEPT ![c] = "active"]
  /\ UNCHANGED <<main, serve, cleaner, quit, signals, stopping, ctx, deadline, db, exit>>

\* The handler answers; a server that is stopping keeps no connection alive.
EndRequest(c) ==
  /\ conn[c] = "active"
  /\ \E after \in {"idle", "closed"} :
       /\ stopping => after = "closed"
       /\ conn' = [conn EXCEPT ![c] = after]
  /\ UNCHANGED <<main, serve, cleaner, quit, signals, stopping, ctx, deadline, db, exit>>

----------------------------------------------------------------------------
Running(A) == exit = "running" /\ A

Next ==
  \/ Running(Main)
  \/ Running(Listen) \/ Running(AcceptFails) \/ Running(ServeError)
  \/ Running(StartDelete) \/ Running(EndDelete) \/ Running(EndCleanup)
  \/ Running(Signal) \/ Running(PassDeadline)
  \/ \E c \in Conns : Running(StartRequest(c)) \/ Running(EndRequest(c))

Spec == Init /\ [][Next]_vars

\* main is given the processor again and again, and time passes.  No handler is
\* obliged to end, no client to call, nobody to send a signal.
Fairness ==
  /\ WF_vars(Running(Main))
  /\ WF_vars(Running(PassDeadline))

FairSpec == Spec /\ Fairness

----------------------------------------------------------------------------
\* The status is 0 only if every request that reached a handler was answered.
CleanExitServesAll == exit = "status 0" => \A c \in Conns : conn[c] # "cut"

\* No handler runs on a closed database.
HandlersHaveDatabase == \A c \in Conns : conn[c] = "active" => db = "open"

\* Nobody waits for the clean-up job, but its context reaches it in time: it starts
\* no DELETE on a closed database, and when the database is closed a DELETE that is
\* still under way has been told to give up.
CleanupHasDatabase ==
  [][/\ cleaner = "select" /\ cleaner' = "delete" => db = "open"
     /\ db = "open" /\ db' = "closed" => cleaner # "delete" \/ JobCancelled]_vars

\* The status is 1 only if there was no configuration, serving had failed, or the
\* five seconds had passed: the end of ListenAndServe that Shutdown brings about
\* is not taken for a failure.
FailureForAReason ==
  exit = "status 1" =>
    main = "load" \/ serve = "failed" \/ (stopping /\ deadline = "passed")

\* A signal ends the process, though no handler ever finishes, and whether main
\* was waiting for it or still on its way there.
SignalEndsProcess == signals > 0 ~> exit # "running"
=============================================================================
