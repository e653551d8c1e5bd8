-------------------------- MODULE LifecycleProofs --------------------------
(***************************************************************************)
(* The life of the process, for any number of connections and of signals:  *)
(* what main has done decides what every goroutine may rely on.            *)
(***************************************************************************)
EXTENDS Lifecycle, TLAPS

USE LifecycleAssumption

\* Where main is before it has started the goroutines.
Starting == {"load", "connect", "notify", "start"}

\* The database is open from Connect to the deferred Close.
DatabaseOpen == db = "open" <=> main \notin {"load", "connect", "return"}

\* The server is stopping, and the clean-up job was told to stop, from when main
\* has called Shutdown and cancel.
StoppingOnceCalled ==
  /\ stopping <=> main \in {"drain", "deferred", "close", "return"}
  /\ main \in {"shutdown", "drain", "deferred", "close", "return"} => ctx = "cancelled"

\* Goroutines run once main has started them, and only the one that serves
\* brings requests in.
StartedByMain ==
  /\ main \in Starting => serve = "unborn" /\ cleaner = "unborn"
  /\ serve = "unborn" => \A c \in Conns : conn[c] = "none"

\* While the process runs no request is cut off, and once main has drained the
\* connections none is being served or kept alive.
Drained ==
  exit = "running" =>
    /\ \A c \in Conns : conn[c] # "cut"
    /\ main \in {"deferred", "close", "return"} => \A c \in Conns : conn[c] \in {"none", "closed"}

\* A process that has ended serves nobody.
EndedServesNobody == exit # "running" => \A c \in Conns : conn[c] # "active"

\* The inductive invariant: neither CleanExitServesAll nor HandlersHaveDatabase
\* is one, as both rest on how far main has come.
LifeInv ==
  /\ DatabaseOpen /\ StoppingOnceCalled /\ StartedByMain
  /\ Drained /\ EndedServesNobody
  /\ CleanExitServesAll /\ FailureForAReason

----------------------------------------------------------------------------
(* Types *)

\* The channel holds at most one signal, and no more are sent than MaxSignals.
LEMMA Counters ==
  ASSUME TypeOK, [Next]_vars
  PROVE  quit' \in 0..1 /\ signals' \in 0..MaxSignals
  <1>1. /\ quit' = quit \/ quit' = 1 \/ (quit > 0 /\ quit' = quit - 1)
        /\ signals' = signals \/ (signals < MaxSignals /\ signals' = signals + 1)
    BY DEF Next, Running, Main, Load, Connect, Notify, StartGoroutines, ReceiveSignal,
           CancelCleanup, BeginShutdown, Drain, ForceExit, DeferredCancels, CloseDatabase,
           Return, Exit, Listen, AcceptFails, ServeError, StartDelete, EndDelete, EndCleanup,
           Signal, Deliver, PassDeadline, StartRequest, EndRequest, vars
  <1>2. quit \in 0..1 /\ signals \in 0..MaxSignals
    BY DEF TypeOK
  <1>3. quit' \in 0..1
    BY <1>1, <1>2
  <1>4. signals' \in 0..MaxSignals
    BY <1>1, <1>2
  <1> QED BY <1>3, <1>4

\* What a connection is doing stays one of the things it may be doing.
LEMMA ConnectionTypes ==
  ASSUME TypeOK, [Next]_vars
  PROVE  conn' \in [Conns -> {"none", "active", "idle", "closed", "cut"}]
  <1> USE DEF TypeOK
  <1>1. CASE \E how : Exit(how)
    BY <1>1 DEF Exit
  <1>2. CASE Drain
    BY <1>2 DEF Drain
  <1>3. CASE \E c \in Conns : StartRequest(c) \/ EndRequest(c)
    BY <1>3 DEF StartRequest, EndRequest
  <1>4. CASE UNCHANGED conn
    BY <1>4
  <1> QED BY <1>1, <1>2, <1>3, <1>4
          DEF Next, Running, Main, Load, Connect, Notify, StartGoroutines, ReceiveSignal,
              CancelCleanup, BeginShutdown, ForceExit, DeferredCancels, CloseDatabase,
              Return, Listen, AcceptFails, ServeError, StartDelete, EndDelete, EndCleanup, Signal,
              PassDeadline, vars

\* The other variables are set to one of a few values.
LEMMA StateTypes ==
  ASSUME TypeOK, [Next]_vars
  PROVE  /\ main' \in {"load", "connect", "notify", "start", "wait", "cancel", "shutdown",
                       "drain", "deferred", "close", "return"}
         /\ serve' \in {"unborn", "listen", "accept", "failed", "closed"}
         /\ cleaner' \in {"unborn", "select", "delete", "ended"}
         /\ ctx' \in {"open", "cancelled"} /\ deadline' \in {"unset", "set", "passed"}
         /\ db' \in {"closed", "open"} /\ exit' \in Exits
         /\ stopping' \in BOOLEAN
  BY DEF TypeOK, Exits, Next, Running, Main, Load, Connect, Notify, StartGoroutines,
         ReceiveSignal, CancelCleanup, BeginShutdown, Drain, ForceExit, DeferredCancels,
         CloseDatabase, Return, Exit, Listen, AcceptFails, ServeError, StartDelete, EndDelete,
         EndCleanup, Signal, Deliver, PassDeadline, StartRequest, EndRequest, vars

\* The variables of the process keep their types.
THEOREM LifecycleTypes == Spec => []TypeOK
  <1>1. Init => TypeOK
    <2> SUFFICES ASSUME Init PROVE TypeOK
      OBVIOUS
    <2>1. quit \in 0..1 /\ signals \in 0..MaxSignals /\ exit \in Exits
      BY DEF Init, Exits
    <2> QED BY <2>1 DEF Init, TypeOK
  <1>2. TypeOK /\ [Next]_vars => TypeOK'
    <2> SUFFICES ASSUME TypeOK, [Next]_vars PROVE TypeOK'
      OBVIOUS
    <2> QED BY Counters, ConnectionTypes, StateTypes DEF TypeOK
  <1> QED BY <1>1, <1>2, PTL DEF Spec

----------------------------------------------------------------------------
(* The inductive invariant *)

\* It holds of a process that has just been started.
LEMMA LifeInit == Init => LifeInv
  <1> SUFFICES ASSUME Init PROVE LifeInv
    OBVIOUS
  <1> USE DEF Init
  <1>1. DatabaseOpen /\ StartedByMain
    BY DEF DatabaseOpen, StartedByMain, Starting
  <1>2. StoppingOnceCalled
    BY DEF StoppingOnceCalled
  <1>3. Drained /\ EndedServesNobody /\ CleanExitServesAll /\ FailureForAReason
    BY DEF Drained, EndedServesNobody, CleanExitServesAll, FailureForAReason
  <1> QED BY <1>1, <1>2, <1>3 DEF LifeInv

\* The end of the process keeps it, if it is an end that leaves nobody cut off or
\* says so in its status, and one that fails has its reason.
LEMMA ExitKeeps ==
  ASSUME TypeOK, LifeInv, exit = "running", NEW how \in Exits \ {"running"}, Exit(how),
         how = "status 0" => main = "return",
         how = "status 1" => \/ main = "load" \/ serve = "failed"
                             \/ stopping /\ deadline = "passed"
  PROVE  LifeInv'
  <1> USE DEF LifeInv
  <1>1. DatabaseOpen' /\ StoppingOnceCalled'
    BY DEF Exit, DatabaseOpen, StoppingOnceCalled
  <1>2. \A c \in Conns : /\ conn'[c] # "active"
                         /\ conn[c] = "none" => conn'[c] = "none"
                         /\ conn'[c] = "cut" => conn[c] \in {"active", "cut"}
    BY DEF Exit
  <1>3. StartedByMain' /\ EndedServesNobody' /\ Drained'
    BY <1>2 DEF Exit, StartedByMain, EndedServesNobody, Drained, Exits
  <1>4. CleanExitServesAll'
    BY <1>2 DEF Exit, CleanExitServesAll, Drained
  <1>5. FailureForAReason'
    BY DEF Exit, FailureForAReason
  <1> QED BY <1>1, <1>3, <1>4, <1>5

\* What main does keeps it.
LEMMA MainKeeps == ASSUME TypeOK, LifeInv, Running(Main) PROVE LifeInv'
  <1> USE DEF Running, TypeOK, LifeInv, DatabaseOpen, StoppingOnceCalled, StartedByMain,
              Starting, Drained, EndedServesNobody, CleanExitServesAll, FailureForAReason
  <1>1. CASE Load
    <2>1. CASE Exit("status 1")
      BY <1>1, <2>1, ExitKeeps DEF Load, Exits
    <2>2. CASE main' = "connect" /\ UNCHANGED <<serve, cleaner, quit, stopping, ctx, deadline,
                                                db, conn, exit>>
      BY <1>1, <2>2 DEF Load
    <2> QED BY <1>1, <2>1, <2>2 DEF Load
  <1>2. CASE Connect
    <2>1. CASE Exit("panicked")
      BY <1>2, <2>1, ExitKeeps DEF Connect, Exits
    <2>2. CASE /\ main' = "notify" /\ db' = "open"
               /\ UNCHANGED <<serve, cleaner, quit, stopping, ctx, deadline, conn, exit>>
      BY <1>2, <2>2 DEF Connect
    <2> QED BY <1>2, <2>1, <2>2 DEF Connect
  <1>3. CASE Notify
    BY <1>3 DEF Notify
  <1>4. CASE StartGoroutines
    BY <1>4 DEF StartGoroutines
  <1>5. CASE ReceiveSignal
    BY <1>5 DEF ReceiveSignal
  <1>6. CASE CancelCleanup
    BY <1>6 DEF CancelCleanup
  <1>7. CASE BeginShutdown
    BY <1>7 DEF BeginShutdown
  <1>8. CASE Drain
    <2>1. \A c \in Conns : conn'[c] = IF conn[c] = "idle" THEN "closed" ELSE conn[c]
      BY <1>8 DEF Drain
    <2>2. main' = "deferred" => \A c \in Conns : conn'[c] \in {"none", "closed"}
      BY <1>8, <2>1 DEF Drain
    <2> QED BY <1>8, <2>1, <2>2 DEF Drain
  <1>9. CASE ForceExit
    BY <1>9, ExitKeeps DEF ForceExit, Exits
  <1>10. CASE DeferredCancels
    BY <1>10 DEF DeferredCancels
  <1>11. CASE CloseDatabase
    BY <1>11 DEF CloseDatabase
  <1>12. CASE Return
    BY <1>12, ExitKeeps DEF Return, Exits
  <1> QED BY <1>1, <1>2, <1>3, <1>4, <1>5, <1>6, <1>7, <1>8, <1>9, <1>10, <1>11, <1>12
         DEF Main

\* What the goroutines do, and what happens around the process, keeps it.
LEMMA OthersKeep ==
  ASSUME TypeOK, LifeInv,
         \/ Running(Listen) \/ Running(AcceptFails) \/ Running(ServeError)
         \/ Running(StartDelete) \/ Running(EndDelete) \/ Running(EndCleanup)
         \/ Running(Signal) \/ Running(PassDeadline)
  PROVE  LifeInv'
  <1> USE DEF Running, TypeOK, LifeInv, DatabaseOpen, StoppingOnceCalled, StartedByMain,
              Starting, Drained, EndedServesNobody, CleanExitServesAll, FailureForAReason
  <1>1. CASE Listen \/ AcceptFails
    <2>1. /\ serve \in {"listen", "accept"} /\ serve' \in {"accept", "failed", "closed"}
          /\ UNCHANGED <<main, cleaner, quit, stopping, ctx, deadline, db, conn, exit>>
      BY <1>1 DEF Listen, AcceptFails
    <2> QED BY <2>1
  <1>2. CASE ServeError
    BY <1>2, ExitKeeps DEF ServeError, Fatal, Exits
  <1>3. CASE StartDelete \/ EndDelete \/ EndCleanup
    <2>1. /\ cleaner \in {"select", "delete"} /\ cleaner' \in {"select", "delete", "ended"}
          /\ UNCHANGED <<main, serve, quit, stopping, ctx, deadline, db, conn, exit>>
      BY <1>3 DEF StartDelete, EndDelete, EndCleanup
    <2> QED BY <2>1
  <1>4. CASE Signal
    BY <1>4, ExitKeeps DEF Signal, Exits
  <1>5. CASE PassDeadline
    BY <1>5 DEF PassDeadline
  <1> QED BY <1>1, <1>2, <1>3, <1>4, <1>5

\* A request that starts or ends keeps it.
LEMMA ConnectionsKeep ==
  ASSUME TypeOK, LifeInv, NEW c \in Conns, Running(StartRequest(c)) \/ Running(EndRequest(c))
  PROVE  LifeInv'
  <1> USE DEF Running, TypeOK, LifeInv, DatabaseOpen, StoppingOnceCalled, StartedByMain,
              Starting, Drained, EndedServesNobody, CleanExitServesAll, FailureForAReason
  <1>1. CASE StartRequest(c)
    BY <1>1 DEF StartRequest
  <1>2. CASE EndRequest(c)
    BY <1>2 DEF EndRequest
  <1> QED BY <1>1, <1>2 DEF Running

\* Every step keeps it.
LEMMA LifeNext == TypeOK /\ LifeInv /\ [Next]_vars => LifeInv'
  <1> SUFFICES ASSUME TypeOK, LifeInv, [Next]_vars PROVE LifeInv'
    OBVIOUS
  <1>1. CASE UNCHANGED vars
    BY <1>1 DEF vars, LifeInv, DatabaseOpen, StoppingOnceCalled, StartedByMain,
                Starting, Drained, EndedServesNobody, CleanExitServesAll, FailureForAReason
  <1> QED BY <1>1, MainKeeps, OthersKeep, ConnectionsKeep DEF Next

\* It holds throughout.
LEMMA Life == Spec => []LifeInv
  BY LifeInit, LifeNext, LifecycleTypes, PTL DEF Spec

----------------------------------------------------------------------------
\* A process that ends with status 0 has answered every request that reached a
\* handler, however many connections there were when the signal came.
THEOREM CleanExit == Spec => []CleanExitServesAll
  <1>1. LifeInv => CleanExitServesAll
    BY DEF LifeInv
  <1> QED BY <1>1, Life, PTL

\* A handler that runs finds the database open: main closes it after Shutdown has
\* seen the last connection go.
THEOREM DatabaseOutlivesHandlers == Spec => []HandlersHaveDatabase
  <1>1. LifeInv => HandlersHaveDatabase
    BY DEF LifeInv, HandlersHaveDatabase, Drained, EndedServesNobody, DatabaseOpen,
           StartedByMain, Starting
  <1> QED BY <1>1, Life, PTL

\* The process ends with status 1 only for want of a configuration, because it
\* could not serve, or because the five seconds of the shutdown had passed.
THEOREM FailuresExplained == Spec => []FailureForAReason
  <1>1. LifeInv => FailureForAReason
    BY DEF LifeInv
  <1> QED BY <1>1, Life, PTL

\* The clean-up job starts no DELETE on a closed database, and one that is under way
\* when main closes it has been told to give up: main cancels the job's context before.
THEOREM CleanupEndsFirst == Spec => CleanupHasDatabase
  <1> DEFINE Has == /\ cleaner = "select" /\ cleaner' = "delete" => db = "open"
                    /\ db = "open" /\ db' = "closed" => cleaner # "delete" \/ JobCancelled
  <1>1. ASSUME LifeInv, [Next]_vars PROVE [Has]_vars
    <2> USE DEF LifeInv, DatabaseOpen, StoppingOnceCalled, StartedByMain, Starting, JobCancelled
    <2>1. CASE StartDelete
      BY <1>1, <2>1 DEF StartDelete
    <2>2. CASE CloseDatabase
      BY <1>1, <2>2 DEF CloseDatabase
    <2>3. CASE (cleaner' = "delete" => cleaner = "delete") /\ (db' = "closed" => db = "closed")
      BY <1>1, <2>3
    <2>4. CASE UNCHANGED vars
      BY <2>4 DEF vars
    <2> QED BY <1>1, <2>1, <2>2, <2>3, <2>4
            DEF Next, Running, Main, Load, Connect, Notify, StartGoroutines, ReceiveSignal,
                CancelCleanup, BeginShutdown, Drain, ForceExit, DeferredCancels, Return, Exit,
                Listen, AcceptFails, ServeError, EndDelete, EndCleanup, Signal, Deliver,
                PassDeadline, StartRequest, EndRequest
  <1> QED BY <1>1, Life, PTL DEF Spec, CleanupHasDatabase
=============================================================================
