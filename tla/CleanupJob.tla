----------------------------- MODULE CleanupJob -----------------------------
(***************************************************************************)
(* The goroutine of CleanupExpiredTokens (internal/database/prisma.go)     *)
(* beside the server it cleans up after.  Its hourly DELETE may fail like  *)
(* any other statement; the job then logs the error and waits for the next *)
(* hour.  To the tables a DELETE that fails is no step at all, which is    *)
(* why Server has only the one that succeeds; whether the expired sessions *)
(* ever go depends on what the job does after it.  That main stops the job *)
(* on the way out is in Lifecycle.                                         *)
(***************************************************************************)
EXTENDS Server

VARIABLES job   \* "select": waiting for its hour; "failed": its DELETE has
                \* just failed; "ended": it has returned

jobVars == <<vars, job>>

JobInit == Init /\ job = "select"

JobDeletes == job = "select" /\ Cleanup /\ UNCHANGED job

JobFails ==
  /\ Faults
  /\ job = "select" /\ job' = "failed"
  /\ UNCHANGED vars

\* Mutant: return instead of continue.
JobGivesUp ==
  /\ job = "failed" /\ job' = "ended"
  /\ UNCHANGED vars

\* The error is logged, and the loop goes on.
JobContinues ==
  /\ job = "failed" /\ job' = "select"
  /\ UNCHANGED vars

Job == JobDeletes \/ JobFails \/ JobContinues

\* The process dies, and the one that is started after it starts the job anew.
Restart == Die /\ job' = "select"

JobNext ==
  \/ \E r \in Reqs : (Receive(r) \/ Step(r)) /\ UNCHANGED job
  \/ Clock /\ UNCHANGED job
  \/ Job
  \/ Restart

JobSpec == JobInit /\ [][JobNext]_jobVars

\* Handlers and the job are goroutines: once started, each is given the processor
\* again and again.  No client is obliged to call, and no DELETE to succeed.
JobFairness ==
  /\ WF_jobVars(Job)
  /\ \A r \in Reqs : WF_jobVars(Step(r) /\ UNCHANGED job)

JobFairSpec == JobSpec /\ JobFairness

----------------------------------------------------------------------------
\* Every request that reached a handler is answered, or cut off with the
\* process; no interleaving makes a handler wait.
EveryRequestAnswered ==
  \A r \in Reqs : InFlight(r) ~> pc[r] = "done"

\* An expired session goes, or the job's DELETE fails once more: as this is so of
\* every later moment too, it stays for ever only if the DELETE fails again and
\* again, however often it has failed before it succeeds (prisma.go:44).
ExpiredSessionsCleaned ==
  \A t \in Reqs :
    (Live(t) /\ refreshTokens[t].expired) ~> (~Live(t) \/ job = "failed")
=============================================================================
