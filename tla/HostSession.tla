---------------------------- MODULE HostSession -----------------------------
(***************************************************************************)
(* One session of the control-plane host: StartSession, StopSession,       *)
(* runSession, finishSession and handleRuntimeRecord of                    *)
(* pkg/clientcontrol/host.go around session.Run, with the challenges of    *)
(* its provider.                                                           *)
(*                                                                         *)
(* session.Run is SessionRuntime, which Supervisor implements.  The host   *)
(* learns what it does from its log records: the goroutine that emits one  *)
(* runs handleRuntimeRecord before it goes on, so emitting a record and    *)
(* the part of the handler under the host's mutex are one step.            *)
(***************************************************************************)
EXTENDS ChallengeBroker

VARIABLES
    stage, event, ready, failed, result,    \* of session.Run
    clearing,       \* the ready record is handled, its challenges not yet cleared
    stopRequested,
    stopCall,       \* StopSession: idle, unlocked or returned
    finish          \* finishSession: not called, called (the state is set) or
                    \* done (the done channel is closed)

runVars  == <<stage, event, ready, failed, result>>
hostVars == <<clearing, stopRequested, stopCall, finish>>
sessionVars == <<brokerVars, runVars, hostVars>>

Run == INSTANCE SessionRuntime

\* startSessionFromSpec stores the session and starts runSession.
SessionInit ==
    /\ BrokerInit
    /\ Run!RtInit
    /\ clearing = FALSE
    /\ stopRequested = FALSE
    /\ stopCall = "idle"
    /\ finish = "no"

\* What the host leaves alone in a step of session.Run.
RunStep(step) ==
    /\ step
    /\ ~clearing
    /\ UNCHANGED <<challenges, signals, stopRequested, stopCall, finish>>

----------------------------------------------------------------------------
(* session.Run and handleRuntimeRecord *)

\* Mutant: the events of the runtime do not reach the session.
UnrecordedState(s) == state' = state

\* The state a record puts the session in, whatever it was before.
RecordState(s) == state' = s

\* runtime_startup; the provider's Resolve follows.
RunStartup ==
    /\ RunStep(Run!RtStartup)
    /\ RecordState("starting")
    /\ provider' = "resolving"
    /\ UNCHANGED <<active, outcome, clearing>>

\* runtime_failure before supervision: refused at once, by the provider, or
\* with the provider's result in hand.
RunRejects ==
    /\ RunStep(Run!RtReject)
    /\ stage = "new" \/ provider = "returned"
    /\ RecordState("failed")
    /\ provider' = "finished"
    /\ UNCHANGED <<active, outcome, clearing>>

\* The provider resolved and the ingress is bound.
RunSupervises ==
    /\ RunStep(Run!RtSupervise)
    /\ provider = "returned"
    /\ outcome = "ok"
    /\ provider' = "finished"
    /\ UNCHANGED <<state, active, outcome, clearing>>

\* runtime_ready.
RunReady ==
    /\ RunStep(Run!RtReady)
    /\ RecordState("ready")
    /\ active' = 0
    /\ clearing' = TRUE
    /\ UNCHANGED <<provider, outcome>>

\* ... after which, under the mutex again, clearPendingChallenges.
ClearPendingChallenges ==
    /\ clearing
    /\ clearing' = FALSE
    /\ challenges' = [id \in ChallengeIDs |->
          IF challenges[id].status \in {"pending", "continuing"}
          THEN [challenges[id] EXCEPT !.status = "completed"] ELSE challenges[id]]
    /\ UNCHANGED <<ctxDone, state, active, provider, outcome, signals, runVars,
                   stopRequested, stopCall, finish>>

\* worker_restart_scheduled.
RunRestarts ==
    /\ RunStep(Run!RtRestart)
    /\ RecordState("retrying")
    /\ UNCHANGED <<active, provider, outcome, clearing>>

\* runtime_failure of a supervised session.
RunFails ==
    /\ RunStep(Run!RtFail)
    /\ RecordState("failed")
    /\ UNCHANGED <<active, provider, outcome, clearing>>

\* The rest of session.Run: the host ignores runtime_stop.
RunDrains ==
    /\ RunStep(Run!RtDrain \/ Run!RtReturn)
    /\ UNCHANGED <<state, active, provider, outcome, clearing>>

----------------------------------------------------------------------------
(* finishSession *)

\* Mutant: a stop request decides the outcome whatever the runtime reported.
StopDecides == IF stopRequested \/ result = "nil" THEN "stopped" ELSE "failed"

\* The final state.  A failure that was recorded stays; of the other results
\* of session.Run, and after a stop request, the session is stopped.
FinalState ==
    IF state = "failed" THEN "failed"
    ELSE IF stopRequested \/ result = "nil" THEN "stopped" ELSE "failed"

FinishSession ==
    /\ stage = "returned"
    /\ ~clearing
    /\ finish = "no"
    /\ finish' = "called"
    /\ state' = FinalState
    /\ UNCHANGED <<ctxDone, active, provider, outcome, challenges, signals, runVars,
                   clearing, stopRequested, stopCall>>

\* After the stop event is published, the done channel is closed.
CloseDone ==
    /\ finish = "called"
    /\ finish' = "done"
    /\ UNCHANGED <<brokerVars, runVars, clearing, stopRequested, stopCall>>

----------------------------------------------------------------------------
(* StopSession *)

\* Under the mutex; the call may be repeated, one at a time.
StopSession ==
    /\ stopCall /= "unlocked"
    /\ state \notin {"stopped", "failed"}
    /\ stopRequested' = TRUE
    /\ state' = "stopping"
    /\ stopCall' = "unlocked"
    /\ UNCHANGED <<ctxDone, active, provider, outcome, challenges, signals, runVars,
                   clearing, finish>>

\* cancel() after the unlock and the stop event.
StopContext ==
    /\ stopCall = "unlocked"
    /\ stopCall' = "returned"
    /\ ctxDone' = TRUE
    /\ UNCHANGED <<state, active, provider, outcome, challenges, signals, runVars,
                   clearing, stopRequested, finish>>

----------------------------------------------------------------------------
SessionNext ==
    \/ RunStartup \/ RunRejects \/ RunSupervises \/ RunReady \/ ClearPendingChallenges
    \/ RunRestarts \/ RunFails \/ RunDrains \/ FinishSession \/ CloseDone
    \/ StopSession \/ StopContext
    \/ BrokerStep /\ UNCHANGED <<runVars, hostVars>>

\* session.Run and the provider return at some point once the context is
\* cancelled (for session.Run: CancelReturns of Supervisor); the goroutines of
\* the host go on when they can.
SessionFairness ==
    /\ WF_sessionVars(ctxDone /\ (RunStartup \/ RunRejects \/ RunSupervises \/ RunDrains))
    /\ WF_sessionVars(ClearPendingChallenges)
    /\ WF_sessionVars(FinishSession)
    /\ WF_sessionVars(CloseDone)
    /\ WF_sessionVars(StopContext)
    /\ WF_sessionVars((WaitEnds \/ BrokerAnswers) /\ UNCHANGED <<runVars, hostVars>>)
    /\ WF_sessionVars(ctxDone /\ ResolveReturns /\ UNCHANGED <<runVars, hostVars>>)

SessionSpec == SessionInit /\ [][SessionNext]_sessionVars /\ SessionFairness

----------------------------------------------------------------------------
(* Properties *)

Terminal == {"stopped", "failed"}

\* A session that was reported stopped or failed stays so: no late record of
\* the runtime, answer to a challenge or stop request brings it back.
TerminalIsFinal == [][(state \in Terminal) => (state' = state)]_sessionVars

\* What the host reports in the end is what the runtime announced: failed
\* exactly when session.Run emitted a failure and returned its error.
OutcomeIsTheRuntimes ==
    finish /= "no" => /\ state \in Terminal
                      /\ state = "failed" <=> failed
                      /\ state = "failed" <=> result = "error"

\* Every stop request ends: WaitSession returns.
StopReturns == stopRequested ~> finish = "done"
=============================================================================
