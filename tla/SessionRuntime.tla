--------------------------- MODULE SessionRuntime ---------------------------
(***************************************************************************)
(* What one call of session.Run (internal/session/runtime.go) promises to  *)
(* the control-plane host that made it: which events it emits, in which    *)
(* order, and how it returns.  No worker, channel or goroutine is visible. *)
(* Supervisor implements this specification and HostSession is built on it.*)
(***************************************************************************)
VARIABLES
    ctxDone,    \* the caller cancelled the context given to Run
    stage,      \* new, resolving, supervising, draining or returned
    event,      \* the last lifecycle event emitted through the observer
    ready,      \* runtime_ready was emitted
    failed,     \* runtime_failure was emitted
    result      \* none, nil or error: what Run returned

rtVars == <<ctxDone, stage, event, ready, failed, result>>

Events == {"none", "runtime_startup", "runtime_ready",
           "worker_restart_scheduled", "runtime_failure", "runtime_stop"}

RtInit ==
    /\ ctxDone = FALSE
    /\ stage = "new"
    /\ event = "none"
    /\ ready = FALSE
    /\ failed = FALSE
    /\ result = "none"

\* The caller cancels; Run sees it whenever it next looks.
RtCancel ==
    /\ ~ctxDone
    /\ ctxDone' = TRUE
    /\ UNCHANGED <<stage, event, ready, failed, result>>

\* Startup is announced once the policy is accepted and the provider known.
RtStartup ==
    /\ stage = "new"
    /\ stage' = "resolving"
    /\ event' = "runtime_startup"
    /\ UNCHANGED <<ctxDone, ready, failed, result>>

\* A refusal before supervision starts: one failure event, then the error.
RtReject ==
    /\ stage \in {"new", "resolving"}
    /\ stage' = "returned"
    /\ event' = "runtime_failure"
    /\ failed' = TRUE
    /\ result' = "error"
    /\ UNCHANGED <<ctxDone, ready>>

\* The provider resolved and the local ingress is bound.
RtSupervise ==
    /\ stage = "resolving"
    /\ stage' = "supervising"
    /\ UNCHANGED <<ctxDone, event, ready, failed, result>>

\* Readiness is announced at most once.
RtReady ==
    /\ stage = "supervising"
    /\ ~ready
    /\ ready' = TRUE
    /\ event' = "runtime_ready"
    /\ UNCHANGED <<ctxDone, stage, failed, result>>

\* A worker is given another chance, before or after readiness.
RtRestart ==
    /\ stage = "supervising"
    /\ event' = "worker_restart_scheduled"
    /\ UNCHANGED <<ctxDone, stage, ready, failed, result>>

\* The one failure of a supervised session; nothing but the return follows.
RtFail ==
    /\ stage = "supervising"
    /\ stage' = "draining"
    /\ event' = "runtime_failure"
    /\ failed' = TRUE
    /\ UNCHANGED <<ctxDone, ready, result>>

\* The session leaves its loop because the caller cancelled.
RtDrain ==
    /\ stage = "supervising"
    /\ ctxDone
    /\ stage' = "draining"
    /\ UNCHANGED <<ctxDone, event, ready, failed, result>>

\* An error is returned exactly when a failure was announced, and nil only
\* to a caller that had cancelled.
RtReturn ==
    /\ stage = "draining"
    /\ stage' = "returned"
    /\ result' = IF failed THEN "error" ELSE "nil"
    /\ event' = IF failed THEN event ELSE "runtime_stop"
    /\ UNCHANGED <<ctxDone, ready, failed>>

RtNext ==
    \/ RtCancel \/ RtStartup \/ RtReject \/ RtSupervise \/ RtReady
    \/ RtRestart \/ RtFail \/ RtDrain \/ RtReturn

RtSpec == RtInit /\ [][RtNext]_rtVars
=============================================================================
