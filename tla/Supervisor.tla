----------------------------- MODULE Supervisor -----------------------------
(***************************************************************************)
(* One client session: session.Run (internal/session/runtime.go) and the   *)
(* supervision loop it ends in, runSupervisedSession                       *)
(* (internal/session/supervisor.go), with the goroutines that loop talks   *)
(* to: one transport worker per connection, the ingress, and one backoff   *)
(* timer per scheduled restart.                                            *)
(*                                                                         *)
(* Go's select picks any ready case, so each case of the loop is an action *)
(* of its own that is enabled whenever its channel holds something.        *)
(***************************************************************************)
EXTENDS Integers, Sequences, FiniteSets, WorkerSet

CONSTANTS
    Connections,        \* the number of transport workers of the session
    MaxWorkerRestarts   \* how often one worker may be restarted

\* config.Validate refuses a connection count that is not positive.
ASSUME ConnectionsAssumption == Connections \in Nat \ {0}
ASSUME RestartsAssumption == MaxWorkerRestarts \in Nat

VARIABLES
    ctxDone,        \* the caller's context is cancelled
    cancelled,      \* supervisorCtx is cancelled (always when ctxDone)
    phase,          \* where session.Run stands
    states,         \* the workerState array
    runner,         \* the worker goroutines
    readyCh, resultCh, restartCh, ingressErrCh,
    backoff,        \* the workers whose restart timer is running
    ingress,        \* the ingress goroutine
    ws,             \* the worker set the ingress dispatches to
    readyWorkers, sessionReady, sessionErr,
    result,         \* what session.Run returned
    event,          \* the last lifecycle event emitted
    metrics         \* the session counters of the observer; its gauge of
                    \* active workers is readyWorkers and is left out

ctxVars     == <<ctxDone, cancelled>>
chanVars    == <<readyCh, resultCh, restartCh, ingressErrCh>>
loopVars    == <<states, ws, readyWorkers, sessionReady>>
reportVars  == <<sessionErr, result, event, metrics>>
vars == <<ctxVars, phase, runner, chanVars, backoff, ingress, loopVars, reportVars>>

Workers == 0 .. Connections - 1

\* readyCh, resultCh and restartCh are made with this capacity.
ChanCap == 2 * Connections

\* What runner.Run can return: a staged error of the set-up, an error of the
\* forwarding loop it enters after OnReady, or no error.
RunErrors == {"nil", "setup", "forwarding_loop"}

\* The stages a session error can carry.  worker_forwarding and
\* ingress_forwarding are both runstage.ForwardingLoop in the code: they are
\* told apart by who failed.
SessionErrors == {"none", "setup", "worker_forwarding", "ingress_forwarding",
                  "session_supervision", "startup"}

WorkerError(err) == IF err = "setup" THEN "setup" ELSE "worker_forwarding"

ReadySet == {i \in Workers : states[i].ready}

Init ==
    /\ ctxDone = FALSE
    /\ cancelled = FALSE
    /\ phase = "new"
    /\ states = [i \in Workers |-> [generation |-> 0, restarts |-> 0, ready |-> FALSE]]
    /\ runner = [i \in Workers |-> [pc |-> "idle", generation |-> 0, err |-> "nil"]]
    /\ readyCh = <<>>
    /\ resultCh = <<>>
    /\ restartCh = <<>>
    /\ ingressErrCh = <<>>
    /\ backoff = {}
    /\ ingress = "idle"
    /\ ws = EmptyWorkerSet
    /\ readyWorkers = 0
    /\ sessionReady = FALSE
    /\ sessionErr = "none"
    /\ result = "none"
    /\ event = "none"
    /\ metrics = [starts |-> 0, failures |-> 0, startupFailures |-> 0]

----------------------------------------------------------------------------
(* session.Run before the supervision loop *)

\* The caller cancels its context; every context derived from it is done.
Cancel ==
    /\ ~ctxDone
    /\ ctxDone' = TRUE
    /\ cancelled' = TRUE
    /\ UNCHANGED <<phase, runner, chanVars, backoff, ingress, loopVars, reportVars>>

\* The policy is accepted and the provider adapter found.
Startup ==
    /\ phase = "new"
    /\ phase' = "resolving"
    /\ event' = "runtime_startup"
    /\ UNCHANGED <<ctxVars, runner, chanVars, backoff, ingress, loopVars,
                   sessionErr, result, metrics>>

CountFailure(startup) ==
    metrics' = [metrics EXCEPT !.failures = @ + 1,
                               !.startupFailures = @ + (IF startup THEN 1 ELSE 0)]

\* Any refusal before supervision: an invalid policy or an unknown provider
\* in phase new; a failed resolution, TURN override or local bind later.
Reject ==
    /\ phase \in {"new", "resolving"}
    /\ phase' = "returned"
    /\ sessionErr' = "startup"
    /\ result' = "error"
    /\ event' = "runtime_failure"
    /\ CountFailure(TRUE)
    /\ UNCHANGED <<ctxVars, runner, chanVars, backoff, ingress, loopVars>>

----------------------------------------------------------------------------
(* The goroutines the loop starts *)

NewRunner(generation) == [pc |-> "setup", generation |-> generation, err |-> "nil"]

\* runSupervisedSession starts the ingress and every worker, then loops.
Supervise ==
    /\ phase = "resolving"
    /\ phase' = "supervising"
    /\ ingress' = "running"
    /\ states' = [i \in Workers |-> [states[i] EXCEPT !.generation = @ + 1]]
    /\ runner' = [i \in Workers |-> NewRunner(states[i].generation + 1)]
    /\ UNCHANGED <<ctxVars, chanVars, backoff, ws, readyWorkers, sessionReady, reportVars>>

\* The transport of the worker is up and runner.Run calls OnReady.
RunnerConnected(i) ==
    /\ runner[i].pc = "setup"
    /\ runner' = [runner EXCEPT ![i].pc = "announcing"]
    /\ UNCHANGED <<ctxVars, phase, chanVars, backoff, ingress, loopVars, reportVars>>

\* OnReady: send the ready event or give up on a cancelled supervisor.
OnReady(i) ==
    /\ runner[i].pc = "announcing"
    /\ runner' = [runner EXCEPT ![i].pc = "forwarding"]
    /\ \/ /\ Len(readyCh) < ChanCap
          /\ readyCh' = Append(readyCh, [index |-> i, generation |-> runner[i].generation])
       \/ /\ cancelled
          /\ UNCHANGED readyCh
    /\ UNCHANGED <<ctxVars, phase, resultCh, restartCh, ingressErrCh, backoff,
                   ingress, loopVars, reportVars>>

\* runner.Run returns.  In the set-up it returns an error of that stage, in
\* the forwarding loop that loop's error or, the loop ended, nil.
RunnerReturns(i, err) ==
    /\ \/ runner[i].pc = "setup" /\ err = "setup"
       \/ runner[i].pc = "forwarding" /\ err \in {"nil", "forwarding_loop"}
    /\ runner' = [runner EXCEPT ![i].pc = "returning", ![i].err = err]
    /\ UNCHANGED <<ctxVars, phase, chanVars, backoff, ingress, loopVars, reportVars>>

\* The worker goroutine sends its result, or ends on a cancelled supervisor.
SendResult(i) ==
    /\ runner[i].pc = "returning"
    /\ runner' = [runner EXCEPT ![i].pc = "exited"]
    /\ \/ /\ Len(resultCh) < ChanCap
          /\ resultCh' = Append(resultCh, [index |-> i, generation |-> runner[i].generation,
                                           err |-> runner[i].err])
       \/ /\ cancelled
          /\ UNCHANGED resultCh
    /\ UNCHANGED <<ctxVars, phase, readyCh, restartCh, ingressErrCh, backoff,
                   ingress, loopVars, reportVars>>

\* The backoff goroutine of worker i: its timer fires and it asks for the
\* restart, or the supervisor is cancelled and it ends.
BackoffEnds(i) ==
    /\ i \in backoff
    /\ backoff' = backoff \ {i}
    /\ \/ /\ Len(restartCh) < ChanCap
          /\ restartCh' = Append(restartCh, i)
       \/ /\ cancelled
          /\ UNCHANGED restartCh
    /\ UNCHANGED <<ctxVars, phase, runner, readyCh, resultCh, ingressErrCh,
                   ingress, loopVars, reportVars>>

\* ingress.Run returns: with an error of its own at any time, with nil only
\* once its context is cancelled.
IngressReturns(err) ==
    /\ ingress = "running"
    /\ err = "nil" => cancelled
    /\ ingress' = "done"
    /\ ingressErrCh' = Append(ingressErrCh, err)
    /\ UNCHANGED <<ctxVars, phase, runner, readyCh, resultCh, restartCh, backoff,
                   loopVars, reportVars>>

----------------------------------------------------------------------------
(* The cases of the select *)

\* Mutant: break leaves the select and not the loop.
BreakSelect(err) ==
    /\ sessionErr' = err
    /\ cancelled' = TRUE
    /\ UNCHANGED phase

\* cancel() and break loop, with the error the session will return.
BreakLoop(err) ==
    /\ sessionErr' = err
    /\ cancelled' = TRUE
    /\ phase' = "draining"

\* Mutant: the session fails without telling the observer.
FailSilently(err, startup) ==
    /\ BreakLoop(err)
    /\ UNCHANGED <<event, metrics, result>>

FailSession(err, startup) ==
    /\ BreakLoop(err)
    /\ CountFailure(startup)
    /\ event' = "runtime_failure"
    /\ UNCHANGED result

\* case ready := <-readyCh
HandleReady ==
    /\ phase = "supervising"
    /\ readyCh /= <<>>
    /\ LET ev == Head(readyCh)
           st == states[ev.index]
       IN  /\ readyCh' = Tail(readyCh)
           /\ IF st.generation /= ev.generation \/ st.ready
              THEN UNCHANGED <<loopVars, event, metrics>>
              ELSE LET first == ~sessionReady /\ readyWorkers + 1 = Connections
                   IN  /\ states' = [states EXCEPT ![ev.index].ready = TRUE]
                       /\ readyWorkers' = readyWorkers + 1
                       /\ ws' = SetReady(ws, ev.index, ev.generation)
                       /\ sessionReady' = (sessionReady \/ first)
                       /\ event' = IF first THEN "runtime_ready" ELSE event
                       /\ metrics' = [metrics EXCEPT !.starts = IF first THEN @ + 1 ELSE @]
    /\ UNCHANGED <<ctxVars, phase, runner, resultCh, restartCh, ingressErrCh,
                   backoff, ingress, sessionErr, result>>

\* Mutant: the ingress keeps the route of the worker that ended.
RetireKeepingRoute(st, index) ==
    /\ readyWorkers' = IF st.ready THEN readyWorkers - 1 ELSE readyWorkers
    /\ UNCHANGED ws

\* Mutant: a worker that ended still counts as ready.
RetireStillCounted(st, index) ==
    /\ ws' = IF st.ready THEN Remove(ws, index) ELSE ws
    /\ UNCHANGED readyWorkers

\* The worker of a result is no longer ready and leaves the worker set.
Retire(st, index) ==
    IF st.ready
    THEN /\ readyWorkers' = readyWorkers - 1
         /\ ws' = Remove(ws, index)
    ELSE UNCHANGED <<readyWorkers, ws>>

\* Mutant: the restart is announced and no timer is started for it.
ScheduleNothing(index) ==
    /\ states' = [states EXCEPT ![index] = [generation |-> @.generation,
                                            restarts |-> @.restarts + 1, ready |-> FALSE]]
    /\ event' = "worker_restart_scheduled"
    /\ UNCHANGED <<cancelled, phase, backoff, sessionErr, result, metrics>>

\* One more restart of the worker, after its backoff.
ScheduleRestart(index) ==
    /\ states' = [states EXCEPT ![index] = [generation |-> @.generation,
                                            restarts |-> @.restarts + 1, ready |-> FALSE]]
    /\ backoff' = backoff \cup {index}
    /\ event' = "worker_restart_scheduled"
    /\ UNCHANGED <<cancelled, phase, sessionErr, result, metrics>>

\* The result fails the session: an exit without an error, a failure before
\* readiness, or one restart too many.
GiveUp(st, r) ==
    /\ states' = [states EXCEPT ![r.index].ready = FALSE]
    /\ UNCHANGED backoff
    /\ \/ r.err = "nil" /\ FailSession("session_supervision", ~sessionReady)
       \/ r.err /= "nil" /\ ~st.ready /\ FailSession(WorkerError(r.err), TRUE)
       \/ r.err /= "nil" /\ st.ready /\ FailSession("session_supervision", FALSE)

\* case result := <-resultCh
HandleResult ==
    /\ phase = "supervising"
    /\ resultCh /= <<>>
    /\ resultCh' = Tail(resultCh)
    /\ LET r  == Head(resultCh)
           st == states[r.index]
       IN  IF st.generation /= r.generation
           THEN UNCHANGED <<cancelled, phase, backoff, loopVars, reportVars>>
           ELSE /\ Retire(st, r.index)
                /\ CASE cancelled ->
                          /\ states' = [states EXCEPT ![r.index].ready = FALSE]
                          /\ UNCHANGED <<cancelled, phase, backoff, reportVars>>
                     [] /\ ~cancelled /\ r.err /= "nil" /\ st.ready
                        /\ st.restarts < MaxWorkerRestarts -> ScheduleRestart(r.index)
                     [] OTHER -> GiveUp(st, r)
                /\ UNCHANGED sessionReady
    /\ UNCHANGED <<ctxDone, runner, readyCh, restartCh, ingressErrCh, ingress>>

\* case index := <-restartCh
HandleRestart ==
    /\ phase = "supervising"
    /\ restartCh /= <<>>
    /\ restartCh' = Tail(restartCh)
    /\ IF cancelled
       THEN UNCHANGED <<states, runner>>
       ELSE LET i == Head(restartCh)
                g == states[i].generation + 1
            IN  /\ states' = [states EXCEPT ![i].generation = g]
                /\ runner' = [runner EXCEPT ![i] = NewRunner(g)]
    /\ UNCHANGED <<ctxVars, phase, readyCh, resultCh, ingressErrCh, backoff, ingress,
                   ws, readyWorkers, sessionReady, reportVars>>

\* case err := <-ingressErrCh
HandleIngressErr ==
    /\ phase = "supervising"
    /\ ingressErrCh /= <<>>
    /\ ingressErrCh' = <<>>
    /\ IF Head(ingressErrCh) /= "nil" /\ ~cancelled
       THEN FailSession("ingress_forwarding", ~sessionReady)
       ELSE BreakLoop("none") /\ UNCHANGED <<result, event, metrics>>
    /\ UNCHANGED <<ctxDone, runner, readyCh, resultCh, restartCh, backoff, ingress, loopVars>>

\* case <-ctx.Done()
HandleDone ==
    /\ phase = "supervising"
    /\ ctxDone
    /\ BreakLoop("none")
    /\ UNCHANGED <<ctxDone, runner, chanVars, backoff, ingress, loopVars,
                   result, event, metrics>>

\* wg.Wait over the ingress and every worker, then the return of Run.
Return ==
    /\ phase = "draining"
    /\ ingress = "done"
    /\ \A i \in Workers : runner[i].pc = "exited"
    /\ phase' = "returned"
    /\ IF sessionErr /= "none"
       THEN result' = "error" /\ UNCHANGED <<event, ingressErrCh>>
       ELSE IF ~ctxDone /\ ingressErrCh /= <<>> /\ Head(ingressErrCh) /= "nil"
            THEN result' = "error" /\ ingressErrCh' = <<>> /\ UNCHANGED event
            ELSE result' = "nil" /\ event' = "runtime_stop" /\ UNCHANGED ingressErrCh
    /\ UNCHANGED <<ctxVars, runner, readyCh, resultCh, restartCh, backoff, ingress,
                   loopVars, sessionErr, metrics>>

----------------------------------------------------------------------------
Loop == HandleReady \/ HandleResult \/ HandleRestart \/ HandleIngressErr \/ HandleDone

Next ==
    \/ Cancel \/ Startup \/ Reject \/ Supervise \/ Return
    \/ HandleReady \/ HandleResult \/ HandleRestart \/ HandleIngressErr \/ HandleDone
    \/ \E err \in {"nil", "ingress"} : IngressReturns(err)
    \/ \E i \in Workers :
          \/ RunnerConnected(i) \/ OnReady(i) \/ SendResult(i) \/ BackoffEnds(i)
          \/ \E err \in RunErrors : RunnerReturns(i, err)

Spec == Init /\ [][Next]_vars

----------------------------------------------------------------------------
(* Properties *)

\* session.Run, seen from its caller.
Runtime == INSTANCE SessionRuntime WITH
    stage <- phase, ready <- sessionReady, failed <- (sessionErr /= "none")

Phases == {"new", "resolving", "supervising", "draining", "returned"}

RunnerPCs == {"idle", "setup", "announcing", "forwarding", "returning", "exited"}

\* Every variable has its type.
TypeOK ==
    /\ ctxDone \in BOOLEAN
    /\ cancelled \in BOOLEAN
    /\ phase \in Phases
    /\ states \in [Workers -> [generation : Nat, restarts : Nat, ready : BOOLEAN]]
    /\ runner \in [Workers -> [pc : RunnerPCs, generation : Nat, err : RunErrors]]
    /\ readyCh \in Seq([index : Workers, generation : Nat])
    /\ resultCh \in Seq([index : Workers, generation : Nat, err : RunErrors])
    /\ restartCh \in Seq(Workers)
    /\ ingressErrCh \in Seq({"nil", "ingress"})
    /\ backoff \in SUBSET Workers
    /\ ingress \in {"idle", "running", "done"}
    /\ ws \in [workers : Seq([index : Workers, generation : Nat]), next : Nat]
    /\ readyWorkers \in Int
    /\ sessionReady \in BOOLEAN
    /\ sessionErr \in SessionErrors
    /\ result \in {"none", "nil", "error"}
    /\ event \in Runtime!Events
    /\ metrics \in [starts : Nat, failures : Nat, startupFailures : Nat]

\* The supervisor's ready flags, its count of ready workers and the ingress'
\* routes never disagree: readyWorkers counts the flags, the ingress holds
\* exactly one route for each flagged worker and none for another, and that
\* route is the outbound channel of the worker's current generation.
ReadyAccounting ==
    /\ readyWorkers = Cardinality(ReadySet)
    /\ RouteIndexes(ws) = ReadySet
    /\ \A j, k \in DOMAIN ws.workers :
          ws.workers[j].index = ws.workers[k].index => j = k
    /\ \A k \in DOMAIN ws.workers :
          ws.workers[k].generation = states[ws.workers[k].index].generation

Alive(i) == runner[i].pc \in {"setup", "announcing", "forwarding", "returning"}

Reported(i) == \E k \in DOMAIN resultCh : resultCh[k].index = i

RestartQueued(i) == \E k \in DOMAIN restartCh : restartCh[k] = i

\* Where worker i can be: in its goroutine, in a result or a restart request
\* on its way to the loop, or in its backoff timer.
Whereabouts(i) == <<Alive(i), Reported(i), i \in backoff, RestartQueued(i)>>

\* A worker is never run twice and, while the session lives, never lost:
\* between its goroutine, its queued result, its backoff timer and its queued
\* restart there is exactly one, until cancellation lets it go.
OneIncarnation ==
    /\ \A j, k \in DOMAIN resultCh : resultCh[j].index = resultCh[k].index => j = k
    /\ \A j, k \in DOMAIN restartCh : restartCh[j] = restartCh[k] => j = k
    /\ \A i \in Workers :
          /\ \A a, b \in 1 .. 4 : Whereabouts(i)[a] /\ Whereabouts(i)[b] => a = b
          /\ phase = "supervising" /\ ~cancelled => \E a \in 1 .. 4 : Whereabouts(i)[a]

\* The session is announced ready only in a step after which every worker is
\* ready at the same time, however many failed and came back before.
ReadyMeansAllWorkers ==
    [][~sessionReady /\ sessionReady' => ReadySet' = Workers]_vars

\* A cancelled session returns, whatever its workers, timers and the ingress
\* were doing when the caller cancelled.
CancelReturns == ctxDone ~> phase = "returned"

\* A worker whose restart was scheduled runs again, unless the session is
\* cancelled first.
ScheduledRestartHappens ==
    \A i \in Workers :
        phase = "supervising" /\ states[i].restarts = states[i].generation
            ~> cancelled \/ Alive(i)

\* Every behaviour of the supervised session is one that SessionRuntime
\* allows: one failure event at most and only with an error, readiness once,
\* and a nil return only to a caller that cancelled.
RefinesSessionRuntime == Runtime!RtSpec
=============================================================================
