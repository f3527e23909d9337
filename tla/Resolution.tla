----------------------------- MODULE Resolution -----------------------------
(***************************************************************************)
(* One provider resolution of the control-plane host:                      *)
(* pkg/clientcontrol/resolution.go.  The goroutine of runResolution calls  *)
(* the provider and settles the record; shells read it, cancel it, answer  *)
(* its challenges and, once it is resolved, take its credentials.          *)
(***************************************************************************)
EXTENDS ChallengeBroker

VARIABLES
    done,           \* the done channel is closed: WaitResolution returns
    secret,         \* the record holds the provider's credentials
    expiry,         \* of the credentials: unknown, ahead or passed
    lease,          \* the record holds a WireGuard carrier lease
    cancelCall,     \* CancelResolution: idle, unlocked or returned
    materialize     \* MaterializeResolution: idle, or busy with a lease

recordVars == <<done, secret, expiry, lease>>
callVars   == <<cancelCall, materialize>>
resolutionVars == <<brokerVars, recordVars, callVars>>

\* StartResolution stores the record and starts runResolution.
ResolutionInit ==
    /\ BrokerInit
    /\ done = FALSE
    /\ secret = FALSE
    /\ expiry = "unknown"
    /\ lease = FALSE
    /\ cancelCall = "idle"
    /\ materialize = "idle"

----------------------------------------------------------------------------
(* runResolution *)

\* The provider of the request is looked up: its Resolve runs, or there is
\* none.
RunResolution ==
    /\ provider = "idle"
    /\ \/ provider' = "resolving" /\ UNCHANGED outcome
       \/ provider' = "returned" /\ outcome' = "failure"
    /\ UNCHANGED <<ctxDone, state, active, challenges, signals, recordVars, callVars>>

Settled == {"cancelled", "failed", "expired"}

\* Mutant: the record is not looked at again.
NothingIsSettled == {}

\* The states in which a late result of the provider is ignored.
LateResultIgnored == Settled

\* finishResolutionSuccess.  A result without a usable artifact is a failure,
\* for which the mutex is released first; credentials that have expired by now
\* are not kept.
FinishSuccess ==
    /\ provider = "returned"
    /\ outcome = "ok"
    /\ IF state \in LateResultIgnored
       THEN /\ provider' = "finished"
            /\ UNCHANGED <<state, active, outcome, recordVars>>
       ELSE \/ /\ outcome' = "failure"
               /\ UNCHANGED <<provider, state, active, recordVars>>
            \/ /\ provider' = "finished"
               /\ active' = 0
               /\ done' = TRUE
               /\ expiry' \in {"unknown", "ahead", "passed"}
               /\ state' = IF expiry' = "passed" THEN "expired" ELSE "resolved"
               /\ secret' = (state' = "resolved")
               /\ lease' = FALSE
               /\ UNCHANGED outcome
    /\ UNCHANGED <<ctxDone, challenges, signals, callVars>>

\* finishResolutionFailure.
FinishFailure ==
    /\ provider = "returned"
    /\ outcome /= "ok"
    /\ provider' = "finished"
    /\ state' = IF state = "cancelled" \/ outcome \in {"cancelled", "challenge_cancelled"}
                THEN "cancelled" ELSE "failed"
    /\ active' = 0
    /\ done' = TRUE
    /\ UNCHANGED <<ctxDone, outcome, challenges, signals, secret, expiry, lease, callVars>>

----------------------------------------------------------------------------
(* The calls of the shells *)

\* CancelResolution under the mutex; a settled record is only read.  The call
\* may be repeated, one at a time.
CancelResolution ==
    /\ cancelCall /= "unlocked"
    /\ state \notin Settled \cup {"resolved"}
    /\ state' = "cancelled"
    /\ active' = 0
    /\ done' = TRUE
    /\ cancelCall' = "unlocked"
    /\ UNCHANGED <<ctxDone, provider, outcome, challenges, signals, secret, expiry, lease,
                   materialize>>

\* Mutant: the context is left alone.
CancelKeepsContext ==
    /\ cancelCall = "unlocked"
    /\ cancelCall' = "returned"
    /\ UNCHANGED <<brokerVars, recordVars, materialize>>

\* ... and cancel() after the unlock.
CancelContext ==
    /\ cancelCall = "unlocked"
    /\ cancelCall' = "returned"
    /\ ctxDone' = TRUE
    /\ UNCHANGED <<state, active, provider, outcome, challenges, signals, recordVars,
                   materialize>>

\* Time passes the expiry of the credentials.
CredentialsExpire ==
    /\ expiry = "ahead"
    /\ expiry' = "passed"
    /\ UNCHANGED <<brokerVars, done, secret, lease, callVars>>

ExpiryDue == state = "resolved" /\ expiry = "passed"

\* Mutant: the credentials stay in the expired record.
ExpireKeepsSecret ==
    /\ state' = "expired"
    /\ active' = 0
    /\ lease' = FALSE
    /\ UNCHANGED secret

\* expireResolutionLocked.
Expire ==
    /\ state' = "expired"
    /\ active' = 0
    /\ secret' = FALSE
    /\ lease' = FALSE

\* Resolution, Resolutions, ExportResolution and MaterializeResolution all
\* look at the expiry first; on an expired record none does any more.
ReadResolution ==
    /\ ExpiryDue
    /\ Expire
    /\ UNCHANGED <<ctxDone, provider, outcome, challenges, signals, done, expiry, callVars>>

\* MaterializeResolution with a strict WireGuard plan takes the credentials
\* and leaves the mutex to make a lease of them ...
StartMaterialize ==
    /\ materialize = "idle"
    /\ state = "resolved"
    /\ ~ExpiryDue
    /\ materialize' = "busy"
    /\ UNCHANGED <<brokerVars, recordVars, cancelCall>>

\* ... which it then stores, or it fails.
EndMaterialize ==
    /\ materialize = "busy"
    /\ materialize' = "idle"
    /\ lease' \in {lease, TRUE}
    /\ UNCHANGED <<brokerVars, done, secret, expiry, cancelCall>>

----------------------------------------------------------------------------
\* The provider and the challenges of this resolution.
ResolutionChallengeBroker == BrokerStep /\ UNCHANGED <<recordVars, callVars>>

ResolutionNext ==
    \/ RunResolution \/ FinishSuccess \/ FinishFailure
    \/ CancelResolution \/ CancelContext \/ CredentialsExpire \/ ReadResolution
    \/ StartMaterialize \/ EndMaterialize
    \/ ResolutionChallengeBroker

\* A goroutine that can go on does, and a provider returns at some point once
\* its context is cancelled.  The shells owe nothing but the end of a call.
ResolutionFairness ==
    /\ WF_resolutionVars(RunResolution)
    /\ WF_resolutionVars(FinishSuccess)
    /\ WF_resolutionVars(FinishFailure)
    /\ WF_resolutionVars(CancelContext)
    /\ WF_resolutionVars((WaitEnds \/ BrokerAnswers) /\ UNCHANGED <<recordVars, callVars>>)
    /\ WF_resolutionVars(ctxDone /\ ResolveReturns /\ UNCHANGED <<recordVars, callVars>>)

ResolutionSpec == ResolutionInit /\ [][ResolutionNext]_resolutionVars /\ ResolutionFairness

----------------------------------------------------------------------------
(* Properties *)

\* The provider's credentials are in the record only while it is resolved:
\* not before, not in a cancelled or failed one, and not after the expiry was
\* noticed.  A carrier lease made of them may outlive only that last step.
SecretsOnlyWhenResolved ==
    /\ secret => state = "resolved"
    /\ lease \/ materialize = "busy" => state \in {"resolved", "expired"}

\* A cancelled record whose provider is not at a challenge, and so cannot be put
\* back to starting by completeChallenge.
CancelledAt(n) ==
    /\ state = "cancelled"
    /\ Current = n
    /\ provider \notin {"waiting", "continuing"}

\* A resolution that is cancelled while its provider is not at a challenge stays
\* cancelled for good unless the provider raises another one: neither the late
\* result of a provider that ignores its context, nor answers to the challenges
\* before, nor an expiry or a materialization still under way change it.
CancelledStaysCancelled ==
    \A n \in 0 .. MaxChallenges :
        [](CancelledAt(n) => [](Current = n => state = "cancelled"))

\* A resolution that was cancelled is not ready for transport when its provider
\* finishes late.
CancelledIsNeverResolved ==
    cancelCall /= "idle" /\ provider = "finished" => state /= "resolved"

\* A cancelled resolution gives its provider up.
CancelStopsProvider == cancelCall /= "idle" ~> provider = "finished"

=============================================================================
