-------------------------- MODULE ChallengeBroker ---------------------------
(***************************************************************************)
(* A provider's Resolve that may stop for interactive challenges, as both  *)
(* the sessions and the resolutions of pkg/clientcontrol run it:           *)
(* challengeBroker and resolutionChallengeBroker with waitChallengeAction, *)
(* completeChallenge and signalChallenge of host.go.                       *)
(*                                                                         *)
(* state and active are the State and the ActiveChallengeID of the owner,  *)
(* a session or a resolution.  Whatever the host does under its mutex is   *)
(* one step; what it does after the unlock is another.                     *)
(***************************************************************************)
EXTENDS Naturals, FiniteSets

CONSTANTS
    MaxChallenges,  \* bound: challenges of one Resolve
    Callers         \* bound: the calls of ContinueChallenge and CancelChallenge

ASSUME BrokerAssumption == MaxChallenges \in Nat \ {0}

VARIABLES
    ctxDone,        \* the context of the owner is cancelled
    state, active,
    provider,       \* where the goroutine in Resolve stands
    outcome,        \* what Resolve returned
    challenges,     \* the challenges, in the order they were raised
    signals         \* the calls of signalChallenge, one per caller

brokerVars == <<ctxDone, state, active, provider, outcome, challenges, signals>>

ChallengeIDs == 1 .. MaxChallenges

Kinds == {"continue", "cancel"}

\* action is the channel of capacity one that the broker waits on.
NoChallenge == [status |-> "none", action |-> "none"]

NoSignal == [pc |-> "idle", id |-> 0, kind |-> "none"]

BrokerInit ==
    /\ ctxDone = FALSE
    /\ state = "starting"
    /\ active = 0
    /\ provider = "idle"
    /\ outcome = "none"
    /\ challenges = [id \in ChallengeIDs |-> NoChallenge]
    /\ signals = [c \in Callers |-> NoSignal]

Raised == {id \in ChallengeIDs : challenges[id].status /= "none"}

\* The challenge the provider is at: the last one raised.
Current == Cardinality(Raised)

----------------------------------------------------------------------------
(* The goroutine in Resolve *)

\* recordChallenge and recordResolutionChallenge.
RaiseChallenge ==
    /\ provider = "resolving"
    /\ Current < MaxChallenges
    /\ challenges' = [challenges EXCEPT ![Current + 1].status = "pending"]
    /\ state' = "challenge_required"
    /\ active' = Current + 1
    /\ provider' = "waiting"
    /\ UNCHANGED <<ctxDone, outcome, signals>>

\* Mutant: the wait does not look at the context.
WaitIgnoresContext ==
    /\ provider = "waiting"
    /\ challenges[Current].action /= "none"
    /\ challenges' = [challenges EXCEPT ![Current].action = "none"]
    /\ provider' = IF challenges[Current].action = "cancel" THEN "cancelling" ELSE "continuing"
    /\ UNCHANGED <<ctxDone, state, active, outcome, signals>>

\* waitChallengeAction: a signal or the end of the context, whichever the
\* select picks.
WaitEnds ==
    /\ provider = "waiting"
    /\ \/ /\ challenges[Current].action /= "none"
          /\ challenges' = [challenges EXCEPT ![Current].action = "none"]
          /\ provider' = IF challenges[Current].action = "cancel" THEN "cancelling"
                                                                  ELSE "continuing"
       \/ /\ ctxDone
          /\ provider' = "aborting"
          /\ UNCHANGED challenges
    /\ UNCHANGED <<ctxDone, state, active, outcome, signals>>

\* Mutant: the owner goes on showing the challenge.
CompleteKeepsActive(status) ==
    /\ challenges' = [challenges EXCEPT ![Current].status = status]
    /\ state' = IF status = "completed" THEN "starting" ELSE state
    /\ UNCHANGED active

\* completeChallenge: whatever the challenge and its owner had become, the
\* challenge gets this status, and a completed one puts its owner back to
\* starting.
CompleteChallenge(status) ==
    /\ challenges' = [challenges EXCEPT ![Current].status = status]
    /\ active' = 0
    /\ state' = IF status = "completed" THEN "starting" ELSE state

\* The broker after its wait.  The continuation of a challenge, the browser's
\* or the submitted one, may itself fail.
BrokerAnswers ==
    /\ \/ /\ provider = "continuing"
          /\ CompleteChallenge("completed")
          /\ provider' = "resolving"
          /\ UNCHANGED outcome
       \/ /\ provider = "continuing"
          /\ CompleteChallenge("failed")
          /\ provider' = "returned"
          /\ outcome' \in {"failure"} \cup (IF ctxDone THEN {"cancelled"} ELSE {})
       \/ /\ provider = "cancelling"
          /\ CompleteChallenge("cancelled")
          /\ provider' = "returned"
          /\ outcome' = "challenge_cancelled"
       \/ /\ provider = "aborting"
          /\ CompleteChallenge("failed")
          /\ provider' = "returned"
          /\ outcome' = "cancelled"
    /\ UNCHANGED <<ctxDone, signals>>

\* Resolve returns without a challenge in flight.  A provider may notice the
\* end of its context late or not at all.
ResolveReturns ==
    /\ provider = "resolving"
    /\ provider' = "returned"
    /\ outcome' \in {"ok", "failure"} \cup (IF ctxDone THEN {"cancelled"} ELSE {})
    /\ UNCHANGED <<ctxDone, state, active, challenges, signals>>

----------------------------------------------------------------------------
(* signalChallenge, called by the shells *)

\* Under the mutex: the status is what the caller asked for, whatever it was.
Signal(c, id, kind) ==
    /\ signals[c].pc = "idle"
    /\ id \in Raised
    /\ challenges' = [challenges EXCEPT ![id].status =
                          IF kind = "continue" THEN "continuing" ELSE "cancelled"]
    /\ signals' = [signals EXCEPT ![c] = [pc |-> "sending", id |-> id, kind |-> kind]]
    /\ UNCHANGED <<ctxDone, state, active, provider, outcome>>

\* After the unlock: the action is sent unless one is already queued.
SendSignal(c) ==
    /\ signals[c].pc = "sending"
    /\ challenges' = [challenges EXCEPT ![signals[c].id].action =
                          IF @ = "none" THEN signals[c].kind ELSE @]
    /\ signals' = [signals EXCEPT ![c].pc = "sent"]
    /\ UNCHANGED <<ctxDone, state, active, provider, outcome>>

\* The caller's own context ends.
CallerCancels ==
    /\ ~ctxDone
    /\ ctxDone' = TRUE
    /\ UNCHANGED <<state, active, provider, outcome, challenges, signals>>

BrokerStep ==
    \/ RaiseChallenge \/ WaitEnds \/ BrokerAnswers \/ ResolveReturns \/ CallerCancels
    \/ \E c \in Callers :
          \/ SendSignal(c)
          \/ \E id \in ChallengeIDs, kind \in Kinds : Signal(c, id, kind)

----------------------------------------------------------------------------
\* The challenge an owner shows as active is the one its provider is stopped
\* at: no other, and none once the broker answered or the owner was stopped.
ActiveChallengeIsAwaited ==
    active /= 0 =>
        /\ active = Current
        /\ provider \in {"waiting", "continuing", "cancelling", "aborting"}
=============================================================================
