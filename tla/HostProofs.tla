----------------------------- MODULE HostProofs -----------------------------
(***************************************************************************)
(* The records of the control-plane host, for any number of challenges and *)
(* of calls that answer them: what a step of the challenge broker can do   *)
(* to its owner, the secrets and the cancelled record of a resolution, and *)
(* the outcome of a session.  And its VPS provider catalog, for any number *)
(* of overlapping syncs and issues, any lists of endpoints and any         *)
(* snapshots: the host never goes below a generation it acknowledged, and  *)
(* a retry gets what the first try got.  And its compatibility read model, *)
(* for any artifacts and profiles: the candidates that are listed, the     *)
(* guard of a start and the profile store agree, and references that went  *)
(* stale do not pass.                                                      *)
(***************************************************************************)
EXTENDS MCClientHost, VpsCatalog, Candidates, WellFoundedInduction,
        SequenceTheorems, FiniteSetTheorems, TLAPS

(***************************************************************************)
(* The challenge broker                                                    *)
(***************************************************************************)
\* Resolve is running.
InResolve == {"resolving", "waiting", "continuing", "cancelling", "aborting"}

\* The broker changes the state of its owner and the place of the provider
\* only while Resolve runs, and then the owner becomes neither settled nor
\* resolved.
LEMMA BrokerLeavesOwner ==
    BrokerStep =>
        \/ UNCHANGED <<state, provider, outcome>>
        \/ /\ provider \in InResolve
           /\ provider' \in InResolve \cup {"returned"}
           /\ state' \in {state, "starting", "challenge_required"}
BY DEF BrokerStep, RaiseChallenge, WaitEnds, BrokerAnswers, CompleteChallenge, ResolveReturns,
       CallerCancels, SendSignal, Signal, InResolve

----------------------------------------------------------------------------
(* The active challenge *)

\* Resolve has stopped for a challenge that is not answered yet.
AtChallenge == {"waiting", "continuing", "cancelling", "aborting"}

Statuses == {"none", "pending", "continuing", "completed", "failed", "cancelled"}

BrokerTypeOK ==
    /\ challenges \in [ChallengeIDs -> [status : Statuses, action : Kinds \cup {"none"}]]
    /\ signals \in [Callers -> [pc : {"idle", "sending", "sent"}, id : Nat,
                                kind : Kinds \cup {"none"}]]
    /\ active \in Nat

\* Challenges are raised one after the other and never forgotten.
RaisedInOrder == \E n \in 0 .. MaxChallenges : Raised = 1 .. n

\* A signal is sent to a challenge that was raised.
SignalsKnowTheirChallenge ==
    \A c \in Callers : signals[c].pc = "sending" => signals[c].id \in Raised

\* A provider that stopped did so for a challenge.
StoppedForChallenge == provider \in AtChallenge => Current /= 0

BrokerInv ==
    /\ BrokerTypeOK
    /\ RaisedInOrder
    /\ SignalsKnowTheirChallenge
    /\ StoppedForChallenge
    /\ ActiveChallengeIsAwaited

\* The number of challenges is the identifier of the last one: the next one
\* follows it.
LEMMA CurrentIsTheLast ==
    ASSUME NEW n \in 0 .. MaxChallenges, Raised = 1 .. n
    PROVE  Current = n
<1>1. n \in Nat
  BY BrokerAssumption
<1>2. Cardinality(1 .. n) = n
  BY <1>1, FS_Interval
<1> QED
  BY <1>2 DEF Current

\* The same for a successor state.
LEMMA NextCurrentIsTheLast ==
    ASSUME NEW n \in 0 .. MaxChallenges, Raised' = 1 .. n
    PROVE  Current' = n
<1>1. n \in Nat
  BY BrokerAssumption
<1>2. Cardinality(1 .. n) = n
  BY <1>1, FS_Interval
<1> QED
  BY <1>2 DEF Current

\* Nothing is raised when the resolution or the session starts.
LEMMA BrokerInitial == BrokerInit => BrokerInv
<1> SUFFICES ASSUME BrokerInit PROVE BrokerInv
  OBVIOUS
<1>1. BrokerTypeOK
  BY DEF BrokerInit, BrokerTypeOK, NoChallenge, NoSignal, Statuses, Kinds
<1>2. RaisedInOrder /\ Raised = {}
  <2>1. Raised = {}
    BY DEF BrokerInit, Raised, NoChallenge
  <2>2. 1 .. 0 = {}
    OBVIOUS
  <2> QED
    BY <2>1, <2>2, BrokerAssumption DEF RaisedInOrder
<1>3. SignalsKnowTheirChallenge
  BY DEF BrokerInit, SignalsKnowTheirChallenge, NoSignal
<1>4. StoppedForChallenge /\ ActiveChallengeIsAwaited
  BY DEF BrokerInit, StoppedForChallenge, ActiveChallengeIsAwaited, AtChallenge
<1> QED
  BY <1>1, <1>2, <1>3, <1>4 DEF BrokerInv

\* A challenge that has a status keeps one through the end of the wait, the
\* answer of the broker, the signals and clearPendingChallenges: only
\* recordChallenge changes which challenges there are.
LEMMA RaisedIsKept ==
    ASSUME BrokerInv,
           \/ UNCHANGED challenges
           \/ \E id \in ChallengeIDs, s \in Statuses \ {"none"} :
                 id \in Raised /\ challenges' = [challenges EXCEPT ![id].status = s]
           \/ \E id \in ChallengeIDs, a \in Kinds \cup {"none"} :
                 challenges' = [challenges EXCEPT ![id].action = a]
    PROVE  /\ challenges' \in [ChallengeIDs -> [status : Statuses, action : Kinds \cup {"none"}]]
           /\ Raised' = Raised
           /\ Current' = Current
<1> USE DEF BrokerInv, BrokerTypeOK
<1>1. CASE UNCHANGED challenges
  BY <1>1 DEF Raised, Current
<1>2. ASSUME NEW id \in ChallengeIDs, NEW s \in Statuses \ {"none"},
             id \in Raised, challenges' = [challenges EXCEPT ![id].status = s]
      PROVE  /\ challenges' \in [ChallengeIDs -> [status : Statuses, action : Kinds \cup {"none"}]]
             /\ Raised' = Raised
  BY <1>2 DEF Raised
<1>3. ASSUME NEW id \in ChallengeIDs, NEW a \in Kinds \cup {"none"},
             challenges' = [challenges EXCEPT ![id].action = a]
      PROVE  /\ challenges' \in [ChallengeIDs -> [status : Statuses, action : Kinds \cup {"none"}]]
             /\ Raised' = Raised
  BY <1>3 DEF Raised
<1>4. Raised' = Raised => Current' = Current
  BY DEF Current
<1> QED
  BY <1>1, <1>2, <1>3, <1>4

\* A step that keeps the challenges raised keeps the invariant, if it clears
\* the active challenge or leaves it and the provider stopped where it was.
LEMMA OwnerKeepsBrokerInv ==
    ASSUME BrokerInv,
           challenges' \in [ChallengeIDs -> [status : Statuses, action : Kinds \cup {"none"}]],
           Raised' = Raised,
           UNCHANGED signals,
           \/ active' = 0
           \/ active' = active /\ (provider \in AtChallenge => provider' \in AtChallenge),
           provider' \in AtChallenge => provider \in AtChallenge
    PROVE  BrokerInv'
<1>1. Current' = Current
  BY DEF Current
<1>2. BrokerTypeOK'
  BY DEF BrokerInv, BrokerTypeOK
<1>3. RaisedInOrder'
  BY DEF BrokerInv, RaisedInOrder
<1>4. SignalsKnowTheirChallenge'
  BY DEF BrokerInv, SignalsKnowTheirChallenge
<1>5. StoppedForChallenge'
  BY <1>1 DEF BrokerInv, StoppedForChallenge
<1>6. ActiveChallengeIsAwaited'
  BY <1>1 DEF BrokerInv, ActiveChallengeIsAwaited, AtChallenge
<1> QED
  BY <1>2, <1>3, <1>4, <1>5, <1>6 DEF BrokerInv

\* recordChallenge raises the challenge after the last one and shows it.
LEMMA RaiseKeepsBrokerInv == BrokerInv /\ RaiseChallenge => BrokerInv'
<1> SUFFICES ASSUME BrokerInv, RaiseChallenge PROVE BrokerInv'
  OBVIOUS
<1>1. PICK n \in 0 .. MaxChallenges : Raised = 1 .. n
  BY DEF BrokerInv, RaisedInOrder
<1>2. Current = n
  BY <1>1, CurrentIsTheLast
<1>3. n + 1 \in 0 .. MaxChallenges /\ n + 1 \in ChallengeIDs /\ n \in Nat
  BY <1>2, BrokerAssumption DEF RaiseChallenge, ChallengeIDs
<1>4. challenges' = [challenges EXCEPT ![n + 1].status = "pending"]
  BY <1>2 DEF RaiseChallenge
<1>5. challenges' \in [ChallengeIDs -> [status : Statuses, action : Kinds \cup {"none"}]]
  BY <1>3, <1>4 DEF BrokerInv, BrokerTypeOK, Statuses
<1>6. Raised' = Raised \cup {n + 1}
  BY <1>3, <1>4 DEF Raised, BrokerInv, BrokerTypeOK
<1>7. Raised' = 1 .. (n + 1)
  BY <1>1, <1>3, <1>6
<1>8. Current' = n + 1
  BY <1>3, <1>7, NextCurrentIsTheLast
<1>9. BrokerTypeOK'
  BY <1>2, <1>3, <1>5 DEF BrokerInv, BrokerTypeOK, RaiseChallenge
<1>10. RaisedInOrder'
  BY <1>3, <1>7 DEF RaisedInOrder
<1>11. SignalsKnowTheirChallenge'
  BY <1>6 DEF BrokerInv, SignalsKnowTheirChallenge, RaiseChallenge
<1>12. StoppedForChallenge' /\ ActiveChallengeIsAwaited'
  BY <1>2, <1>3, <1>8 DEF StoppedForChallenge, ActiveChallengeIsAwaited, RaiseChallenge
<1> QED
  BY <1>9, <1>10, <1>11, <1>12 DEF BrokerInv

\* While Resolve is stopped, the current challenge is one that was raised.
LEMMA CurrentIsRaised ==
    ASSUME BrokerInv, provider \in AtChallenge
    PROVE  Current \in ChallengeIDs /\ Current \in Raised
<1>1. PICK n \in 0 .. MaxChallenges : Raised = 1 .. n
  BY DEF BrokerInv, RaisedInOrder
<1>2. Current = n /\ n /= 0
  BY <1>1, CurrentIsTheLast DEF BrokerInv, StoppedForChallenge
<1> QED
  BY <1>1, <1>2, BrokerAssumption DEF ChallengeIDs

\* The whole broker.
LEMMA BrokerPreserved == BrokerInv /\ BrokerStep => BrokerInv'
<1> SUFFICES ASSUME BrokerInv, BrokerStep PROVE BrokerInv'
  OBVIOUS
<1>1. CASE RaiseChallenge
  BY <1>1, RaiseKeepsBrokerInv
<1>2. CASE WaitEnds
  <2>1. Current \in ChallengeIDs
    BY <1>2, CurrentIsRaised DEF WaitEnds, AtChallenge
  <2>2. \/ UNCHANGED challenges
        \/ challenges' = [challenges EXCEPT ![Current].action = "none"]
    BY <1>2 DEF WaitEnds
  <2>3. /\ challenges' \in [ChallengeIDs -> [status : Statuses, action : Kinds \cup {"none"}]]
        /\ Raised' = Raised
    BY <2>1, <2>2, RaisedIsKept
  <2> QED
    BY <1>2, <2>3, OwnerKeepsBrokerInv DEF WaitEnds, AtChallenge
<1>3. CASE BrokerAnswers
  <2>1. PICK s \in {"completed", "failed", "cancelled"} : CompleteChallenge(s)
    BY <1>3 DEF BrokerAnswers
  <2>2. Current \in ChallengeIDs /\ Current \in Raised
    BY <1>3, CurrentIsRaised DEF BrokerAnswers, AtChallenge
  <2>3. /\ challenges' = [challenges EXCEPT ![Current].status = s]
        /\ active' = 0
    BY <2>1 DEF CompleteChallenge
  <2>4. s \in Statuses \ {"none"}
    BY DEF Statuses
  <2>5. /\ challenges' \in [ChallengeIDs -> [status : Statuses, action : Kinds \cup {"none"}]]
        /\ Raised' = Raised
    BY <2>2, <2>3, <2>4, RaisedIsKept
  <2> QED
    BY <1>3, <2>3, <2>5, OwnerKeepsBrokerInv DEF BrokerAnswers, AtChallenge
<1>4. CASE ResolveReturns
  <2>1. /\ challenges' \in [ChallengeIDs -> [status : Statuses, action : Kinds \cup {"none"}]]
        /\ Raised' = Raised
    BY <1>4, RaisedIsKept DEF ResolveReturns
  <2> QED
    BY <1>4, <2>1, OwnerKeepsBrokerInv DEF ResolveReturns, AtChallenge
<1>5. CASE CallerCancels
  <2>1. /\ challenges' \in [ChallengeIDs -> [status : Statuses, action : Kinds \cup {"none"}]]
        /\ Raised' = Raised
    BY <1>5, RaisedIsKept DEF CallerCancels
  <2> QED
    BY <1>5, <2>1, OwnerKeepsBrokerInv DEF CallerCancels
<1>6. ASSUME NEW c \in Callers, SendSignal(c) PROVE BrokerInv'
  <2> DEFINE id == signals[c].id
             a  == IF challenges[id].action = "none" THEN signals[c].kind
                                                     ELSE challenges[id].action
  <2>1. id \in ChallengeIDs /\ id \in Raised
    BY <1>6 DEF SendSignal, BrokerInv, SignalsKnowTheirChallenge, Raised
  <2>2. challenges' = [challenges EXCEPT ![id].action = a]
    BY <1>6 DEF SendSignal
  <2>3. a \in Kinds \cup {"none"}
    BY <2>1 DEF BrokerInv, BrokerTypeOK
  <2> HIDE DEF id, a
  <2>4. /\ challenges' \in [ChallengeIDs -> [status : Statuses, action : Kinds \cup {"none"}]]
        /\ Raised' = Raised
        /\ Current' = Current
    BY <2>1, <2>2, <2>3, RaisedIsKept
  <2>5. signals' = [signals EXCEPT ![c].pc = "sent"]
    BY <1>6 DEF SendSignal
  <2>6. UNCHANGED <<active, provider>>
    BY <1>6 DEF SendSignal
  <2>7. BrokerTypeOK'
    BY <2>4, <2>5, <2>6 DEF BrokerInv, BrokerTypeOK
  <2>8. SignalsKnowTheirChallenge'
    BY <2>4, <2>5 DEF BrokerInv, BrokerTypeOK, SignalsKnowTheirChallenge
  <2> QED
    BY <2>4, <2>6, <2>7, <2>8
    DEF BrokerInv, RaisedInOrder, StoppedForChallenge, ActiveChallengeIsAwaited
<1>7. ASSUME NEW c \in Callers, NEW id \in ChallengeIDs, NEW kind \in Kinds,
             Signal(c, id, kind)
      PROVE  BrokerInv'
  <2> DEFINE s == IF kind = "continue" THEN "continuing" ELSE "cancelled"
  <2>1. challenges' = [challenges EXCEPT ![id].status = s] /\ id \in Raised
    BY <1>7 DEF Signal
  <2>2. s \in Statuses \ {"none"}
    BY DEF Statuses
  <2> HIDE DEF s
  <2>3. /\ challenges' \in [ChallengeIDs -> [status : Statuses, action : Kinds \cup {"none"}]]
        /\ Raised' = Raised
        /\ Current' = Current
    BY <2>1, <2>2, RaisedIsKept
  <2>4. signals' = [signals EXCEPT ![c] = [pc |-> "sending", id |-> id, kind |-> kind]]
    BY <1>7 DEF Signal
  <2>5. UNCHANGED <<active, provider>>
    BY <1>7 DEF Signal
  <2>6. BrokerTypeOK'
    BY <2>3, <2>4, <2>5, BrokerAssumption DEF BrokerInv, BrokerTypeOK, ChallengeIDs
  <2>7. SignalsKnowTheirChallenge'
    BY <2>1, <2>3, <2>4 DEF BrokerInv, BrokerTypeOK, SignalsKnowTheirChallenge
  <2> QED
    BY <2>3, <2>5, <2>6, <2>7
    DEF BrokerInv, RaisedInOrder, StoppedForChallenge, ActiveChallengeIsAwaited
<1> QED
  BY <1>1, <1>2, <1>3, <1>4, <1>5, <1>6, <1>7 DEF BrokerStep

(***************************************************************************)
(* Resolutions                                                             *)
(***************************************************************************)
\* Where the goroutine of runResolution stands.
ProviderTypeOK == provider \in InResolve \cup {"idle", "returned", "finished"}

\* A record is resolved, failed or expired only by the goroutine of
\* runResolution, at its end.
SettledByProvider == state \in {"resolved", "failed", "expired"} => provider = "finished"

ResolutionInv == ProviderTypeOK /\ SettledByProvider /\ SecretsOnlyWhenResolved

LEMMA ResolutionInitial == ResolutionInit => ResolutionInv
BY DEF ResolutionInit, BrokerInit, ResolutionInv, ProviderTypeOK, SettledByProvider, SecretsOnlyWhenResolved

LEMMA ResolutionPreserved == ResolutionInv /\ [ResolutionNext]_resolutionVars => ResolutionInv'
<1> SUFFICES ASSUME ResolutionInv, [ResolutionNext]_resolutionVars PROVE ResolutionInv'
  OBVIOUS
<1> USE DEF ResolutionInv, ProviderTypeOK, SettledByProvider, SecretsOnlyWhenResolved, InResolve
<1>1. CASE RunResolution
  BY <1>1 DEF RunResolution, recordVars, callVars
<1>2. CASE FinishSuccess
  BY <1>2 DEF FinishSuccess, LateResultIgnored, Settled, recordVars, callVars
<1>3. CASE FinishFailure
  BY <1>3 DEF FinishFailure, callVars
<1>4. CASE CancelResolution
  BY <1>4 DEF CancelResolution, Settled
<1>5. CASE CancelContext
  BY <1>5 DEF CancelContext, recordVars
<1>6. CASE CredentialsExpire
  BY <1>6 DEF CredentialsExpire, brokerVars, callVars
<1>7. CASE ReadResolution
  BY <1>7 DEF ReadResolution, ExpiryDue, Expire, callVars
<1>8. CASE StartMaterialize
  BY <1>8 DEF StartMaterialize, brokerVars, recordVars
<1>9. CASE EndMaterialize
  BY <1>9 DEF EndMaterialize, brokerVars
<1>10. CASE ResolutionChallengeBroker
  BY <1>10, BrokerLeavesOwner DEF ResolutionChallengeBroker, recordVars, callVars
<1>11. CASE UNCHANGED resolutionVars
  BY <1>11 DEF resolutionVars, brokerVars, recordVars, callVars
<1> QED
  BY <1>1, <1>2, <1>3, <1>4, <1>5, <1>6, <1>7, <1>8, <1>9, <1>10, <1>11 DEF ResolutionNext

\* Credentials are in the record only while it is resolved, whatever order the
\* provider's result, CancelResolution, the expiry and MaterializeResolution
\* come in.
THEOREM SecretsOnlyWhenResolvedHolds == ResolutionSpec => []SecretsOnlyWhenResolved
<1>1. ResolutionInv => SecretsOnlyWhenResolved
  BY DEF ResolutionInv
<1> QED
  BY <1>1, ResolutionInitial, ResolutionPreserved, PTL DEF ResolutionSpec

----------------------------------------------------------------------------
(* The active challenge *)

\* The steps of the resolution itself raise no challenge, and each that could
\* leave one behind clears it.
LEMMA ResolutionKeepsBrokerInv == BrokerInv /\ [ResolutionNext]_resolutionVars => BrokerInv'
<1> SUFFICES ASSUME BrokerInv, [ResolutionNext]_resolutionVars PROVE BrokerInv'
  OBVIOUS
<1>1. CASE BrokerStep
  BY <1>1, BrokerPreserved
<1>2. ASSUME UNCHANGED <<challenges, signals>>,
             \/ active' = 0
             \/ active' = active /\ (provider \in AtChallenge => provider' \in AtChallenge),
             provider' \in AtChallenge => provider \in AtChallenge
      PROVE  BrokerInv'
  <2>1. /\ challenges' \in [ChallengeIDs -> [status : Statuses, action : Kinds \cup {"none"}]]
        /\ Raised' = Raised
    BY <1>2, RaisedIsKept
  <2> QED
    BY <1>2, <2>1, OwnerKeepsBrokerInv
<1> USE DEF AtChallenge
<1>3. CASE RunResolution \/ FinishSuccess \/ FinishFailure
  BY <1>2, <1>3 DEF RunResolution, FinishSuccess, FinishFailure, recordVars
<1>4. CASE CancelResolution \/ CancelContext \/ CredentialsExpire \/ ReadResolution
  BY <1>2, <1>4
  DEF CancelResolution, CancelContext, CredentialsExpire, ReadResolution, Expire, brokerVars
<1>5. CASE StartMaterialize \/ EndMaterialize \/ UNCHANGED resolutionVars
  BY <1>2, <1>5 DEF StartMaterialize, EndMaterialize, resolutionVars, brokerVars
<1> QED
  BY <1>1, <1>3, <1>4, <1>5 DEF ResolutionNext, ResolutionChallengeBroker

\* The challenge a resolution shows as active is the one its provider is
\* stopped at, for any number of challenges, of late or repeated answers to
\* old ones, and wherever CancelResolution or the expiry falls.
THEOREM ActiveChallengeIsAwaitedHolds == ResolutionSpec => []ActiveChallengeIsAwaited
<1>1. ResolutionInit => BrokerInv
  BY BrokerInitial DEF ResolutionInit
<1>2. BrokerInv => ActiveChallengeIsAwaited
  BY DEF BrokerInv
<1> QED
  BY <1>1, <1>2, ResolutionKeepsBrokerInv, PTL DEF ResolutionSpec

----------------------------------------------------------------------------
(* A cancelled resolution *)

\* The number of challenges raised is a natural number, and it grows with
\* recordChallenge only.
LEMMA CurrentGrows ==
    BrokerInv /\ [ResolutionNext]_resolutionVars =>
        /\ Current \in Nat
        /\ \/ Current' = Current /\ ~RaiseChallenge
           \/ RaiseChallenge /\ Current' = Current + 1
<1> SUFFICES ASSUME BrokerInv, [ResolutionNext]_resolutionVars
             PROVE  /\ Current \in Nat
                    /\ \/ Current' = Current /\ ~RaiseChallenge
                       \/ RaiseChallenge /\ Current' = Current + 1
  OBVIOUS
<1>1. PICK k \in 0 .. MaxChallenges : Raised = 1 .. k
  BY DEF BrokerInv, RaisedInOrder
<1>2. Current = k /\ k \in Nat
  BY <1>1, CurrentIsTheLast, BrokerAssumption
<1>3. CASE RaiseChallenge
  <2>1. k + 1 \in ChallengeIDs /\ k + 1 \in 0 .. MaxChallenges
    BY <1>2, <1>3, BrokerAssumption DEF RaiseChallenge, ChallengeIDs
  <2>2. challenges' = [challenges EXCEPT ![k + 1].status = "pending"]
    BY <1>2, <1>3 DEF RaiseChallenge
  <2>3. Raised' = Raised \cup {k + 1}
    BY <2>1, <2>2 DEF Raised, BrokerInv, BrokerTypeOK
  <2>4. Raised' = 1 .. (k + 1)
    BY <1>1, <1>2, <2>3
  <2> QED
    BY <1>2, <1>3, <2>1, <2>4, NextCurrentIsTheLast
<1>4. CASE ~RaiseChallenge
  <2>1. CASE WaitEnds
    <3>1. Current \in ChallengeIDs
      BY <2>1, CurrentIsRaised DEF WaitEnds, AtChallenge
    <3> QED
      BY <1>2, <1>4, <2>1, <3>1, RaisedIsKept DEF WaitEnds, Kinds
  <2>2. CASE BrokerAnswers
    <3>1. Current \in ChallengeIDs /\ Current \in Raised
      BY <2>2, CurrentIsRaised DEF BrokerAnswers, AtChallenge
    <3>2. PICK s \in {"completed", "failed", "cancelled"} : CompleteChallenge(s)
      BY <2>2 DEF BrokerAnswers
    <3>3. s \in Statuses \ {"none"}
      BY DEF Statuses
    <3> QED
      BY <1>2, <1>4, <3>1, <3>2, <3>3, RaisedIsKept DEF CompleteChallenge
  <2>3. ASSUME NEW c \in Callers, SendSignal(c) PROVE Current' = Current
    <3> DEFINE id == signals[c].id
               a  == IF challenges[id].action = "none" THEN signals[c].kind
                                                       ELSE challenges[id].action
    <3>1. id \in ChallengeIDs /\ id \in Raised
      BY <2>3 DEF SendSignal, BrokerInv, SignalsKnowTheirChallenge, Raised
    <3>2. challenges' = [challenges EXCEPT ![id].action = a]
      BY <2>3 DEF SendSignal
    <3>3. a \in Kinds \cup {"none"}
      BY <3>1 DEF BrokerInv, BrokerTypeOK
    <3> HIDE DEF id, a
    <3> QED
      BY <3>1, <3>2, <3>3, RaisedIsKept
  <2>4. ASSUME NEW c \in Callers, NEW id \in ChallengeIDs, NEW kind \in Kinds,
               Signal(c, id, kind)
        PROVE  Current' = Current
    <3> DEFINE s == IF kind = "continue" THEN "continuing" ELSE "cancelled"
    <3>1. challenges' = [challenges EXCEPT ![id].status = s] /\ id \in Raised
      BY <2>4 DEF Signal
    <3>2. s \in Statuses \ {"none"}
      BY DEF Statuses
    <3> HIDE DEF s
    <3> QED
      BY <3>1, <3>2, RaisedIsKept
  <2>5. CASE UNCHANGED challenges
    BY <1>2, <1>4, <2>5 DEF Current, Raised
  <2>6. \/ WaitEnds \/ BrokerAnswers \/ UNCHANGED challenges
        \/ \E c \in Callers : \/ SendSignal(c)
                             \/ \E id \in ChallengeIDs, kind \in Kinds : Signal(c, id, kind)
    BY <1>4
    DEF ResolutionNext, ResolutionChallengeBroker, BrokerStep, ResolveReturns, CallerCancels,
        RunResolution, FinishSuccess, FinishFailure, CancelResolution, CancelContext,
        CredentialsExpire, ReadResolution, StartMaterialize, EndMaterialize,
        resolutionVars, brokerVars
  <2> QED
    BY <1>2, <1>4, <2>1, <2>2, <2>3, <2>4, <2>5, <2>6
<1> QED
  BY <1>3, <1>4

\* The record cancelled at the n-th challenge is still that, or its provider
\* has raised another challenge since.
CancelledSince(n) == Current > n \/ CancelledAt(n)

\* Of all steps only completeChallenge, of a provider that is at a challenge,
\* and recordChallenge change a cancelled record: finishResolutionSuccess
\* ignores the result, finishResolutionFailure leaves it cancelled, and nothing
\* expires in it.
LEMMA CancelledIsKept ==
    ASSUME NEW n \in 0 .. MaxChallenges
    PROVE  BrokerInv /\ ResolutionInv /\ CancelledSince(n) /\ [ResolutionNext]_resolutionVars
               => CancelledSince(n)'
<1> SUFFICES ASSUME BrokerInv, ResolutionInv, CancelledSince(n), [ResolutionNext]_resolutionVars
             PROVE  CancelledSince(n)'
  OBVIOUS
<1>1. /\ Current \in Nat /\ n \in Nat
      /\ \/ Current' = Current /\ ~RaiseChallenge
         \/ RaiseChallenge /\ Current' = Current + 1
  BY CurrentGrows, BrokerAssumption
<1>2. CASE Current > n \/ RaiseChallenge
  BY <1>1, <1>2 DEF CancelledSince, CancelledAt
<1>3. CASE CancelledAt(n) /\ ~RaiseChallenge
  <2>1. Current' = n
    BY <1>1, <1>3 DEF CancelledAt
  <2>2. state' = "cancelled" /\ provider' \notin {"waiting", "continuing"}
    <3> USE <1>3 DEF CancelledAt
    <3>1. CASE RunResolution
      BY <3>1 DEF RunResolution
    <3>2. CASE FinishSuccess \/ FinishFailure
      BY <3>2 DEF FinishSuccess, FinishFailure, LateResultIgnored, Settled
    <3>3. CASE CancelResolution \/ CancelContext \/ CredentialsExpire \/ ReadResolution
      BY <3>3
      DEF CancelResolution, CancelContext, CredentialsExpire, ReadResolution, ExpiryDue,
          Settled, brokerVars
    <3>4. CASE StartMaterialize \/ EndMaterialize \/ UNCHANGED resolutionVars
      BY <3>4 DEF StartMaterialize, EndMaterialize, resolutionVars, brokerVars
    <3>5. CASE BrokerStep
      BY <3>5
      DEF BrokerStep, WaitEnds, BrokerAnswers, CompleteChallenge, ResolveReturns,
          CallerCancels, SendSignal, Signal
    <3> QED
      BY <3>1, <3>2, <3>3, <3>4, <3>5 DEF ResolutionNext, ResolutionChallengeBroker
  <2> QED
    BY <2>1, <2>2 DEF CancelledSince, CancelledAt
<1> QED
  BY <1>2, <1>3 DEF CancelledSince

\* A record cancelled at the n-th challenge stays cancelled until there is
\* another one.
LEMMA CancelledAtStaysCancelled ==
    ASSUME NEW n \in 0 .. MaxChallenges
    PROVE  ResolutionSpec => [](CancelledAt(n) => [](Current = n => state = "cancelled"))
<1>1. ResolutionInit => BrokerInv /\ ResolutionInv
  BY BrokerInitial, ResolutionInitial DEF ResolutionInit
<1>2. BrokerInv /\ ResolutionInv /\ [ResolutionNext]_resolutionVars
          => (BrokerInv /\ ResolutionInv)'
  BY ResolutionKeepsBrokerInv, ResolutionPreserved
<1>3. CancelledAt(n) => CancelledSince(n)
  BY DEF CancelledSince
<1>4. BrokerInv /\ ResolutionInv /\ CancelledSince(n) /\ [ResolutionNext]_resolutionVars
          => CancelledSince(n)'
  BY CancelledIsKept
<1>5. CancelledSince(n) => (Current = n => state = "cancelled")
  BY BrokerAssumption DEF CancelledSince, CancelledAt
<1> QED
  BY <1>1, <1>2, <1>3, <1>4, <1>5, PTL DEF ResolutionSpec

\* However many challenges there are and whatever is answered, finishes or
\* expires late: a resolution cancelled while its provider is not at a
\* challenge changes only by another challenge of that provider.
THEOREM CancelledStaysCancelledHolds == ResolutionSpec => CancelledStaysCancelled
BY CancelledAtStaysCancelled DEF CancelledStaysCancelled

(***************************************************************************)
(* Sessions                                                                *)
(***************************************************************************)
\* The provider runs between the start of session.Run and its supervision.
ProviderFollowsRun ==
    /\ stage \in {"new", "resolving", "supervising", "draining", "returned"}
    /\ provider \in InResolve \cup {"returned"} => stage = "resolving"

\* session.Run has a result once it returned: an error exactly with a failure.
ResultFollowsRun ==
    /\ failed \in BOOLEAN
    /\ failed => stage \in {"draining", "returned"}
    /\ stage = "returned" => result = IF failed THEN "error" ELSE "nil"

\* A failure is in the record exactly when the runtime announced one, and the
\* record is stopped only by finishSession.
RecordFollowsRun ==
    /\ state = "failed" <=> failed
    /\ state = "stopped" => finish /= "no"
    /\ finish /= "no" => stage = "returned" /\ state \in Terminal

HostInv == ProviderFollowsRun /\ ResultFollowsRun /\ RecordFollowsRun

LEMMA HostInitial == SessionInit => HostInv
BY DEF SessionInit, BrokerInit, Run!RtInit, HostInv, ProviderFollowsRun, ResultFollowsRun,
       RecordFollowsRun, InResolve

LEMMA HostPreserved == HostInv /\ [SessionNext]_sessionVars => HostInv'
<1> SUFFICES ASSUME HostInv, [SessionNext]_sessionVars PROVE HostInv'
  OBVIOUS
<1> USE DEF HostInv, ProviderFollowsRun, ResultFollowsRun, RecordFollowsRun, InResolve, Terminal
<1>1. CASE RunStartup
  BY <1>1 DEF RunStartup, RunStep, Run!RtStartup, RecordState
<1>2. CASE RunRejects
  BY <1>2 DEF RunRejects, RunStep, Run!RtReject, RecordState
<1>3. CASE RunSupervises
  BY <1>3 DEF RunSupervises, RunStep, Run!RtSupervise
<1>4. CASE RunReady
  BY <1>4 DEF RunReady, RunStep, Run!RtReady, RecordState
<1>5. CASE ClearPendingChallenges
  BY <1>5 DEF ClearPendingChallenges, runVars
<1>6. CASE RunRestarts
  BY <1>6 DEF RunRestarts, RunStep, Run!RtRestart, RecordState
<1>7. CASE RunFails
  BY <1>7 DEF RunFails, RunStep, Run!RtFail, RecordState
<1>8. CASE RunDrains
  BY <1>8 DEF RunDrains, RunStep, Run!RtDrain, Run!RtReturn
<1>9. CASE FinishSession
  BY <1>9 DEF FinishSession, FinalState, runVars
<1>10. CASE CloseDone
  BY <1>10 DEF CloseDone, brokerVars, runVars
<1>11. CASE StopSession
  BY <1>11 DEF StopSession, runVars
<1>12. CASE StopContext
  BY <1>12 DEF StopContext, runVars
<1>13. CASE BrokerStep /\ UNCHANGED <<runVars, hostVars>>
  BY <1>13, BrokerLeavesOwner DEF runVars, hostVars
<1>14. CASE UNCHANGED sessionVars
  BY <1>14 DEF sessionVars, brokerVars, runVars, hostVars
<1> QED
  BY <1>1, <1>2, <1>3, <1>4, <1>5, <1>6, <1>7, <1>8, <1>9, <1>10, <1>11, <1>12, <1>13, <1>14
  DEF SessionNext

\* The host reports of a session what session.Run announced, whatever the
\* order of its records, the stop requests and the answers to challenges.
THEOREM OutcomeIsTheRuntimesHolds == SessionSpec => []OutcomeIsTheRuntimes
<1>1. HostInv => OutcomeIsTheRuntimes
  BY DEF HostInv, ResultFollowsRun, RecordFollowsRun, OutcomeIsTheRuntimes
<1> QED
  BY <1>1, HostInitial, HostPreserved, PTL DEF SessionSpec

\* No action takes a stopped or failed session out of that state.
LEMMA StepKeepsTerminal ==
    HostInv /\ [SessionNext]_sessionVars => UNCHANGED sessionVars \/ (state \in Terminal => state' = state)
<1> SUFFICES ASSUME HostInv, SessionNext, state \in Terminal PROVE state' = state
  OBVIOUS
<1> USE DEF HostInv, ProviderFollowsRun, ResultFollowsRun, RecordFollowsRun, InResolve, Terminal
<1>1. CASE RunStartup \/ RunRejects \/ RunSupervises \/ RunReady
  BY <1>1
  DEF RunStartup, RunRejects, RunSupervises, RunReady, RunStep,
      Run!RtStartup, Run!RtReject, Run!RtSupervise, Run!RtReady
<1>2. CASE RunRestarts \/ RunFails \/ RunDrains
  BY <1>2 DEF RunRestarts, RunFails, RunDrains, RunStep, Run!RtRestart, Run!RtFail
<1>3. CASE FinishSession
  BY <1>3 DEF FinishSession, FinalState
<1>4. CASE ClearPendingChallenges \/ CloseDone \/ StopSession \/ StopContext
  BY <1>4 DEF ClearPendingChallenges, CloseDone, StopSession, StopContext, brokerVars
<1>5. CASE BrokerStep /\ UNCHANGED <<runVars, hostVars>>
  BY <1>5, BrokerLeavesOwner DEF runVars, hostVars
<1> QED
  BY <1>1, <1>2, <1>3, <1>4, <1>5 DEF SessionNext

\* A session that was reported stopped or failed stays so.
THEOREM TerminalIsFinalHolds == SessionSpec => TerminalIsFinal
BY HostInitial, HostPreserved, StepKeepsTerminal, PTL DEF SessionSpec, TerminalIsFinal

----------------------------------------------------------------------------
(* The active challenge *)

\* clearPendingChallenges completes challenges but forgets none.
LEMMA ClearKeepsRaised ==
    ASSUME BrokerInv, ClearPendingChallenges
    PROVE  /\ challenges' \in [ChallengeIDs -> [status : Statuses, action : Kinds \cup {"none"}]]
           /\ Raised' = Raised
<1>1. \A id \in ChallengeIDs :
        /\ challenges'[id] \in [status : Statuses, action : Kinds \cup {"none"}]
        /\ challenges'[id].status = "none" <=> challenges[id].status = "none"
  BY DEF ClearPendingChallenges, BrokerInv, BrokerTypeOK, Statuses
<1> QED
  BY <1>1 DEF ClearPendingChallenges, Raised

\* session.Run ends the provider's part of a session only when Resolve has
\* returned or was never called, and a ready session shows no challenge.
LEMMA HostKeepsBrokerInv == HostInv /\ BrokerInv /\ [SessionNext]_sessionVars => BrokerInv'
<1> SUFFICES ASSUME HostInv, BrokerInv, [SessionNext]_sessionVars PROVE BrokerInv'
  OBVIOUS
<1>1. CASE BrokerStep
  BY <1>1, BrokerPreserved
<1>2. ASSUME UNCHANGED <<challenges, signals>>,
             \/ active' = 0
             \/ active' = active /\ (provider \in AtChallenge => provider' \in AtChallenge),
             provider' \in AtChallenge => provider \in AtChallenge
      PROVE  BrokerInv'
  <2>1. /\ challenges' \in [ChallengeIDs -> [status : Statuses, action : Kinds \cup {"none"}]]
        /\ Raised' = Raised
    BY <1>2, RaisedIsKept
  <2> QED
    BY <1>2, <2>1, OwnerKeepsBrokerInv
<1>3. CASE ClearPendingChallenges
  BY <1>3, ClearKeepsRaised, OwnerKeepsBrokerInv DEF ClearPendingChallenges
<1>4. stage = "new" => provider \notin AtChallenge
  BY DEF HostInv, ProviderFollowsRun, InResolve, AtChallenge
<1>5. CASE RunStartup \/ RunRejects \/ RunSupervises \/ RunReady
  BY <1>2, <1>4, <1>5
  DEF RunStartup, RunRejects, RunSupervises, RunReady, RunStep, AtChallenge,
      Run!RtStartup, Run!RtReject
<1>6. CASE RunRestarts \/ RunFails \/ RunDrains
  BY <1>2, <1>6 DEF RunRestarts, RunFails, RunDrains, RunStep
<1>7. CASE FinishSession \/ CloseDone \/ StopSession \/ StopContext \/ UNCHANGED sessionVars
  BY <1>2, <1>7 DEF FinishSession, CloseDone, StopSession, StopContext, sessionVars, brokerVars
<1> QED
  BY <1>1, <1>3, <1>5, <1>6, <1>7 DEF SessionNext

\* The challenge a session shows as active is the one its provider is stopped
\* at, whatever order the runtime's records, the stop requests and the answers
\* to challenges come in.
THEOREM SessionShowsAwaitedChallenge == SessionSpec => []ActiveChallengeIsAwaited
<1>1. SessionInit => HostInv /\ BrokerInv
  BY HostInitial, BrokerInitial DEF SessionInit
<1>2. BrokerInv => ActiveChallengeIsAwaited
  BY DEF BrokerInv
<1> QED
  BY <1>1, <1>2, HostPreserved, HostKeepsBrokerInv, PTL DEF SessionSpec

-----------------------------------------------------------------------------
(***************************************************************************)
(* The host                                                                *)
(***************************************************************************)
\* A host that owns a session, or a resolution, goes on owning it, and behaves
\* as the module of that says: what is proved of SessionSpec and
\* ResolutionSpec is proved of the host.
LEMMA ClientIsItsOwner ==
    /\ ClientSpec /\ owner = "session" => SessionSpec
    /\ ClientSpec /\ owner = "resolution" => ResolutionSpec
<1>1. owner = "session" /\ [ClientNext]_clientVars =>
          (owner = "session")' /\ [SessionNext]_sessionVars
  BY DEF ClientNext, clientVars
<1>2. owner = "resolution" /\ [ClientNext]_clientVars =>
          (owner = "resolution")' /\ [ResolutionNext]_resolutionVars
  BY DEF ClientNext, clientVars
<1>3. ClientInit => SessionInit /\ ResolutionInit
  BY DEF ClientInit
<1> QED
  BY <1>1, <1>2, <1>3, PTL DEF ClientSpec, SessionSpec, ResolutionSpec

(***************************************************************************)
(* The VPS provider catalog                                                *)
(***************************************************************************)
(* The validation *)

LEMMA MinIsMember ==
  ASSUME NEW T, T \subseteq Nat, T # {}
  PROVE  Min(T) \in T
<1> DEFINE R == OpToRel(<, Nat)
<1>1. \A x, y \in Nat : y < x => <<y, x>> \in R
  BY DEF OpToRel
<1>2. IsWellFoundedOn(R, Nat)
  BY NatLessThanWellFounded
<1> HIDE DEF R
<1>3. PICK x \in T : \A y \in T : ~(<<y, x>> \in R)
  BY <1>2, WFMin
<1>4. ASSUME NEW y \in T PROVE x =< y
  <2>1. x \in Nat /\ y \in Nat /\ ~(<<y, x>> \in R)
    BY <1>3
  <2>2. ~(y < x)
    BY <1>1, <2>1
  <2> QED
    BY <2>1, <2>2
<1> QED
  BY <1>4 DEF Min

\* A snapshot that is valid has a form, and its generation is not below the
\* highest one known.
LEMMA ValidSnapshot ==
  ASSUME NEW s, NEW e, NEW top, NEW time, ValidateSnapshot(s, e, top, time) = "valid"
  PROVE  s.form # "none" /\ ~(top > 0 /\ s.gen < top)
<1> DEFINE c == << <<s.form \in {"none", "schema"}, "unsupported">>,
                   <<s.issuer # e.issuer, "wrong_issuer">>,
                   <<s.endpoint # e.id, "wrong_endpoint">>,
                   <<s.gen = 0, "invalid">>,
                   <<top > 0 /\ s.gen < top, "rollback">>,
                   <<s.expires <= time, "stale">>,
                   <<s.form = "unsigned", "unsigned">>,
                   <<s.form = "shape", "invalid">> >>
<1>1. DOMAIN c = 1 .. 8 /\ \A i \in 1 .. 8 : c[i][2] # "valid"
  OBVIOUS
<1>2. c[1][1] <=> s.form \in {"none", "schema"}
  OBVIOUS
<1>3. c[5][1] <=> top > 0 /\ s.gen < top
  OBVIOUS
<1>4. FirstWord(c) = "valid"
  BY DEF ValidateSnapshot
<1> HIDE DEF c
<1>5. ASSUME NEW T, T \subseteq 1 .. 8, T # {} PROVE Min(T) \in T
  <2>1. T \subseteq Nat
    BY <1>5
  <2> QED
    BY <1>5, <2>1, MinIsMember
<1>6. \A i \in 1 .. 8 : ~c[i][1]
  BY <1>1, <1>4, <1>5 DEF FirstWord
<1> QED
  BY <1>2, <1>3, <1>6

-----------------------------------------------------------------------------
(* The invariant *)

SyncFields  == DOMAIN IdleSync
IssueFields == DOMAIN IdleIssue

\* A map of generation keys to generations.
Heights(h) == \A k \in DOMAIN h : h[k] \in Nat

\* No floor is above what h says.
Covers(h) == \A k \in DOMAIN floor : floor[k] <= Value(h, k)

\* What is kept for an endpoint: it is valid only with a snapshot.
EntryOK(c) == c.snapshot.gen \in Nat /\ (c.status = "valid" => c.snapshot # NoSnapshot)

VpsInv ==
  /\ run \in Nat
  /\ served.gen \in Nat
  /\ \A o \in DOMAIN issues : issues[o].gen \in Nat /\ issues[o].run = run

EntriesInv ==
  /\ configured \in Configs
  /\ Heights(highest) /\ Heights(disk.highest) /\ Heights(floor)
  /\ Covers(highest) /\ Covers(disk.highest)
  /\ \A id \in DOMAIN cache : EntryOK(cache[id]) /\ \E e \in Range(configured) : e.id = id
  /\ \A id \in DOMAIN disk.catalogs : EntryOK(disk.catalogs[id])

SyncOK(s) ==
  /\ DOMAIN s = SyncFields
  /\ s.body.gen \in Nat
  /\ s.todo \in Seq(Range(configured))
  /\ s.pc # "idle" => s.todo # <<>>
  /\ s.pc = "store" /\ s.status = "valid" => s.body # NoSnapshot

IssueOK(i) ==
  /\ DOMAIN i = IssueFields
  /\ i.pc \in {"asked", "answered"} =>
       i.snapshot.gen \in Nat /\ i.floor \in Nat /\ i.floor <= i.snapshot.gen
  /\ i.pc = "answered" => i.response.gen \in Nat

CallsInv ==
  /\ DOMAIN sync = Syncs /\ \A p \in Syncs : SyncOK(sync[p])
  /\ DOMAIN issue = Issuers /\ \A q \in Issuers : IssueOK(issue[q])

\* The artifact a client was given for an operation by one run of the VPS, on
\* its way or recorded, is the one that every other answer of that run gives,
\* and the VPS still knows it unless it was restarted.
Answer(op, r) == [op |-> op, run |-> r.run, artifact |-> r.artifact, expires |-> r.expires]

Given ==
  {Answer(r.op, r) : r \in recorded} \cup
  {Answer(issue[q].req.op, issue[q].response) : q \in {p \in Issuers : issue[p].pc = "answered"}}

GivenInv ==
  /\ \A g \in Given : /\ g.run \in Nat /\ g.run <= run
                      /\ g.run = run => /\ g.op \in DOMAIN issues
                                        /\ g = Answer(g.op, issues[g.op])
  /\ \A g, h \in Given : g.op = h.op /\ g.run = h.run => g = h

CatalogInv == VpsInv /\ EntriesInv /\ CallsInv /\ IssuesKeepTheFloor /\ GivenInv


-----------------------------------------------------------------------------
(* Maps of generations *)

LEMMA MaxOfTwo ==
  ASSUME NEW a \in Nat, NEW b \in Nat
  PROVE  Max({a, b}) \in Nat /\ a <= Max({a, b}) /\ b <= Max({a, b})
<1>1. \E x \in {a, b} : \A y \in {a, b} : x >= y
  OBVIOUS
<1>2. Max({a, b}) \in {a, b} /\ \A y \in {a, b} : Max({a, b}) >= y
  BY <1>1 DEF Max
<1> QED
  BY <1>2

LEMMA ValueIsNat ==
  ASSUME NEW h, Heights(h), NEW k
  PROVE  Value(h, k) \in Nat
BY DEF Heights, Value

LEMMA FloorIsCovered ==
  ASSUME NEW h, Heights(h), Covers(h), NEW k
  PROVE  Value(floor, k) <= Value(h, k)
<1>1. Value(h, k) \in Nat
  BY ValueIsNat
<1> QED
  BY <1>1 DEF Covers, Value

\* The snapshot that an issue or a client's list takes as valid is not below
\* the floor of its endpoint.
LEMMA ValidIsAboveFloor ==
  ASSUME EntriesInv, NEW id \in DOMAIN cache, currentVPSCatalogStatus(cache[id]) = "valid"
  PROVE  /\ cache[id].snapshot.gen \in Nat
         /\ Value(floor, vpsCatalogGenerationKey(cache[id].endpoint)) \in Nat
         /\ Value(floor, vpsCatalogGenerationKey(cache[id].endpoint)) <= cache[id].snapshot.gen
<1> DEFINE key == vpsCatalogGenerationKey(cache[id].endpoint)
           s == cache[id].snapshot
           top == Value(highest, key)
<1>1. s.gen \in Nat /\ s # NoSnapshot
  BY DEF EntriesInv, EntryOK, currentVPSCatalogStatus
<1>2. ValidateSnapshot(s, cache[id].endpoint, top, now) = "valid"
  BY <1>1 DEF currentVPSCatalogStatus
<1>3. ~(top > 0 /\ s.gen < top)
  BY <1>2, ValidSnapshot
<1>4. Value(floor, key) \in Nat /\ top \in Nat /\ Value(floor, key) <= top
  BY ValueIsNat, FloorIsCovered DEF EntriesInv
<1> HIDE DEF key, s, top
<1>5. Value(floor, key) <= s.gen
  BY <1>1, <1>3, <1>4
<1> QED
  BY <1>1, <1>4, <1>5 DEF key, s

-----------------------------------------------------------------------------
(* The steps that leave most of the state alone *)

LEMMA VpsFrame ==
  ASSUME VpsInv, UNCHANGED <<vps, run>>
  PROVE  VpsInv'
BY DEF VpsInv, vps

LEMMA HostFrame ==
  ASSUME EntriesInv, UNCHANGED <<host, floor>>
  PROVE  EntriesInv'
BY DEF EntriesInv, host, Covers

LEMMA SyncFrame ==
  ASSUME CallsInv, UNCHANGED <<configured, issue>>, NEW p \in Syncs, NEW s,
         sync' = [sync EXCEPT ![p] = s], SyncOK(s)
  PROVE  CallsInv'
BY DEF CallsInv, SyncOK

LEMMA IssueFrame ==
  ASSUME CallsInv, UNCHANGED <<configured, sync>>, NEW q \in Issuers, NEW i,
         issue' = [issue EXCEPT ![q] = i], IssueOK(i)
  PROVE  CallsInv'
BY DEF CallsInv, SyncOK

LEMMA CallsFrame ==
  ASSUME CallsInv, UNCHANGED <<configured, sync, issue>>
  PROVE  CallsInv'
BY DEF CallsInv, SyncOK

LEMMA GivenFrame ==
  ASSUME GivenInv, UNCHANGED <<issues, run>>, Given' \subseteq Given
  PROVE  GivenInv'
BY DEF GivenInv

\* A call that is dropped or has no answer yet gives nothing.
LEMMA GivenWithout ==
  ASSUME CallsInv, UNCHANGED recorded, NEW q \in Issuers, NEW i,
         issue' = [issue EXCEPT ![q] = i], i.pc # "answered"
  PROVE  Given' \subseteq Given
BY DEF CallsInv, Given


-----------------------------------------------------------------------------
(* The VPS and the clock *)

LEMMA PublishKeeps ==
  ASSUME CatalogInv, NEW s \in Catalogs, Publish(s)
  PROVE  CatalogInv'
<1>1. /\ served' = s
      /\ UNCHANGED <<issues, host, sync, issue, recorded, run, floor>>
  BY DEF Publish
<1>2. VpsInv'
  BY <1>1, CatalogBounds DEF CatalogInv, VpsInv
<1>3. EntriesInv' /\ CallsInv'
  BY <1>1, HostFrame, CallsFrame DEF CatalogInv, host
<1>4. IssuesKeepTheFloor' /\ GivenInv'
  BY <1>1 DEF CatalogInv, IssuesKeepTheFloor, GivenInv, Given
<1> QED
  BY <1>2, <1>3, <1>4 DEF CatalogInv

LEMMA NewServiceKeeps ==
  ASSUME CatalogInv, NewService
  PROVE  CatalogInv'
<1>1. /\ issues' = EmptyMap /\ run' = run + 1
      /\ UNCHANGED <<served, host, sync, issue, recorded, floor>>
  BY DEF NewService
<1>2. VpsInv'
  BY <1>1 DEF CatalogInv, VpsInv, EmptyMap
<1>3. EntriesInv' /\ CallsInv'
  BY <1>1, HostFrame, CallsFrame DEF CatalogInv, host
<1>4. Given' = Given
  BY <1>1 DEF Given
<1>5. IssuesKeepTheFloor' /\ GivenInv'
  BY <1>1, <1>4 DEF CatalogInv, IssuesKeepTheFloor, GivenInv, VpsInv
<1> QED
  BY <1>2, <1>3, <1>5 DEF CatalogInv

LEMMA StutterKeeps ==
  ASSUME CatalogInv, UNCHANGED <<vps, host, sync, issue, recorded, run, floor>>
  PROVE  CatalogInv'
<1>1. VpsInv' /\ EntriesInv' /\ CallsInv'
  BY VpsFrame, HostFrame, CallsFrame DEF CatalogInv, host
<1>2. IssuesKeepTheFloor' /\ GivenInv'
  BY DEF CatalogInv, IssuesKeepTheFloor, GivenInv, Given, vps
<1> QED
  BY <1>1, <1>2 DEF CatalogInv

-----------------------------------------------------------------------------
(* A start of the host *)

LEMMA NewHostKeeps ==
  ASSUME CatalogInv, NEW endpoints \in Configs, NEW readable \in BOOLEAN,
         NewHost(endpoints, readable)
  PROVE  CatalogInv'
<1> DEFINE d == IF readable THEN disk ELSE EmptyDisk
           keys == {vpsCatalogGenerationKey(e) : e \in Range(endpoints)}
           holds(k) == /\ k[1] \in DOMAIN d.catalogs
                       /\ k = vpsCatalogGenerationKey(LastEndpoint(endpoints, k[1]))
           stored(k) == IF holds(k) THEN d.catalogs[k[1]].snapshot.gen ELSE 0
           known(k) == Max({Value(d.highest, k), stored(k)})
           kept == IF readable THEN DOMAIN floor \cap keys ELSE {}
<1>1. /\ configured' = endpoints
      /\ highest' = [k \in {j \in keys : known(j) > 0} |-> known(k)]
      /\ cache' = loadVPSProviderCatalogCache(endpoints, d)
      /\ sync' = [p \in Syncs |-> IdleSync]
      /\ issue' = [q \in Issuers |-> IdleIssue]
      /\ floor' = [k \in kept |-> floor[k]]
      /\ UNCHANGED <<vps, disk, recorded, run>>
  BY DEF NewHost, LoadedHighest
<1>2. Heights(d.highest) /\ \A id \in DOMAIN d.catalogs : EntryOK(d.catalogs[id])
  <2>1. DOMAIN EmptyMap = {}
    BY DEF EmptyMap
  <2> QED
    BY <2>1 DEF CatalogInv, EntriesInv, EmptyDisk, Heights
<1>3. readable => d = disk
  OBVIOUS
<1> HIDE DEF d
<1>4. \A k : known(k) \in Nat /\ Value(d.highest, k) <= known(k)
  <2> TAKE k
  <2>1. Value(d.highest, k) \in Nat /\ stored(k) \in Nat
    BY <1>2, ValueIsNat DEF EntryOK
  <2> QED
    BY <2>1, MaxOfTwo
<1> HIDE DEF known
<1>5. Heights(highest')
  BY <1>1, <1>4 DEF Heights
<1>6. Heights(floor)' /\ Covers(disk.highest)'
  BY <1>1 DEF CatalogInv, EntriesInv, Heights, Covers
<1>7. Covers(highest)'
  <2> SUFFICES ASSUME NEW k \in kept PROVE floor[k] <= Value(highest', k)
    BY <1>1 DEF Covers
  <2>1. /\ k \in keys /\ d = disk /\ k \in DOMAIN floor
        /\ floor[k] \in Nat /\ floor[k] <= Value(d.highest, k)
    BY <1>3 DEF CatalogInv, EntriesInv, Heights, Covers
  <2>2. Value(d.highest, k) \in Nat /\ known(k) \in Nat /\ Value(d.highest, k) <= known(k)
    BY <1>2, <1>4, ValueIsNat
  <2>3. floor[k] <= known(k)
    BY <2>1, <2>2
  <2>4. Value(highest', k) = known(k)
    BY <1>1, <2>1, <2>2 DEF Value
  <2> QED
    BY <2>3, <2>4
<1>8. \A id \in DOMAIN cache' :
        EntryOK(cache'[id]) /\ \E e \in Range(endpoints) : e.id = id
  BY <1>1, <1>2 DEF loadVPSProviderCatalogCache, EntryOK
<1>9. EntriesInv'
  BY <1>1, <1>5, <1>6, <1>7, <1>8 DEF CatalogInv, EntriesInv
<1>10. CallsInv'
  <2>1. <<>> \in Seq(Range(configured'))
    OBVIOUS
  <2>2. SyncOK(IdleSync)' /\ IssueOK(IdleIssue)'
    BY <2>1 DEF SyncOK, IssueOK, IdleSync, IdleIssue, SyncFields, IssueFields, NoSnapshot
  <2> QED
    BY <1>1, <2>2 DEF CallsInv, SyncOK
<1>11. VpsInv'
  BY <1>1, VpsFrame DEF CatalogInv
<1>12. Given' \subseteq Given
  BY <1>1 DEF Given, IdleIssue
<1>13. IssuesKeepTheFloor' /\ GivenInv'
  BY <1>1, <1>12, GivenFrame DEF CatalogInv, IssuesKeepTheFloor, vps
<1> QED
  BY <1>9, <1>10, <1>11, <1>13 DEF CatalogInv


-----------------------------------------------------------------------------
(* A sync *)

\* A step that only moves the sync p on.
LEMMA SyncStepKeeps ==
  ASSUME CatalogInv, NEW p \in Syncs, NEW s, SyncOK(s), sync' = [sync EXCEPT ![p] = s],
         UNCHANGED <<vps, host, issue, recorded, run, floor>>
  PROVE  CatalogInv'
<1>1. VpsInv' /\ EntriesInv' /\ CallsInv'
  BY VpsFrame, HostFrame, SyncFrame DEF CatalogInv, host
<1>2. IssuesKeepTheFloor' /\ GivenInv'
  BY DEF CatalogInv, IssuesKeepTheFloor, GivenInv, Given, vps
<1> QED
  BY <1>1, <1>2 DEF CatalogInv

LEMMA StartSyncKeeps ==
  ASSUME CatalogInv, NEW p \in Syncs, SyncVPSProviderCatalogs(p)
  PROVE  CatalogInv'
<1> DEFINE s == [sync[p] EXCEPT !.pc = "ask", !.todo = configured]
<1>1. SyncOK(sync[p])
  BY DEF CatalogInv, CallsInv
<1>2. configured \in Seq(Range(configured)) /\ configured # <<>>
  BY CatalogBounds DEF SyncVPSProviderCatalogs, CatalogInv, EntriesInv
<1>3. SyncOK(s)
  BY <1>1, <1>2 DEF SyncOK, SyncFields, IdleSync
<1>4. sync' = [sync EXCEPT ![p] = s]
  BY DEF SyncVPSProviderCatalogs
<1> HIDE DEF s
<1> QED
  BY <1>3, <1>4, SyncStepKeeps DEF SyncVPSProviderCatalogs

\* The request, the answer or its loss, and the judgement.
LEMMA AskKeeps ==
  ASSUME CatalogInv, NEW p \in Syncs,
         syncVPSProviderCatalog(p) \/ handleCatalog(p) \/ FailSync(p) \/ JudgeSnapshot(p)
  PROVE  CatalogInv'
<1>1. SyncOK(sync[p])
  BY DEF CatalogInv, CallsInv
<1> USE DEF SyncOK, SyncFields, IdleSync
<1>2. ASSUME syncVPSProviderCatalog(p) PROVE CatalogInv'
  <2> DEFINE s == IF Head(sync[p].todo).usable
                    THEN [sync[p] EXCEPT !.pc = "asked", !.now = now]
                    ELSE [sync[p] EXCEPT !.pc = "store", !.status = "invalid"]
  <2>1. SyncOK(s)
    BY <1>1, <1>2 DEF syncVPSProviderCatalog
  <2>2. sync' = [sync EXCEPT ![p] = s]
    BY <1>2 DEF syncVPSProviderCatalog
  <2> HIDE DEF s
  <2> QED
    BY <1>2, <2>1, <2>2, SyncStepKeeps DEF syncVPSProviderCatalog
<1>3. ASSUME handleCatalog(p) PROVE CatalogInv'
  <2> DEFINE s == IF authorize(Head(sync[p].todo).read, "catalog_read")
                    THEN [sync[p] EXCEPT !.pc = "answered", !.body = served]
                    ELSE [sync[p] EXCEPT !.pc = "store", !.status = "unavailable"]
  <2>1. SyncOK(s)
    BY <1>1, <1>3 DEF handleCatalog, CatalogInv, VpsInv
  <2>2. sync' = [sync EXCEPT ![p] = s]
    BY <1>3 DEF handleCatalog
  <2> HIDE DEF s
  <2> QED
    BY <1>3, <2>1, <2>2, SyncStepKeeps DEF handleCatalog
<1>4. ASSUME FailSync(p) PROVE CatalogInv'
  <2>1. PICK status \in {"unavailable", "invalid"} :
          sync' = [sync EXCEPT ![p].pc = "store", ![p].status = status]
    BY <1>4 DEF FailSync
  <2> DEFINE s == [sync[p] EXCEPT !.pc = "store", !.status = status]
  <2>2. SyncOK(s)
    BY <1>1, <1>4 DEF FailSync
  <2>3. sync' = [sync EXCEPT ![p] = s]
    BY <2>1
  <2> HIDE DEF s
  <2> QED
    BY <1>4, <2>2, <2>3, SyncStepKeeps DEF FailSync
<1>5. ASSUME JudgeSnapshot(p) PROVE CatalogInv'
  <2> DEFINE e == Head(sync[p].todo)
             word == ValidateSnapshot(sync[p].body, e,
                       Value(highest, vpsCatalogGenerationKey(e)), sync[p].now)
             s == [sync[p] EXCEPT !.pc = "store", !.status = word,
                                  !.body = IF word = "valid" THEN @ ELSE NoSnapshot]
  <2>1. word = "valid" => sync[p].body # NoSnapshot
    <3>1. word = "valid" => sync[p].body.form # "none"
      BY ValidSnapshot
    <3>2. NoSnapshot.form = "none"
      BY DEF NoSnapshot
    <3> QED
      BY <3>1, <3>2
  <2>2. sync' = [sync EXCEPT ![p] = s] /\ sync[p].pc = "answered"
    BY <1>5 DEF JudgeSnapshot
  <2> HIDE DEF word
  <2>3. NoSnapshot.gen = 0
    BY DEF NoSnapshot
  <2>4. SyncOK(s)
    BY <1>1, <2>1, <2>2, <2>3
  <2> HIDE DEF s
  <2> QED
    BY <1>5, <2>2, <2>4, SyncStepKeeps DEF JudgeSnapshot
<1> QED
  BY <1>2, <1>3, <1>4, <1>5

\* Storing what a sync found: the cache, the highest generation and, unless
\* the write fails before the rename, the file.  Nothing known is lost, and
\* the stored generation is from now on the lowest one that is acceptable.
LEMMA StoreKeepsHost ==
  ASSUME EntriesInv, NEW e \in Range(configured), NEW status, NEW new, NEW acknowledged \in BOOLEAN,
         new.gen \in Nat, status = "valid" => new # NoSnapshot,
         storeVPSCatalogStatus(e, status, new, acknowledged), configured' = configured,
         floor' = IF acknowledged /\ new.gen > Value(floor, vpsCatalogGenerationKey(e))
                    THEN With(floor, vpsCatalogGenerationKey(e), new.gen) ELSE floor
  PROVE  EntriesInv'
<1> DEFINE key == vpsCatalogGenerationKey(e)
           old == IF e.id \in DOMAIN cache THEN cache[e.id].snapshot ELSE NoSnapshot
           kept == IF new # NoSnapshot THEN new ELSE IF status = "unavailable" THEN old ELSE NoSnapshot
           entry == [endpoint |-> e, snapshot |-> kept, status |-> status]
<1>1. /\ cache' = With(cache, e.id, entry)
      /\ highest' = IF new # NoSnapshot /\ new.gen > Value(highest, key)
                      THEN With(highest, key, new.gen) ELSE highest
      /\ disk' = DiskImage(cache', highest') \/ (disk' = disk /\ acknowledged = FALSE)
  BY DEF storeVPSCatalogStatus, persistVPSProviderCatalogCache
<1>2. NoSnapshot.gen = 0
  BY DEF NoSnapshot
<1>3. EntryOK(entry)
  BY <1>2 DEF EntriesInv, EntryOK
<1> HIDE DEF entry, key
<1>4. DOMAIN cache' = DOMAIN cache \cup {e.id}
      /\ \A id \in DOMAIN cache' : cache'[id] = IF id = e.id THEN entry ELSE cache[id]
  BY <1>1 DEF With
<1>5. \A id \in DOMAIN cache' :
        EntryOK(cache'[id]) /\ \E f \in Range(configured) : f.id = id
  BY <1>3, <1>4 DEF EntriesInv
<1>6. Value(highest, key) \in Nat /\ Value(floor, key) \in Nat
  BY ValueIsNat DEF EntriesInv
<1>7. /\ Heights(highest')
      /\ \A k : Value(highest, k) <= Value(highest', k)
      /\ new.gen <= Value(highest', key)
  <2>1. CASE new # NoSnapshot /\ new.gen > Value(highest, key)
    <3>1. DOMAIN highest' = DOMAIN highest \cup {key}
          /\ \A k \in DOMAIN highest' : highest'[k] = IF k = key THEN new.gen ELSE highest[k]
      BY <1>1, <2>1 DEF With
    <3>2. Heights(highest')
      BY <3>1 DEF EntriesInv, Heights
    <3>3. ASSUME NEW k PROVE Value(highest, k) <= Value(highest', k)
      <4>1. CASE k = key
        BY <1>6, <2>1, <3>1, <4>1 DEF Value
      <4>2. CASE k # key
        <5>1. Value(highest', k) = Value(highest, k) /\ Value(highest, k) \in Nat
          BY <3>1, <4>2, ValueIsNat DEF EntriesInv, Value
        <5> QED
          BY <5>1
      <4> QED
        BY <4>1, <4>2
    <3> QED
      BY <3>1, <3>2, <3>3 DEF Value
  <2>2. CASE ~(new # NoSnapshot /\ new.gen > Value(highest, key))
    <3>1. highest' = highest /\ \A k : Value(highest, k) \in Nat
      BY <1>1, <2>2, ValueIsNat DEF EntriesInv
    <3>2. new.gen <= Value(highest, key)
      BY <1>2, <1>6, <2>2
    <3> QED
      BY <3>1, <3>2 DEF EntriesInv
  <2> QED
    BY <2>1, <2>2
<1>8. \A k : Value(highest, k) \in Nat /\ Value(highest', k) \in Nat
  BY <1>7, ValueIsNat DEF EntriesInv
<1>9. Heights(floor') /\ \A k \in DOMAIN floor' : floor'[k] <= Value(highest', k)
  <2>1. \A k \in DOMAIN floor : floor[k] \in Nat /\ floor[k] <= Value(highest', k)
    BY <1>7, <1>8 DEF EntriesInv, Heights, Covers
  <2>2. CASE floor' = floor
    BY <2>1, <2>2 DEF Heights
  <2>3. CASE floor' = With(floor, key, new.gen)
    <3>1. DOMAIN floor' = DOMAIN floor \cup {key}
          /\ \A k \in DOMAIN floor' : floor'[k] = IF k = key THEN new.gen ELSE floor[k]
      BY <2>3 DEF With
    <3> QED
      BY <1>7, <2>1, <3>1 DEF Heights
  <2> QED
    BY <2>2, <2>3 DEF key
<1>10. /\ Heights(disk'.highest)
       /\ \A k \in DOMAIN floor' : floor'[k] <= Value(disk'.highest, k)
       /\ \A id \in DOMAIN disk'.catalogs : EntryOK(disk'.catalogs[id])
  <2>1. CASE disk' = DiskImage(cache', highest')
    <3>1. disk'.highest = highest'
      BY <2>1 DEF DiskImage
    <3>2. \A id \in DOMAIN disk'.catalogs :
            id \in DOMAIN cache' /\ disk'.catalogs[id].snapshot = cache'[id].snapshot
                                 /\ disk'.catalogs[id].status = cache'[id].status
      BY <2>1 DEF DiskImage
    <3> QED
      BY <1>5, <1>7, <1>9, <3>1, <3>2 DEF EntryOK
  <2>2. CASE disk' = disk /\ acknowledged = FALSE
    BY <2>2 DEF EntriesInv, Heights, Covers
  <2> QED
    BY <1>1, <2>1, <2>2
<1> QED
  BY <1>5, <1>7, <1>9, <1>10 DEF EntriesInv, Covers, Heights

LEMMA FinishSyncKeeps ==
  ASSUME CatalogInv, NEW p \in Syncs, FinishSync(p)
  PROVE  CatalogInv'
<1> DEFINE e == Head(sync[p].todo)
           s == IF Len(sync[p].todo) > 1
                  THEN [IdleSync EXCEPT !.pc = "ask", !.todo = Tail(sync[p].todo)]
                  ELSE IdleSync
<1>1. SyncOK(sync[p]) /\ sync[p].pc = "store"
  BY DEF FinishSync, CatalogInv, CallsInv
<1>2. sync[p].todo \in Seq(Range(configured)) /\ sync[p].todo # <<>>
  BY <1>1 DEF SyncOK
<1>3. e \in Range(configured)
  BY <1>2
<1>4. PICK acknowledged \in BOOLEAN :
        /\ storeVPSCatalogStatus(e, sync[p].status, sync[p].body, acknowledged)
        /\ floor' = IF acknowledged /\ sync[p].body.gen > Value(floor, vpsCatalogGenerationKey(e))
                      THEN With(floor, vpsCatalogGenerationKey(e), sync[p].body.gen) ELSE floor
  BY DEF FinishSync
<1>5. sync' = [sync EXCEPT ![p] = s] /\ UNCHANGED <<vps, configured, issue, recorded, run>>
  BY DEF FinishSync
<1>6. EntriesInv'
  <2>1. sync[p].body.gen \in Nat /\ (sync[p].status = "valid" => sync[p].body # NoSnapshot)
    BY <1>1 DEF SyncOK
  <2> DEFINE new == sync[p].body
             status == sync[p].status
  <2> HIDE DEF new, status, e
  <2> QED
    BY <1>3, <1>4, <1>5, <2>1, StoreKeepsHost DEF CatalogInv, new, status
<1>7. SyncOK(s)
  <2>1. CASE Len(sync[p].todo) > 1
    <3>1. Tail(sync[p].todo) \in Seq(Range(configured)) /\ Tail(sync[p].todo) # <<>>
      BY <1>2, <2>1
    <3> QED
      BY <2>1, <3>1 DEF SyncOK, SyncFields, IdleSync, NoSnapshot
  <2>2. CASE ~(Len(sync[p].todo) > 1)
    <3>1. <<>> \in Seq(Range(configured))
      OBVIOUS
    <3> QED
      BY <2>2, <3>1 DEF SyncOK, SyncFields, IdleSync, NoSnapshot
  <2> QED
    BY <2>1, <2>2
<1> HIDE DEF s
<1>8. VpsInv' /\ CallsInv'
  BY <1>5, <1>7, VpsFrame, SyncFrame DEF CatalogInv
<1>9. IssuesKeepTheFloor' /\ GivenInv'
  BY <1>5 DEF CatalogInv, IssuesKeepTheFloor, GivenInv, Given, vps
<1> QED
  BY <1>6, <1>8, <1>9 DEF CatalogInv


-----------------------------------------------------------------------------
(* An issue *)

\* The request is made against a snapshot that is valid at the time.
LEMMA RequestKeeps ==
  ASSUME CatalogInv, NEW q \in Issuers, NEW req, IssueVPSProviderArtifact(q, req)
  PROVE  CatalogInv'
<1> DEFINE c == cache[req.endpoint]
           height == Value(floor, vpsCatalogGenerationKey(c.endpoint))
           i == [IdleIssue EXCEPT !.pc = "asked", !.req = req, !.endpoint = c.endpoint,
                                  !.snapshot = c.snapshot, !.floor = height]
<1>1. /\ req.endpoint \in DOMAIN cache /\ currentVPSCatalogStatus(c) = "valid"
      /\ issue' = [issue EXCEPT ![q] = i]
      /\ UNCHANGED <<vps, host, sync, recorded, run, floor>>
  BY DEF IssueVPSProviderArtifact, Issuable
<1>2. c.snapshot.gen \in Nat /\ height \in Nat /\ height <= c.snapshot.gen
  BY <1>1, ValidIsAboveFloor DEF CatalogInv
<1> HIDE DEF c, height
<1>3. IssueOK(i) /\ i.pc = "asked"
  BY <1>2 DEF IssueOK, IssueFields, IdleIssue
<1> HIDE DEF i
<1>4. VpsInv' /\ EntriesInv' /\ CallsInv'
  BY <1>1, <1>3, VpsFrame, HostFrame, IssueFrame DEF CatalogInv, host
<1>5. Given' \subseteq Given
  BY <1>1, <1>3, GivenWithout DEF CatalogInv
<1>6. IssuesKeepTheFloor' /\ GivenInv'
  BY <1>1, <1>5, GivenFrame DEF CatalogInv, IssuesKeepTheFloor, vps
<1> QED
  BY <1>4, <1>6 DEF CatalogInv

\* The request is refused, or it or its answer is lost.
LEMMA DropKeeps ==
  ASSUME CatalogInv, NEW q \in Issuers, issue' = [issue EXCEPT ![q] = IdleIssue],
         UNCHANGED <<vps, host, sync, recorded, run, floor>>
  PROVE  CatalogInv'
<1>1. IssueOK(IdleIssue) /\ IdleIssue.pc = "idle"
  BY DEF IssueOK, IssueFields, IdleIssue
<1>2. VpsInv' /\ EntriesInv' /\ CallsInv'
  BY <1>1, VpsFrame, HostFrame, IssueFrame DEF CatalogInv, host
<1>3. Given' \subseteq Given
  BY <1>1, GivenWithout DEF CatalogInv
<1>4. IssuesKeepTheFloor' /\ GivenInv'
  BY <1>3, GivenFrame DEF CatalogInv, IssuesKeepTheFloor, vps
<1> QED
  BY <1>2, <1>4 DEF CatalogInv

\* The answer to an operation is from then on in the table of the VPS, and
\* it was there before if any client had got one from this run.
LEMMA AnswerKeeps ==
  ASSUME CatalogInv, NEW q \in Issuers, handleArtifactIssue(q),
         IssueAccepted(issue[q].req, issue[q].endpoint.issue)
  PROVE  CatalogInv'
<1> DEFINE op == issue[q].req.op
           reply == IssueReply(issue[q].req)
           i == [issue[q] EXCEPT !.pc = "answered", !.response = reply]
<1>1. /\ issue[q].pc = "asked" /\ IssueOK(issue[q])
      /\ issues' = With(issues, op, reply)
      /\ issue' = [issue EXCEPT ![q] = i]
      /\ UNCHANGED <<served, host, sync, recorded, run, floor>>
  BY DEF handleArtifactIssue, CatalogInv, CallsInv
<1>2. op \in DOMAIN issues => reply = issues[op]
  BY DEF IssueReply
<1>3. reply.gen \in Nat /\ reply.run = run
  BY DEF IssueReply, issueResponse, CatalogInv, VpsInv
<1> HIDE DEF reply
<1>4. /\ IssueOK(i)
      /\ i.pc = "answered" /\ i.req = issue[q].req /\ i.response = reply
  BY <1>1, <1>3 DEF IssueOK, IssueFields, IdleIssue
<1> HIDE DEF i, op
<1>5. DOMAIN issues' = DOMAIN issues \cup {op}
      /\ \A o \in DOMAIN issues' : issues'[o] = IF o = op THEN reply ELSE issues[o]
  BY <1>1 DEF With
<1>6. VpsInv'
  BY <1>1, <1>3, <1>5 DEF CatalogInv, VpsInv
<1>7. EntriesInv' /\ CallsInv'
  BY <1>1, <1>4, HostFrame, IssueFrame DEF CatalogInv, host
<1>8. \A g \in Given' : g \in Given \/ g = Answer(op, reply)
  BY <1>1, <1>4 DEF Given, op, CatalogInv, CallsInv
<1>9. /\ Answer(op, reply).op = op /\ Answer(op, reply).run = run
      /\ op \in DOMAIN issues' /\ issues'[op] = reply /\ run \in Nat
  BY <1>3, <1>5 DEF Answer, CatalogInv, VpsInv
<1>10. ASSUME NEW g \in Given
       PROVE  /\ g.run \in Nat /\ g.run <= run
              /\ g.run = run => g.op \in DOMAIN issues' /\ g = Answer(g.op, issues'[g.op])
  BY <1>2, <1>5 DEF CatalogInv, GivenInv
<1>11. ASSUME NEW g \in Given, g.op = op, g.run = run
       PROVE  g = Answer(op, reply)
  BY <1>9, <1>10, <1>11
<1>12. GivenInv'
  <2>1. run' = run
    BY <1>1
  <2>2. \A g \in Given' : /\ g.run \in Nat /\ g.run <= run
                          /\ g.run = run => /\ g.op \in DOMAIN issues'
                                            /\ g = Answer(g.op, issues'[g.op])
    BY <1>8, <1>9, <1>10
  <2>3. ASSUME NEW g \in Given', NEW h \in Given', g.op = h.op, g.run = h.run
        PROVE  g = h
    BY <1>8, <1>9, <1>11, <2>3 DEF CatalogInv, GivenInv
  <2> QED
    BY <2>1, <2>2, <2>3 DEF GivenInv, Answer
<1>13. IssuesKeepTheFloor'
  BY <1>1 DEF CatalogInv, IssuesKeepTheFloor
<1> QED
  BY <1>6, <1>7, <1>12, <1>13 DEF CatalogInv

LEMMA HandleIssueKeeps ==
  ASSUME CatalogInv, NEW q \in Issuers, handleArtifactIssue(q)
  PROVE  CatalogInv'
<1>1. CASE IssueAccepted(issue[q].req, issue[q].endpoint.issue)
  BY <1>1, AnswerKeeps
<1>2. CASE ~IssueAccepted(issue[q].req, issue[q].endpoint.issue)
  BY <1>2, DropKeeps DEF handleArtifactIssue, vps
<1> QED
  BY <1>1, <1>2

\* What is recorded is what was on its way.
LEMMA RecordKeeps ==
  ASSUME CatalogInv, NEW q \in Issuers, recordVPSIssuedResolution(q)
  PROVE  CatalogInv'
<1> DEFINE i == issue[q]
           new == [op |-> i.req.op, gen |-> i.response.gen, artifact |-> i.response.artifact,
                   expires |-> i.response.expires, run |-> i.response.run, floor |-> i.floor,
                   state |-> IF i.response.expires > now THEN "resolved" ELSE "expired",
                   export |-> i.response.export /\ i.response.expires > now]
<1>1. /\ i.pc = "answered" /\ IssueOK(i)
      /\ recorded' = recorded \cup (IF ResponseAccepted(i) THEN {new} ELSE {})
      /\ issue' = [issue EXCEPT ![q] = IdleIssue]
      /\ UNCHANGED <<vps, host, sync, run, floor>>
  BY DEF recordVPSIssuedResolution, CatalogInv, CallsInv
<1>2. /\ new.gen = i.response.gen /\ new.floor = i.floor
      /\ Answer(new.op, new) = Answer(i.req.op, i.response)
  BY DEF Answer
<1> HIDE DEF new
<1>3. IssueOK(IdleIssue) /\ IdleIssue.pc = "idle"
  BY DEF IssueOK, IssueFields, IdleIssue
<1>4. VpsInv' /\ EntriesInv' /\ CallsInv'
  BY <1>1, <1>3, VpsFrame, HostFrame, IssueFrame DEF CatalogInv, host
<1>5. Answer(i.req.op, i.response) \in Given
  BY <1>1 DEF Given
<1> HIDE DEF i
<1>6. Given' \subseteq Given
  <2>1. \A r \in recorded' : r \in recorded \/ r = new
    BY <1>1
  <2>2. \A p \in Issuers : issue'[p].pc = "answered" => issue'[p] = issue[p]
    BY <1>1, <1>3 DEF CatalogInv, CallsInv
  <2> QED
    BY <1>2, <1>5, <2>1, <2>2 DEF Given
<1>7. IssuesKeepTheFloor'
  <2>1. ResponseAccepted(i) => new.gen >= new.floor
    BY <1>1, <1>2 DEF ResponseAccepted, IssueOK
  <2> QED
    BY <1>1, <2>1 DEF CatalogInv, IssuesKeepTheFloor
<1>8. GivenInv'
  BY <1>1, <1>6, GivenFrame DEF CatalogInv, vps
<1> QED
  BY <1>4, <1>7, <1>8 DEF CatalogInv

-----------------------------------------------------------------------------
(* The properties of the run *)

LEMMA CatalogInit == Init => CatalogInv
<1> SUFFICES ASSUME Init PROVE CatalogInv
  OBVIOUS
<1>1. DOMAIN EmptyMap = {}
  BY DEF EmptyMap
<1>2. VpsInv
  BY <1>1, CatalogBounds DEF Init, VpsInv
<1>3. EntriesInv
  BY <1>1 DEF Init, EntriesInv, EmptyDisk, Heights, Covers
<1>4. CallsInv
  <2>1. <<>> \in Seq(Range(configured))
    OBVIOUS
  <2> QED
    BY <2>1 DEF Init, CallsInv, SyncOK, IssueOK, IdleSync, IdleIssue, SyncFields, IssueFields,
                NoSnapshot
<1>5. Given = {}
  BY DEF Init, Given, IdleIssue
<1>6. IssuesKeepTheFloor /\ GivenInv
  BY <1>5 DEF Init, IssuesKeepTheFloor, GivenInv
<1> QED
  BY <1>2, <1>3, <1>4, <1>6 DEF CatalogInv

LEMMA CatalogNext == CatalogInv /\ [Next]_vars => CatalogInv'
<1> SUFFICES ASSUME CatalogInv, [Next]_vars PROVE CatalogInv'
  OBVIOUS
<1>1. ASSUME NEW p \in Syncs,
             \/ SyncVPSProviderCatalogs(p) \/ syncVPSProviderCatalog(p) \/ handleCatalog(p)
             \/ FailSync(p) \/ JudgeSnapshot(p) \/ FinishSync(p)
      PROVE  CatalogInv'
  BY <1>1, StartSyncKeeps, AskKeeps, FinishSyncKeeps
<1>2. ASSUME NEW q \in Issuers, issueRemoteVPSArtifact(q) PROVE CatalogInv'
  BY <1>2, DropKeeps DEF issueRemoteVPSArtifact
<1>3. ASSUME NEW q \in Issuers,
             \/ \E req \in Requests : IssueVPSProviderArtifact(q, req)
             \/ handleArtifactIssue(q) \/ recordVPSIssuedResolution(q)
      PROVE  CatalogInv'
  BY <1>3, RequestKeeps, HandleIssueKeeps, RecordKeeps
<1>4. CASE Tick \/ UNCHANGED vars
  BY <1>4, StutterKeeps DEF Tick, vars
<1> QED
  BY <1>1, <1>2, <1>3, <1>4, PublishKeeps, NewServiceKeeps, NewHostKeeps DEF Next

LEMMA CatalogInvHolds == Spec => []CatalogInv
BY CatalogInit, CatalogNext, PTL DEF Spec

\* The list of offers and the issue agree on what is valid, and neither takes
\* a snapshot below a generation that a sync was acknowledged with, whatever
\* syncs overlapped, writes failed and hosts were started since.
THEOREM OffersKeepTheFloorHolds == Spec => []OffersKeepTheFloor
<1>1. ASSUME CatalogInv PROVE OffersKeepTheFloor
  <2> SUFFICES ASSUME NEW id \in EndpointIDs, NEW o \in Offers
               PROVE  /\ <<id, o>> \in RemoteProviderSources <=> Issuable(id, o)
                      /\ Issuable(id, o) =>
                           cache[id].snapshot.gen >=
                             Value(floor, vpsCatalogGenerationKey(cache[id].endpoint))
    BY DEF OffersKeepTheFloor
  <2>1. ASSUME <<id, o>> \in RemoteProviderSources PROVE Issuable(id, o)
    <3>1. PICK e \in Range(configured) : /\ remoteCatalogStatus(e) = "valid"
                                         /\ e.id = id
                                         /\ o \in ReadyOffers(cache[e.id].snapshot)
      BY <2>1 DEF RemoteProviderSources
    <3> QED
      BY <3>1 DEF remoteCatalogStatus, ReadyOffers, Issuable
  <2>2. ASSUME Issuable(id, o) PROVE <<id, o>> \in RemoteProviderSources
    <3>1. PICK e \in Range(configured) : e.id = id
      BY <1>1, <2>2 DEF CatalogInv, EntriesInv, Issuable
    <3>2. remoteCatalogStatus(e) = "valid" /\ o \in ReadyOffers(cache[e.id].snapshot)
      BY <2>2, <3>1 DEF Issuable, remoteCatalogStatus, ReadyOffers
    <3> QED
      BY <3>1, <3>2 DEF RemoteProviderSources
  <2>3. ASSUME Issuable(id, o)
        PROVE  cache[id].snapshot.gen >= Value(floor, vpsCatalogGenerationKey(cache[id].endpoint))
    <3>1. id \in DOMAIN cache /\ currentVPSCatalogStatus(cache[id]) = "valid"
      BY <2>3 DEF Issuable
    <3> DEFINE height == Value(floor, vpsCatalogGenerationKey(cache[id].endpoint))
    <3>2. cache[id].snapshot.gen \in Nat /\ height \in Nat /\ height <= cache[id].snapshot.gen
      BY <1>1, <3>1, ValidIsAboveFloor DEF CatalogInv
    <3> HIDE DEF height
    <3>3. cache[id].snapshot.gen >= height
      BY <3>2
    <3> QED
      BY <3>3 DEF height
  <2> QED
    BY <2>1, <2>2, <2>3
<1> QED
  BY <1>1, CatalogInvHolds, PTL

\* No artifact is recorded with a generation below the floor that held when
\* it was asked for, although the catalog may move on or back meanwhile.
THEOREM IssuesKeepTheFloorHolds == Spec => []IssuesKeepTheFloor
<1>1. CatalogInv => IssuesKeepTheFloor
  BY DEF CatalogInv
<1> QED
  BY <1>1, CatalogInvHolds, PTL

\* Whatever answers are lost and whoever asks again, one operation is recorded
\* with one artifact and one end of life as long as the VPS runs.
THEOREM RetriesAreIdempotentHolds == Spec => []RetriesAreIdempotent
<1>1. ASSUME CatalogInv PROVE RetriesAreIdempotent
  <2> SUFFICES ASSUME NEW r \in recorded, NEW t \in recorded, r.op = t.op, r.run = t.run
               PROVE  r.artifact = t.artifact /\ r.expires = t.expires
    BY DEF RetriesAreIdempotent
  <2>1. Answer(r.op, r) \in Given /\ Answer(t.op, t) \in Given
    BY DEF Given
  <2>2. Answer(r.op, r) = Answer(t.op, t)
    BY <1>1, <2>1 DEF CatalogInv, GivenInv, Answer
  <2> QED
    BY <2>2 DEF Answer
<1> QED
  BY <1>1, CatalogInvHolds, PTL

-----------------------------------------------------------------------------
(***************************************************************************)
(* Compatibility candidates                                                *)
(***************************************************************************)
(* Sequences of checks, and of elements                                    *)

\* A set of numbers that is not empty has a least one.
LEMMA LeastIsMember ==
  ASSUME NEW S, S \subseteq Nat, S # {}
  PROVE  Least(S) \in S /\ \A j \in S : Least(S) <= j
<1> DEFINE R == OpToRel(<, Nat)
<1>1. \A x, y \in Nat : y < x => <<y, x>> \in R
  BY DEF OpToRel
<1>2. IsWellFoundedOn(R, Nat)
  BY NatLessThanWellFounded
<1> HIDE DEF R
<1>3. PICK x \in S : \A y \in S : ~(<<y, x>> \in R)
  BY <1>2, WFMin
<1>4. ASSUME NEW y \in S PROVE x <= y
  <2>1. x \in Nat /\ y \in Nat /\ ~(y < x)
    BY <1>1, <1>3
  <2> QED BY <2>1
<1> QED BY <1>4 DEF Least

(* A chain of checks ends at the first one that applies. *)
FirstApplies(checks, i) ==
  /\ i \in DOMAIN checks /\ checks[i][1]
  /\ \A j \in DOMAIN checks : checks[j][1] => i <= j

LEMMA ChainEnds ==
  ASSUME NEW checks, DOMAIN checks \subseteq Nat
  PROVE  \/ (\A i \in DOMAIN checks : ~checks[i][1]) /\ FirstOf(checks) = Startable
         \/ \E i \in DOMAIN checks : FirstApplies(checks, i) /\ FirstOf(checks) = checks[i][2]
<1> DEFINE applies == {i \in DOMAIN checks : checks[i][1]}
<1>1. CASE applies = {}
  BY <1>1 DEF FirstOf
<1>2. CASE applies # {}
  <2>1. applies \subseteq Nat
    OBVIOUS
  <2>2. Least(applies) \in applies /\ \A j \in applies : Least(applies) <= j
    BY <1>2, <2>1, LeastIsMember
  <2>3. FirstApplies(checks, Least(applies))
    BY <2>2 DEF FirstApplies
  <2>4. FirstOf(checks) = checks[Least(applies)][2]
    BY <1>2 DEF FirstOf
  <2> QED BY <2>2, <2>3, <2>4
<1> QED BY <1>1, <1>2

LEMMA PartIsFinite ==
  ASSUME NEW n \in Nat, NEW S \in SUBSET (1 .. n)
  PROVE  IsFiniteSet(S) /\ Cardinality(S) \in Nat /\ (Cardinality(S) = 0 <=> S = {})
<1>1. IsFiniteSet(1 .. n)
  BY FS_Interval
<1>2. IsFiniteSet(S)
  BY <1>1, FS_Subset
<1> QED BY <1>2, FS_CardinalityType, FS_EmptySet

\* A bounded set of numbers that is not empty has a greatest one.
LEMMA GreatestIsMember ==
  ASSUME NEW n \in Nat, NEW S \in SUBSET (1 .. n), S # {}
  PROVE  \E top \in S : \A j \in S : j <= top
<1> DEFINE U == {n - j : j \in S}
<1>1. U \subseteq Nat /\ U # {}
  <2>1. \A j \in S : n - j \in Nat
    OBVIOUS
  <2>2. PICK j \in S : TRUE
    OBVIOUS
  <2>3. n - j \in U
    OBVIOUS
  <2> QED BY <2>1, <2>3
<1>2. Least(U) \in U /\ \A u \in U : Least(U) <= u
  BY <1>1, LeastIsMember
<1>3. PICK top \in S : Least(U) = n - top
  BY <1>2
<1>4. ASSUME NEW j \in S PROVE j <= top
  <2>1. n - j \in U
    OBVIOUS
  <2>2. n - top <= n - j
    BY <1>2, <1>3, <2>1
  <2>3. n \in Int /\ j \in Int /\ top \in Int
    OBVIOUS
  <2> QED BY <2>2, <2>3
<1> QED BY <1>4

\* The members of S up to one of them; the last of them is the Nth.
LEMMA CountGrowsByOne ==
  ASSUME NEW n \in Nat, NEW S \in SUBSET (1 .. n), NEW i \in S, NEW k \in Nat \ {0},
         k <= Cardinality(Upto(S, i)),
         \A h \in S : h < i => ~(k <= Cardinality(Upto(S, h)))
  PROVE  Cardinality(Upto(S, i)) = k
<1> DEFINE A == Upto(S, i)
           B == A \ {i}
<1>1. IsFiniteSet(A)
  <2>1. A \in SUBSET (1 .. n)
    BY DEF Upto
  <2> HIDE DEF A
  <2> QED BY <2>1, PartIsFinite
<1>2. i \in A
  BY DEF Upto
<1>3. Cardinality(B) = Cardinality(A) - 1 /\ Cardinality(A) \in Nat
  BY <1>1, <1>2, FS_RemoveElement, FS_CardinalityType
<1>4. IsFiniteSet(B) /\ Cardinality(B) \in Nat
  BY <1>1, FS_Subset, FS_CardinalityType
<1>5. Cardinality(B) < k
  <2>1. CASE B = {}
    <3>1. Cardinality(B) = 0
      BY <2>1, FS_EmptySet
    <3> QED BY <3>1
  <2>2. CASE B # {}
    <3>1. B \in SUBSET (1 .. n)
      BY DEF Upto
    <3>2. PICK h \in B : \A j \in B : j <= h
      BY <2>2, <3>1, GreatestIsMember
    <3>3. h \in S /\ h < i
      BY DEF Upto
    <3>4. Upto(S, h) = B
      <4>1. ASSUME NEW j \in S PROVE j <= h <=> j \in B
        <5>1. j \in Int /\ h \in Int /\ i \in Int
          BY <3>3
        <5>2. j \in B <=> j <= i /\ j # i
          BY DEF Upto
        <5> QED BY <3>2, <3>3, <5>1, <5>2
      <4>2. B \subseteq S
        BY DEF Upto
      <4> QED BY <4>1, <4>2 DEF Upto
    <3>5. ~(k <= Cardinality(B))
      BY <3>3, <3>4
    <3> QED BY <1>4, <3>5
  <2> QED BY <2>1, <2>2
<1>6. k <= Cardinality(A)
  OBVIOUS
<1> HIDE DEF A, B
<1>7. Cardinality(A) = k
  BY <1>3, <1>4, <1>5, <1>6
<1> QED BY <1>7 DEF A

LEMMA NthIsMember ==
  ASSUME NEW n \in Nat, NEW S \in SUBSET (1 .. n), NEW k \in 1 .. Cardinality(S)
  PROVE  Nth(S, k) \in S
<1> DEFINE reached == {i \in S : k <= Cardinality(Upto(S, i))}
<1>1. Cardinality(S) \in Nat /\ k \in Nat \ {0} /\ k <= Cardinality(S)
  BY PartIsFinite
<1>2. S # {}
  BY <1>1, PartIsFinite
<1>3. PICK top \in S : \A j \in S : j <= top
  BY <1>2, GreatestIsMember
<1>4. Upto(S, top) = S
  BY <1>3 DEF Upto
<1>5. top \in reached /\ reached \subseteq Nat
  <2>1. k <= Cardinality(Upto(S, top))
    BY <1>1, <1>4
  <2>2. \A j \in S : j \in Nat
    OBVIOUS
  <2> QED BY <2>1, <2>2
<1>6. Least(reached) \in reached /\ \A j \in reached : Least(reached) <= j
  BY <1>5, LeastIsMember
<1>7. PICK i \in reached : \A h \in reached : i <= h
  BY <1>6
<1>8. ASSUME NEW h \in S, h < i PROVE ~(k <= Cardinality(Upto(S, h)))
  <2>1. h \in Int /\ i \in Int
    OBVIOUS
  <2>2. h \notin reached
    BY <1>7, <1>8, <2>1
  <2> QED BY <2>2
<1>9. Cardinality(Upto(S, i)) = k
  <2>1. i \in S /\ k <= Cardinality(Upto(S, i))
    OBVIOUS
  <2> HIDE DEF reached
  <2> QED BY <1>1, <1>8, <2>1, CountGrowsByOne
<1> QED BY <1>9 DEF Nth

Places(S) == \E n \in Nat : S \in SUBSET (1 .. n)

\* As many elements are kept as there are places.
LEMMA KeptLength ==
  ASSUME NEW s, NEW S, Places(S)
  PROVE  /\ DOMAIN ElementsAt(s, S) = 1 .. Cardinality(S) /\ Cardinality(S) \in Nat
         /\ S = {} => ElementsAt(s, S) = <<>>
         /\ S # {} => 1 \in DOMAIN ElementsAt(s, S)
<1> DEFINE N == Cardinality(S)
<1>1. N \in Nat /\ (N = 0 <=> S = {})
  <2>1. PICK n \in Nat : S \in SUBSET (1 .. n)
    BY DEF Places
  <2> QED BY <2>1, PartIsFinite
<1>2. DOMAIN ElementsAt(s, S) = 1 .. N
  BY DEF ElementsAt
<1>3. S = {} => ElementsAt(s, S) = <<>>
  <2> SUFFICES ASSUME S = {} PROVE ElementsAt(s, S) = <<>>
    OBVIOUS
  <2>1. 1 .. N = {}
    BY <1>1
  <2>2. ElementsAt(s, S) = [k \in {} |-> s[Nth(S, k)]]
    BY <2>1, Zenon DEF ElementsAt
  <2>3. [k \in {} |-> s[Nth(S, k)]] = <<>>
    OBVIOUS
  <2> QED BY <2>2, <2>3
<1> HIDE DEF N
<1>4. N # 0 => 1 \in 1 .. N
  BY <1>1
<1>5. S # {} => 1 \in DOMAIN ElementsAt(s, S)
  BY <1>1, <1>2, <1>4, Zenon
<1> QED BY <1>1, <1>2, <1>3, <1>5 DEF N

\* Every element that is kept was at one of the places.
LEMMA KeptElements ==
  ASSUME NEW s, NEW S, Places(S), NEW k \in DOMAIN ElementsAt(s, S)
  PROVE  \E i \in S : ElementsAt(s, S)[k] = s[i]
<1>1. k \in 1 .. Cardinality(S) /\ ElementsAt(s, S)[k] = s[Nth(S, k)]
  BY DEF ElementsAt
<1>2. PICK n \in Nat : S \in SUBSET (1 .. n)
  BY DEF Places
<1>3. Nth(S, k) \in S
  BY <1>1, <1>2, NthIsMember
<1> QED BY <1>1, <1>3

LEMMA KeptFirst ==
  ASSUME NEW s, NEW S, Places(S), S # {}
  PROVE  1 \in DOMAIN ElementsAt(s, S) /\ \E i \in S : ElementsAt(s, S)[1] = s[i]
BY KeptLength, KeptElements

-----------------------------------------------------------------------------
(* Verdicts *)

IsVerdict(v) == v = Blocked(v.status, v.axis)

LEMMA BlockedFields ==
  \A status, axis : Blocked(status, axis).status = status /\ Blocked(status, axis).axis = axis
BY DEF Blocked

LEMMA BlockedVerdict ==
  \A status, axis : IsVerdict(Blocked(status, axis))
BY BlockedFields DEF IsVerdict

LEMMA BlockedBlocks ==
  \A status, axis : status # "startable" => Blocked(status, axis) # Startable
BY DEF Blocked, Startable

LEMMA VerdictStarts ==
  /\ IsVerdict(Startable)
  /\ \A v : IsVerdict(v) => (v = Startable <=> v.status = "startable" /\ v.axis = "")
<1>1. ASSUME NEW v, IsVerdict(v), v.status = "startable", v.axis = "" PROVE v = Startable
  BY <1>1 DEF IsVerdict, Blocked, Startable
<1>2. IsVerdict(Startable) /\ Startable.status = "startable" /\ Startable.axis = ""
  BY DEF IsVerdict, Blocked, Startable
<1> QED BY <1>1, <1>2

LEMMA ChainVerdict ==
  ASSUME NEW checks, DOMAIN checks \subseteq Nat,
         \A i \in DOMAIN checks : IsVerdict(checks[i][2])
  PROVE  IsVerdict(FirstOf(checks))
BY ChainEnds, VerdictStarts

LEMMA StandingVerdict ==
  ASSUME NEW word
  PROVE  IsVerdict(ValidationStanding(word)) /\ IsVerdict(EvidenceStanding(word))
<1>1. IsVerdict(RemoteFault(word))
  BY BlockedVerdict DEF RemoteFault
<1> QED BY <1>1, VerdictStarts, BlockedVerdict DEF ValidationStanding, EvidenceStanding

LEMMA RemoteVerdict ==
  ASSUME NEW remote
  PROVE  /\ IsVerdict(providerTransportRemoteVPSArtifactFailure(remote))
         /\ providerTransportRemoteVPSArtifactFailure(remote) = Startable => ~remote.expired
<1> DEFINE c == << <<remote.expired, Blocked("stale", "provider_artifact")>>,
                   <<ValidationStanding(remote.validation) # Startable,
                     ValidationStanding(remote.validation)>>,
                   <<TRUE, EvidenceStanding(remote.evidence)>> >>
<1>1. DOMAIN c = {1, 2, 3} /\ DOMAIN c \subseteq Nat
  OBVIOUS
<1>2. /\ c[1][2] = Blocked("stale", "provider_artifact")
      /\ c[2][2] = ValidationStanding(remote.validation)
      /\ c[3][2] = EvidenceStanding(remote.evidence)
      /\ c[1][1] <=> remote.expired
  OBVIOUS
<1>3. providerTransportRemoteVPSArtifactFailure(remote) = FirstOf(c)
  BY DEF providerTransportRemoteVPSArtifactFailure
<1> HIDE DEF c
<1>4. \A i \in DOMAIN c : IsVerdict(c[i][2])
  <2>1. IsVerdict(c[1][2]) /\ IsVerdict(c[2][2]) /\ IsVerdict(c[3][2])
    BY <1>2, BlockedVerdict, StandingVerdict
  <2> QED BY <1>1, <2>1
<1>5. IsVerdict(FirstOf(c))
  BY <1>1, <1>4, ChainVerdict
<1>6. ASSUME FirstOf(c) = Startable, c[1][1] PROVE FALSE
  <2>1. PICK h \in DOMAIN c : FirstApplies(c, h) /\ FirstOf(c) = c[h][2]
    BY <1>1, <1>6, ChainEnds
  <2>2. h = 1
    BY <1>1, <1>6, <2>1 DEF FirstApplies
  <2>3. Blocked("stale", "provider_artifact") # Startable
    BY BlockedBlocks
  <2> QED BY <1>2, <1>6, <2>1, <2>2, <2>3
<1> QED BY <1>2, <1>3, <1>5, <1>6

(* What a resolution must be for its plans to be judged. *)
Usable(w, r, id) ==
  LET s == w.resolutions[id]
  IN /\ id # "" /\ id \in DOMAIN w.resolutions
     /\ s.state = "resolved"
     /\ ~providerTransportSourceMismatch(r.source, id, s)
     /\ ~providerTransportArtifactMismatch(r.artifact,
           providerTransportArtifactReferenceFromResolution(id, s))
     /\ s.artifact # NoArtifact
     /\ providerTransportRemoteVPSArtifactFailure(s.remote) = Startable

LEMMA ResolutionIsUsable ==
  ASSUME NEW w, NEW r, NEW id
  PROVE  /\ IsVerdict(ResolutionVerdict(w, r, id))
         /\ ResolutionVerdict(w, r, id) = Startable <=> Usable(w, r, id)
<1> DEFINE s == IF id \in DOMAIN w.resolutions THEN w.resolutions[id] ELSE NoResolution
           actual == providerTransportArtifactReferenceFromResolution(id, s)
           c == <<
       <<id = "", Blocked("setup_needed", "provider_source")>>,
       <<~(id \in DOMAIN w.resolutions), Blocked("stale", "provider_source")>>,
       <<s.state = "expired", Blocked("stale", "provider_artifact")>>,
       <<s.state # "resolved", Blocked("setup_needed", "provider_source")>>,
       <<providerTransportSourceMismatch(r.source, id, s), Blocked("stale", "provider_source")>>,
       <<providerTransportArtifactMismatch(r.artifact, actual),
         Blocked("stale", "provider_artifact")>>,
       <<s.artifact = NoArtifact, Blocked("unsupported", "provider_artifact")>>,
       <<TRUE, providerTransportRemoteVPSArtifactFailure(s.remote)>> >>
<1>1. ResolutionVerdict(w, r, id) = FirstOf(c)
  BY DEF ResolutionVerdict
<1>2. Usable(w, r, id) <=>
        /\ id # "" /\ id \in DOMAIN w.resolutions
        /\ s.state = "resolved"
        /\ ~providerTransportSourceMismatch(r.source, id, s)
        /\ ~providerTransportArtifactMismatch(r.artifact, actual)
        /\ s.artifact # NoArtifact
        /\ providerTransportRemoteVPSArtifactFailure(s.remote) = Startable
  BY DEF Usable
<1>3. IsVerdict(providerTransportRemoteVPSArtifactFailure(s.remote))
  BY RemoteVerdict
<1> HIDE DEF s, actual
<1>4. DOMAIN c = {1, 2, 3, 4, 5, 6, 7, 8} /\ DOMAIN c \subseteq Nat
  OBVIOUS
<1>5. /\ c[1][2] = Blocked("setup_needed", "provider_source")
      /\ c[2][2] = Blocked("stale", "provider_source")
      /\ c[3][2] = Blocked("stale", "provider_artifact")
      /\ c[4][2] = Blocked("setup_needed", "provider_source")
      /\ c[5][2] = Blocked("stale", "provider_source")
      /\ c[6][2] = Blocked("stale", "provider_artifact")
      /\ c[7][2] = Blocked("unsupported", "provider_artifact")
      /\ c[8][2] = providerTransportRemoteVPSArtifactFailure(s.remote)
  OBVIOUS
<1>6. /\ c[1][1] <=> id = ""
      /\ c[2][1] <=> id \notin DOMAIN w.resolutions
      /\ c[3][1] <=> s.state = "expired"
      /\ c[4][1] <=> s.state # "resolved"
      /\ c[5][1] <=> providerTransportSourceMismatch(r.source, id, s)
      /\ c[6][1] <=> providerTransportArtifactMismatch(r.artifact, actual)
      /\ c[7][1] <=> s.artifact = NoArtifact
      /\ c[8][1] <=> TRUE
  OBVIOUS
<1> HIDE DEF c
<1>8. \A i \in DOMAIN c : IsVerdict(c[i][2]) /\ (i # 8 => c[i][2] # Startable)
  <2>1. /\ Blocked("setup_needed", "provider_source") # Startable
        /\ Blocked("stale", "provider_source") # Startable
        /\ Blocked("stale", "provider_artifact") # Startable
        /\ Blocked("unsupported", "provider_artifact") # Startable
    BY BlockedBlocks
  <2>2. \A i \in DOMAIN c : i # 8 => c[i][2] # Startable
    BY <1>4, <1>5, <2>1
  <2>3. \A i \in DOMAIN c : IsVerdict(c[i][2])
    <3>1. IsVerdict(c[8][2])
      BY <1>3, <1>5
    <3> QED BY <1>4, <1>5, <3>1, BlockedVerdict
  <2> QED BY <2>2, <2>3
<1>9. IsVerdict(FirstOf(c))
  BY <1>4, <1>8, ChainVerdict
<1>10. PICK h \in DOMAIN c : FirstApplies(c, h) /\ FirstOf(c) = c[h][2]
  BY <1>4, <1>6, ChainEnds
<1>11. FirstOf(c) = Startable <=> h = 8 /\ c[8][2] = Startable
  BY <1>8, <1>10
<1>12. h = 8 <=> ~(\/ c[1][1] \/ c[2][1] \/ c[3][1] \/ c[4][1]
                   \/ c[5][1] \/ c[6][1] \/ c[7][1])
  BY <1>4, <1>10 DEF FirstApplies
<1> QED BY <1>1, <1>2, <1>5, <1>6, <1>9, <1>11, <1>12

\* A profile that is asked for and not usable always blocks.
LEMMA ErrorBlocks ==
  ASSUME NEW w, NEW id, NEW p, NEW required
  PROVE  /\ IsVerdict(TransportProfileErrorVerdict(w, id, p, required))
         /\ TransportProfileErrorVerdict(w, id, p, required) # Startable
<1> DEFINE known == id \in DOMAIN w.profiles
           kind  == IF known THEN w.profiles[id].kind ELSE ""
           valid == known /\ w.profiles[id].status.validation = "valid"
           c == << <<~known, Blocked("stale", "transport_profile")>>,
                   <<kind \notin required, Blocked("unsupported", "transport_profile")>>,
                   <<~valid, Blocked("setup_needed", "transport_profile")>>,
                   <<~transportProfileCompatibleWithPlan(kind, p),
                     Blocked("unsupported", "transport_profile")>>,
                   <<TRUE, Blocked("setup_needed", "transport_profile")>> >>
<1>1. TransportProfileErrorVerdict(w, id, p, required) = FirstOf(c)
  BY DEF TransportProfileErrorVerdict
<1> HIDE DEF known, kind, valid
<1>2. DOMAIN c = {1, 2, 3, 4, 5} /\ DOMAIN c \subseteq Nat /\ (c[5][1] <=> TRUE)
  OBVIOUS
<1>3. /\ c[1][2] = Blocked("stale", "transport_profile")
      /\ c[2][2] = Blocked("unsupported", "transport_profile")
      /\ c[3][2] = Blocked("setup_needed", "transport_profile")
      /\ c[4][2] = Blocked("unsupported", "transport_profile")
      /\ c[5][2] = Blocked("setup_needed", "transport_profile")
  OBVIOUS
<1> HIDE DEF c
<1>4. /\ Blocked("stale", "transport_profile") # Startable
      /\ Blocked("unsupported", "transport_profile") # Startable
      /\ Blocked("setup_needed", "transport_profile") # Startable
  BY BlockedBlocks
<1>5. \A i \in DOMAIN c : c[i][2] # Startable
  BY <1>2, <1>3, <1>4
<1>6. \A i \in DOMAIN c : IsVerdict(c[i][2])
  BY <1>2, <1>3, BlockedVerdict
<1>7. \E i \in DOMAIN c : FirstOf(c) = c[i][2]
  BY <1>2, ChainEnds
<1> QED BY <1>1, <1>5, <1>6, <1>7

(* What the request, the artifact and the host must say of a descriptor. *)
Runs(w, r, artifact, d) ==
  /\ d.plan.access \in artifact.access
  /\ d.plan.carrier \in CarrierFamilies
  /\ d.plan.engine \in EngineFamilies
  /\ d.plan.adapter # "" => d.plan.adapter \in HostAdapters
  /\ d.support \in {"supported", "experimental"}
  /\ d.support = "experimental" => r.degraded
  /\ ~r.evidence
  /\ KindsOf(d) # {} => w.store /\ CandidateProfile(w, r, d) # ""

LEMMA DescriptorRuns ==
  ASSUME NEW w, NEW r, NEW artifact, NEW d
  PROVE  /\ IsVerdict(DescriptorVerdict(w, r, artifact, d))
         /\ DescriptorVerdict(w, r, artifact, d) = Startable <=> Runs(w, r, artifact, d)
<1> DEFINE adapted == d.plan.adapter # ""
           error == TransportProfileErrorVerdict(w, r.profile, d.plan, KindsOf(d))
           c == <<
       <<d.plan.access \notin artifact.access, Blocked("unsupported", "artifact_access_method")>>,
       <<d.plan.carrier \notin CarrierFamilies, Blocked("unsupported", "carrier_family")>>,
       <<d.plan.engine \notin EngineFamilies, Blocked("unsupported", "engine_family")>>,
       <<adapted /\ d.plan.adapter \notin HostAdapters, Blocked("unsupported", "host_adapter")>>,
       <<d.support = "experimental" /\ ~r.degraded, Blocked("degraded", "degraded_policy")>>,
       <<d.support \notin {"supported", "experimental"} /\ adapted,
         Blocked("unavailable", "host_adapter")>>,
       <<d.support \notin {"supported", "experimental"},
         Blocked("unavailable", "host_capability")>>,
       <<r.evidence, Blocked("missing_evidence", "evidence")>>,
       <<KindsOf(d) = {}, Startable>>,
       <<~w.store, Blocked("unavailable", "host_capability")>>,
       <<CandidateProfile(w, r, d) # "", Startable>>,
       <<r.profile # "", error>>,
       <<TRUE, Blocked("setup_needed", "transport_profile")>> >>
<1>1. DescriptorVerdict(w, r, artifact, d) = FirstOf(c)
  BY DEF DescriptorVerdict
<1>2. IsVerdict(error) /\ error # Startable
  BY ErrorBlocks
<1>3. adapted <=> d.plan.adapter # ""
  OBVIOUS
<1> HIDE DEF adapted, error
<1>4. DOMAIN c = {1, 2, 3, 4, 5, 6, 7, 8, 9, 10, 11, 12, 13} /\ DOMAIN c \subseteq Nat
  OBVIOUS
<1>5. /\ c[1][2] = Blocked("unsupported", "artifact_access_method")
      /\ c[2][2] = Blocked("unsupported", "carrier_family")
      /\ c[3][2] = Blocked("unsupported", "engine_family")
      /\ c[4][2] = Blocked("unsupported", "host_adapter")
      /\ c[5][2] = Blocked("degraded", "degraded_policy")
      /\ c[6][2] = Blocked("unavailable", "host_adapter")
      /\ c[7][2] = Blocked("unavailable", "host_capability")
      /\ c[8][2] = Blocked("missing_evidence", "evidence")
      /\ c[9][2] = Startable
      /\ c[10][2] = Blocked("unavailable", "host_capability")
      /\ c[11][2] = Startable
      /\ c[12][2] = error
      /\ c[13][2] = Blocked("setup_needed", "transport_profile")
  OBVIOUS
<1>6. /\ c[1][1] <=> d.plan.access \notin artifact.access
      /\ c[2][1] <=> d.plan.carrier \notin CarrierFamilies
      /\ c[3][1] <=> d.plan.engine \notin EngineFamilies
      /\ c[4][1] <=> adapted /\ d.plan.adapter \notin HostAdapters
      /\ c[5][1] <=> d.support = "experimental" /\ ~r.degraded
      /\ c[6][1] <=> d.support \notin {"supported", "experimental"} /\ adapted
      /\ c[7][1] <=> d.support \notin {"supported", "experimental"}
  OBVIOUS
<1>7. /\ c[8][1] <=> r.evidence
      /\ c[9][1] <=> KindsOf(d) = {}
      /\ c[10][1] <=> ~w.store
      /\ c[11][1] <=> CandidateProfile(w, r, d) # ""
      /\ c[13][1] <=> TRUE
  OBVIOUS
<1> HIDE DEF c
<1>8. /\ \A i \in DOMAIN c : IsVerdict(c[i][2])
      /\ \A i \in DOMAIN c \ {9, 11} : c[i][2] # Startable
  <2>1. IsVerdict(c[9][2]) /\ IsVerdict(c[11][2]) /\ IsVerdict(c[12][2])
    BY <1>2, <1>5, VerdictStarts
  <2>2. \A i \in DOMAIN c : IsVerdict(c[i][2])
    BY <1>4, <1>5, <2>1, BlockedVerdict
  <2>3. /\ Blocked("unsupported", "artifact_access_method") # Startable
        /\ Blocked("unsupported", "carrier_family") # Startable
        /\ Blocked("unsupported", "engine_family") # Startable
        /\ Blocked("unsupported", "host_adapter") # Startable
        /\ Blocked("degraded", "degraded_policy") # Startable
        /\ Blocked("unavailable", "host_adapter") # Startable
        /\ Blocked("unavailable", "host_capability") # Startable
        /\ Blocked("missing_evidence", "evidence") # Startable
        /\ Blocked("setup_needed", "transport_profile") # Startable
    BY BlockedBlocks
  <2>4. \A i \in DOMAIN c \ {9, 11} : c[i][2] # Startable
    BY <1>2, <1>4, <1>5, <2>3
  <2> QED BY <2>2, <2>4
<1>9. IsVerdict(FirstOf(c))
  BY <1>4, <1>8, ChainVerdict
<1>10. PICK h \in DOMAIN c : FirstApplies(c, h) /\ FirstOf(c) = c[h][2]
  BY <1>4, <1>7, ChainEnds
<1>11. FirstOf(c) = Startable <=> h \in {9, 11}
  BY <1>5, <1>8, <1>10
<1>12. h >= 9 <=> ~(\/ c[1][1] \/ c[2][1] \/ c[3][1] \/ c[4][1]
                    \/ c[5][1] \/ c[6][1] \/ c[7][1] \/ c[8][1])
  BY <1>4, <1>10 DEF FirstApplies
<1>13. h >= 9 => (h \in {9, 11} <=> (~c[9][1] => ~c[10][1] /\ c[11][1]))
  BY <1>4, <1>10 DEF FirstApplies
<1>14. h \in {9, 11} => h >= 9
  OBVIOUS
<1> QED BY <1>1, <1>3, <1>6, <1>7, <1>9, <1>11, <1>12, <1>13, <1>14 DEF Runs

-----------------------------------------------------------------------------
(* The candidates that are found *)

IdOf(r) == providerTransportCompatibilityResolutionID(r)

Judged(w, r) ==
  IF IdOf(r) \in DOMAIN w.resolutions THEN w.resolutions[IdOf(r)] ELSE NoResolution

SourceOf(w, r) ==
  [resolution |-> FirstNonEmpty(r.source.resolution, IdOf(r)),
   provider   |-> FirstNonEmpty(r.source.provider, Judged(w, r).provider)]

ArtifactOf(w, r) ==
  IF IdOf(r) \notin DOMAIN w.resolutions THEN r.artifact
  ELSE [providerTransportArtifactReferenceFromResolution(IdOf(r), Judged(w, r)) EXCEPT
          !.provider   = FirstNonEmpty(r.artifact.provider, @),
          !.resolution = FirstNonEmpty(r.artifact.resolution, @)]

CandidateOf(w, r, d) == candidateForDescriptor(w, r, SourceOf(w, r), ArtifactOf(w, r), d)

\* The places of the descriptors that r asks about.
Asked(w, r) ==
  LET ds == Judged(w, r).artifact.plans
  IN {i \in DOMAIN ds : r.plan = NoPlan \/ ds[i].plan = r.plan}

CandidatesOf(w, r, ds) == [i \in DOMAIN ds |-> CandidateOf(w, r, ds[i])]

LEMMA CandidatesAre ==
  ASSUME NEW w, NEW r
  PROVE  LET found == ProviderTransportCompatibilityCandidates(w, r)
             verdict == ResolutionVerdict(w, r, IdOf(r))
             ds == ElementsAt(Judged(w, r).artifact.plans, Asked(w, r))
             all == CandidatesOf(w, r, ds)
         IN /\ verdict # Startable =>
                 found = << FinalizeCandidate(r, SourceOf(w, r), ArtifactOf(w, r),
                                              NoPlan, "", verdict) >>
            /\ verdict = Startable /\ ds = <<>> =>
                 found = << FinalizeCandidate(r, SourceOf(w, r), ArtifactOf(w, r), r.plan, "",
                                              Blocked("unsupported", "engine_family")) >>
            /\ verdict = Startable /\ ds # <<>> =>
                 found = ElementsAt(all, {i \in DOMAIN all : r.candidate \in {<<>>, all[i].id}})
BY DEF ProviderTransportCompatibilityCandidates, providerTransportExecutionPlanDescriptors,
       IdOf, Judged, SourceOf, ArtifactOf, CandidateOf, Asked, CandidatesOf

\* A table of resolutions that end with known artifacts.
KnownArtifacts(w) ==
  \A id \in DOMAIN w.resolutions : w.resolutions[id].artifact \in Artifacts \cup {NoArtifact}

\* The descriptors that are judged are those of the artifact.
LEMMA JudgedDescriptors ==
  ASSUME NEW w, KnownArtifacts(w), NEW r, Usable(w, r, IdOf(r))
  PROVE  LET s  == Judged(w, r)
             ds == ElementsAt(s.artifact.plans, Asked(w, r))
         IN /\ s = w.resolutions[IdOf(r)] /\ s.artifact \in Artifacts
            /\ \E m \in Nat : DOMAIN ds = 1 .. m
            /\ \A k \in DOMAIN ds : \E i \in Asked(w, r) : ds[k] = s.artifact.plans[i]
            /\ Asked(w, r) # {} <=> ds # <<>>
            /\ Asked(w, r) # {} => 1 \in DOMAIN ds
<1> DEFINE plans == Judged(w, r).artifact.plans
<1>1. Judged(w, r) = w.resolutions[IdOf(r)] /\ Judged(w, r).artifact \in Artifacts
  BY DEF Usable, Judged, KnownArtifacts
<1>2. Len(plans) \in Nat /\ DOMAIN plans = 1 .. Len(plans)
  BY <1>1, ArtifactsAssumption
<1>3. Places(Asked(w, r))
  BY <1>2 DEF Asked, Places
<1> HIDE DEF plans
<1>4. /\ \A k \in DOMAIN ElementsAt(plans, Asked(w, r)) :
           \E i \in Asked(w, r) : ElementsAt(plans, Asked(w, r))[k] = plans[i]
      /\ Asked(w, r) = {} => ElementsAt(plans, Asked(w, r)) = <<>>
      /\ Asked(w, r) # {} => 1 \in DOMAIN ElementsAt(plans, Asked(w, r))
      /\ \E m \in Nat : DOMAIN ElementsAt(plans, Asked(w, r)) = 1 .. m
  <2>1. \A k \in DOMAIN ElementsAt(plans, Asked(w, r)) :
          \E i \in Asked(w, r) : ElementsAt(plans, Asked(w, r))[k] = plans[i]
    BY <1>2, <1>3, KeptElements
  <2>2. /\ Asked(w, r) = {} => ElementsAt(plans, Asked(w, r)) = <<>>
        /\ Asked(w, r) # {} => 1 \in DOMAIN ElementsAt(plans, Asked(w, r))
        /\ \E m \in Nat : DOMAIN ElementsAt(plans, Asked(w, r)) = 1 .. m
    BY <1>2, <1>3, KeptLength
  <2> QED BY <2>1, <2>2
<1>5. DOMAIN <<>> = {}
  OBVIOUS
<1> QED BY <1>1, <1>4, <1>5 DEF plans

\* A candidate is of a descriptor that was asked about, or blocked.
LEMMA FoundCandidate ==
  ASSUME NEW w, KnownArtifacts(w), NEW r,
         NEW i \in DOMAIN ProviderTransportCompatibilityCandidates(w, r)
  PROVE  LET c == ProviderTransportCompatibilityCandidates(w, r)[i]
         IN \/ ~CandidateStartable(c) /\ c.profile = ""
            \/ /\ Usable(w, r, IdOf(r))
               /\ \E j \in Asked(w, r) : c = CandidateOf(w, r, Judged(w, r).artifact.plans[j])
<1> DEFINE found == ProviderTransportCompatibilityCandidates(w, r)
           verdict == ResolutionVerdict(w, r, IdOf(r))
           plans == Judged(w, r).artifact.plans
           ds == ElementsAt(plans, Asked(w, r))
           all == CandidatesOf(w, r, ds)
           kept == {k \in DOMAIN all : r.candidate \in {<<>>, all[k].id}}
           blocked == FinalizeCandidate(r, SourceOf(w, r), ArtifactOf(w, r), NoPlan, "", verdict)
           none == FinalizeCandidate(r, SourceOf(w, r), ArtifactOf(w, r), r.plan, "",
                                     Blocked("unsupported", "engine_family"))
<1>1. /\ verdict # Startable => found = <<blocked>>
      /\ verdict = Startable /\ ds = <<>> => found = <<none>>
      /\ verdict = Startable /\ ds # <<>> => found = ElementsAt(all, kept)
  BY CandidatesAre
<1>2. IsVerdict(verdict) /\ (verdict = Startable <=> Usable(w, r, IdOf(r)))
  BY ResolutionIsUsable
<1>3. blocked.profile = "" /\ (verdict # Startable => ~CandidateStartable(blocked))
  BY <1>2, VerdictStarts DEF FinalizeCandidate, CandidateStartable
<1>4. none.profile = "" /\ ~CandidateStartable(none)
  BY BlockedFields DEF FinalizeCandidate, CandidateStartable
<1> HIDE DEF blocked, none
<1>5. CASE verdict # Startable \/ ds = <<>>
  <2>1. found = <<blocked>> \/ found = <<none>>
    BY <1>1, <1>5
  <2>2. verdict = Startable => found = <<none>>
    BY <1>1, <1>5
  <2>3. i = 1
    <3> HIDE DEF found
    <3>1. DOMAIN found = {1}
      BY <2>1
    <3> QED BY <3>1 DEF found
  <2>4. (found[1] = blocked /\ verdict # Startable) \/ found[1] = none
    BY <2>1, <2>2
  <2> QED BY <1>3, <1>4, <2>3, <2>4
<1>6. CASE verdict = Startable /\ ds # <<>>
  <2>1. found = ElementsAt(all, kept) /\ Usable(w, r, IdOf(r))
    BY <1>1, <1>2, <1>6
  <2>2. /\ \E m \in Nat : DOMAIN ds = 1 .. m
        /\ \A k \in DOMAIN ds : \E j \in Asked(w, r) : ds[k] = plans[j]
    BY <2>1, JudgedDescriptors
  <2>3. PICK m \in Nat : DOMAIN ds = 1 .. m
    BY <2>2
  <2>4. DOMAIN all = 1 .. m /\ \A k \in DOMAIN all : all[k] = CandidateOf(w, r, ds[k])
    BY <2>3 DEF CandidatesOf
  <2> HIDE DEF all, ds, plans
  <2>5. Places(kept) /\ kept \subseteq DOMAIN all
    BY <2>4 DEF Places
  <2> HIDE DEF kept
  <2>6. PICK k \in kept : found[i] = all[k]
    <3>1. \A x \in DOMAIN ElementsAt(all, kept) :
            \E k \in kept : ElementsAt(all, kept)[x] = all[k]
      BY <2>5, KeptElements
    <3>2. i \in DOMAIN ElementsAt(all, kept)
      BY <2>1
    <3> QED BY <2>1, <3>1, <3>2
  <2>7. k \in DOMAIN ds /\ all[k] = CandidateOf(w, r, ds[k])
    BY <2>3, <2>4, <2>5
  <2>8. PICK j \in Asked(w, r) : ds[k] = plans[j]
    BY <2>2, <2>7
  <2> QED BY <2>1, <2>6, <2>7, <2>8 DEF plans
<1> QED BY <1>5, <1>6

LEMMA FoundFirst ==
  ASSUME NEW w, KnownArtifacts(w), NEW r, ProviderTransportCompatibilityCandidates(w, r) # <<>>
  PROVE  1 \in DOMAIN ProviderTransportCompatibilityCandidates(w, r)
<1> DEFINE found == ProviderTransportCompatibilityCandidates(w, r)
           verdict == ResolutionVerdict(w, r, IdOf(r))
           ds == ElementsAt(Judged(w, r).artifact.plans, Asked(w, r))
           all == CandidatesOf(w, r, ds)
           kept == {k \in DOMAIN all : r.candidate \in {<<>>, all[k].id}}
<1>1. CASE verdict # Startable \/ ds = <<>>
  <2>1. \E c : found = <<c>>
    BY <1>1, CandidatesAre
  <2> QED BY <2>1
<1>2. CASE verdict = Startable /\ ds # <<>>
  <2>1. found = ElementsAt(all, kept) /\ Usable(w, r, IdOf(r))
    BY <1>2, CandidatesAre, ResolutionIsUsable
  <2>2. PICK m \in Nat : DOMAIN ds = 1 .. m
    BY <2>1, JudgedDescriptors
  <2>3. DOMAIN all = 1 .. m
    BY <2>2 DEF CandidatesOf
  <2> HIDE DEF all, ds
  <2>4. Places(kept)
    BY <2>3 DEF Places
  <2> HIDE DEF kept
  <2> QED BY <2>1, <2>4, KeptLength
<1> QED BY <1>1, <1>2

\* When everything that is asked about is one descriptor and the request
\* wants its candidate, that candidate comes first.
LEMMA FoundSame ==
  ASSUME NEW w, KnownArtifacts(w), NEW r, Usable(w, r, IdOf(r)), NEW d, Asked(w, r) # {},
         \A j \in Asked(w, r) : Judged(w, r).artifact.plans[j] = d,
         r.candidate \in {<<>>, CandidateOf(w, r, d).id}
  PROVE  LET found == ProviderTransportCompatibilityCandidates(w, r)
         IN found # <<>> /\ found[1] = CandidateOf(w, r, d)
<1> DEFINE found == ProviderTransportCompatibilityCandidates(w, r)
           ds == ElementsAt(Judged(w, r).artifact.plans, Asked(w, r))
           all == CandidatesOf(w, r, ds)
           kept == {k \in DOMAIN all : r.candidate \in {<<>>, all[k].id}}
<1>1. /\ 1 \in DOMAIN ds /\ ds # <<>>
      /\ \A k \in DOMAIN ds : ds[k] = d
      /\ \E m \in Nat : DOMAIN ds = 1 .. m
  BY JudgedDescriptors
<1>2. found = ElementsAt(all, kept)
  <2>1. ResolutionVerdict(w, r, IdOf(r)) = Startable
    BY ResolutionIsUsable
  <2>2. ds # <<>>
    BY <1>1
  <2> QED BY <2>1, <2>2, CandidatesAre
<1>3. PICK m \in Nat : DOMAIN ds = 1 .. m
  BY <1>1
<1>4. DOMAIN all = 1 .. m /\ 1 \in 1 .. m /\ \A k \in DOMAIN all : all[k] = CandidateOf(w, r, d)
  BY <1>1, <1>3 DEF CandidatesOf
<1> HIDE DEF all, ds
<1>5. Places(kept) /\ kept \subseteq DOMAIN all /\ kept # {}
  BY <1>4 DEF Places
<1> HIDE DEF kept
<1>6. 1 \in DOMAIN ElementsAt(all, kept) /\ \E i \in kept : ElementsAt(all, kept)[1] = all[i]
  BY <1>5, KeptFirst
<1>7. \A i \in kept : all[i] = CandidateOf(w, r, d)
  BY <1>4, <1>5
<1>8. found[1] = CandidateOf(w, r, d) /\ 1 \in DOMAIN found
  BY <1>2, <1>6, <1>7
<1>9. DOMAIN <<>> = {}
  OBVIOUS
<1> QED BY <1>8, <1>9

-----------------------------------------------------------------------------
(* What holds of the tables *)

CandidatesInv ==
  \A id \in DOMAIN resolutions :
    /\ DOMAIN resolutions[id] = DOMAIN NoResolution
    /\ resolutions[id].artifact \in Artifacts \cup {NoArtifact}

LEMMA CandidatesInitial ==
  ASSUME CandidatesInit PROVE CandidatesInv
BY DEF CandidatesInit, CandidatesInv

\* A resolution that is replaced by another record of a known artifact.
LEMMA ResolutionStepKeeps ==
  ASSUME CandidatesInv, NEW id, NEW s,
         DOMAIN s = DOMAIN NoResolution, s.artifact \in Artifacts \cup {NoArtifact},
         \/ resolutions' = Stored(resolutions, id, s)
         \/ resolutions' = [resolutions EXCEPT ![id] = s]
  PROVE  CandidatesInv'
BY DEF CandidatesInv, Stored

LEMMA CandidatesStep ==
  ASSUME CandidatesInv, [CandidatesNext]_offerVars PROVE CandidatesInv'
<1>1. ASSUME UNCHANGED resolutions PROVE CandidatesInv'
  BY <1>1 DEF CandidatesInv
<1>2. DOMAIN NoResolution = {"state", "provider", "artifact", "expires", "remote"}
  BY DEF NoResolution
<1>3. ASSUME NEW id \in ResolutionIDs, NEW v \in Providers, StartResolution(id, v)
      PROVE  CandidatesInv'
  <2> DEFINE s == [NoResolution EXCEPT !.state = "resolving", !.provider = v]
  <2>1. DOMAIN s = DOMAIN NoResolution /\ s.artifact = NoArtifact
    BY DEF NoResolution
  <2>2. resolutions' = Stored(resolutions, id, s)
    BY <1>3 DEF StartResolution
  <2> HIDE DEF s
  <2> QED BY <2>1, <2>2, ResolutionStepKeeps
<1>4. ASSUME NEW id \in ResolutionIDs, FinishResolution(id)
      PROVE  CandidatesInv'
  <2> DEFINE old == resolutions[id]
  <2>1. id \in DOMAIN resolutions /\ DOMAIN old = DOMAIN NoResolution
        /\ old.artifact \in Artifacts \cup {NoArtifact}
    BY <1>4 DEF FinishResolution, CandidatesInv
  <2>2. ASSUME NEW a \in Artifacts, NEW v \in Remotes, NEW x \in {1, 2},
               resolutions' = [resolutions EXCEPT ![id].state = "resolved", ![id].artifact = a,
                                                  ![id].remote = v, ![id].expires = x]
        PROVE  CandidatesInv'
    <3> DEFINE s == [old EXCEPT !.state = "resolved", !.artifact = a,
                                !.remote = v, !.expires = x]
    <3>1. DOMAIN s = DOMAIN NoResolution /\ s.artifact = a
      BY <1>2, <2>1
    <3>2. resolutions' = [resolutions EXCEPT ![id] = s]
      BY <2>1, <2>2
    <3> HIDE DEF s
    <3> QED BY <3>1, <3>2, ResolutionStepKeeps
  <2>3. ASSUME resolutions' = [resolutions EXCEPT ![id].state = "failed"]
        PROVE  CandidatesInv'
    <3> DEFINE s == [old EXCEPT !.state = "failed"]
    <3>1. DOMAIN s = DOMAIN NoResolution /\ s.artifact = old.artifact
      BY <1>2, <2>1
    <3>2. resolutions' = [resolutions EXCEPT ![id] = s]
      BY <2>3
    <3> HIDE DEF s
    <3> QED BY <2>1, <3>1, <3>2, ResolutionStepKeeps
  <2>4. \/ \E a \in Artifacts, v \in Remotes, x \in {1, 2} :
             resolutions' = [resolutions EXCEPT ![id].state = "resolved", ![id].artifact = a,
                                                ![id].remote = v, ![id].expires = x]
        \/ resolutions' = [resolutions EXCEPT ![id].state = "failed"]
    BY <1>4, Zenon DEF FinishResolution
  <2> QED BY <2>2, <2>3, <2>4, Zenon
<1>5. ASSUME NEW id \in ResolutionIDs, ExpireResolution(id)
      PROVE  CandidatesInv'
  <2> DEFINE old == resolutions[id]
             s == [old EXCEPT !.state = "expired"]
             z == [old EXCEPT !.remote.expired = TRUE]
  <2>1. id \in DOMAIN resolutions /\ DOMAIN old = DOMAIN NoResolution
        /\ old.artifact \in Artifacts \cup {NoArtifact}
    BY <1>5 DEF ExpireResolution, CandidatesInv
  <2>2. /\ DOMAIN s = DOMAIN NoResolution /\ s.artifact = old.artifact
        /\ DOMAIN z = DOMAIN NoResolution /\ z.artifact = old.artifact
    BY <1>2, <2>1
  <2>3. \/ resolutions' = [resolutions EXCEPT ![id] = s]
        \/ resolutions' = [resolutions EXCEPT ![id] = z]
    BY <1>5 DEF ExpireResolution
  <2> HIDE DEF s, z
  <2> QED BY <2>1, <2>2, <2>3, ResolutionStepKeeps
<1>6. ASSUME NEW id \in ProfileIDs, NEW m \in Materials, NEW b \in BOOLEAN, PutProfile(id, m, b)
      PROVE  CandidatesInv'
  BY <1>1, <1>6 DEF PutProfile
<1>7. ASSUME NEW id \in ProfileIDs, ForgetProfile(id) PROVE CandidatesInv'
  BY <1>1, <1>7 DEF ForgetProfile
<1>8. ASSUME NEW r \in Questions, KeepCandidate(r) PROVE CandidatesInv'
  BY <1>1, <1>8 DEF KeepCandidate
<1>9. CASE StartCandidate
  BY <1>1, <1>9 DEF StartCandidate
<1>10. CASE UNCHANGED offerVars
  BY <1>1, <1>10 DEF offerVars
<1> QED BY <1>3, <1>4, <1>5, <1>6, <1>7, <1>8, <1>9, <1>10 DEF CandidatesNext

\* A resolution is a record that holds no artifact or one that a provider or
\* a VPS may give.
THEOREM CandidatesInvariant == CandidatesSpec => []CandidatesInv
BY CandidatesInitial, CandidatesStep, PTL DEF CandidatesSpec

LEMMA TablesAreKnown ==
  ASSUME CandidatesInv PROVE KnownArtifacts(HostTables)
BY DEF CandidatesInv, KnownArtifacts, HostTables

-----------------------------------------------------------------------------
(* The profile of a candidate *)

VerdictOf(w, r, d) == DescriptorVerdict(w, r, ArtifactOf(w, r), d)

ProfileOf(w, r, d) ==
  IF VerdictOf(w, r, d) = Startable /\ KindsOf(d) # {} THEN CandidateProfile(w, r, d) ELSE ""

LEMMA CandidateFields ==
  ASSUME NEW w, NEW r, NEW d
  PROVE  /\ CandidateOf(w, r, d).plan = d.plan
         /\ CandidateOf(w, r, d).source = SourceOf(w, r)
         /\ CandidateOf(w, r, d).artifact = ArtifactOf(w, r)
         /\ CandidateOf(w, r, d).profile = ProfileOf(w, r, d)
         /\ CandidateOf(w, r, d).status = VerdictOf(w, r, d).status
         /\ CandidateOf(w, r, d).axis = VerdictOf(w, r, d).axis
         /\ CandidateOf(w, r, d).id =
              providerTransportCompatibilityCandidateID(r, SourceOf(w, r), ArtifactOf(w, r),
                                                        d.plan, ProfileOf(w, r, d))
BY DEF CandidateOf, candidateForDescriptor, FinalizeCandidate, VerdictOf, ProfileOf

\* A profile is the one that the request names or the default of the plan,
\* and it is usable.
LEMMA ChosenProfile ==
  ASSUME NEW w, NEW r, NEW d, CandidateProfile(w, r, d) # ""
  PROVE  LET p == CandidateProfile(w, r, d)
         IN /\ validateTransportProfileRef(w.profiles, p, d.plan, KindsOf(d))
            /\ \/ p = r.profile
               \/ r.profile = "" /\ d.plan \in DOMAIN w.defaults /\ p = w.defaults[d.plan]
BY DEF CandidateProfile, StartupCandidate

-----------------------------------------------------------------------------
(* The start-up guard *)

LEMMA ReferenceIsComplete ==
  ASSUME NEW ref
  PROVE  providerTransportStartupReferenceFailure(ref) = Startable <=>
           /\ ref.given /\ ref.source.resolution # ""
           /\ ref.artifact.resolution # "" /\ ref.artifact.family # ""
           /\ ref.artifact.access # {}
<1> DEFINE unnamed == \/ ref.artifact.resolution = ""
                      \/ ref.artifact.family = ""
                      \/ ref.artifact.access = {}
           c == << <<~ref.given, Blocked("setup_needed", "provider_artifact")>>,
                   <<ref.source.resolution = "", Blocked("setup_needed", "provider_source")>>,
                   <<unnamed, Blocked("setup_needed", "provider_artifact")>> >>
<1>1. providerTransportStartupReferenceFailure(ref) = FirstOf(c)
  BY DEF providerTransportStartupReferenceFailure
<1>2. unnamed <=> \/ ref.artifact.resolution = ""
                  \/ ref.artifact.family = ""
                  \/ ref.artifact.access = {}
  OBVIOUS
<1> HIDE DEF unnamed
<1>3. DOMAIN c = {1, 2, 3} /\ DOMAIN c \subseteq Nat
  OBVIOUS
<1>4. /\ c[1][2] = Blocked("setup_needed", "provider_artifact")
      /\ c[2][2] = Blocked("setup_needed", "provider_source")
      /\ c[3][2] = Blocked("setup_needed", "provider_artifact")
  OBVIOUS
<1>5. /\ c[1][1] <=> ~ref.given
      /\ c[2][1] <=> ref.source.resolution = ""
      /\ c[3][1] <=> unnamed
  OBVIOUS
<1> HIDE DEF c
<1>6. /\ Blocked("setup_needed", "provider_artifact") # Startable
      /\ Blocked("setup_needed", "provider_source") # Startable
  BY BlockedBlocks
<1>7. \A i \in DOMAIN c : c[i][2] # Startable
  BY <1>3, <1>4, <1>6
<1>8. FirstOf(c) = Startable <=> \A i \in DOMAIN c : ~c[i][1]
  BY <1>3, <1>7, ChainEnds DEF FirstApplies
<1> QED BY <1>1, <1>2, <1>3, <1>5, <1>8

\* The question the guard asks, and the answer of the first candidate.
AskedBy(q) ==
  [resolution |-> q.resolution, source |-> q.ref.source, artifact |-> q.ref.artifact,
   plan |-> q.plan, profile |-> q.profile, candidate |-> q.ref.candidate,
   degraded |-> FALSE, evidence |-> FALSE]

FirstVerdict(found) ==
  IF found = <<>> THEN Blocked("unsupported", "engine_family")
                  ELSE Blocked(found[1].status, found[1].axis)

LEMMA FirstStarts ==
  ASSUME NEW found
  PROVE  FirstVerdict(found) = Startable <=> found # <<>> /\ CandidateStartable(found[1])
<1> DEFINE v == Blocked(found[1].status, found[1].axis)
<1>1. Blocked("unsupported", "engine_family") # Startable
  BY BlockedBlocks
<1>2. v.status = found[1].status /\ v.axis = found[1].axis /\ IsVerdict(v)
  BY BlockedFields, BlockedVerdict
<1>3. FirstVerdict(found) = IF found = <<>> THEN Blocked("unsupported", "engine_family") ELSE v
  BY DEF FirstVerdict
<1> HIDE DEF v
<1>4. v = Startable <=> CandidateStartable(found[1])
  BY <1>2, VerdictStarts DEF CandidateStartable
<1> QED BY <1>1, <1>3, <1>4

LEMMA StartIsAccepted ==
  ASSUME NEW w, NEW q
  PROVE  validateProviderTransportCompatibilityForStartup(w, q) = Startable <=>
           \/ StartupIsNotCombined(w, q)
           \/ /\ q.resolution # "" /\ q.plan # NoPlan /\ q.profile # ""
              /\ providerTransportStartupReferenceFailure(q.ref) = Startable
              /\ FirstVerdict(ProviderTransportCompatibilityCandidates(w, AskedBy(q))) = Startable
<1> DEFINE first == FirstVerdict(ProviderTransportCompatibilityCandidates(w, AskedBy(q)))
           c == <<
             <<StartupIsNotCombined(w, q), Startable>>,
             <<q.resolution = "", Blocked("setup_needed", "provider_source")>>,
             <<q.plan = NoPlan, Blocked("setup_needed", "host_adapter")>>,
             <<q.profile = "", Blocked("setup_needed", "transport_profile")>>,
             <<providerTransportStartupReferenceFailure(q.ref) # Startable,
               providerTransportStartupReferenceFailure(q.ref)>>,
             <<TRUE, first>> >>
<1>1. validateProviderTransportCompatibilityForStartup(w, q) = FirstOf(c)
  BY DEF validateProviderTransportCompatibilityForStartup, FirstVerdict, AskedBy
<1> HIDE DEF first
<1>2. DOMAIN c = {1, 2, 3, 4, 5, 6} /\ DOMAIN c \subseteq Nat
  OBVIOUS
<1>3. /\ c[1][2] = Startable
      /\ c[2][2] = Blocked("setup_needed", "provider_source")
      /\ c[3][2] = Blocked("setup_needed", "host_adapter")
      /\ c[4][2] = Blocked("setup_needed", "transport_profile")
      /\ c[5][2] = providerTransportStartupReferenceFailure(q.ref)
      /\ c[6][2] = first
  OBVIOUS
<1>4. /\ c[1][1] <=> StartupIsNotCombined(w, q)
      /\ c[2][1] <=> q.resolution = ""
      /\ c[3][1] <=> q.plan = NoPlan
      /\ c[4][1] <=> q.profile = ""
      /\ c[5][1] <=> providerTransportStartupReferenceFailure(q.ref) # Startable
      /\ c[6][1] <=> TRUE
  OBVIOUS
<1> HIDE DEF c
<1>5. PICK h \in DOMAIN c : FirstApplies(c, h) /\ FirstOf(c) = c[h][2]
  BY <1>2, <1>4, ChainEnds
<1>6. /\ Blocked("setup_needed", "provider_source") # Startable
      /\ Blocked("setup_needed", "host_adapter") # Startable
      /\ Blocked("setup_needed", "transport_profile") # Startable
  BY BlockedBlocks
<1>7. h = 1 <=> c[1][1]
  BY <1>2, <1>5 DEF FirstApplies
<1>8. h = 6 <=> ~(c[1][1] \/ c[2][1] \/ c[3][1] \/ c[4][1] \/ c[5][1])
  BY <1>2, <1>5 DEF FirstApplies
<1>9. h = 5 => c[5][1]
  BY <1>5 DEF FirstApplies
<1>10. c[h][2] = Startable <=> h = 1 \/ (h = 6 /\ first = Startable)
  BY <1>2, <1>3, <1>4, <1>6, <1>9
<1> QED BY <1>1, <1>4, <1>5, <1>7, <1>8, <1>10 DEF first

LEMMA AcceptedStart ==
  ASSUME NEW w, KnownArtifacts(w), NEW q, ~StartupIsNotCombined(w, q),
         validateProviderTransportCompatibilityForStartup(w, q) = Startable
  PROVE  /\ q.profile # "" /\ q.ref.given /\ q.ref.artifact.family # ""
         /\ Usable(w, AskedBy(q), q.resolution)
         /\ \E j \in DOMAIN w.resolutions[q.resolution].artifact.plans :
              LET d == w.resolutions[q.resolution].artifact.plans[j]
              IN d.plan = q.plan /\ Runs(w, AskedBy(q), ArtifactOf(w, AskedBy(q)), d)
<1> DEFINE r == AskedBy(q)
           found == ProviderTransportCompatibilityCandidates(w, r)
<1>1. /\ q.resolution # "" /\ q.plan # NoPlan /\ q.profile # ""
      /\ providerTransportStartupReferenceFailure(q.ref) = Startable
      /\ FirstVerdict(found) = Startable
  BY StartIsAccepted
<1>2. q.ref.given /\ q.ref.artifact.family # ""
  BY <1>1, ReferenceIsComplete
<1>3. r.plan = q.plan /\ IdOf(r) = q.resolution
  BY <1>1 DEF AskedBy, IdOf, providerTransportCompatibilityResolutionID, FirstNonEmpty
<1> HIDE DEF r
<1>4. 1 \in DOMAIN found /\ CandidateStartable(found[1])
  BY <1>1, FirstStarts, FoundFirst
<1>5. /\ Usable(w, r, IdOf(r))
      /\ \E j \in Asked(w, r) : found[1] = CandidateOf(w, r, Judged(w, r).artifact.plans[j])
  <2>1. \/ ~CandidateStartable(found[1]) /\ found[1].profile = ""
        \/ /\ Usable(w, r, IdOf(r))
           /\ \E j \in Asked(w, r) : found[1] = CandidateOf(w, r, Judged(w, r).artifact.plans[j])
    BY <1>4, FoundCandidate
  <2> QED BY <1>4, <2>1
<1>6. PICK j \in Asked(w, r) : found[1] = CandidateOf(w, r, Judged(w, r).artifact.plans[j])
  BY <1>5
<1>7. Judged(w, r) = w.resolutions[q.resolution]
  BY <1>3, <1>5 DEF Judged, Usable
<1> DEFINE d == Judged(w, r).artifact.plans[j]
<1>8. j \in DOMAIN Judged(w, r).artifact.plans /\ d.plan = q.plan
  BY <1>1, <1>3 DEF Asked
<1> HIDE DEF d
<1>9. CandidateStartable(CandidateOf(w, r, d))
  BY <1>4, <1>6 DEF d
<1>10. VerdictOf(w, r, d).status = "startable" /\ VerdictOf(w, r, d).axis = ""
  BY <1>9, CandidateFields DEF CandidateStartable
<1>11. IsVerdict(VerdictOf(w, r, d)) /\ (VerdictOf(w, r, d) = Startable <=> Runs(w, r, ArtifactOf(w, r), d))
  BY DescriptorRuns DEF VerdictOf
<1>12. Runs(w, r, ArtifactOf(w, r), d)
  BY <1>10, <1>11, VerdictStarts
<1> QED BY <1>1, <1>2, <1>3, <1>5, <1>7, <1>8, <1>12 DEF d, r

\* What a start names: a provider and an expiry whenever it names anything.
LEMMA StartsNameTheirSource ==
  ASSUME NEW q \in Starts, q.ref.given
  PROVE  q.ref.source.provider \in Providers /\ q.ref.artifact.expires # 0
<1>1. q.ref \in References
  BY DEF Starts
<1>2. ~NoRef.given
  BY DEF NoRef
<1>3. PICK id \in ResolutionIDs, v \in Providers, a \in Artifacts, x \in {1, 2} :
        q.ref = Kept(id, v, a, x)
  BY <1>1, <1>2 DEF References
<1>4. Kept(id, v, a, x).source.provider = v /\ Kept(id, v, a, x).artifact.expires = x
  BY DEF Kept
<1> QED BY <1>3, <1>4

LEMMA AcceptedFollows ==
  ASSUME CandidatesInv PROVE AcceptedStartsAreCurrent
<1>1. ASSUME NEW w, KnownArtifacts(w), NEW q \in Starts, ~StartupIsNotCombined(w, q),
             validateProviderTransportCompatibilityForStartup(w, q) = Startable
      PROVE  /\ q.resolution \in DOMAIN w.resolutions
             /\ LET s == w.resolutions[q.resolution]
                IN /\ s.state = "resolved"
                   /\ s.provider = q.ref.source.provider
                   /\ s.artifact.family = q.ref.artifact.family
                   /\ s.expires = q.ref.artifact.expires
                   /\ ~s.remote.expired
                   /\ \E i \in DOMAIN s.artifact.plans :
                        LET d == s.artifact.plans[i]
                        IN /\ d.plan = q.plan /\ d.support = "supported"
                           /\ KindsOf(d) # {} =>
                                /\ q.profile \in DOMAIN w.profiles
                                /\ validateRawWireGuardIngressEndpoint(
                                     w.profiles[q.profile].material.endpoint)
                                /\ transportProfileCompatibleWithPlan(
                                     w.profiles[q.profile].kind, q.plan)
  <2> DEFINE r == AskedBy(q)
             s == w.resolutions[q.resolution]
  <2>1. /\ q.profile # "" /\ q.ref.given /\ q.ref.artifact.family # ""
        /\ Usable(w, r, q.resolution)
        /\ \E j \in DOMAIN s.artifact.plans :
             /\ s.artifact.plans[j].plan = q.plan
             /\ Runs(w, r, ArtifactOf(w, r), s.artifact.plans[j])
    BY <1>1, AcceptedStart
  <2>2. /\ r.source = q.ref.source /\ r.artifact = q.ref.artifact
        /\ r.profile = q.profile /\ r.degraded = FALSE
    BY DEF AskedBy
  <2>3. q.ref.source.provider # "" /\ q.ref.artifact.expires # 0
    BY <2>1, StartsNameTheirSource, ProvidersAssumption
  <2> HIDE DEF r
  <2>4. /\ q.resolution \in DOMAIN w.resolutions /\ s.state = "resolved"
        /\ ~providerTransportSourceMismatch(r.source, q.resolution, s)
        /\ ~providerTransportArtifactMismatch(r.artifact,
              providerTransportArtifactReferenceFromResolution(q.resolution, s))
        /\ providerTransportRemoteVPSArtifactFailure(s.remote) = Startable
    BY <2>1 DEF Usable
  <2>5. s.provider = q.ref.source.provider
    BY <2>2, <2>3, <2>4 DEF providerTransportSourceMismatch, Differs
  <2>6. s.artifact.family = q.ref.artifact.family /\ s.expires = q.ref.artifact.expires
    BY <2>1, <2>2, <2>3, <2>4
       DEF providerTransportArtifactMismatch, Differs,
           providerTransportArtifactReferenceFromResolution
  <2>7. ~s.remote.expired
    BY <2>4, RemoteVerdict
  <2>8. PICK j \in DOMAIN s.artifact.plans :
          /\ s.artifact.plans[j].plan = q.plan
          /\ Runs(w, r, ArtifactOf(w, r), s.artifact.plans[j])
    BY <2>1
  <2> DEFINE d == s.artifact.plans[j]
  <2> HIDE DEF d
  <2>9. d.plan = q.plan /\ Runs(w, r, ArtifactOf(w, r), d)
    BY <2>8 DEF d
  <2>10. d.support = "supported"
    BY <2>2, <2>9 DEF Runs
  <2>11. ASSUME KindsOf(d) # {}
         PROVE  validateTransportProfileRef(w.profiles, q.profile, d.plan, KindsOf(d))
    <3>1. CandidateProfile(w, r, d) # ""
      BY <2>9, <2>11 DEF Runs
    <3> QED BY <2>1, <2>2, <3>1, ChosenProfile
  <2> HIDE DEF s
  <2>12. KindsOf(d) # {} =>
           /\ q.profile \in DOMAIN w.profiles
           /\ validateRawWireGuardIngressEndpoint(w.profiles[q.profile].material.endpoint)
           /\ transportProfileCompatibleWithPlan(w.profiles[q.profile].kind, q.plan)
    BY <2>9, <2>11 DEF validateTransportProfileRef
  <2> QED BY <2>4, <2>5, <2>6, <2>7, <2>8, <2>9, <2>10, <2>12 DEF d, s
<1> DEFINE w == HostTables
<1>2. /\ KnownArtifacts(w) /\ w.resolutions = resolutions /\ w.profiles = profiles
  BY TablesAreKnown DEF HostTables
<1> SUFFICES ASSUME NEW q \in Starts, ~StartupIsNotCombined(w, q),
                    validateProviderTransportCompatibilityForStartup(w, q) = Startable
             PROVE  /\ q.resolution \in DOMAIN resolutions
                    /\ LET s == resolutions[q.resolution]
                       IN /\ s.state = "resolved"
                          /\ s.provider = q.ref.source.provider
                          /\ s.artifact.family = q.ref.artifact.family
                          /\ s.expires = q.ref.artifact.expires
                          /\ ~s.remote.expired
                          /\ \E i \in DOMAIN s.artifact.plans :
                               LET d == s.artifact.plans[i]
                               IN /\ d.plan = q.plan /\ d.support = "supported"
                                  /\ KindsOf(d) # {} =>
                                       /\ q.profile \in DOMAIN profiles
                                       /\ validateRawWireGuardIngressEndpoint(
                                            profiles[q.profile].material.endpoint)
                                       /\ transportProfileCompatibleWithPlan(
                                            profiles[q.profile].kind, q.plan)
  BY DEF AcceptedStartsAreCurrent
<1> HIDE DEF w
<1> QED BY <1>1, <1>2

\* However old the references of a combined start are, the guard accepts it
\* only for a resolution that is still what the client saw, with its lease
\* alive, and with a stored profile that fits if the plan needs one.
THEOREM AcceptedStartsAreCurrentHolds == CandidatesSpec => []AcceptedStartsAreCurrent
BY CandidatesInvariant, AcceptedFollows, PTL

-----------------------------------------------------------------------------
(* A candidate that is copied into a start *)

\* A plan that no host descriptor declares kinds for, and that is not the
\* strict one, needs no profile whichever way a start asks for it.
LEMMA NoKindsNeeded ==
  ASSUME NEW q, q.plan # NoPlan, requiredTransportProfileKindsForPlan(q.plan) = {}
  PROVE  selectedStartupExecutionPlanDescriptor(q).kinds = {}
<1> DEFINE at     == {k \in DOMAIN PlatformTunnels : PlatformTunnels[k].mode = q.mode}
           plans  == IF at = {} THEN <<>> ELSE PlatformTunnels[Least(at)].plans
           choice == selectPlatformTunnelExecutionPlanDescriptor(plans, q.plan)
           same   == {i \in DOMAIN plans : plans[i].plan = q.plan}
<1>1. selectedStartupExecutionPlanDescriptor(q).kinds =
        IF choice.err = "" THEN KindsOf(plans[choice.at])
        ELSE requiredTransportProfileKindsForPlan(q.plan)
  BY DEF selectedStartupExecutionPlanDescriptor
<1>2. ASSUME choice.err = "" PROVE KindsOf(plans[choice.at]) = {}
  <2>1. choice = IF same # {} THEN Chosen(Least(same)) ELSE Refused("unsupported")
    <3> HIDE DEF plans
    <3> QED BY DEF selectPlatformTunnelExecutionPlanDescriptor
  <2>2. same # {} /\ choice.at = Least(same)
    <3>1. Refused("unsupported").err = "unsupported"
      BY DEF Refused
    <3>2. Chosen(Least(same)).at = Least(same)
      BY DEF Chosen
    <3> HIDE DEF choice, same
    <3> QED BY <1>2, <2>1, <3>1, <3>2
  <2>3. PICK k \in DOMAIN PlatformTunnels : plans = PlatformTunnels[k].plans
    <3>1. at # {}
      <4>1. at = {} => same = {}
        OBVIOUS
      <4> QED BY <2>2, <4>1
    <3>2. at \subseteq Nat
      BY TunnelsAssumption
    <3>3. Least(at) \in at
      <4> HIDE DEF at
      <4> QED BY <3>1, <3>2, LeastIsMember
    <3> QED BY <3>1, <3>3
  <2>4. same \subseteq Nat
    <3> HIDE DEF plans
    <3> QED BY <2>3, TunnelsAssumption
  <2>5. Least(same) \in same
    <3> HIDE DEF same
    <3> QED BY <2>2, <2>4, LeastIsMember
  <2> DEFINE d == plans[choice.at]
  <2>6. d.plan = q.plan /\ choice.at \in DOMAIN plans
    BY <2>2, <2>5
  <2>7. d \in Descriptors
    <3> HIDE DEF choice, plans
    <3> QED BY <2>3, <2>6 DEF Descriptors
  <2> HIDE DEF d
  <2>8. d.kinds = {}
    <3> SUFFICES ASSUME d.kinds # {} PROVE FALSE
      OBVIOUS
    <3> DEFINE declared == {e \in Descriptors : e.plan = q.plan /\ e.kinds # {}}
    <3>1. d \in declared
      BY <2>6, <2>7
    <3>2. requiredTransportProfileKindsForPlan(q.plan) = (CHOOSE e \in declared : TRUE).kinds
      BY <3>1 DEF requiredTransportProfileKindsForPlan
    <3>3. (CHOOSE e \in declared : TRUE) \in declared
      BY <3>1
    <3> HIDE DEF declared
    <3>4. (CHOOSE e \in declared : TRUE).kinds # {}
      BY <3>3 DEF declared
    <3> QED BY <3>2, <3>4
  <2> QED BY <2>6, <2>8 DEF KindsOf, d
<1> QED BY <1>1, <1>2

\* A descriptor that names no kind and whose plan needs none.
LEMMA KindsAreEmpty ==
  ASSUME NEW d, KindsOf(d) = {}
  PROVE  requiredTransportProfileKindsForPlan(d.plan) = {}
BY DEF KindsOf

\* What the guard calls a plan without profile needs none for the profile
\* store either, which asks in its own way.
LEMMA NoKindsRequired ==
  ASSUME NEW d, KindsOf(d) = {}
  PROVE  RequiredKinds(d) = {}
<1> DEFINE declared == {e \in Descriptors : e.plan = d.plan /\ e.kinds # {}}
<1>1. d.kinds = {} /\ requiredTransportProfileKindsForPlan(d.plan) = {}
  BY DEF KindsOf
<1>2. declared # {} => (CHOOSE e \in declared : TRUE).kinds # {}
  OBVIOUS
<1>3. requiredTransportProfileKindsForPlan(d.plan) =
        IF declared # {} THEN (CHOOSE e \in declared : TRUE).kinds
        ELSE IF isStrictWireGuardTurnExecutionPlan(d.plan) THEN {WireGuardNativeV1} ELSE {}
  BY DEF requiredTransportProfileKindsForPlan
<1> HIDE DEF declared
<1> QED BY <1>1, <1>2, <1>3 DEF RequiredKinds

\* Descriptors and modes are found at places.
LEMMA TunnelPlaces ==
  /\ DOMAIN PlatformTunnels \subseteq Nat
  /\ \A k \in DOMAIN PlatformTunnels : DOMAIN PlatformTunnels[k].plans \subseteq Nat
BY TunnelsAssumption

LEMMA AnswerFields ==
  ASSUME NEW e, NEW p
  PROVE  [ended |-> e, profile |-> p].ended = e /\ [ended |-> e, profile |-> p].profile = p
OBVIOUS

\* The descriptor of a plan that is named is one of the tunnel's for it, and
\* needs profiles of the one kind there is or none.
LEMMA NamedDescriptor ==
  ASSUME NEW k \in DOMAIN PlatformTunnels, NEW plan, plan # NoPlan,
         selectPlatformTunnelExecutionPlanDescriptor(PlatformTunnels[k].plans, plan).err = ""
  PROVE  LET ds == PlatformTunnels[k].plans
             d  == ds[selectPlatformTunnelExecutionPlanDescriptor(ds, plan).at]
         IN d.plan = plan /\ RequiredKinds(d) \subseteq {WireGuardNativeV1}
<1> DEFINE ds     == PlatformTunnels[k].plans
           choice == selectPlatformTunnelExecutionPlanDescriptor(ds, plan)
           same   == {i \in DOMAIN ds : ds[i].plan = plan}
<1>1. /\ validatePlatformTunnelCapability(PlatformTunnels[k])
      /\ Len(ds) \in Nat /\ DOMAIN ds = 1 .. Len(ds)
  BY TunnelsAssumption
<1>2. \A i \in DOMAIN ds : validateRuntimeExecutionPlanDescriptor(ds[i])
  BY <1>1 DEF validatePlatformTunnelCapability
<1>6. same \subseteq Nat
  BY TunnelPlaces
<1> HIDE DEF ds
<1>3. choice = IF same # {} THEN Chosen(Least(same)) ELSE Refused("unsupported")
  BY DEF selectPlatformTunnelExecutionPlanDescriptor
<1>4. choice.err = ""
  BY DEF ds
<1>5. Refused("unsupported").err # "" /\ Chosen(Least(same)).at = Least(same)
  BY DEF Refused, Chosen
<1> HIDE DEF choice
<1>7. same # {} /\ choice.at = Least(same)
  <2> HIDE DEF same
  <2> QED BY <1>3, <1>4, <1>5
<1>8. choice.at \in same
  <2> HIDE DEF same
  <2> QED BY <1>6, <1>7, LeastIsMember
<1>9. ds[choice.at].plan = plan /\ ds[choice.at].kinds \subseteq KnownKinds
  BY <1>2, <1>8 DEF validateRuntimeExecutionPlanDescriptor
<1>10. RequiredKinds(ds[choice.at]) \subseteq {WireGuardNativeV1}
  BY <1>9 DEF RequiredKinds, KnownKinds
<1> QED BY <1>9, <1>10 DEF ds, choice

\* The two judges of a start with a copied reference agree: what the guard
\* accepts, the profile store does not end, and it attaches the profile that
\* is named.
LEMMA AcceptedIsAttached ==
  ASSUME NEW w, KnownArtifacts(w), NEW q, q.ref.given,
         validateProviderTransportCompatibilityForStartup(w, q) = Startable
  PROVE  LET attached == attachTransportProfileToStartRequest(w.profiles, w.defaults, q.mode,
                           q.plan, q.profile, q.resolution # "")
         IN ~attached.ended /\ attached.profile = q.profile
<1> DEFINE at     == {k \in DOMAIN PlatformTunnels : PlatformTunnels[k].mode = q.mode}
           c      == PlatformTunnels[Least(at)]
           choice == selectPlatformTunnelExecutionPlanDescriptor(c.plans, q.plan)
           d      == c.plans[choice.at]
           id     == resolveTransportProfileForStartup(w.profiles, w.defaults, q.profile, d.plan,
                                                       RequiredKinds(d))
           left   == \/ q.resolution # "" /\ q.profile = ""
                     \/ at = {}
                     \/ ~c.available
                     \/ choice.err # ""
                     \/ d.support # "supported"
                     \/ RequiredKinds(d) = {}
           attached == attachTransportProfileToStartRequest(w.profiles, w.defaults, q.mode,
                         q.plan, q.profile, q.resolution # "")
<1>1. attached = [ended |-> ~left /\ id = "", profile |-> IF left THEN q.profile ELSE id]
  BY DEF attachTransportProfileToStartRequest
<1> SUFFICES ASSUME ~left PROVE id = q.profile /\ q.profile # ""
  <2> HIDE DEF left, id
  <2> HIDE DEF attached
  <2>1. attached.ended = (~left /\ id = "") /\ attached.profile = IF left THEN q.profile ELSE id
    BY <1>1, AnswerFields
  <2> QED BY <2>1 DEF attached
<1>2. at # {} /\ choice.err = "" /\ RequiredKinds(d) # {}
  <2> HIDE DEF at, c, choice, d
  <2> QED OBVIOUS
<1>3. Least(at) \in DOMAIN PlatformTunnels
  <2>1. at \subseteq Nat
    BY TunnelPlaces
  <2>2. Least(at) \in at
    <3> HIDE DEF at
    <3> QED BY <1>2, <2>1, LeastIsMember
  <2> QED BY <2>2
<1>4. /\ selectedStartupExecutionPlanDescriptor(q).err = ""
      /\ selectedStartupExecutionPlanDescriptor(q).kinds = KindsOf(d)
  BY <1>2 DEF selectedStartupExecutionPlanDescriptor
<1>5. KindsOf(d) # {}
  BY <1>2, NoKindsRequired
<1> HIDE DEF left, at
<1>6. ~StartupIsNotCombined(w, q)
  BY <1>4, <1>5 DEF StartupIsNotCombined
<1>7. q.plan # NoPlan /\ q.profile # ""
  BY <1>6, StartIsAccepted
<1>8. d.plan = q.plan /\ RequiredKinds(d) = {WireGuardNativeV1}
  <2>1. d.plan = q.plan /\ RequiredKinds(d) \subseteq {WireGuardNativeV1}
    <3> DEFINE k == Least(at)
    <3>1. k \in DOMAIN PlatformTunnels
      BY <1>3
    <3> HIDE DEF k
    <3>2. selectPlatformTunnelExecutionPlanDescriptor(PlatformTunnels[k].plans, q.plan).err = ""
      BY <1>2 DEF k
    <3> QED BY <1>7, <3>1, <3>2, NamedDescriptor DEF k
  <2> QED BY <1>2, <2>1
<1> HIDE DEF d, c, choice
<1> DEFINE r == AskedBy(q)
           plans == w.resolutions[q.resolution].artifact.plans
<1>9. PICK j \in DOMAIN plans : plans[j].plan = q.plan /\ Runs(w, r, ArtifactOf(w, r), plans[j])
  BY <1>6, AcceptedStart
<1> DEFINE e == plans[j]
<1>10. e.plan = q.plan /\ Runs(w, r, ArtifactOf(w, r), e) /\ r.profile = q.profile
  BY <1>9 DEF AskedBy
<1> HIDE DEF e, r
<1>11. KindsOf(e) # {}
  BY <1>4, <1>5, <1>7, <1>10, KindsAreEmpty, NoKindsNeeded
<1>12. validateTransportProfileRef(w.profiles, q.profile, q.plan, KindsOf(e))
  <2>1. CandidateProfile(w, r, e) # ""
    BY <1>10, <1>11 DEF Runs
  <2> QED BY <1>7, <1>10, <2>1, ChosenProfile
<1>13. validateTransportProfileRef(w.profiles, q.profile, q.plan, RequiredKinds(d))
  BY <1>8, <1>12 DEF validateTransportProfileRef, transportProfileCompatibleWithPlan
<1>14. StartupCandidate(w.defaults, q.profile, q.plan) = q.profile
  BY <1>7 DEF StartupCandidate
<1>15. id = q.profile
  BY <1>7, <1>8, <1>13, <1>14 DEF resolveTransportProfileForStartup
<1> QED BY <1>7, <1>15

\* A start of the candidate that was kept asks the guard; no other step takes
\* the candidate away.
LEMMA StepStartsAsShown ==
  ASSUME CandidatesInv, CandidatesNext, offer # NoOffer, offer' = NoOffer, answer' = Startable
  PROVE  LET q == normalizePlatformTunnelStartRequest(Echo(offer))
             attached == attachTransportProfileToStartRequest(profiles, defaults, q.mode, q.plan,
                                                              q.profile, q.resolution # "")
         IN ~attached.ended /\ attached.profile = offer.profile
<1> DEFINE q == normalizePlatformTunnelStartRequest(Echo(offer))
           w == HostTables
<1>1. StartCandidate
  BY DEF CandidatesNext, StartResolution, FinishResolution, ExpireResolution, PutProfile,
         ForgetProfile, KeepCandidate
<1>2. q.ref.given /\ q.profile = offer.profile
  BY DEF normalizePlatformTunnelStartRequest, Echo, FirstNonEmpty
<1>3. validateProviderTransportCompatibilityForStartup(w, q) = Startable
  BY <1>1 DEF StartCandidate
<1>4. KnownArtifacts(w) /\ w.profiles = profiles /\ w.defaults = defaults
  BY TablesAreKnown DEF HostTables
<1> HIDE DEF q, w
<1>5. LET attached == attachTransportProfileToStartRequest(w.profiles, w.defaults, q.mode, q.plan,
                                                           q.profile, q.resolution # "")
      IN ~attached.ended /\ attached.profile = q.profile
  BY <1>2, <1>3, <1>4, AcceptedIsAttached
<1> QED BY <1>2, <1>4, <1>5 DEF q

\* Whatever is stored, replaced, made a default or forgotten between the list
\* and the start, and whatever the tunnels and artifacts declare: a kept
\* candidate that the guard accepts is not ended for want of a profile, and
\* the starter is handed the profile that the candidate showed.
THEOREM KeptCandidatesStartAsShownHolds == CandidatesSpec => KeptCandidatesStartAsShown
<1>1. CandidatesInv /\ [CandidatesNext]_offerVars =>
        [offer # NoOffer /\ offer' = NoOffer /\ answer' = Startable =>
           LET q == normalizePlatformTunnelStartRequest(Echo(offer))
               attached == attachTransportProfileToStartRequest(profiles, defaults, q.mode, q.plan,
                                                                q.profile, q.resolution # "")
           IN ~attached.ended /\ attached.profile = offer.profile]_offerVars
  BY StepStartsAsShown
<1> QED BY <1>1, CandidatesInitial, CandidatesStep, PTL
        DEF CandidatesSpec, KeptCandidatesStartAsShown

\* The strict plan is never experimental.
LEMMA StrictIsNotExperimental ==
  ASSUME NEW d, validateRuntimeExecutionPlanDescriptor(d),
         isStrictWireGuardTurnExecutionPlan(d.plan)
  PROVE  d.support # "experimental"
BY DEF validateRuntimeExecutionPlanDescriptor, InMatrix, isStrictWireGuardTurnExecutionPlan,
       WireGuardNativeRow

\* What a copied candidate asks for.
LEMMA CopiedStart ==
  ASSUME NEW c, c.plan # NoPlan, c.source.resolution # ""
  PROVE  LET q == normalizePlatformTunnelStartRequest(Echo(c))
         IN /\ q.resolution = c.source.resolution /\ q.plan = c.plan /\ q.profile = c.profile
            /\ q.ref.given /\ q.ref.source = c.source /\ q.ref.artifact = c.artifact
            /\ q.ref.candidate = c.id
BY DEF normalizePlatformTunnelStartRequest, Echo, FirstNonEmpty

\* Nothing but the shape of the request changes between the question and the
\* start, and the resolution still answers to the copied references.
LEMMA CopiedIsUsable ==
  ASSUME NEW w, NEW r, Usable(w, r, IdOf(r)), NEW r2,
         r2.source = [resolution |-> IdOf(r), provider |-> Judged(w, r).provider],
         r2.artifact = providerTransportArtifactReferenceFromResolution(IdOf(r), Judged(w, r))
  PROVE  Usable(w, r2, IdOf(r))
<1> DEFINE id == IdOf(r)
           s  == w.resolutions[id]
<1>1. Judged(w, r) = s
  BY DEF Usable, Judged
<1>2. ~providerTransportSourceMismatch(r2.source, id, s)
  BY <1>1 DEF providerTransportSourceMismatch, Differs
<1> DEFINE actual == providerTransportArtifactReferenceFromResolution(id, s)
<1>3. actual.resolution = id /\ actual.provider = s.provider
  BY DEF providerTransportArtifactReferenceFromResolution
<1>4. r2.artifact = actual
  BY <1>1
<1> HIDE DEF actual
<1>5. ~providerTransportArtifactMismatch(r2.artifact, actual)
  BY <1>4 DEF providerTransportArtifactMismatch, Differs
<1> QED BY <1>2, <1>5 DEF Usable, actual

\* The source and the artifact that a candidate of a plain question names.
LEMMA PlainReferences ==
  ASSUME NEW w, NEW r, Usable(w, r, IdOf(r)), r.source = NoSource, r.artifact = NoReference
  PROVE  /\ SourceOf(w, r) = [resolution |-> IdOf(r), provider |-> Judged(w, r).provider]
         /\ ArtifactOf(w, r) = providerTransportArtifactReferenceFromResolution(IdOf(r), Judged(w, r))
<1>1. IdOf(r) \in DOMAIN w.resolutions
  BY DEF Usable
<1>2. SourceOf(w, r) = [resolution |-> IdOf(r), provider |-> Judged(w, r).provider]
  <2>1. NoSource.resolution = "" /\ NoSource.provider = ""
    BY DEF NoSource
  <2> QED BY <2>1 DEF SourceOf, FirstNonEmpty
<1> DEFINE actual == providerTransportArtifactReferenceFromResolution(IdOf(r), Judged(w, r))
<1>3. ArtifactOf(w, r) = [actual EXCEPT !.provider = FirstNonEmpty(r.artifact.provider, @),
                                        !.resolution = FirstNonEmpty(r.artifact.resolution, @)]
  BY <1>1 DEF ArtifactOf
<1>4. r.artifact.provider = "" /\ r.artifact.resolution = ""
  <2>1. NoReference.provider = "" /\ NoReference.resolution = ""
    BY DEF NoReference
  <2> QED BY <2>1
<1>5. ArtifactOf(w, r) = actual
  BY <1>3, <1>4 DEF FirstNonEmpty, providerTransportArtifactReferenceFromResolution
<1> QED BY <1>2, <1>5

\* A start that copies the artifact of a candidate asks about the same access.
LEMMA CopiedAccess ==
  ASSUME NEW w, NEW r, Usable(w, r, IdOf(r))
  PROVE  ArtifactOf(w, r).access = Judged(w, r).artifact.access
BY DEF ArtifactOf, Usable, providerTransportArtifactReferenceFromResolution

\* The candidate of d, one with an adapter, answers a plain question.
Offered(w, r, d) ==
  /\ r.source = NoSource /\ r.artifact = NoReference
  /\ Usable(w, r, IdOf(r))
  /\ \E j \in Asked(w, r) : d = Judged(w, r).artifact.plans[j]
  /\ d.plan.adapter # ""
  /\ CandidateStartable(CandidateOf(w, r, d))

\* Copied into a start, it is accepted.
LEMMA CopiedCandidateStarts ==
  ASSUME NEW w, KnownArtifacts(w), NEW r, NEW d, Offered(w, r, d)
  PROVE  validateProviderTransportCompatibilityForStartup(w,
           normalizePlatformTunnelStartRequest(Echo(CandidateOf(w, r, d)))) = Startable
<1> DEFINE id == IdOf(r)
           s  == Judged(w, r)
           c  == CandidateOf(w, r, d)
           q  == normalizePlatformTunnelStartRequest(Echo(c))
           r2 == AskedBy(q)
<1> HIDE DEF r2, q, c, s, id
<1>1. /\ id # "" /\ s = w.resolutions[id] /\ s.artifact \in Artifacts
      /\ Usable(w, r, id)
      /\ \E j \in DOMAIN s.artifact.plans : d = s.artifact.plans[j]
  BY DEF Offered, Usable, Judged, KnownArtifacts, Asked, id, s
<1>2. /\ s.artifact.family # "" /\ validateRuntimeExecutionPlanDescriptor(d)
      /\ \A i \in DOMAIN s.artifact.plans : s.artifact.plans[i].plan = d.plan =>
                                              s.artifact.plans[i] = d
  <2>1. DOMAIN s.artifact.plans # {}
    BY <1>1
  <2>2. s.artifact.plans # <<>>
    <3>1. DOMAIN <<>> = {}
      OBVIOUS
    <3> QED BY <2>1, <3>1, Zenon
  <2> DEFINE a == s.artifact
  <2>3. PICK j \in DOMAIN a.plans : d = a.plans[j]
    BY <1>1
  <2>4. a \in Artifacts /\ a.plans # <<>>
    BY <1>1, <2>2
  <2> HIDE DEF a
  <2>5. a.family # "" /\ validateRuntimeExecutionPlanDescriptor(d)
    BY <2>3, <2>4, ArtifactsAssumption
  <2>6. \A i \in DOMAIN a.plans : a.plans[i].plan = d.plan => a.plans[i] = d
    BY <2>3, <2>4, ArtifactsAssumption
  <2> QED BY <2>5, <2>6 DEF a
<1>3. d.plan # NoPlan
  <2>1. NoPlan.adapter = ""
    BY DEF NoPlan
  <2> QED BY <2>1 DEF Offered
<1>4. VerdictOf(w, r, d) = Startable /\ Runs(w, r, ArtifactOf(w, r), d)
  <2>1. VerdictOf(w, r, d).status = "startable" /\ VerdictOf(w, r, d).axis = ""
    <3>1. CandidateStartable(CandidateOf(w, r, d))
      BY DEF Offered
    <3> QED BY <3>1, CandidateFields DEF CandidateStartable
  <2>2. /\ IsVerdict(VerdictOf(w, r, d))
        /\ VerdictOf(w, r, d) = Startable <=> Runs(w, r, ArtifactOf(w, r), d)
    BY DescriptorRuns DEF VerdictOf
  <2> QED BY <2>1, <2>2, VerdictStarts
<1>5. /\ c.plan = d.plan /\ c.profile = ProfileOf(w, r, d)
      /\ c.source = [resolution |-> id, provider |-> s.provider]
      /\ c.artifact = providerTransportArtifactReferenceFromResolution(id, s)
      /\ c.source.resolution = id
  <2>1. /\ c.plan = d.plan /\ c.profile = ProfileOf(w, r, d)
        /\ c.source = SourceOf(w, r) /\ c.artifact = ArtifactOf(w, r)
    BY CandidateFields DEF c
  <2>2. /\ SourceOf(w, r) = [resolution |-> id, provider |-> s.provider]
        /\ ArtifactOf(w, r) = providerTransportArtifactReferenceFromResolution(id, s)
    BY PlainReferences DEF Offered, id, s
  <2> QED BY <2>1, <2>2
<1>6. /\ q.resolution = id /\ q.plan = d.plan /\ q.profile = ProfileOf(w, r, d)
      /\ q.ref.given /\ q.ref.source = c.source /\ q.ref.artifact = c.artifact
      /\ q.ref.candidate = c.id
  BY <1>1, <1>3, <1>5, CopiedStart DEF q
<1>7. /\ r2.resolution = id /\ r2.source = c.source /\ r2.artifact = c.artifact
      /\ r2.plan = d.plan /\ r2.profile = ProfileOf(w, r, d) /\ r2.candidate = c.id
      /\ r2.degraded = FALSE /\ r2.evidence = FALSE
  BY <1>6 DEF AskedBy, r2
<1> SUFFICES ASSUME ~StartupIsNotCombined(w, q)
             PROVE  validateProviderTransportCompatibilityForStartup(w, q) = Startable
  BY StartIsAccepted DEF q, c
<1>8. KindsOf(d) # {}
  <2> SUFFICES ASSUME KindsOf(d) = {} PROVE FALSE
    OBVIOUS
  <2>1. q.profile = ""
    BY <1>6 DEF ProfileOf
  <2>2. selectedStartupExecutionPlanDescriptor(q).kinds = {}
    BY <1>3, <1>6, KindsAreEmpty, NoKindsNeeded
  <2> QED BY <2>1, <2>2 DEF StartupIsNotCombined
<1> DEFINE p == CandidateProfile(w, r, d)
<1>9. p # "" /\ w.store /\ q.profile = p
      /\ validateTransportProfileRef(w.profiles, p, d.plan, KindsOf(d))
  BY <1>4, <1>6, <1>8, ChosenProfile DEF ProfileOf, Runs
<1>10. d.support = "supported"
  <2>1. isStrictWireGuardTurnExecutionPlan(d.plan)
    BY <1>9 DEF validateTransportProfileRef, transportProfileCompatibleWithPlan
  <2>2. d.support # "experimental"
    BY <1>2, <2>1, StrictIsNotExperimental
  <2> QED BY <1>4, <2>2 DEF Runs
<1>11. IdOf(r2) = id /\ Judged(w, r2) = s
  <2>1. IdOf(r2) = id
    BY <1>1, <1>7 DEF IdOf, providerTransportCompatibilityResolutionID, FirstNonEmpty
  <2> QED BY <2>1 DEF Judged, id, s
<1>12. Usable(w, r2, IdOf(r2))
  BY <1>1, <1>5, <1>7, <1>11, CopiedIsUsable DEF id, s
<1>13. /\ Asked(w, r2) # {}
       /\ \A i \in Asked(w, r2) : Judged(w, r2).artifact.plans[i] = d
  <2>1. Asked(w, r2) = {i \in DOMAIN s.artifact.plans : s.artifact.plans[i].plan = d.plan}
    BY <1>3, <1>7, <1>11 DEF Asked
  <2>2. Asked(w, r2) # {}
    BY <1>1, <2>1
  <2> QED BY <1>2, <1>11, <2>1, <2>2
<1> DEFINE first == CandidateOf(w, r2, d)
<1> HIDE DEF first, p
<1>14. r2.candidate \in {<<>>, first.id}
  <2>1. first.id = providerTransportCompatibilityCandidateID(r2, SourceOf(w, r2),
                     ArtifactOf(w, r2), d.plan, ProfileOf(w, r2, d))
    BY CandidateFields DEF first
  <2> QED BY <2>1 DEF providerTransportCompatibilityCandidateID
<1>15. CandidateStartable(first)
  <2>1. ArtifactOf(w, r2).access = ArtifactOf(w, r).access
    BY <1>1, <1>11, <1>12, CopiedAccess DEF id, s
  <2>2. CandidateProfile(w, r2, d) = p
    BY <1>6, <1>7, <1>9 DEF CandidateProfile
  <2>3. Runs(w, r2, ArtifactOf(w, r2), d)
    BY <1>4, <1>7, <1>9, <1>10, <2>1, <2>2 DEF Runs
  <2>4. VerdictOf(w, r2, d) = Startable
    BY <2>3, DescriptorRuns DEF VerdictOf
  <2>5. first.status = VerdictOf(w, r2, d).status /\ first.axis = VerdictOf(w, r2, d).axis
    BY CandidateFields DEF first
  <2> QED BY <2>4, <2>5, VerdictStarts DEF CandidateStartable
<1>16. FirstVerdict(ProviderTransportCompatibilityCandidates(w, r2)) = Startable
  BY <1>12, <1>13, <1>14, <1>15, FoundSame, FirstStarts DEF first
<1>17. providerTransportStartupReferenceFailure(q.ref) = Startable
  <2>1. /\ q.ref.artifact.resolution = id /\ q.ref.artifact.family = s.artifact.family
        /\ q.ref.artifact.access = s.artifact.access
    BY <1>5, <1>6 DEF providerTransportArtifactReferenceFromResolution
  <2>2. d.plan.access \in s.artifact.access
    BY <1>1, <1>4, CopiedAccess DEF Runs, id, s
  <2>3. q.ref.artifact.access # {}
    BY <2>1, <2>2
  <2> QED BY <1>1, <1>2, <1>5, <1>6, <2>1, <2>3, ReferenceIsComplete
<1> QED BY <1>1, <1>3, <1>6, <1>9, <1>16, <1>17, StartIsAccepted DEF r2

LEMMA StartableFollows ==
  ASSUME CandidatesInv PROVE StartableCandidatesStart
<1>1. ASSUME NEW w, KnownArtifacts(w), NEW r \in Questions,
             NEW i \in DOMAIN ProviderTransportCompatibilityCandidates(w, r),
             CandidateStartable(ProviderTransportCompatibilityCandidates(w, r)[i]),
             ProviderTransportCompatibilityCandidates(w, r)[i].plan.adapter # ""
      PROVE  validateProviderTransportCompatibilityForStartup(w,
               normalizePlatformTunnelStartRequest(
                 Echo(ProviderTransportCompatibilityCandidates(w, r)[i]))) = Startable
  <2> DEFINE c == ProviderTransportCompatibilityCandidates(w, r)[i]
  <2>1. /\ Usable(w, r, IdOf(r))
        /\ \E j \in Asked(w, r) : c = CandidateOf(w, r, Judged(w, r).artifact.plans[j])
    BY <1>1, FoundCandidate
  <2>2. PICK j \in Asked(w, r) : c = CandidateOf(w, r, Judged(w, r).artifact.plans[j])
    BY <2>1
  <2> DEFINE d == Judged(w, r).artifact.plans[j]
  <2>3. CandidateOf(w, r, d).plan = d.plan
    BY CandidateFields
  <2>4. CandidateStartable(CandidateOf(w, r, d)) /\ d.plan.adapter # ""
    BY <1>1, <2>2, <2>3
  <2>5. r.source = NoSource /\ r.artifact = NoReference
    BY DEF Questions
  <2>6. Offered(w, r, d)
    BY <2>1, <2>4, <2>5 DEF Offered
  <2> HIDE DEF d
  <2>7. validateProviderTransportCompatibilityForStartup(w,
          normalizePlatformTunnelStartRequest(Echo(CandidateOf(w, r, d)))) = Startable
    BY <1>1, <2>6, CopiedCandidateStarts
  <2> QED BY <2>2, <2>7 DEF d
<1> DEFINE w == HostTables
<1>2. KnownArtifacts(w)
  BY TablesAreKnown
<1> SUFFICES ASSUME NEW r \in Questions,
                    NEW i \in DOMAIN ProviderTransportCompatibilityCandidates(w, r),
                    CandidateStartable(ProviderTransportCompatibilityCandidates(w, r)[i]),
                    ProviderTransportCompatibilityCandidates(w, r)[i].plan.adapter # ""
             PROVE  validateProviderTransportCompatibilityForStartup(w,
                      normalizePlatformTunnelStartRequest(
                        Echo(ProviderTransportCompatibilityCandidates(w, r)[i]))) = Startable
  BY DEF StartableCandidatesStart
<1> HIDE DEF w
<1> QED BY <1>1, <1>2

\* A startable candidate that is copied into a start passes the guard as long
\* as no table changed: the list and the guard answer alike.
THEOREM StartableCandidatesStartHolds == CandidatesSpec => []StartableCandidatesStart
BY CandidatesInvariant, StartableFollows, PTL
=============================================================================
